# Verification of rerun_viz

rerun_viz is a ROS 2 node that subscribes to whatever topics appear in the ROS graph and
shows their messages in a Rerun viewer. This directory holds TLA+ models of its core, the
TLC configurations that check them on small instances, and TLAPS proofs of what holds for
instances of every size. Paths below are relative to the repository.

## 1. The system

| Component | State | Operations | Talks to |
|---|---|---|---|
| `TFGraph` (`src/tf_graph.cpp`) | `children_`, `parents_`, `transforms_`: three maps that describe one forest of frames | `addTransform`, `removeTransform`; queries `getChildren`, `getParent`, `getAllFrames`, `getPath`, `getPathToRoot`, `getTransform`, `wouldCreateCycle`, `getStatistics`; `logToRerun` | owned by `TFMessage`, no lock |
| `Node` (`src/node.cpp`) | `subscriptions_` (topic to vector of converters) under `subscriptions_mutex_`; tf buffer, tf listener, 100 ms timer | `updateSubscriptions`, `on_timer`, `handleTfRequest`, `lookupTransform`, `getSubscriptions`, `getConverter` | creates converters through the factory, asks them for requests, logs to Rerun |
| `NodeRunner` (`src/node_runner.cpp`) | the graph update thread, the atomic stop flag | constructor starts the thread; the thread waits for a graph change (1 s at most), checks, queries, updates; destructor stops and joins | rclcpp graph events, `Node::updateSubscriptions` |
| `main` (`src/rerun_viz.cpp`) | the objects it makes | spawns the viewer, init, constructs ROS node, Node and NodeRunner, spins on a `MultiThreadedExecutor`, then lets go of them in turn | all of the above |
| `ConverterFactory` (`src/msg_conversion/converter_factory.cpp`) | - | a converter for a topic and a type, or `std::runtime_error` | finds its classes by names that each class repeats in `getRosTypeName` |
| Converters: `PointCloud2`, `Imu`, `Image`, `CameraInfo`, `RobotDescription`, `TFMessage` | a subscription bound to a raw `this`; `CameraInfo` an optional request, `RobotDescription` a list of requests under a recursive mutex, `TFMessage` a `TFGraph` | `topic_callback`, `getTfRequests` | Rerun stream; own a pointer to the Node, which owns them |
| utils (`src/utils.cpp`) | - | `isCameraTopic`, `getCameraNamespaceFromTopic`, `isInNamespace`, `convertTransformToRerun` | - |

Four kinds of threads run: `main`, the workers of the executor (timer and message
callbacks), the graph update thread and the thread of the tf listener. The default
callback group of the ROS node is mutually exclusive: at most one callback of the timer
or of a subscription runs at a time, on any worker. The graph update thread is not bound by the
group; it shares `subscriptions_mutex_` with `on_timer` and nothing with the message
callbacks. The listener's thread fills the tf buffer from the construction of the Node to its
destruction, which does not come while a converter lives (each owns the Node that owns it), and
which takes the buffer first.

What is hard here, and what makes each component correct:

- **TFGraph**: three maps have to stay in step over any sequence of calls. No cycle; every
  search and walk ends; parent and child maps are each other's reverse; exactly the
  links have a transform.
- **Node**: an update takes many steps and may fail in some of them. Readers see whole
  updates; the timer asks only converters that exist; no converter is duplicated, or
  replaced while its topic stays; what failed is tried again.
- **NodeRunner**: notifications may be missed, and a shutdown may come at any point. The
  Node catches up with the graph in the end; a shutdown ends.
- **The program**: converters are destroyed on one thread while others use them; the members of a
  Node are destroyed in an order that takes the buffer from its listener; a callback may throw at any point.
- **The other converters, the factory and utils**: six classes name their entities apart from each
  other. No topic overwrites what another shows, a cloud is shown whole, and entities lie where the
  namespace says.
- **RobotDescription**: the list of requests is rebuilt while a timer may read it; a description may be
  invalid in more than one way.
- **CameraInfo, on_timer**: stale requests, a failing lookup among many, a null stream.

`PROJECT.json` lists the hazards one by one, each at its line.

## 2. Modules

| Module | Models | Role |
|---|---|---|
| `Maps` | `std::map` / `std::unordered_map`: `operator[]` and `erase`; what a newer log replaces | helpers |
| `TFForest` | the promise of `tf_graph.hpp`: each frame has at most one parent, each link the newest transform | abstract specification |
| `TFGraph` | the three maps, `addTransform`, `removeTransform`, the cycle test | detailed specification |
| `TFGraphQueries` | `dfsHasPath`, `getPath`, `getAllFrames` as computed | algorithms against reference definitions |
| `TFGraphCallers` | a graph with a caller that is careful, or with any other | composition of the two kinds of caller |
| `TFMessage` | the converter `TFMessage`: a message applied transform by transform, `logToRerun` | specification over `TFGraph` |
| `TFGraphProofs` | - | proofs about `TFGraph` |
| `TFGraphQueriesProofs` | - | proofs about the searches and the two kinds of caller |
| `TFMessageProofs` | - | proofs about `TFMessage` |
| `Node` | `subscriptions_`, the mutex, `updateSubscriptions`, `on_timer` | specification |
| `NodeProofs` | - | proofs about `Node` |
| `TfPublishing` | the body of `on_timer`, `handleTfRequest`, the requests of `CameraInfo` and `RobotDescription`, the tf buffer | specification |
| `TfPublishingProofs` | - | proofs about `TfPublishing` |
| `RobotDescription` | its callback in small steps, the recursive mutex, `getTfRequests` | specification |
| `RobotDescriptionProofs` | - | proofs about `RobotDescription` |
| `NodeRunner` | the graph update thread and the destructor, with the rclcpp context and graph event | actions, composed in `RerunViz` |
| `RerunViz` | main from its start to its end, the workers, the callback group, the tf listener's thread, the shutdown; instances of `Node` and `NodeRunner` | composition |
| `RerunVizProofs` | - | `RerunViz` implements `Node`, the theorems of `NodeProofs` carried over to it, and what follows |
| `TopicNames` | `utils.cpp` on topic names, and how the viewer reads an entity path | operators |
| `Conversions` | the factory's choice of a class, the callbacks of `PointCloud2`, `Imu`, `Image` and `CameraInfo` | specification |
| `ConversionsProofs` | - | proofs about `Conversions` and `TopicNames` |
| `MCTFGraph`, `MCTFMessage`, `MCNode`, `MCTfPublishing`, `MCRobotDescription`, `MCRerunViz`, `MCConversions` | - | instances for TLC |

How they correspond to the code:

- **TFGraph.** A vector of children is a count per frame, as the code never looks at its
  order. A frame id is a sequence of tokens, one of which, `Arrow`, stands for the characters
  `->`, so that the key `parent->child` is a concatenation as in the code. `AddTransform` is
  the branch of `addTransform` that returns true, `RejectTransform` the one that returns false.
  `dfsHasPath` is `Reaches`: the target lies in every set that holds the start and is closed
  under children, which is what the search with its visited set computes. `Spec` lets a caller pass any
  arguments to `removeTransform`; `SpecHeld` is for callers that only remove transforms
  the graph holds. `Mapped`, what `getParent` and `getTransform` say of each frame, maps the maps to the
  forest of `TFForest`.
- **TFGraphCallers.** `careful` is the kind of caller and never changes, so that one run looks at both:
  what `TFGraph` promises to anyone, and what it promises to a careful caller.
- **TFGraphQueries.** The searches are recursive functions. `search` in `DfsHasPath` is the loop over the
  children of a frame: it hands the visited set from child to child, as the reference argument of the
  code does, and stops at the first call that finds the target. `Pass` is one pass of `getPath`'s loop over the queue, with `came_from` as
  a function whose domain is the visited set; `CameFrom` is the loop, `GetPath` the reconstruction. The
  frames one pass adds to the queue come in some order: it can only matter where two paths lead to a
  frame, which `PathsAreTreePaths` excludes. Keys of `children_` whose vector is empty are among `AllFrames`, as in the
  code.
- **TFMessage.** `Receive`, then `ApplyTransform` or `SkipTransform` for each transform in
  order, then `LogGraph`. `logged` is what the callback logged, as pairs of path and value. The
  sender may `Settle`: from then on it sends one message over and over.
- **Node.** A ROS graph is a set of `<<topic, type>>` pairs. A converter is a record of topic, type
  and the address of the object, so that a replaced object differs from the old one.
  `BeginUpdate` takes the mutex and erases the topics that are gone, `UpdateTopic` is one pass of the
  loop over the topics of the graph (existing and new topics alike), in any order, and `EndUpdate` returns.
  The factory may throw for any pairs, always the `std::runtime_error` that lines 156 and 188 catch: an unsupported type, or rclcpp's
  `RCLError` for a subscription. Any other exception (`std::bad_alloc`) would go past the handlers and is left out. `BeginOnTimer`, `VisitConverter` and `EndOnTimer` are the timer.
  Any thread may call either operation.
- **TfPublishing.** A lookup is a pair of frames, and the buffer says what it finds, or that it
  throws; `Listen` changes it at any moment, as the tf listener's own thread does. A message is one step, as
  the callback group keeps callbacks out of a tick (`TimerAndCallbackExclude` of `RerunViz`). What a tick visits
  does not change meanwhile, as the timer holds the mutex (`TimerVisitsLive` of `Node`); between ticks
  `Recreate` is an update that destroys a converter, or makes a new one that has no request yet.
  `had` records, for the properties, what each lookup could have found in the course of the tick.
- **RobotDescription.** A robot's joints are a set, as the parser keeps the joints of a link in an order of its
  own. `stack` holds the active calls of `urdfDepthFirst` on links, each with the joints it has still to visit.
  `VisitJoint` is the call on a joint up to the end of its inner block: it takes the mutex again, appends the
  request and puts the call on the child link on the stack; `Descend` releases the inner lock. `owner` and `depth` are the
  recursive mutex. `Receive` parses; `NullRoot` is the dereference of the null root an ignored failure leaves, and
  `Unsupported` the throw at a joint that does not rotate: either ends the process, as nothing catches
  them. The early return without a stream is left out: `main` always has one. The entity path of a child link's request is that of line 109, which is also the layout
  described at lines 56-57; line 61 of the same comment gives the path of the root link for it.
- **NodeRunner.** One action for each step between two places where another thread may
  come in: the loop condition, `get_graph_event`, the two ways the wait ends, the second check, the
  query (which throws when the context is shut down), the update. The first `get_graph_event` starts the
  graph listener of rclcpp (`watched`), and throws when the context is shut down by then. `GraphChange` lets
  any pair go, one the Node itself subscribes to as well, which rclcpp goes on counting while the subscription lives:
  more than the program meets, except with remapping, late discovery or another caller.
- **RerunViz.** `TimerFires` takes the callback group; the worker then waits for the
  mutex with the group taken, as `on_timer` does. `MessageArrives` starts a callback on
  a converter that is alive; it returns, or, for a message of a type in `Throwing`, throws and ends the process with the
  other threads wherever they are (`CallbackThrows`). `main` goes from `"start"` (the viewer is spawned, or `main` returns) over
  `"init"` (the objects are made; a constructor throws when a signal has come first) to
  `"spin"`. Signals shut the context down; `spin` returns when all workers are through; `main` sets the
  stop flag and joins (`"destroy"`, `"join"`), then lets go of the Node (`"release"`). A converter keeps
  it (`LeaveNode`); without one the buffer goes first and then the listener joins its thread
  (`DestroyBuffer`, `JoinListener`), which until then may be at work (`listening`).
- **TopicNames.** A name is a sequence of tokens, each a slash or a piece of text; two pieces may
  follow one another, so that `/cam2` starts with `/cam` as characters do. `IsTopicName` is what rclcpp's names are:
  a slash in front, none at the end, no two in a row. `Parts` is how Rerun splits an entity path at its slashes. `IsInNamespace` gives the
  set of results the code may have: for an empty namespace `ns.back()` is undefined.
- **Conversions.** Each of the five names that the headers return is an operator of its own; `RosTypeName` is the
  virtual call. `shown` is what the viewer shows: for each entity and archetype what was logged last,
  and by which topic. A callback is one step. Of a cloud only height, width, steps and the offsets
  it is read at are kept; of an IMU sample which covariances are -1; of an image its encoding.
  An image of an encoding the code does not know, an uncalibrated camera and a camera without a
  namespace log nothing; a cloud without the fields x, y and z throws and ends the process.

Each specification carries a few operators under "faulty variant": mistakes a programmer
could make at that place, kept beside the true definition. `PROJECT.json` ("mutants") says which one
replaces which definition and which property notices; a property that no such mistake
can break would not be worth its run.

## 3. Runs

| Run | Instance | Shows |
|---|---|---|
| `tfgraph` | 4 frames, 2 values, at most 2 copies of a child, both kinds of caller | types, `Acyclic`, `WalkToRootEnds`, `ParentListsChild`, `TransformPerLink`, `SearchDecidesReach` under any calls; `CarefulReverseLookup`, `CarefulPaths` and the refinement `CarefulForest` for callers that only remove what is there |
| `tfgraph_reverse` | 3 frames | **violation** of `ReverseLookup` for other callers |
| `tfmessage` | 3 frames, 2 values, every message of 1 or 2 transforms | types, `TreeIsLogged`, the refinement `ForestSpec`, `TreeIsAdopted` |
| `robot_description` | 4 robots and a message that does not parse, 3 messages, 2 readers | types, `WholeList`, `UnsupportedJointEndsProcess`, `ReadsAreWhole`, `CallbackEnds` |
| `robot_invalid` | the same | **violation** of `InvalidDataSurvived` |
| `tf_publishing` | 2 cameras, one without a namespace, a robot with a joint, 3 lookups, 2 values, with and without a stream | types, `NullStreamUnused`, `TickIsSound`, `TickIsComplete`, `KeepsBeingShown` |
| `node` | 2 topics, 2 types, 2 threads, 2 addresses, every graph over them | types, `WholeUpdate`, `OneConverterPerType`, `TimerVisitsLive`, `KeptWhileAdvertised` |
| `rerunviz` | 2 workers, 8 graphs, 2 changes, 1 failure | types, `TimerAndCallbackExclude`, `QuietAtExit`, `BufferOutlivesUsers`, the refinement `ImplementsNode`, `EventuallySubscribed`, `ShutdownEnds`, no deadlock |
| `conversions` | 15 topics of 5 types (cameras with similar, nested and missing namespaces), 38 clouds, every image encoding and IMU covariance, 2 messages | types, `EntityTree`, `CloudIsWhole`, `TypeNamesAgree`, `OwnEntities` |
| `rerunviz_callback` | 1 worker, 4 graphs, 2 changes, 1 failure | **violation** of `CallbackHoldsLive` |
| `rerunviz_abort` | as `rerunviz_callback` | **violation** of `NeverAborts` |
| `rerunviz_listener` | as `rerunviz_callback` | **violation** of `ListenerHasBuffer` |

Deadlock is checked in every run but `robot_description` and `conversions`, where an exception ends the process
and the messages are bounded; in the first `CallbackEnds` takes its place. In `RerunViz` the program may end, and then stutters (the last
disjunct of `Next`); a state in which it has neither ended nor can go on is an error.

Bounds, and why they are enough:

- `MaxCopies = 2`: copies of a child in one vector. It only matters for callers that are not careful; the count grows
  without bound there, and one copy too many shows all that more would. The proofs do
  not depend on it.
- Tokens and values of `tfgraph` are symmetric: no definition of `TFGraph` tells one from another, but for `Arrow`,
  which is none of the tokens there.
- Four frames give chains, forks, re-attachments below a descendant and two separate trees.
- Three frames are enough for a message whose links swap places (`TreeIsAdopted`): a chain turned
  round below its root, in either order. A transform refused in one round is accepted in the next.
- The robots of `MCRobotDescription`: a fork, a fork below a joint of a fork, no
  joint, a joint that is not supported. Three messages let a robot follow another and a third.
- `Addresses`: with one callback at a time, a pair needs two at most: that of an object that
  still runs and that of its successor.
- `Throwing`: the clouds, the one type of the run whose callback throws in the code.
- `MaxChanges`, `MaxFailures`: a change that is missed, one that undoes another, one in the middle of an
  update; a creation that fails and is tried again.
- `conversions`: each property relates two messages at most, hence `MaxMessages = 2`. `Word = 16` stands for 2^32,
  with clouds on either side of it; the properties do not depend on the width. Of the topics, one camera's name
  starts with that of another, one lies in the root, and one lies below the entity of an image.

Fairness (`Fairness` in `RerunViz`): weak fairness of each thread's own steps, as the operating system
schedules every thread that can run and the wait has a timeout of one second. Strong fairness for the
two places that take `subscriptions_mutex_`: `std::mutex` does not promise it, but the timer holds
the mutex for a part of its 100 ms period and the update thread for a part of a
round, so that each finds it free again and again. No fairness for the graph, the messages,
the timer or the signal. The tf listener's thread returns once the context is shut down (weak fairness).
`TfPublishing`: the wall timer of 100 ms fires again and again, and `on_timer` runs to its end (weak
fairness of `Tick`); no fairness for messages and the buffer. `TFMessage`: the executor runs a callback to its end, and a sender that has settled
keeps sending; nothing makes it settle. `RobotDescription`: the walker and a reader that has its copy go on, and
the walker gets the mutex in the end (strong fairness, since a reader holds it for a copy only).

## 4. What the violations show

1. **`ReverseLookup`** (`src/tf_graph.cpp:81`). `removeTransform(parent, child)` erases
   `parents_[child]` whichever parent the child has. `addTransform(base, link)`,
   `removeTransform(other, link)` leaves `link` in `children_[base]` with its transform, but
   with no parent; adding it again lists it twice or under two parents.
2. **`CallbackHoldsLive`** (`src/node.cpp:138` and 209). The update thread destroys a converter
   while a worker runs its `topic_callback`, which holds a raw `this`. rclcpp counts the Node's own
   subscription, so a pair goes under a living converter only with remapping, late discovery or another caller of
   `updateSubscriptions`.
3. **`NeverAborts`** (`src/node_runner.cpp:47`). A shutdown between a check and the next call of
   rclcpp makes it throw in a thread without a handler: the query in any round, `get_graph_event`
   (line 40) in the first, which is the shorter trace.
4. **`ListenerHasBuffer`** (`include/rerun_viz/node.hpp:90`). A Node that has no converter when `main` lets go of it is
   destroyed, `tf_buffer_` before `tf_listener_`, whose thread may still set a transform in the buffer. A Node
   with a converter is never destroyed, which is why a session seldom shows it. How far it goes is `BufferOutlivesUsers`:
   only that thread, and only between the two destructors.
5. **`InvalidDataSurvived`** (`src/msg_conversion/special_msgs/robot_description.cpp:53`). The failure of `initString` is ignored,
   the null root dereferenced (line 67): one message that is no URDF ends the process, which is what `README.md:5`
   says of rviz. An unsupported joint also ends it, but by a throw the code puts there on purpose
   (lines 101-106), so that is a property of the passing run (`UnsupportedJointEndsProcess`).

## 5. Proofs

All theorems hold for every value of the constants under the named assumptions of the modules, which TLC
evaluates in the runs of each:

- `FramesAssumption` (frame ids are sequences), `CopiesAssumption`, `MessagesAssumption` of `TFMessage` (a message is a
  sequence of transforms).
- `SupportedAssumption`, `NoThreadAssumption`, `ThreadsAssumption` (the graph update thread is no worker, the
  walker no reader), `RosGraphsAssumption` (the graphs are sets of topics and types, the empty one among
  them).
- `RobotAssumption` (the requests of `TfPublishing`'s robot are a sequence), `ConverterAssumption`.
- `RobotsAssumption` of `RobotDescription`: a robot is a tree, as URDF asks for (`IsTree`). The parser
  does not refuse a link that is the child of two joints; the walk would list what is below it twice,
  and no theorem speaks of such a robot. `NoneAssumption`, and `MessagesAssumption` for the bound.
- `TopicsAssumption` of `Conversions`: the names in the ROS graph are fully qualified, as rclcpp gives
  them. `CloudsAssumption` (what a cloud is), `WordAssumption` (a word holds something) and `MessagesAssumption`
  for the bound. The strings of the model are taken from the union `Text`, as the provers
  do not see that a string literal is a string.

Some theorems are about frame ids that do not hold the separator (`ArrowFree`), and say so in their statement.

**`TFGraphProofs`.** Two lemmas, `AddChildren` and `RemoveChildren`, say what the operations do to the
number of copies of every frame in every vector; all else rests on them. `Shape` is the inductive
invariant: types, `Acyclic`, `ParentListsChild`, `WalkToRootEnds`.

- `NoCycles`: from the failed search there is a set R that holds the child, is closed under children
  and leaves the parent out (`BelowChild`). A set S in which every frame had a child in
  S after the step would have been one before: its part inside R, or, when that is empty, S itself.
- `WalksEnd`: a set closed under `parents_` after the step would have been one before, less R. This
  is where `ParentListsChild` is needed: it carries the search over `children_` to `parents_`.
- `TransformsMatchLinks`: links and keys match, by `KeyInjective`: ids without the
  separator make different keys for different links (`ArrowFree`).
- `ReverseLookupHeld`: for callers that remove only what the graph holds, the parent named in the
  call is the parent the frame has, because `TransformPerLink` holds.
- `ImplementsForest`: for those callers every step is a step of `TFForest` or a
  stutter, with `Mapped` as the refinement mapping; the guard of `Attach` follows from R again
  (`NotAbove`: the complement of R is closed under parents).

**`TFGraphQueriesProofs`.** What a recursive function computes is proved without induction over its
definition: first the equation of the function is shown to have a solution, so that the CHOOSE behind it
gives one; then whatever solves the equation is shown to give the right answer, by a least
counterexample.

- `SearchCorrect`. `Beyond(C, V)` is what the search finds from the children C once V has been visited: the
  least set closed under children outside V. `BeyondChild` is the heart: what one child's call leaves
  visited is just what the rest of the loop may skip, so one visited set does for all calls. The function of
  these answers solves the equation (`SearchExists`), and a solution that differed from it would do so at a
  smallest unvisited part of the graph and at fewest children left (`SearchAnswers`), since the graph is
  finite: `AlwaysFinite`, an invariant of its own.
- `PathsCorrect`. The loop has a solution (`LoopExists`). Its invariant `Sound` says that `came_from` leads from
  every visited frame back to the first, and that what has been visited is in the queue or has its
  neighbours visited; each pass visits a frame or shortens the queue (`VisitEnds`). So the search visits the whole tree
  of its first frame (`TreeVisited`: the root first, then whatever hangs from it) and nothing else (`VisitedInTree`), and
  what is reconstructed is the trail of its target (`PathIsTrail`), which meets no frame twice
  (`TrailInjective`).

The last section carries the results over to `CallerSpec`: any caller's calls are those of `Spec` (`CallersCall`), a
careful one's those of `SpecHeld` (`CarefulCalls`), so `CarefulReverse`, `CarefulImplements` and `CarefulPathsCorrect`
follow from `ReverseLookupHeld`, `ImplementsForest` and `PathsCorrect`.

**`TFMessageProofs`.** A converter is a caller in the sense of `SpecHeld`, so `MessageInv` carries the
invariant of `TFGraph` through a message, and `MessageImplementsForest` follows. `TreeIsLogged`: a key of
`transforms_` gives back the child's id, since the first arrow in it is the separator (`ChildOfKey`); keys
match links, so each frame with a parent has one entity (`LoggedEntities`), at the reverse of its
walk to the root (`PathOfEntity`).

**`RobotDescriptionProofs`.** `WholeList` says nothing of a walk, so `IInv` does: it is `TypeOK`, `Mutex` (the
mutex is the walker's only in its walk, a reader's exactly while it has a copy to return), `Whole` (outside a walk
the list is whole), `Reasons` (why the walker is where it is) and, in a walk, `WalkInv`: every active
call is on a link that has its request (`Called`), no joint is to be visited twice or has been visited
(`Once`), and no joint is lost: it has its request, or is still to visit, or the link it hangs from has not been reached
(`Kept`). When the stack is empty, the joints without a request would all hang from one another, which a tree does
not allow (`AllDone`). `CopiesWhole` needs `Mutex` besides: a reader that can take it finds no walk.

**`NodeProofs`.** `WholeUpdate` speaks only of states in which the mutex is free and is
not inductive. `IInv` adds who owns the mutex (`OwnerInside`), what only an update or a
timer leaves behind (`TodoWhileUpdating`, `VisitWhileVisiting`) and, at the
heart, `Progress`: the topics an update has been through match its graph. From it follow
`UpdatesAreWhole`, `ConvertersAreUnique`, `TimerIsSafe` and the action property `ConvertersAreKept`,
for any number of threads, topics and types.

**`TfPublishingProofs`.** `TickIsComplete` speaks of the last step of a tick; the invariant behind
it, `Visited`, of every step: what the converters that have had their visit asked for is handled (its
lookup may have thrown, or it is published) or still pending. It needs that `had` keeps up with the
buffer (`HadBuffer`), and `TickIsSound` that only what is asked for is pending
(`TodoIsAsked`). `Silent` is why a null stream is never used: without one no converter has a request.

**`RerunVizProofs`.** `UsesNodeWell`: every step of the program is a step of `Node` by a thread that
`Node` knows, or leaves its variables alone (`StepImplements`). Two facts are needed besides the actions: what the
thread has polled is a graph (`PolledOK`), and an update that avoids more addresses than `Node` asks for
(those of converters whose callback still runs) is one that `Node` allows (`UpdateTopicImplements`).
`TimerAndCallbacksExclude` follows from `GroupOfActive`: who is inside a callback or `on_timer` has the
group. `BufferGoesLast` follows from `BufferIsGuarded`: the buffer is there from the construction of the Node to
its destruction, when `spin` has returned and no worker is inside `on_timer` any more (`RestOutsideSpin`,
`WorkersInSpin`), and `main` goes on only when the listener has joined its thread. No theorem says that the thread always has
its buffer: it has not (`ListenerHasBuffer` of `rerunviz_listener`).

In its second part an instance of `NodeProofs` gives its theorems for the threads of the program;
`SameNext` says that it speaks of the same actions, so `NodeInvariant` has the inductive invariant of
`Node` in every state of the program. With it, `QuietInTheEnd`: outside `spin` the workers are idle
(`RestOutsideSpin`), after the join the update thread is out of the Node, so by `OwnerInside` nobody
holds the mutex. `TypeCorrect` needs the converters of `Node` to be typed, as a callback runs on one.

**`ConversionsProofs`.** `FromCallback` is the invariant: whatever is shown was logged by a callback of some
topic for some message. `IsEntry` says, archetype by archetype, what that may be; the invariants follow from
the two (`ShownIsEntry`).

- `CloudsAreWhole`: the bytes of a cloud bound the number of its points, so the product of 32 bits
  does not wrap, for a word of any width.
- `NamesAgree` goes through the classes.
- `EntitiesAreOwn` and `EntitiesAreNested` rest on `Parts`. Its equation has one solution (`PartsExist`,
  `PartsAgree`), a topic's name is its namespace and one more piece (`NameSplits`), and so are its parts
  (`SplitParts`). By least counterexample over the length of a name, no two topics have the same parts
  (`PartsInjective`), and the parts of one start with those of another exactly if its name lies below
  that one's (`PartsBelow`). An archetype has its entities at one depth below the topic
  (`EntityBelowTopic`), which gives the topic back (`EntriesApart`); the entity of a Pinhole is the namespace itself
  (`CameraBelow`).

Every safety invariant and every action property that a run checks is stated by a theorem, as is each
refinement. Only model-checked is liveness (`EventuallySubscribed`, `ShutdownEnds`, `KeepsBeingShown`,
`TreeIsAdopted`, `CallbackEnds`), which is out of the prover's reach.

## 6. Not modelled, and the plan

Left out for good: logging and wording, the search for the viewer's executable (the spawn may fail), the
numbers in messages and transforms (`convertTransformToRerun` copies them), the pixels of an image, build
files and tests. The constructors of the converters only subscribe; that a subscription cannot be made is a
creation that fails. `MessageArrives` sees a converter from the moment its topic is filed, a little later than
in the code.

What the models show to be so, and no comment of the repository says otherwise, is no property:

- `TransformPerLink` and `TreeIsLogged` assume ids without `->`: with it two links may share a
  key, and `logToRerun` splits the key at the wrong arrow.
- The viewer keeps entities at paths that a moved frame has left: `logged` holds what the last callback
  logged, not what an older one did.
- Every `TFMessage` converter has a graph of its own, so that a chain spread over `/tf` and `/tf_static` would be
  two trees. The factory makes none at present (`converter_factory.cpp:30`).
- A camera that stops being calibrated keeps its old request (`CameraSkipped`).
- A frame whose last child moved away stays in `getAllFrames` and in the statistics, as `addTransform` leaves its empty vector
  (`src/tf_graph.cpp:45`) and `removeTransform` does not (line 74). `AllFrames` does the same.
- Image and CameraInfo decide apart from each other whether a camera is a depth camera: with `/camera/depth_image` and
  `/camera/camera_info` they differ. The source calls the test a "disgusting hack" (`image.cpp:64`) and promises nothing.
- A cloud without x, y or z ends the process (`PointCloud2Throws`, `CallbackThrows`); of a cloud with padded rows every row
  but the first is read from the wrong place. `CloudIsWhole` asks nothing of either.
- Two `CameraInfo` topics of one namespace share its Pinhole: the exception in `OwnEntities`.
- `isInNamespace` reads `ns.back()` of a namespace that may be empty: `IsInNamespace` gives both results, and no property
  asks for one.
- `isInNamespace` and `isCameraTopic` are called by tests only. `EntityTree` and `TypeNamesAgree` compare them with what
  the converters do.

To come, in this order:

1. `RerunViz` with the requests of `TfPublishing` in the place of its bare timer, so that what
   `TfPublishing` takes from the callback group and the mutex is a theorem about the composition.
2. The walk of `RobotDescription` for a link with two parents, as the parser lets it through.
