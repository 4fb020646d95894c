------------------------------ MODULE RerunViz ------------------------------
(***************************************************************************)
(* The program from its start to its end: main, the workers of the         *)
(* MultiThreadedExecutor, which run on_timer and the callbacks of the      *)
(* converters, the graph update thread of the NodeRunner, all of them on   *)
(* one Node, and the thread of the tf listener that the Node owns.         *)
(*                                                                         *)
(* The executor (external) takes the subscriptions and the timer of the    *)
(* default callback group of the ROS node, which is mutually exclusive: it *)
(* runs one of them at a time, on any worker.  It keeps the subscription it *)
(* takes alive while it runs the callback; the callback was bound to a raw *)
(* pointer and keeps no converter alive.                                   *)
(***************************************************************************)
EXTENDS Naturals, FiniteSets

CONSTANTS Topics, Types, Supported, Addresses,
          Throwing,       \* types of messages whose callback may throw
          Workers,        \* the threads of the executor
          Updater,        \* the graph update thread
          NoThread,
          NoConverter,
          RosGraphs,      \* the graphs there may be
          MaxChanges,     \* bound: changes of the graph
          MaxFailures     \* bound: creations that fail with the context up

VARIABLES subscriptions, mutex, at, wanted, todo, missed, visit,   \* Node
          ok, stop, pc, watched, event, graph, polled,             \* NodeRunner
          group,      \* the worker the callback group is taken by
          serving,    \* worker -> the converter whose callback it runs
          main,       \* where main is
          buffer,     \* the tf buffer of the Node exists
          listening,  \* the thread of the tf listener may still set a transform
          changes, failures   \* what is used up of the two bounds

nodeVars == <<subscriptions, mutex, at, wanted, todo, missed, visit>>
runnerVars == <<ok, stop, pc, watched, event, graph, polled>>
executorVars == <<group, serving>>
listenerVars == <<buffer, listening>>
boundVars == <<changes, failures>>
vars == <<nodeVars, runnerVars, executorVars, main, listenerVars, boundVars>>

ASSUME ThreadsAssumption == Updater \notin Workers /\ NoThread \notin Workers \cup {Updater}

ASSUME SupportedAssumption == Supported \subseteq Topics \X Types

ASSUME ThrowingAssumption == Throwing \subseteq Types

ASSUME RosGraphsAssumption == {} \in RosGraphs /\ RosGraphs \subseteq SUBSET (Topics \X Types)

Threads == Workers \cup {Updater}

N == INSTANCE Node

R == INSTANCE NodeRunner WITH EmptyGraph <- {}

Init == /\ N!Init
        /\ R!Init
        /\ group = NoThread
        /\ serving = [w \in Workers |-> NoConverter]
        /\ main = "start"
        /\ buffer = FALSE /\ listening = FALSE
        /\ changes = 0
        /\ failures = 0

-----------------------------------------------------------------------------
\* The graph update thread.

\* The constructor of the NodeRunner starts the thread.
RunnerStep ==
    /\ main \notin {"start", "init"}
    /\ R!Step
    /\ UNCHANGED <<nodeVars, executorVars, main, listenerVars, boundVars>>

BeginUpdate ==
    /\ pc = "update"
    /\ N!BeginUpdate(Updater, polled)
    /\ UNCHANGED <<runnerVars, executorVars, main, listenerVars, boundVars>>

\* Converters that somebody still uses, alive or not.
Held == N!Held \cup {serving[w] : w \in Workers}

\* With the context up a creation may fail (within the bound); with the context
\* shut down every creation does.
UpdateTopic ==
    \E t \in todo : \E failed \in SUBSET N!Missing(t) :
        /\ IF ok THEN failures + Cardinality(failed) <= MaxFailures
                 ELSE failed = N!Missing(t)
        /\ N!UpdateTopic(Updater, t, failed, Held)
        /\ failures' = IF ok THEN failures + Cardinality(failed) ELSE failures
        /\ UNCHANGED <<runnerVars, executorVars, main, listenerVars, changes>>

\* A faulty variant of EndUpdate: an update is given up once the program stops.
EndUpdateAtShutdown ==
    /\ at[Updater] = "updating"
    /\ todo = {} \/ ~ok
    /\ mutex' = NoThread
    /\ at' = [at EXCEPT ![Updater] = "outside"]
    /\ R!UpdateDone
    /\ UNCHANGED <<subscriptions, wanted, todo, missed, visit,
                    executorVars, main, listenerVars, boundVars>>

EndUpdate ==
    /\ N!EndUpdate(Updater)
    /\ R!UpdateDone
    /\ UNCHANGED <<executorVars, main, listenerVars, boundVars>>

-----------------------------------------------------------------------------
\* The workers of the executor.

\* A faulty variant of TakeGroup: a callback group that is reentrant.
TakeReentrant(w) == group' = w

TakeGroup(w) == group = NoThread /\ group' = w

Idle(w) == at[w] = "outside" /\ serving[w] = NoConverter /\ group # w

\* The timer is due; on_timer then waits for the mutex with the group taken.
TimerFires(w) ==
    /\ main = "spin" /\ ok
    /\ Idle(w)
    /\ TakeGroup(w)
    /\ UNCHANGED <<nodeVars, runnerVars, serving, main, listenerVars, boundVars>>

BeginOnTimer(w) ==
    /\ group = w /\ serving[w] = NoConverter
    /\ N!BeginOnTimer(w)
    /\ UNCHANGED <<runnerVars, executorVars, main, listenerVars, boundVars>>

VisitConverter(w) ==
    /\ \E k \in visit[w] : N!VisitConverter(w, k)
    /\ UNCHANGED <<runnerVars, executorVars, main, listenerVars, boundVars>>

EndOnTimer(w) ==
    /\ N!EndOnTimer(w)
    /\ group' = NoThread
    /\ UNCHANGED <<runnerVars, serving, main, listenerVars, boundVars>>

\* A message has come for a converter that is alive: its callback is called.
MessageArrives(w) ==
    /\ main = "spin" /\ ok
    /\ Idle(w)
    /\ TakeGroup(w)
    /\ \E k \in N!Live : serving' = [serving EXCEPT ![w] = k]
    /\ UNCHANGED <<nodeVars, runnerVars, main, listenerVars, boundVars>>

CallbackReturns(w) ==
    /\ serving[w] # NoConverter
    /\ serving' = [serving EXCEPT ![w] = NoConverter]
    /\ group' = NoThread
    /\ UNCHANGED <<nodeVars, runnerVars, main, listenerVars, boundVars>>

\* The callback throws: the executor lets it through, on a worker as on main's own
\* thread, and the process ends where it is.
CallbackThrows(w) ==
    /\ serving[w] # NoConverter
    /\ N!Pair(serving[w])[2] \in Throwing
    /\ main' = "aborted"
    /\ UNCHANGED <<nodeVars, runnerVars, executorVars, listenerVars, boundVars>>

-----------------------------------------------------------------------------
\* main and the environment.

\* main up to rclcpp::init: spawning the viewer may fail, which ends the process.
SpawnViewer ==
    /\ main = "start"
    /\ main' \in {"init", "exited"}
    /\ UNCHANGED <<nodeVars, runnerVars, executorVars, listenerVars, boundVars>>

\* The ROS node, the Node with its buffer and its listener, whose thread starts,
\* the NodeRunner and the executor.  With the context shut down a constructor
\* throws, and nothing in main catches it.
Construct ==
    /\ main = "init"
    /\ main' = IF ok THEN "spin" ELSE "aborted"
    /\ buffer' = ok /\ listening' = ok
    /\ UNCHANGED <<nodeVars, runnerVars, executorVars, boundVars>>

\* spin returns once the context is shut down and every worker is through.
SpinReturns ==
    /\ main = "spin" /\ ~ok
    /\ \A w \in Workers : Idle(w)
    /\ main' = "destroy"
    /\ UNCHANGED <<nodeVars, runnerVars, executorVars, listenerVars, boundVars>>

\* The destructor of the NodeRunner: stop the thread, then join it.
StopUpdater ==
    /\ main = "destroy"
    /\ R!Stop
    /\ main' = "join"
    /\ UNCHANGED <<nodeVars, executorVars, listenerVars, boundVars>>

Join ==
    /\ main = "join"
    /\ R!Joinable
    /\ main' = "release"
    /\ UNCHANGED <<nodeVars, runnerVars, executorVars, listenerVars, boundVars>>

\* Every converter owns the Node that owns it.
NodeOwned == N!Live # {}

\* main drops the last pointer to the Node but those of the converters.
LeaveNode ==
    /\ main = "release"
    /\ NodeOwned
    /\ main' = "exited"
    /\ UNCHANGED <<nodeVars, runnerVars, executorVars, listenerVars, boundVars>>

\* Or the Node is destroyed, the members in the reverse of their order: the
\* buffer first, then the listener.
DestroyBuffer ==
    /\ main = "release"
    /\ ~NodeOwned
    /\ buffer' = FALSE
    /\ main' = "unlisten"
    /\ UNCHANGED <<nodeVars, runnerVars, executorVars, listening, boundVars>>

\* A faulty variant of JoinListener: the thread is left to itself.
LeaveListener ==
    /\ main = "unlisten"
    /\ main' = "exited"
    /\ UNCHANGED <<nodeVars, runnerVars, executorVars, listenerVars, boundVars>>

\* The destructor of the listener joins its thread.
JoinListener ==
    /\ main = "unlisten"
    /\ ~listening
    /\ main' = "exited"
    /\ UNCHANGED <<nodeVars, runnerVars, executorVars, listenerVars, boundVars>>

\* The thread of the listener is through with its last callback.
ListenerReturns ==
    /\ listening /\ ~ok
    /\ listening' = FALSE
    /\ UNCHANGED <<nodeVars, runnerVars, executorVars, main, buffer, boundVars>>

GraphChange ==
    /\ changes < MaxChanges
    /\ changes' = changes + 1
    /\ \E G \in RosGraphs : R!GraphChange(G)
    /\ UNCHANGED <<nodeVars, executorVars, main, listenerVars, failures>>

\* rclcpp::init has put the handler in place.
Shutdown ==
    /\ main # "start"
    /\ R!Shutdown
    /\ UNCHANGED <<nodeVars, executorVars, main, listenerVars, boundVars>>

-----------------------------------------------------------------------------
Aborted == pc = "aborted"

Ended == Aborted \/ main \in {"exited", "aborted"}

WorkerStep(w) == \/ TimerFires(w) \/ BeginOnTimer(w) \/ VisitConverter(w) \/ EndOnTimer(w)
                 \/ MessageArrives(w) \/ CallbackReturns(w) \/ CallbackThrows(w)

UpdaterStep == RunnerStep \/ BeginUpdate \/ UpdateTopic \/ EndUpdate

MainStep == \/ SpawnViewer \/ Construct \/ SpinReturns \/ StopUpdater \/ Join
            \/ LeaveNode \/ DestroyBuffer \/ JoinListener

Next == \/ ~Ended /\ UpdaterStep
        \/ ~Ended /\ \E w \in Workers : WorkerStep(w)
        \/ ~Ended /\ MainStep
        \/ ~Ended /\ ListenerReturns
        \/ ~Ended /\ GraphChange
        \/ ~Ended /\ Shutdown
        \/ Ended /\ UNCHANGED vars

Spec == Init /\ [][Next]_vars

\* Each thread goes on with what it can do.  For the mutex a thread competes:
\* the timer holds it for a part of its 100 ms period only, and the updater for
\* a part of a round, so either gets it when it is free again and again.
Fairness ==
    /\ WF_vars(~Ended /\ RunnerStep)
    /\ SF_vars(~Ended /\ BeginUpdate)
    /\ WF_vars(~Ended /\ (UpdateTopic \/ EndUpdate))
    /\ \A w \in Workers :
           /\ SF_vars(~Ended /\ BeginOnTimer(w))
           /\ WF_vars(~Ended /\ (VisitConverter(w) \/ EndOnTimer(w)
                                 \/ CallbackReturns(w) \/ CallbackThrows(w)))
    /\ WF_vars(~Ended /\ MainStep)
    /\ WF_vars(~Ended /\ ListenerReturns)

FairSpec == Spec /\ Fairness

-----------------------------------------------------------------------------
\* Properties.

\* Type correctness of the composed state.
TypeOK ==
    /\ N!TypeOK
    /\ R!TypeOK
    /\ group \in Workers \cup {NoThread}
    /\ serving \in [Workers -> N!Converters \cup {NoConverter}]
    /\ main \in {"start", "init", "spin", "destroy", "join", "release", "unlisten",
                "exited", "aborted"}
    /\ buffer \in BOOLEAN /\ listening \in BOOLEAN

\* The program uses the Node as Node says it may be used, so what is shown there
\* of any threads that call it holds in the program: readers find whole updates,
\* the timer asks no converter that is gone, and a converter is not replaced.
ImplementsNode == N!Spec

\* The converters keep their requests and their lists unguarded or guarded by
\* a lock of their own (camera_info.cpp:62 and 124): no callback of a converter
\* runs on one thread while on_timer goes through the converters on another.
TimerAndCallbackExclude ==
    \A w, v \in Workers : serving[w] # NoConverter => at[v] # "visiting"

\* The Node goes only when the update thread is out of it: no update is under
\* way, and nobody holds the mutex, once main has left the join.
QuietAtExit ==
    main \in {"release", "unlisten", "exited"} =>
        mutex = NoThread /\ N!WholeUpdate /\ at[Updater] = "outside"

\* The thread of the tf listener fills the buffer of the Node through a reference
\* (node.cpp:23): while it may do so, the buffer is there.
ListenerHasBuffer == listening => buffer

\* The Node destroys the buffer before the listener (node.hpp:89-90), and this is
\* as far as it goes wrong: the timer never looks up a transform in a buffer that
\* is gone, and only while main waits in the destructor of the listener may its
\* thread still set one; main never returns with that thread at work.
BufferOutlivesUsers ==
    /\ \A w \in Workers : at[w] = "visiting" => buffer
    /\ listening => buffer \/ main = "unlisten"

\* Once the graph stays as it is, the Node ends up with a converter for exactly
\* the pairs it can convert, whatever changes the thread has slept through and
\* whatever creations have failed, unless the program is shut down or does not
\* come up.
EventuallySubscribed ==
    <>(~ok \/ Ended) \/ <>[]({N!Pair(k) : k \in N!Live} = graph \cap Supported)

\* A shutdown ends: the process exits (or the update thread brings it down),
\* and main never waits forever for spin or for the join.
ShutdownEnds == (~ok) ~> Ended

\* A callback runs only on a converter that has not been destroyed.
CallbackHoldsLive ==
    \A w \in Workers : serving[w] = NoConverter \/ serving[w] \in N!Live

\* The program is never brought down by an exception of the update thread.
NeverAborts == ~Aborted

=============================================================================
