--------------------------- MODULE RerunVizProofs ---------------------------
(***************************************************************************)
(* Proofs about the composed program, for any topics, types, workers and   *)
(* bounds: it implements Node, as every step of it is a step of Node, by a *)
(* thread that Node knows, or leaves the Node alone; timer and callbacks   *)
(* exclude each other; at the end nobody is inside the Node, and the buffer *)
(* of transforms is gone below no user but the last call of the listener.  *)
(***************************************************************************)
EXTENDS RerunViz, TLAPS

\* What the thread has polled is a graph, and it visits nothing (it never is in
\* on_timer): all that the refinement needs.
PolledOK == graph \in RosGraphs /\ polled \in RosGraphs

-----------------------------------------------------------------------------
LEMMA InitPolled == Init => PolledOK
  BY RosGraphsAssumption DEF Init, R!Init, PolledOK

LEMMA NextPolled == PolledOK /\ [Next]_vars => PolledOK'
<1> SUFFICES ASSUME PolledOK, [Next]_vars PROVE PolledOK'
  OBVIOUS
<1>1. CASE UpdaterStep
  <2>1. CASE RunnerStep
    BY <2>1 DEF PolledOK, RunnerStep, R!Step, R!LoopCheck, R!Register, R!RegisterThrows, R!WaitNotified,
                R!WaitTimeout, R!RunCheck, R!Query, R!QueryThrows
  <2>2. CASE BeginUpdate \/ UpdateTopic \/ EndUpdate
    BY <2>2 DEF PolledOK, BeginUpdate, UpdateTopic, EndUpdate, R!UpdateDone, runnerVars
  <2> QED
    BY <1>1, <2>1, <2>2 DEF UpdaterStep
<1>2. ASSUME NEW w \in Workers, WorkerStep(w)
      PROVE  PolledOK'
  BY <1>2 DEF PolledOK, WorkerStep, TimerFires, BeginOnTimer, VisitConverter, EndOnTimer,
              MessageArrives, CallbackReturns, CallbackThrows, runnerVars
<1>3. CASE MainStep
  BY <1>3 DEF PolledOK, MainStep, SpawnViewer, Construct, SpinReturns, StopUpdater, R!Stop,
              Join, LeaveNode, DestroyBuffer, JoinListener, runnerVars
<1>4. CASE ListenerReturns
  BY <1>4 DEF PolledOK, ListenerReturns, runnerVars
<1>5. CASE GraphChange
  BY <1>5 DEF PolledOK, GraphChange, R!GraphChange
<1>6. CASE Shutdown
  BY <1>6 DEF PolledOK, Shutdown, R!Shutdown
<1>7. CASE UNCHANGED vars
  BY <1>7 DEF PolledOK, vars, runnerVars
<1> QED
  BY <1>1, <1>2, <1>3, <1>4, <1>5, <1>6, <1>7 DEF Next

-----------------------------------------------------------------------------
\* An update that keeps new converters from more addresses than Node asks for.
LEMMA UpdateTopicImplements ==
    ASSUME NEW p, NEW t, NEW failed, NEW held, NEW more,
           N!UpdateTopic(p, t, failed, held \cup more)
    PROVE  N!UpdateTopic(p, t, failed, held)
  BY DEF N!UpdateTopic

\* Each action is a step of Node or leaves it alone.
LEMMA StepImplements == PolledOK /\ [Next]_vars => [N!Next]_(N!vars)
<1> SUFFICES ASSUME PolledOK, [Next]_vars PROVE N!Next \/ UNCHANGED N!vars
  OBVIOUS
<1>0. Updater \in Threads /\ Workers \subseteq Threads
  BY DEF Threads
<1>1. ASSUME UNCHANGED nodeVars PROVE UNCHANGED N!vars
  BY <1>1 DEF nodeVars, N!vars
<1>2. CASE RunnerStep
  BY <1>1, <1>2 DEF RunnerStep
<1>3. CASE BeginUpdate
  <2>1. polled \in N!Graphs
    BY RosGraphsAssumption DEF PolledOK, N!Graphs
  <2> QED
    BY <1>0, <1>3, <2>1 DEF BeginUpdate, N!Next
<1>4. CASE UpdateTopic
  <2>0. PICK t \in todo : \E failed \in SUBSET N!Missing(t) :
            N!UpdateTopic(Updater, t, failed, Held)
    BY <1>4 DEF UpdateTopic
  <2>1. PICK failed \in SUBSET N!Missing(t) : N!UpdateTopic(Updater, t, failed, Held)
    BY <2>0
  <2>2. N!UpdateTopic(Updater, t, failed, N!Held)
    BY <2>1, UpdateTopicImplements DEF Held
  <2> QED
    BY <1>0, <2>2 DEF N!Next
<1>5. CASE EndUpdate
  BY <1>0, <1>5 DEF EndUpdate, N!Next
<1>6. ASSUME NEW w \in Workers, WorkerStep(w)
      PROVE  N!Next \/ UNCHANGED N!vars
  <2>1. CASE BeginOnTimer(w) \/ EndOnTimer(w)
    BY <1>0, <2>1 DEF BeginOnTimer, EndOnTimer, N!Next
  <2>2. CASE VisitConverter(w)
    BY <1>0, <2>2 DEF VisitConverter, N!Next
  <2>3. CASE TimerFires(w) \/ MessageArrives(w) \/ CallbackReturns(w) \/ CallbackThrows(w)
    BY <1>1, <2>3 DEF TimerFires, MessageArrives, CallbackReturns, CallbackThrows
  <2> QED
    BY <1>6, <2>1, <2>2, <2>3 DEF WorkerStep
<1>7. CASE MainStep
  BY <1>1, <1>7 DEF MainStep, SpawnViewer, Construct, SpinReturns, StopUpdater, Join,
                    LeaveNode, DestroyBuffer, JoinListener
<1>8. CASE ListenerReturns \/ GraphChange \/ Shutdown
  BY <1>1, <1>8 DEF ListenerReturns, GraphChange, Shutdown
<1>9. CASE UNCHANGED vars
  BY <1>1, <1>9 DEF vars
<1> QED
  BY <1>2, <1>3, <1>4, <1>5, <1>6, <1>7, <1>8, <1>9 DEF Next, UpdaterStep

\* The program uses the Node as Node says it may be used, so the theorems about
\* Node hold in it.
THEOREM UsesNodeWell == Spec => ImplementsNode
<1>1. Init => N!Init
  BY DEF Init
<1>2. Init => PolledOK
  BY InitPolled
<1>3. PolledOK /\ [Next]_vars => PolledOK'
  BY NextPolled
<1>4. PolledOK /\ [Next]_vars => [N!Next]_(N!vars)
  BY StepImplements
<1> QED
  BY <1>1, <1>2, <1>3, <1>4, PTL DEF Spec, ImplementsNode, N!Spec

-----------------------------------------------------------------------------
\* Who is inside a callback or inside on_timer has the callback group, and is
\* inside one of the two only.
GroupOfActive ==
    /\ DOMAIN serving = Workers /\ DOMAIN at = Threads
    /\ \A w \in Workers :
           /\ serving[w] # NoConverter \/ at[w] # "outside" => group = w
           /\ serving[w] # NoConverter => at[w] = "outside"

LEMMA InitGroup == Init => GroupOfActive
  BY DEF Init, N!Init, GroupOfActive, Threads

LEMMA NextGroup == GroupOfActive /\ [Next]_vars => GroupOfActive'
<1> SUFFICES ASSUME GroupOfActive, [Next]_vars PROVE GroupOfActive'
  OBVIOUS
<1>0. /\ Workers \subseteq Threads /\ Updater \in Threads
      /\ Updater \notin Workers /\ NoThread \notin Workers
  BY ThreadsAssumption DEF Threads
<1>1. ASSUME UNCHANGED <<at, group, serving>> PROVE GroupOfActive'
  BY <1>1 DEF GroupOfActive
<1>2. CASE UpdaterStep
  <2>1. CASE RunnerStep \/ UpdateTopic
    BY <1>1, <2>1 DEF RunnerStep, UpdateTopic, N!UpdateTopic, nodeVars, executorVars
  <2>2. CASE BeginUpdate \/ EndUpdate
    <3>1. UNCHANGED <<group, serving>>
      BY <2>2 DEF BeginUpdate, EndUpdate, executorVars
    <3>2. DOMAIN at' = Threads /\ \A w \in Workers : at'[w] = at[w]
      BY <1>0, <2>2 DEF GroupOfActive, BeginUpdate, N!BeginUpdate, EndUpdate, N!EndUpdate
    <3> QED
      BY <3>1, <3>2 DEF GroupOfActive
  <2> QED
    BY <1>2, <2>1, <2>2 DEF UpdaterStep
<1>3. ASSUME NEW w \in Workers, WorkerStep(w)
      PROVE  GroupOfActive'
  <2>1. CASE TimerFires(w)
    BY <1>0, <2>1 DEF GroupOfActive, TimerFires, TakeGroup, nodeVars
  <2>2. CASE BeginOnTimer(w)
    BY <1>0, <2>2 DEF GroupOfActive, BeginOnTimer, N!BeginOnTimer, executorVars
  <2>3. CASE VisitConverter(w)
    BY <1>1, <2>3 DEF VisitConverter, N!VisitConverter, executorVars
  <2>4. CASE EndOnTimer(w)
    BY <1>0, <2>4 DEF GroupOfActive, EndOnTimer, N!EndOnTimer
  <2>5. CASE MessageArrives(w)
    <3>1. PICK k \in N!Live : serving' = [serving EXCEPT ![w] = k]
      BY <2>5 DEF MessageArrives
    <3> QED
      BY <1>0, <2>5, <3>1 DEF GroupOfActive, MessageArrives, TakeGroup, Idle, nodeVars
  <2>6. CASE CallbackReturns(w)
    BY <1>0, <2>6 DEF GroupOfActive, CallbackReturns, nodeVars
  <2>7. CASE CallbackThrows(w)
    BY <1>1, <2>7 DEF CallbackThrows, nodeVars, executorVars
  <2> QED
    BY <1>3, <2>1, <2>2, <2>3, <2>4, <2>5, <2>6, <2>7 DEF WorkerStep
<1>4. CASE MainStep
  BY <1>1, <1>4 DEF MainStep, SpawnViewer, Construct, SpinReturns, StopUpdater, Join,
                    LeaveNode, DestroyBuffer, JoinListener, nodeVars, executorVars
<1>5. CASE ListenerReturns \/ GraphChange \/ Shutdown
  BY <1>1, <1>5 DEF ListenerReturns, GraphChange, Shutdown, nodeVars, executorVars
<1>6. CASE UNCHANGED vars
  BY <1>1, <1>6 DEF vars, nodeVars, executorVars
<1> QED
  BY <1>2, <1>3, <1>4, <1>5, <1>6 DEF Next

\* However many workers there are, no callback of a converter runs while on_timer
\* goes through the converters: tf_request_ needs no lock (camera_info.cpp:62).
THEOREM TimerAndCallbacksExclude == Spec => []TimerAndCallbackExclude
<1>1. GroupOfActive => TimerAndCallbackExclude
  BY DEF GroupOfActive, TimerAndCallbackExclude
<1> QED
  BY <1>1, InitGroup, NextGroup, PTL DEF Spec

-----------------------------------------------------------------------------
\* The update thread is in the Node in its update only, and through when main
\* lets go of the Node; the buffer is there until then, and the listener outlives
\* it only while main waits for it.
BufferIsGuarded ==
    /\ DOMAIN at = Threads
    /\ at[Updater] # "outside" => pc = "update"
    /\ main \in {"release", "unlisten"} => pc = "done"
    /\ main \in {"spin", "destroy", "join", "release"} => buffer
    /\ listening => buffer \/ main = "unlisten"

\* Before main spins, and after, the workers are idle; the update thread runs
\* from the construction of the NodeRunner to the join.  (A callback that throws
\* ends the process with the workers where they are.)
RestOutsideSpin ==
    /\ DOMAIN at = Threads /\ DOMAIN serving = Workers
    /\ main \notin {"spin", "aborted"} => \A w \in Workers : Idle(w)
    /\ \A w \in Workers : at[w] = "visiting" => buffer
    /\ main \in {"start", "init"} => pc = "loop"
    /\ main = "exited" => at[Updater] = "outside"

LEMMA WorkersInSpin ==
    ASSUME RestOutsideSpin, ~Ended, NEW w \in Workers, WorkerStep(w)
    PROVE  main = "spin"
  BY DEF RestOutsideSpin, Idle, Ended, WorkerStep, TimerFires, BeginOnTimer, N!BeginOnTimer,
         VisitConverter, N!VisitConverter, EndOnTimer, N!EndOnTimer, MessageArrives,
         CallbackReturns, CallbackThrows

LEMMA InitGuarded == Init => BufferIsGuarded
  BY DEF Init, N!Init, BufferIsGuarded, Threads

LEMMA NextGuarded == RestOutsideSpin /\ BufferIsGuarded /\ [Next]_vars => BufferIsGuarded'
<1> SUFFICES ASSUME RestOutsideSpin, BufferIsGuarded, [Next]_vars PROVE BufferIsGuarded'
  OBVIOUS
<1>0. Updater \in Threads /\ Updater \notin Workers
  BY ThreadsAssumption DEF Threads
<1>1. ASSUME UNCHANGED <<at, pc, main, listening, buffer>>
      PROVE  BufferIsGuarded'
  BY <1>1 DEF BufferIsGuarded
<1>2. CASE RunnerStep
  <2>1. UNCHANGED <<at, main, listening, buffer>> /\ pc \notin {"update", "done"}
    BY <1>2 DEF RunnerStep, R!Step, R!LoopCheck, R!Register, R!RegisterThrows,
                R!WaitNotified, R!WaitTimeout, R!RunCheck, R!Query, R!QueryThrows,
                nodeVars, listenerVars
  <2> QED
    BY <2>1 DEF BufferIsGuarded
<1>3. CASE BeginUpdate \/ UpdateTopic \/ EndUpdate
  <2>1. UNCHANGED <<main, listening, buffer>> /\ pc = "update"
    BY <1>3 DEF BufferIsGuarded, BeginUpdate, UpdateTopic, N!UpdateTopic, EndUpdate,
                R!UpdateDone, listenerVars
  <2>2. DOMAIN at' = Threads /\ (at'[Updater] # "outside" => pc' = "update")
    BY <1>0, <1>3, <2>1 DEF BufferIsGuarded, BeginUpdate, N!BeginUpdate, UpdateTopic,
                            N!UpdateTopic, EndUpdate, N!EndUpdate, runnerVars
  <2> QED
    BY <2>1, <2>2 DEF BufferIsGuarded
<1>4. ASSUME NEW w \in Workers, ~Ended, WorkerStep(w)
      PROVE  BufferIsGuarded'
  <2>1. main = "spin"
    BY <1>4, WorkersInSpin
  <2>2. UNCHANGED <<pc, listening, buffer>> /\ main' \in {"spin", "aborted"}
    BY <1>4, <2>1 DEF WorkerStep, TimerFires, BeginOnTimer, VisitConverter, EndOnTimer,
                      MessageArrives, CallbackReturns, CallbackThrows, runnerVars, listenerVars
  <2>3. DOMAIN at' = Threads /\ at'[Updater] = at[Updater]
    BY <1>0, <1>4 DEF BufferIsGuarded, WorkerStep, TimerFires, BeginOnTimer, N!BeginOnTimer,
                      VisitConverter, N!VisitConverter, EndOnTimer, N!EndOnTimer,
                      MessageArrives, CallbackReturns, CallbackThrows, nodeVars
  <2> QED
    BY <2>1, <2>2, <2>3 DEF BufferIsGuarded
<1>5. CASE MainStep
  <2>1. UNCHANGED <<at, pc>>
    BY <1>5 DEF MainStep, SpawnViewer, Construct, SpinReturns, StopUpdater, R!Stop, Join,
                LeaveNode, DestroyBuffer, JoinListener, nodeVars, runnerVars
  <2>2. main' \in {"release", "unlisten"} => pc = "done"
    BY <1>5 DEF BufferIsGuarded, MainStep, SpawnViewer, Construct, SpinReturns, StopUpdater,
                Join, R!Joinable, LeaveNode, DestroyBuffer, JoinListener
  <2>3. /\ main' \in {"spin", "destroy", "join", "release"} => buffer'
        /\ listening' => buffer' \/ main' = "unlisten"
    <3>1. CASE Construct
      BY <3>1, Zenon DEF Construct
    <3>2. CASE DestroyBuffer
      BY <3>2 DEF DestroyBuffer
    <3>3. CASE JoinListener
      BY <3>3 DEF JoinListener, listenerVars
    <3>4. CASE SpawnViewer \/ SpinReturns \/ StopUpdater \/ Join \/ LeaveNode
      BY <3>4 DEF BufferIsGuarded, SpawnViewer, SpinReturns, StopUpdater, Join, LeaveNode,
                  listenerVars
    <3> QED
      BY <1>5, <3>1, <3>2, <3>3, <3>4 DEF MainStep
  <2> QED
    BY <2>1, <2>2, <2>3 DEF BufferIsGuarded
<1>6. CASE ListenerReturns
  <2>1. UNCHANGED <<at, pc, main, buffer>> /\ ~listening'
    BY <1>6 DEF ListenerReturns, nodeVars, runnerVars
  <2> QED
    BY <2>1 DEF BufferIsGuarded
<1>7. CASE GraphChange \/ Shutdown
  BY <1>1, <1>7 DEF GraphChange, R!GraphChange, Shutdown, R!Shutdown, nodeVars, listenerVars
<1>8. CASE UNCHANGED vars
  BY <1>1, <1>8 DEF vars, nodeVars, runnerVars, listenerVars
<1> QED
  BY <1>2, <1>3, <1>4, <1>5, <1>6, <1>7, <1>8 DEF Next, UpdaterStep

-----------------------------------------------------------------------------
\* What is proved of Node, carried over to the composed program, and what follows
\* for its types and for its end: the theorems of NodeProofs hold for any threads
\* that use the Node as N!Spec says, and those of the program do.
NP == INSTANCE NodeProofs

-----------------------------------------------------------------------------
\* NodeProofs speaks of the same Node.

LEMMA NoThreadIsNone == NoThread \notin Threads
  BY ThreadsAssumption DEF Threads

LEMMA SameInit == N!Init => NP!Init
  BY DEF N!Init, NP!Init, N!EmptyMap, NP!EmptyMap

LEMMA SameNext == [N!Next]_(N!vars) => [NP!Next]_(NP!vars)
  BY DEF N!Next, NP!Next, N!vars, NP!vars, N!Graphs, NP!Graphs, N!TopicsOf, NP!TopicsOf,
         N!Pair, NP!Pair, N!Live, NP!Live, N!At, NP!At, N!Lock, NP!Lock, N!Unlock, NP!Unlock,
         N!Survivors, NP!Survivors, N!BeginUpdate, NP!BeginUpdate,
         N!Missing, NP!Missing, N!Kept, NP!Kept, N!Created, NP!Created, N!Put, NP!Put,
         N!UpdateTopic, NP!UpdateTopic, N!EndUpdate, NP!EndUpdate,
         N!BeginOnTimer, NP!BeginOnTimer, N!VisitConverter, NP!VisitConverter,
         N!EndOnTimer, NP!EndOnTimer, N!Held, NP!Held

\* The inductive invariant of Node holds all through the program.
LEMMA NodeInvariant == Spec => [](NP!IInv /\ NP!WholeUpdate)
<1>1. N!Spec => NP!Spec
  BY SameInit, SameNext, PTL DEF N!Spec, NP!Spec
<1>2. NP!Spec => []NP!IInv
  BY NP!Invariance, NoThreadIsNone, SupportedAssumption
<1>3. NP!Spec => []NP!WholeUpdate
  BY NP!UpdatesAreWhole, NoThreadIsNone, SupportedAssumption
<1> QED
  BY <1>1, <1>2, <1>3, UsesNodeWell, PTL DEF ImplementsNode

-----------------------------------------------------------------------------
\* The two invariants of the beginning and the end, which need each other.

LEMMA InitRest == Init => RestOutsideSpin
<1> SUFFICES ASSUME Init PROVE RestOutsideSpin
  OBVIOUS
<1>1. \A w \in Workers : Idle(w)
  BY ThreadsAssumption DEF Init, N!Init, Idle, Threads
<1> QED
  BY <1>1 DEF Init, N!Init, R!Init, RestOutsideSpin, Idle

LEMMA NextRest == RestOutsideSpin /\ BufferIsGuarded /\ [Next]_vars => RestOutsideSpin'
<1> SUFFICES ASSUME RestOutsideSpin, BufferIsGuarded, [Next]_vars PROVE RestOutsideSpin'
  OBVIOUS
<1>0. /\ Workers \subseteq Threads /\ Updater \in Threads
      /\ Updater \notin Workers /\ NoThread \notin Workers
  BY ThreadsAssumption DEF Threads
<1>1. ASSUME UNCHANGED <<at, group, serving, main, pc, buffer>> PROVE RestOutsideSpin'
  BY <1>1 DEF RestOutsideSpin, Idle
<1>2. CASE ~Ended /\ RunnerStep
  <2>1. /\ UNCHANGED <<at, group, serving, main, buffer>>
        /\ main \notin {"start", "init", "exited"}
    BY <1>2 DEF RunnerStep, Ended, nodeVars, executorVars, listenerVars
  <2> QED
    BY <2>1 DEF RestOutsideSpin, Idle
<1>3. CASE ~Ended /\ (BeginUpdate \/ UpdateTopic \/ EndUpdate)
  <2>1. /\ UNCHANGED <<group, serving, main, buffer>> /\ DOMAIN at' = Threads
        /\ \A w \in Workers : at'[w] = at[w]
        /\ pc = "update" /\ main # "exited"
    BY <1>0, <1>3 DEF RestOutsideSpin, BufferIsGuarded, Ended, BeginUpdate, N!BeginUpdate,
                      UpdateTopic, N!UpdateTopic, EndUpdate, N!EndUpdate, R!UpdateDone,
                      executorVars, listenerVars
  <2> QED
    BY <2>1 DEF RestOutsideSpin, Idle
<1>4. ASSUME NEW w \in Workers, ~Ended, WorkerStep(w)
      PROVE  RestOutsideSpin'
  <2>1. main = "spin" /\ buffer
    BY <1>4, WorkersInSpin DEF BufferIsGuarded
  <2>2. /\ DOMAIN at' = Threads /\ DOMAIN serving' = Workers
        /\ main' \in {"spin", "aborted"} /\ buffer' = buffer
    BY <1>4, <2>1 DEF RestOutsideSpin, WorkerStep, TimerFires, BeginOnTimer, N!BeginOnTimer,
                      VisitConverter, N!VisitConverter, EndOnTimer, N!EndOnTimer,
                      MessageArrives, CallbackReturns, CallbackThrows, nodeVars, executorVars,
                      listenerVars
  <2> QED
    BY <2>1, <2>2 DEF RestOutsideSpin
<1>5. CASE ~Ended /\ MainStep
  <2>1. UNCHANGED <<at, group, serving, pc>>
    BY <1>5 DEF MainStep, SpawnViewer, Construct, SpinReturns, StopUpdater, R!Stop, Join,
                LeaveNode, DestroyBuffer, JoinListener, nodeVars, runnerVars, executorVars
  <2>2. main' \notin {"spin", "aborted"} => \A w \in Workers : Idle(w)
    BY <1>5 DEF RestOutsideSpin, MainStep, SpawnViewer, Construct, SpinReturns, StopUpdater,
                Join, LeaveNode, DestroyBuffer, JoinListener
  <2>3. main' \in {"start", "init"} => pc = "loop"
    BY <1>5 DEF RestOutsideSpin, MainStep, SpawnViewer, Construct, SpinReturns, StopUpdater,
                Join, LeaveNode, DestroyBuffer, JoinListener
  <2>4. main' = "exited" => pc \in {"loop", "done"}
    BY <1>5 DEF RestOutsideSpin, BufferIsGuarded, MainStep, SpawnViewer, Construct, SpinReturns,
                StopUpdater, Join, LeaveNode, DestroyBuffer, JoinListener
  <2>5. ASSUME NEW w \in Workers, at[w] = "visiting" PROVE buffer'
    <3>1. main \in {"spin", "aborted"}
      BY <2>5 DEF RestOutsideSpin, Idle
    <3> QED
      BY <1>5, <2>5, <3>1 DEF RestOutsideSpin, Ended, MainStep, SpawnViewer, Construct,
                              SpinReturns, StopUpdater, Join, LeaveNode, DestroyBuffer,
                              JoinListener, listenerVars
  <2> QED
    BY <2>1, <2>2, <2>3, <2>4, <2>5 DEF RestOutsideSpin, BufferIsGuarded, Idle
<1>6. CASE ListenerReturns \/ GraphChange \/ Shutdown
  BY <1>1, <1>6 DEF ListenerReturns, GraphChange, R!GraphChange, Shutdown, R!Shutdown, nodeVars,
                    runnerVars, executorVars, listenerVars
<1>7. CASE UNCHANGED vars
  BY <1>1, <1>7 DEF vars, nodeVars, runnerVars, executorVars, listenerVars
<1> QED
  BY <1>2, <1>3, <1>4, <1>5, <1>6, <1>7 DEF Next, UpdaterStep

LEMMA AtRest == Spec => [](RestOutsideSpin /\ BufferIsGuarded)
  BY InitRest, NextRest, InitGuarded, NextGuarded, PTL DEF Spec

\* The buffer of the transforms goes after every user of it but one: the thread of
\* the listener, while main waits for it in the listener's destructor.
THEOREM BufferGoesLast == Spec => []BufferOutlivesUsers
<1>1. RestOutsideSpin /\ BufferIsGuarded => BufferOutlivesUsers
  BY DEF RestOutsideSpin, BufferIsGuarded, BufferOutlivesUsers
<1> QED
  BY <1>1, AtRest, PTL

\* When main is past the join, or has not come up at all, no thread is inside
\* the Node: the mutex is free and the last update was a whole one.
THEOREM QuietInTheEnd == Spec => []QuietAtExit
<1>1. NP!IInv /\ NP!WholeUpdate /\ RestOutsideSpin /\ BufferIsGuarded => QuietAtExit
  <2> SUFFICES ASSUME NP!IInv, NP!WholeUpdate, RestOutsideSpin, BufferIsGuarded,
                      main \in {"release", "unlisten", "exited"}
               PROVE  mutex = NoThread /\ N!WholeUpdate /\ at[Updater] = "outside"
    BY DEF QuietAtExit
  <2>1. at[Updater] = "outside"
    BY DEF RestOutsideSpin, BufferIsGuarded
  <2>2. \A p \in Threads : at[p] = "outside"
    BY <2>1 DEF RestOutsideSpin, Idle, Threads
  <2>3. mutex = NoThread
    BY <2>2 DEF NP!IInv, NP!TypeOK, NP!OwnerInside
  <2>4. N!WholeUpdate
    BY DEF N!WholeUpdate, NP!WholeUpdate, N!TopicsOf, NP!TopicsOf, N!Pair, NP!Pair,
                N!Live, NP!Live
  <2> QED
    BY <2>1, <2>3, <2>4
<1> QED
  BY <1>1, NodeInvariant, AtRest, PTL

-----------------------------------------------------------------------------
\* The types of what is not the Node's.
OwnTypes ==
    /\ R!TypeOK
    /\ group \in Workers \cup {NoThread}
    /\ serving \in [Workers -> N!Converters \cup {NoConverter}]
    /\ main \in {"start", "init", "spin", "destroy", "join", "release", "unlisten",
                "exited", "aborted"}
    /\ buffer \in BOOLEAN /\ listening \in BOOLEAN

LEMMA InitTyped == Init => OwnTypes
  BY RosGraphsAssumption DEF Init, R!Init, OwnTypes, R!TypeOK

LEMMA NextTyped == OwnTypes /\ N!TypeOK /\ [Next]_vars => OwnTypes'
<1> SUFFICES ASSUME OwnTypes, N!TypeOK, [Next]_vars PROVE OwnTypes'
  OBVIOUS
<1>1. ASSUME UNCHANGED <<group, serving, main, buffer, listening>>, R!TypeOK'
      PROVE  OwnTypes'
  BY <1>1 DEF OwnTypes
<1>2. ASSUME UNCHANGED runnerVars PROVE R!TypeOK'
  BY <1>2 DEF OwnTypes, R!TypeOK, runnerVars
<1>3. CASE UpdaterStep
  <2>1. UNCHANGED <<group, serving, main, buffer, listening>>
    BY <1>3 DEF UpdaterStep, RunnerStep, BeginUpdate, UpdateTopic, EndUpdate, executorVars,
                listenerVars
  <2>2. R!TypeOK'
    <3>1. CASE RunnerStep \/ EndUpdate
      BY <3>1 DEF OwnTypes, R!TypeOK, RunnerStep, R!Step, R!LoopCheck, R!Register,
                  R!RegisterThrows, R!WaitNotified, R!WaitTimeout, R!RunCheck, R!Query,
                  R!QueryThrows, EndUpdate, R!UpdateDone
    <3>2. CASE BeginUpdate \/ UpdateTopic
      BY <1>2, <3>2 DEF BeginUpdate, UpdateTopic
    <3> QED
      BY <1>3, <3>1, <3>2 DEF UpdaterStep
  <2> QED
    BY <1>1, <2>1, <2>2
<1>4. ASSUME NEW w \in Workers, WorkerStep(w)
      PROVE  OwnTypes'
  <2>1. UNCHANGED <<buffer, listening>> /\ R!TypeOK' /\ main' \in {main, "aborted"}
    BY <1>2, <1>4 DEF WorkerStep, TimerFires, BeginOnTimer, VisitConverter, EndOnTimer,
                      MessageArrives, CallbackReturns, CallbackThrows, listenerVars
  <2>2. group' \in Workers \cup {NoThread}
    BY <1>4 DEF OwnTypes, WorkerStep, TimerFires, TakeGroup, BeginOnTimer, VisitConverter,
                EndOnTimer, MessageArrives, CallbackReturns, CallbackThrows, executorVars
  <2>3. serving' \in [Workers -> N!Converters \cup {NoConverter}]
    <3>1. N!Live \subseteq N!Converters
      BY DEF N!TypeOK, N!Live
    <3> QED
      BY <1>4, <3>1 DEF OwnTypes, WorkerStep, TimerFires, BeginOnTimer, VisitConverter,
                        EndOnTimer, MessageArrives, CallbackReturns, CallbackThrows, executorVars
  <2> QED
    BY <2>1, <2>2, <2>3 DEF OwnTypes
<1>5. CASE MainStep
  <2>1. UNCHANGED <<group, serving>> /\ R!TypeOK'
    BY <1>5 DEF OwnTypes, R!TypeOK, MainStep, SpawnViewer, Construct, SpinReturns, StopUpdater,
                R!Stop, Join, LeaveNode, DestroyBuffer, JoinListener, executorVars, runnerVars
  <2>2. main' \in {"start", "init", "spin", "destroy", "join", "release", "unlisten",
                   "exited", "aborted"}
    BY <1>5 DEF MainStep, SpawnViewer, Construct, SpinReturns, StopUpdater, Join, LeaveNode,
                DestroyBuffer, JoinListener
  <2>3. buffer' \in BOOLEAN /\ listening' \in BOOLEAN
    <3>1. ok \in BOOLEAN
      BY DEF OwnTypes, R!TypeOK
    <3>2. CASE Construct
      BY <3>1, <3>2, Zenon DEF Construct
    <3>3. CASE MainStep /\ ~Construct
      BY <3>3 DEF OwnTypes, MainStep, SpawnViewer, SpinReturns, StopUpdater, Join, LeaveNode,
                  DestroyBuffer, JoinListener, listenerVars
    <3> QED
      BY <1>5, <3>2, <3>3
  <2> QED
    BY <2>1, <2>2, <2>3 DEF OwnTypes
<1>6. CASE ListenerReturns
  BY <1>2, <1>6 DEF OwnTypes, ListenerReturns, executorVars
<1>7. CASE GraphChange \/ Shutdown
  BY <1>1, <1>7 DEF OwnTypes, R!TypeOK, GraphChange, R!GraphChange, Shutdown, R!Shutdown,
                    executorVars, listenerVars
<1>8. CASE UNCHANGED vars
  BY <1>1, <1>2, <1>8 DEF vars, executorVars, listenerVars
<1> QED
  BY <1>3, <1>4, <1>5, <1>6, <1>7, <1>8 DEF Next

\* The whole state of the program keeps its types.
THEOREM TypeCorrect == Spec => []TypeOK
<1>1. NP!IInv => N!TypeOK
  BY DEF NP!IInv, NP!TypeOK, N!TypeOK, NP!Converters, N!Converters, NP!Graphs, N!Graphs
<1>2. OwnTypes /\ N!TypeOK => TypeOK
  BY DEF OwnTypes, TypeOK
<1> QED
  BY <1>1, <1>2, NodeInvariant, InitTyped, NextTyped, PTL DEF Spec

=============================================================================
