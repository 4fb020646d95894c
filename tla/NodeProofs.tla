----------------------------- MODULE NodeProofs -----------------------------
(***************************************************************************)
(* Proofs about Node, for any topics, types, factory, and set of threads.  *)
(***************************************************************************)
EXTENDS Node, TLAPS

-----------------------------------------------------------------------------
\* Type correctness.

LEMMA InitTyped == Init => TypeOK
BY DEF Init, TypeOK, EmptyMap, Graphs

LEMMA TopicTyped ==
    ASSUME TypeOK, NEW p \in Threads, NEW t \in todo, NEW failed, NEW held,
           UpdateTopic(p, t, failed, held)
    PROVE  TypeOK'
<1> USE DEF TypeOK
<1>1. t \in Topics
  OBVIOUS
<1>2. PICK address \in [Missing(t) \ failed -> Addresses] :
          subscriptions' = Put(subscriptions, t, Kept(t) \cup Created(t, address))
  BY DEF UpdateTopic
<1>3. Kept(t) \subseteq Converters
  BY DEF Kept, At
<1>4. Created(t, address) \subseteq Converters
  BY <1>1, <1>2, SupportedAssumption DEF Created, Missing, Converters
<1>5. /\ DOMAIN subscriptions' \subseteq Topics
      /\ subscriptions' \in [DOMAIN subscriptions' -> SUBSET Converters]
  BY <1>1, <1>2, <1>3, <1>4 DEF Put
<1>6. missed' \in Graphs
  BY SupportedAssumption DEF UpdateTopic, Missing, Graphs
<1> QED
  BY <1>5, <1>6 DEF UpdateTopic, Graphs, Converters

LEMMA StepTyped == TypeOK /\ [Next]_vars => TypeOK'
<1> SUFFICES ASSUME TypeOK, [Next]_vars PROVE TypeOK'
  OBVIOUS
<1>1. ASSUME NEW p \in Threads, NEW G \in Graphs, BeginUpdate(p, G) PROVE TypeOK'
  BY <1>1 DEF TypeOK, BeginUpdate, Lock, Survivors, TopicsOf, Graphs, Converters
<1>2. ASSUME NEW p \in Threads, NEW t \in todo, NEW failed \in SUBSET Missing(t),
             UpdateTopic(p, t, failed, Held)
      PROVE  TypeOK'
  BY <1>2, TopicTyped
<1>3. ASSUME NEW p \in Threads, EndUpdate(p) \/ EndOnTimer(p) PROVE TypeOK'
  BY <1>3 DEF TypeOK, EndUpdate, EndOnTimer, Unlock, Graphs, Converters
<1>4. ASSUME NEW p \in Threads, BeginOnTimer(p) PROVE TypeOK'
  <2>1. Live \subseteq Converters
    BY DEF TypeOK, Live
  <2> QED
    BY <1>4, <2>1 DEF TypeOK, BeginOnTimer, Lock, Graphs, Converters
<1>5. ASSUME NEW p \in Threads, NEW k \in visit[p], VisitConverter(p, k) PROVE TypeOK'
  BY <1>5 DEF TypeOK, VisitConverter, Graphs, Converters
<1>6. CASE UNCHANGED vars
  BY <1>6 DEF TypeOK, vars, Graphs, Converters
<1> QED
  BY <1>1, <1>2, <1>3, <1>4, <1>5, <1>6 DEF Next

\* Map, mutex and threads keep their types under any interleaving.
THEOREM TypeCorrect == Spec => []TypeOK
BY InitTyped, StepTyped, PTL DEF Spec

-----------------------------------------------------------------------------
\* The inductive invariant.

\* The mutex belongs to the one thread that is inside the Node.
OwnerInside == \A p \in Threads : at[p] # "outside" <=> mutex = p

\* Only an update leaves topics to go through.
TodoWhileUpdating == todo # {} => \E p \in Threads : at[p] = "updating"

\* Only on_timer leaves converters to visit.
VisitWhileVisiting == \A p \in Threads : visit[p] # {} => at[p] = "visiting"

\* The part of graph G that concerns topic t.
OfTopic(G, t) == {pair \in G : pair[1] = t}

\* The topics the update has been through match its graph; those it has not
\* been through are ones of its graph, too, and it has missed nothing of them.
Progress ==
    /\ DOMAIN subscriptions \subseteq TopicsOf(wanted)
    /\ todo \subseteq TopicsOf(wanted)
    /\ TopicsOf(wanted) \ todo \subseteq DOMAIN subscriptions
    /\ \A pair \in missed : pair[1] \notin todo
    /\ \A t \in TopicsOf(wanted) \ todo :
           {Pair(k) : k \in subscriptions[t]} = OfTopic(wanted \cap Supported, t) \ missed

\* A converter is of a pair the factory supports.
AllSupported == \A k \in Live : Pair(k) \in Supported

IInv == /\ TypeOK
        /\ OwnerInside
        /\ TodoWhileUpdating
        /\ VisitWhileVisiting
        /\ Progress
        /\ AllSupported
        /\ OneConverterPerType
        /\ TimerVisitsLive

LEMMA InitIInv == Init => IInv
BY InitTyped, NoThreadAssumption
   DEF Init, IInv, OwnerInside, TodoWhileUpdating, VisitWhileVisiting, Progress, AllSupported,
       OneConverterPerType, TimerVisitsLive, EmptyMap, Live, TopicsOf

\* Erasing the topics that are gone.
LEMMA BeginKeepsIInv ==
    ASSUME IInv, NEW p \in Threads, NEW G \in Graphs, BeginUpdate(p, G), TypeOK'
    PROVE  IInv'
<1> USE DEF IInv, TypeOK
<1>1. /\ DOMAIN subscriptions' = DOMAIN subscriptions \cap TopicsOf(G)
      /\ \A t \in DOMAIN subscriptions' : subscriptions'[t] = subscriptions[t]
  BY DEF BeginUpdate, Survivors
<1>2. mutex = NoThread /\ mutex' = p /\ at' = [at EXCEPT ![p] = "updating"]
  BY DEF BeginUpdate, Lock
<1>3. wanted' = G /\ todo' = TopicsOf(G) /\ missed' = {} /\ visit' = visit
  BY DEF BeginUpdate
<1>4. \A q \in Threads : at[q] = "outside" /\ visit[q] = {}
  BY <1>2, NoThreadAssumption DEF OwnerInside, VisitWhileVisiting
<1>5. OwnerInside' /\ TodoWhileUpdating' /\ VisitWhileVisiting' /\ TimerVisitsLive'
  BY <1>2, <1>3, <1>4 DEF OwnerInside, TodoWhileUpdating, VisitWhileVisiting, TimerVisitsLive
<1>6. Progress'
  BY <1>1, <1>3 DEF Progress, TopicsOf
<1>7. Live' \subseteq Live
  BY <1>1 DEF Live
<1>8. AllSupported' /\ OneConverterPerType'
  BY <1>1, <1>7 DEF AllSupported, OneConverterPerType, Pair
<1> QED
  BY <1>5, <1>6, <1>8

\* Bringing one topic in line.
LEMMA TopicKeepsIInv ==
    ASSUME IInv, NEW p \in Threads, NEW t \in todo, NEW failed \in SUBSET Missing(t),
           UpdateTopic(p, t, failed, Held), TypeOK'
    PROVE  IInv'
<1> USE DEF IInv, TypeOK
<1>1. PICK address \in [Missing(t) \ failed -> Addresses] :
          subscriptions' = Put(subscriptions, t, Kept(t) \cup Created(t, address))
  BY DEF UpdateTopic
<1> DEFINE New(pair) == [topic |-> t, type |-> pair[2], address |-> address[pair]]
           created == {New(pair) : pair \in Missing(t) \ failed}
<1>2. Created(t, address) = created
  BY <1>1 DEF Created
<1>3. /\ at[p] = "updating" /\ at' = at /\ mutex' = mutex /\ wanted' = wanted /\ visit' = visit
      /\ todo' = todo \ {t} /\ missed' = missed \cup failed
  BY DEF UpdateTopic
<1>4. /\ DOMAIN subscriptions' = DOMAIN subscriptions \cup {t}
      /\ subscriptions'[t] = Kept(t) \cup created
      /\ \A u \in DOMAIN subscriptions \ {t} : subscriptions'[u] = subscriptions[u]
  BY <1>1, <1>2 DEF Put
<1>5. \A pair \in Missing(t) \ failed : Pair(New(pair)) = pair /\ New(pair).topic = t
                                        /\ New(pair).type = pair[2]
  <2>1. \A pair \in Missing(t) : pair \in Topics \X Types /\ pair[1] = t
    BY SupportedAssumption DEF Missing
  <2> QED
    BY <2>1 DEF Pair
<1>6. \A k \in Kept(t) : k \in At(t) /\ Pair(k) \in wanted /\ Pair(k) \in Supported
                         /\ k.topic = t /\ Pair(k)[1] = t
  <2> SUFFICES ASSUME NEW k \in Kept(t)
               PROVE  k \in At(t) /\ Pair(k) \in wanted /\ Pair(k) \in Supported
                      /\ k.topic = t /\ Pair(k)[1] = t
    OBVIOUS
  <2>1. k \in At(t) /\ Pair(k) \in wanted
    BY DEF Kept
  <2>2. t \in DOMAIN subscriptions /\ k \in subscriptions[t]
    BY <2>1 DEF At
  <2>3. k \in Live
    BY <2>2 DEF Live
  <2>4. k.topic = t
    BY <2>2 DEF OneConverterPerType
  <2> QED
    BY <2>1, <2>3, <2>4 DEF AllSupported, Pair
<1>7. {Pair(k) : k \in subscriptions'[t]} = OfTopic(wanted \cap Supported, t) \ missed'
  <2>1. \A k \in created : Pair(k) \in Missing(t) \ failed
    BY <1>5
  <2>2. ASSUME NEW pair \in OfTopic(wanted \cap Supported, t) \ missed'
        PROVE  \E k \in subscriptions'[t] : Pair(k) = pair
    <3>1. CASE pair \in Missing(t)
      <4>1. New(pair) \in created /\ Pair(New(pair)) = pair
        BY <1>3, <1>5, <2>2, <3>1
      <4> QED
        BY <1>4, <4>1
    <3>2. CASE pair \notin Missing(t)
      BY <1>4, <3>2 DEF OfTopic, Missing, Kept
    <3> QED
      BY <3>1, <3>2
  <2>3. ASSUME NEW k \in subscriptions'[t]
        PROVE  Pair(k) \in OfTopic(wanted \cap Supported, t) \ missed'
    <3>1. \A pair \in OfTopic(wanted, t) : pair \notin missed
      BY DEF Progress, OfTopic
    <3>2. CASE k \in Kept(t)
      <4>1. Pair(k) \notin failed
        BY <1>6, <3>2 DEF Missing
      <4> QED
        BY <1>3, <1>6, <3>1, <3>2, <4>1 DEF OfTopic
    <3>3. CASE k \in created
      BY <1>3, <2>1, <3>1, <3>3 DEF OfTopic, Missing
    <3> QED
      BY <1>4, <3>2, <3>3
  <2> QED
    BY <2>2, <2>3
<1>8. Progress'
  <2>1. t \in TopicsOf(wanted) /\ TopicsOf(wanted)' = TopicsOf(wanted)
    BY <1>3 DEF Progress, TopicsOf
  <2>2. \A pair \in failed : pair[1] = t
    BY DEF Missing
  <2>3. ASSUME NEW u \in TopicsOf(wanted) \ todo
        PROVE  {Pair(k) : k \in subscriptions'[u]} = OfTopic(wanted \cap Supported, u) \ missed'
    <3>1. u # t /\ u \in DOMAIN subscriptions /\ subscriptions'[u] = subscriptions[u]
      BY <1>4, <2>3 DEF Progress
    <3>2. {Pair(k) : k \in subscriptions[u]} = OfTopic(wanted \cap Supported, u) \ missed
      BY <2>3 DEF Progress
    <3>3. OfTopic(wanted \cap Supported, u) \ missed = OfTopic(wanted \cap Supported, u) \ missed'
      BY <1>3, <2>2, <3>1 DEF OfTopic
    <3> QED
      BY <3>1, <3>2, <3>3
  <2>4. ASSUME NEW u \in TopicsOf(wanted) \ todo'
        PROVE  {Pair(k) : k \in subscriptions'[u]} = OfTopic(wanted \cap Supported, u) \ missed'
    BY <1>3, <1>7, <2>3
  <2>5. /\ DOMAIN subscriptions' \subseteq TopicsOf(wanted)
        /\ todo' \subseteq TopicsOf(wanted)
        /\ TopicsOf(wanted) \ todo' \subseteq DOMAIN subscriptions'
        /\ \A pair \in missed' : pair[1] \notin todo'
    BY <1>3, <1>4, <2>1, <2>2 DEF Progress
  <2> QED
    BY <1>3, <2>1, <2>4, <2>5 DEF Progress, OfTopic, Pair
<1>9. AllSupported'
  <2>1. \A k \in created : Pair(k) \in Supported
    BY <1>5 DEF Missing
  <2>2. \A k \in subscriptions'[t] : Pair(k) \in Supported
    BY <1>4, <1>6, <2>1
  <2>3. \A k \in Live' : k \in Live \/ k \in subscriptions'[t]
    BY <1>4 DEF Live
  <2> QED
    BY <2>2, <2>3 DEF AllSupported, Pair
<1>10. OneConverterPerType'
  <2>1. \A k, l \in subscriptions'[t] : k.topic = t /\ (k.type = l.type => k = l)
    <3>1. \A k \in Kept(t), pair \in Missing(t) \ failed : k.type # New(pair).type
      <4> SUFFICES ASSUME NEW k \in Kept(t), NEW pair \in Missing(t) \ failed
                   PROVE  k.type # New(pair).type
        OBVIOUS
      <4>1. Pair(k) # pair /\ k.topic = t /\ pair \in Topics \X Types /\ pair[1] = t
        BY <1>6, SupportedAssumption DEF Missing
      <4> QED
        BY <1>5, <4>1 DEF Pair
    <3>2. \A pair1, pair2 \in Missing(t) \ failed :
              New(pair1).type = New(pair2).type => pair1 = pair2
      <4>1. \A pair \in Missing(t) : pair \in Topics \X Types /\ pair[1] = t
        BY SupportedAssumption DEF Missing
      <4> QED
        BY <1>5, <4>1
    <3>3. \A k, l \in Kept(t) : k.topic = t /\ (k.type = l.type => k = l)
      BY DEF Kept, At, OneConverterPerType
    <3> QED
      BY <1>4, <1>5, <3>1, <3>2, <3>3
  <2> QED
    BY <1>4, <2>1 DEF OneConverterPerType
<1>11. OwnerInside' /\ TodoWhileUpdating' /\ VisitWhileVisiting'
  BY <1>3 DEF OwnerInside, TodoWhileUpdating, VisitWhileVisiting
<1>12. TimerVisitsLive'
  <2>1. \A q \in Threads : visit[q] = {}
    BY <1>3 DEF OwnerInside, VisitWhileVisiting
  <2> QED
    BY <1>3, <2>1 DEF TimerVisitsLive
<1> QED
  BY <1>8, <1>9, <1>10, <1>11, <1>12

LEMMA EndKeepsIInv ==
    ASSUME IInv, NEW p \in Threads, EndUpdate(p) \/ EndOnTimer(p), TypeOK'
    PROVE  IInv'
<1> USE DEF IInv, TypeOK
<1>1. /\ mutex' = NoThread /\ at' = [at EXCEPT ![p] = "outside"] /\ at[p] # "outside"
      /\ UNCHANGED <<subscriptions, wanted, todo, missed, visit>>
  BY DEF EndUpdate, EndOnTimer, Unlock
<1>2. \A q \in Threads \ {p} : at[q] = "outside"
  BY <1>1 DEF OwnerInside
<1>3. OwnerInside'
  BY <1>1, <1>2, NoThreadAssumption DEF OwnerInside
<1>4. todo = {}
  BY <1>2 DEF EndUpdate, EndOnTimer, TodoWhileUpdating
<1>5. visit[p] = {}
  BY DEF EndUpdate, EndOnTimer, VisitWhileVisiting
<1>6. TodoWhileUpdating' /\ VisitWhileVisiting'
  BY <1>1, <1>4, <1>5 DEF TodoWhileUpdating, VisitWhileVisiting
<1> QED
  BY <1>1, <1>3, <1>6 DEF Progress, OfTopic, TopicsOf, AllSupported, OneConverterPerType,
                          TimerVisitsLive, Live, Pair

LEMMA TimerKeepsIInv ==
    ASSUME IInv, NEW p \in Threads, BeginOnTimer(p) \/ (\E k \in visit[p] : VisitConverter(p, k)),
           TypeOK'
    PROVE  IInv'
<1> USE DEF IInv, TypeOK
<1>1. UNCHANGED <<subscriptions, wanted, todo, missed>>
  BY DEF BeginOnTimer, VisitConverter
<1>2. Progress' /\ AllSupported' /\ OneConverterPerType' /\ Live' = Live
  BY <1>1 DEF Progress, OfTopic, TopicsOf, AllSupported, OneConverterPerType, Live, Pair
<1>3. CASE BeginOnTimer(p)
  <2>1. /\ mutex = NoThread /\ mutex' = p /\ at' = [at EXCEPT ![p] = "visiting"]
        /\ visit' = [visit EXCEPT ![p] = Live]
    BY <1>3 DEF BeginOnTimer, Lock
  <2>2. \A q \in Threads : at[q] = "outside"
    BY <2>1, NoThreadAssumption DEF OwnerInside
  <2>3. todo = {}
    BY <2>2 DEF TodoWhileUpdating
  <2> QED
    BY <1>1, <1>2, <2>1, <2>2, <2>3
       DEF OwnerInside, TodoWhileUpdating, VisitWhileVisiting, TimerVisitsLive
<1>4. CASE \E k \in visit[p] : VisitConverter(p, k)
  <2>1. PICK k \in visit[p] : VisitConverter(p, k)
    BY <1>4
  <2>2. UNCHANGED <<mutex, at>> /\ visit' = [visit EXCEPT ![p] = @ \ {k}]
    BY <2>1 DEF VisitConverter
  <2> QED
    BY <1>1, <1>2, <2>2 DEF OwnerInside, TodoWhileUpdating, VisitWhileVisiting, TimerVisitsLive
<1> QED
  BY <1>3, <1>4

LEMMA StepIInv == IInv /\ [Next]_vars => IInv'
<1> SUFFICES ASSUME IInv, [Next]_vars PROVE IInv'
  OBVIOUS
<1>1. TypeOK'
  BY StepTyped DEF IInv
<1>2. ASSUME NEW p \in Threads, NEW G \in Graphs, BeginUpdate(p, G) PROVE IInv'
  BY <1>1, <1>2, BeginKeepsIInv
<1>3. ASSUME NEW p \in Threads, NEW t \in todo, NEW failed \in SUBSET Missing(t),
             UpdateTopic(p, t, failed, Held)
      PROVE  IInv'
  BY <1>1, <1>3, TopicKeepsIInv
<1>4. ASSUME NEW p \in Threads, EndUpdate(p) \/ EndOnTimer(p) PROVE IInv'
  BY <1>1, <1>4, EndKeepsIInv
<1>5. ASSUME NEW p \in Threads,
             BeginOnTimer(p) \/ (\E k \in visit[p] : VisitConverter(p, k))
      PROVE  IInv'
  BY <1>1, <1>5, TimerKeepsIInv
<1>6. CASE UNCHANGED vars
  BY <1>1, <1>6 DEF IInv, vars, OwnerInside, TodoWhileUpdating, VisitWhileVisiting, Progress,
                    OfTopic, TopicsOf, AllSupported, OneConverterPerType, TimerVisitsLive,
                    Live, Pair
<1> QED
  BY <1>2, <1>3, <1>4, <1>5, <1>6 DEF Next

LEMMA Invariance == Spec => []IInv
BY InitIInv, StepIInv, PTL DEF Spec

-----------------------------------------------------------------------------
\* What follows.

\* The timer never asks a converter that an update has destroyed, whatever the
\* number of threads that call updateSubscriptions and on_timer.
THEOREM TimerIsSafe == Spec => []TimerVisitsLive
BY Invariance, PTL DEF IInv

\* A topic never has two converters of one type.
THEOREM ConvertersAreUnique == Spec => []OneConverterPerType
BY Invariance, PTL DEF IInv

\* Who takes the mutex finds the result of a whole update.
THEOREM UpdatesAreWhole == Spec => []WholeUpdate
<1>1. IInv => WholeUpdate
  <2> SUFFICES ASSUME IInv, mutex = NoThread
               PROVE  /\ DOMAIN subscriptions = TopicsOf(wanted)
                      /\ {Pair(k) : k \in Live} = (wanted \cap Supported) \ missed
    BY DEF WholeUpdate
  <2> USE DEF IInv
  <2>1. todo = {}
    BY NoThreadAssumption DEF OwnerInside, TodoWhileUpdating
  <2>2. DOMAIN subscriptions = TopicsOf(wanted)
    BY <2>1 DEF Progress
  <2>3. \A t \in DOMAIN subscriptions :
          {Pair(k) : k \in subscriptions[t]} = OfTopic(wanted \cap Supported, t) \ missed
    BY <2>1, <2>2 DEF Progress
  <2>4. ASSUME NEW k \in Live PROVE Pair(k) \in (wanted \cap Supported) \ missed
    <3>1. PICK t \in DOMAIN subscriptions : k \in subscriptions[t]
      BY DEF Live
    <3> QED
      BY <2>3, <3>1 DEF OfTopic
  <2>5. ASSUME NEW pair \in (wanted \cap Supported) \ missed
        PROVE  \E k \in Live : Pair(k) = pair
    <3>1. pair[1] \in DOMAIN subscriptions
      BY <2>2 DEF TopicsOf
    <3>2. pair \in {Pair(k) : k \in subscriptions[pair[1]]}
      BY <2>3, <3>1 DEF OfTopic
    <3> QED
      BY <3>1, <3>2 DEF Live
  <2> QED
    BY <2>2, <2>4, <2>5
<1> QED
  BY <1>1, Invariance, PTL

\* No step destroys or replaces a converter of a pair that stays advertised.
THEOREM ConvertersAreKept == Spec => KeptWhileAdvertised
<1> DEFINE Kept1 == \A k \in Live : Pair(k) \in wanted' => k \in Live'
<1>1. IInv /\ [Next]_vars => Kept1
  <2> SUFFICES ASSUME IInv, [Next]_vars, NEW k \in Live, Pair(k) \in wanted' PROVE k \in Live'
    OBVIOUS
  <2>1. k.topic \in DOMAIN subscriptions /\ k \in subscriptions[k.topic]
    BY DEF IInv, OneConverterPerType, Live
  <2>2. ASSUME NEW p \in Threads, NEW G \in Graphs, BeginUpdate(p, G) PROVE k \in Live'
    <3>1. k.topic \in TopicsOf(G)
      BY <2>2 DEF BeginUpdate, TopicsOf, Pair
    <3>2. k.topic \in DOMAIN subscriptions' /\ subscriptions'[k.topic] = subscriptions[k.topic]
      BY <2>1, <2>2, <3>1 DEF BeginUpdate, Survivors
    <3> QED
      BY <2>1, <3>2 DEF Live
  <2>3. ASSUME NEW p \in Threads, NEW t \in todo, NEW failed \in SUBSET Missing(t),
               UpdateTopic(p, t, failed, Held)
        PROVE  k \in Live'
    <3>1. PICK address \in [Missing(t) \ failed -> Addresses] :
              subscriptions' = Put(subscriptions, t, Kept(t) \cup Created(t, address))
      BY <2>3 DEF UpdateTopic
    <3>2. k.topic = t => k \in Kept(t)
      BY <2>1, <2>3 DEF UpdateTopic, Kept, At
    <3>3. k.topic \in DOMAIN subscriptions' /\ k \in subscriptions'[k.topic]
      BY <2>1, <3>1, <3>2 DEF Put
    <3> QED
      BY <3>3 DEF Live
  <2>4. CASE UNCHANGED subscriptions
    BY <2>4 DEF Live
  <2> QED
    BY <2>2, <2>3, <2>4 DEF Next, EndUpdate, BeginOnTimer, VisitConverter, EndOnTimer, vars
<1>2. Spec => [][Kept1]_vars
  BY <1>1, Invariance, PTL DEF Spec
<1> QED
  BY <1>2, PTL DEF KeptWhileAdvertised

=============================================================================
