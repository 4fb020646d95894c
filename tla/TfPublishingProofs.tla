------------------------- MODULE TfPublishingProofs -------------------------
(***************************************************************************)
(* Proofs about TfPublishing: for any converters, requests and transforms, *)
(* a tick publishes what is asked for and available and nothing else, and  *)
(* a null stream is never used.                                            *)
(***************************************************************************)
EXTENDS TfPublishing, Naturals, TLAPS

\* A request the tick has been through: its lookup may have thrown, or it is out.
Handled(r) ==
    \/ NoTransform \in had[Link(r)]
    \/ \E v \in had[Link(r)] : [path |-> r.path, kind |-> r.kind, value |-> v] \in published

Pending(r) == \E k \in DOMAIN todo : todo[k] = r

\* What the converters that have had their visit asked for is handled or pending.
Visited ==
    at = "tick" =>
        \A c \in Converters \ visit : \A i \in DOMAIN requests[c] :
            Handled(requests[c][i]) \/ Pending(requests[c][i])

\* had keeps up with the buffer.
HadBuffer == at = "tick" => \A l \in Links : buffer[l] \in had[l]

\* The tick handles only what the converters hold.
TodoIsAsked == \A k \in DOMAIN todo : todo[k] \in AllRequests

\* Without a stream there is nothing to publish.
Silent == ~stream => todo = <<>> /\ \A c \in Converters : requests[c] = <<>>

IInv == /\ TypeOK /\ Visited /\ HadBuffer /\ TodoIsAsked /\ Silent
        /\ TickIsSound /\ NullStreamUnused

-----------------------------------------------------------------------------
\* The members of a sequence are its head and the members of its tail.
LEMMA HeadAndTail ==
    ASSUME NEW S, NEW s \in Seq(S), s # <<>>
    PROVE  /\ Head(s) \in S /\ Tail(s) \in Seq(S)
           /\ 1 \in DOMAIN s /\ s[1] = Head(s)
           /\ \A k \in DOMAIN s : s[k] = Head(s) \/ \E j \in DOMAIN Tail(s) : Tail(s)[j] = s[k]
           /\ \A j \in DOMAIN Tail(s) : \E k \in DOMAIN s : s[k] = Tail(s)[j]
<1>1. Len(s) \in Nat /\ Len(s) >= 1 /\ DOMAIN s = 1 .. Len(s)
  OBVIOUS
<1>2. /\ Tail(s) \in Seq(S) /\ Len(Tail(s)) = Len(s) - 1
      /\ DOMAIN Tail(s) = 1 .. Len(s) - 1
      /\ \A j \in 1 .. Len(s) - 1 : Tail(s)[j] = s[j + 1]
  BY <1>1
<1>3. ASSUME NEW k \in DOMAIN s
      PROVE  s[k] = Head(s) \/ \E j \in DOMAIN Tail(s) : Tail(s)[j] = s[k]
  <2>1. CASE k = 1
    BY <2>1, <1>1
  <2>2. CASE k # 1
    <3>1. k - 1 \in 1 .. Len(s) - 1 /\ (k - 1) + 1 = k
      BY <2>2, <1>1
    <3>2. Tail(s)[k - 1] = s[k]
      BY <3>1, <1>2
    <3> QED
      BY <3>1, <3>2, <1>2
  <2> QED
    BY <2>1, <2>2
<1>4. ASSUME NEW j \in DOMAIN Tail(s)
      PROVE  \E k \in DOMAIN s : s[k] = Tail(s)[j]
  <2>1. j + 1 \in DOMAIN s /\ s[j + 1] = Tail(s)[j]
    BY <1>1, <1>2
  <2> QED
    BY <2>1
<1> QED
  BY <1>1, <1>2, <1>3, <1>4

\* A request a converter can hold is one of a camera or one of the robot.
LEMMA PossibleCases ==
    \A r : r \in PossibleRequests <=>
        \/ \E c \in Cameras : /\ Namespace[c] # NoNamespace
                              /\ \E f \in CameraFrames : r = CameraRequest(c, f)
        \/ \E i \in DOMAIN RobotRequests : r = RobotRequests[i]
<1>1. \A r : r \in UNION {CameraRequests(c) : c \in NamedCameras}
                 <=> \E c \in NamedCameras : r \in CameraRequests(c)
  BY Zenon
<1>2. \A r, c : r \in CameraRequests(c) <=> \E f \in CameraFrames : r = CameraRequest(c, f)
  BY DEF CameraRequests
<1>3. \A c : c \in NamedCameras <=> c \in Cameras /\ Namespace[c] # NoNamespace
  BY DEF NamedCameras
<1> QED
  BY <1>1, <1>2, <1>3 DEF PossibleRequests

\* Every request a converter can hold names a lookup the buffer knows.
LEMMA PossibleLinks == \A r \in PossibleRequests : Link(r) \in Links
<1> SUFFICES ASSUME NEW r \in PossibleRequests PROVE Link(r) \in Links
  OBVIOUS
<1>1. CASE \E i \in DOMAIN RobotRequests : r = RobotRequests[i]
  BY <1>1 DEF Links
<1>2. CASE \E c \in Cameras : \E f \in CameraFrames : r = CameraRequest(c, f)
  <2>1. PICK c \in Cameras, f \in CameraFrames : r = CameraRequest(c, f)
    BY <1>2
  <2>2. Link(r) = <<FixedFrame, f>>
    BY <2>1 DEF CameraRequest, Request, Link
  <2> QED
    BY <2>2 DEF Links
<1> QED
  BY <1>1, <1>2, PossibleCases

-----------------------------------------------------------------------------
\* The invariant holds initially.
LEMMA InitIInv == Init => IInv
<1> SUFFICES ASSUME Init PROVE IInv
  OBVIOUS
<1>1. TypeOK
  BY DEF Init, TypeOK
<1>2. Visited /\ HadBuffer /\ Silent /\ TickIsSound /\ NullStreamUnused
  BY DEF Init, Visited, HadBuffer, Silent, TickIsSound, NullStreamUnused
<1>3. TodoIsAsked
  BY DEF Init, TodoIsAsked
<1> QED
  BY <1>1, <1>2, <1>3 DEF IInv

\* A message changes the requests of one converter while no tick is on.
LEMMA MessageKeeps ==
    ASSUME IInv, at = "idle", NEW c \in Converters, NEW new \in Seq(PossibleRequests),
           Requested(c, new),
           UNCHANGED <<stream, buffer, at, visit, todo, published, had>>
    PROVE  IInv'
<1>1. requests' \in [Converters -> Seq(PossibleRequests)]
  BY DEF IInv, TypeOK, Requested
<1>2. TypeOK'
  BY <1>1 DEF IInv, TypeOK
<1>3. Visited' /\ HadBuffer' /\ TickIsSound' /\ NullStreamUnused'
  BY DEF IInv, TypeOK, Visited, HadBuffer, TickIsSound, NullStreamUnused
<1>4. todo' = <<>>
  BY DEF IInv, TypeOK
<1>5. TodoIsAsked'
  BY <1>4 DEF TodoIsAsked
<1>6. Silent'
  BY <1>4 DEF IInv, TypeOK, Silent, Requested
<1> QED
  BY <1>2, <1>3, <1>5, <1>6 DEF IInv

\* A handled request leaves the rest of the tick as it was.
LEMMA StepKeeps ==
    ASSUME IInv, at = "tick", todo # <<>>, todo' = Tail(todo),
           NEW r, r = Head(todo), Handled(r)', at' = "tick",
           published \subseteq published',
           \A e \in published' \ published : e = Entity(r),
           UNCHANGED <<stream, requests, buffer, visit, had>>
    PROVE  IInv'
<1>0. TypeOK
  BY DEF IInv
<1>1. /\ r \in PossibleRequests /\ Tail(todo) \in Seq(PossibleRequests)
      /\ 1 \in DOMAIN todo /\ todo[1] = r
      /\ \A k \in DOMAIN todo : todo[k] = r \/ \E j \in DOMAIN Tail(todo) : Tail(todo)[j] = todo[k]
      /\ \A j \in DOMAIN Tail(todo) : \E k \in DOMAIN todo : todo[k] = Tail(todo)[j]
  <2>1. todo \in Seq(PossibleRequests)
    BY <1>0 DEF TypeOK
  <2> QED
    BY <2>1, HeadAndTail
<1>2. TypeOK'
  BY <1>0, <1>1 DEF TypeOK
<1>3. Visited'
  <2> SUFFICES ASSUME NEW c \in Converters \ visit, NEW i \in DOMAIN requests[c]
               PROVE  Handled(requests[c][i])' \/ Pending(requests[c][i])'
    BY DEF Visited
  <2>1. CASE Handled(requests[c][i])
    BY <2>1 DEF Handled
  <2>2. CASE Pending(requests[c][i])
    <3>1. requests[c][i] = r \/ \E j \in DOMAIN Tail(todo) : Tail(todo)[j] = requests[c][i]
      BY <2>2, <1>1 DEF Pending
    <3> QED
      BY <3>1 DEF Pending, Handled
  <2>3. Handled(requests[c][i]) \/ Pending(requests[c][i])
    BY DEF IInv, Visited
  <2> QED
    BY <2>1, <2>2, <2>3
<1>4. HadBuffer'
  BY DEF IInv, HadBuffer
<1>5. r \in AllRequests
  BY <1>1 DEF IInv, TodoIsAsked
<1>6. TodoIsAsked'
  BY <1>1 DEF IInv, TodoIsAsked, AllRequests
<1>7. TickIsSound'
  <2> SUFFICES ASSUME NEW e \in published'
               PROVE  \E q \in AllRequests :
                          e.path = q.path /\ e.kind = q.kind /\ e.value \in had[Link(q)]
    BY DEF TickIsSound, AllRequests
  <2>1. CASE e \in published
    BY <2>1 DEF IInv, TickIsSound
  <2>2. CASE e \notin published
    <3>1. e = Entity(r)
      BY <2>2
    <3>2. buffer[Link(r)] \in had[Link(r)]
      BY <1>1, PossibleLinks DEF IInv, HadBuffer
    <3> QED
      BY <3>1, <3>2, <1>5 DEF Entity
  <2> QED
    BY <2>1, <2>2
<1>8. stream
  BY DEF IInv, Silent, TypeOK
<1>9. Silent' /\ NullStreamUnused'
  BY <1>8 DEF Silent, NullStreamUnused
<1> QED
  BY <1>2, <1>3, <1>4, <1>6, <1>7, <1>9 DEF IInv

-----------------------------------------------------------------------------
\* Every step keeps the invariant.
LEMMA NextIInv == IInv /\ [Next]_vars => IInv'
<1> SUFFICES ASSUME IInv, [Next]_vars PROVE IInv'
  OBVIOUS
<1>0. TypeOK /\ Visited /\ HadBuffer /\ TodoIsAsked /\ Silent /\ TickIsSound /\ NullStreamUnused
  BY DEF IInv
<1>1. ASSUME NEW c \in Cameras, NEW f \in CameraFrames, CameraMessage(c, f)
      PROVE  IInv'
  <2> DEFINE r == CameraRequest(c, f)
  <2>1. r \in PossibleRequests /\ c \in Converters
    BY <1>1, PossibleCases DEF CameraMessage, Converters
  <2>2. <<r>> \in Seq(PossibleRequests)
    BY <2>1
  <2>3. /\ at = "idle" /\ Requested(c, <<r>>)
        /\ UNCHANGED <<stream, buffer, at, visit, todo, published, had>>
    BY <1>1 DEF CameraMessage
  <2> QED
    BY <2>1, <2>2, <2>3, MessageKeeps
<1>2. CASE RobotMessage
  <2>1. RobotRequests \in Seq(PossibleRequests)
    <3> DEFINE OfRobot == {RobotRequests[i] : i \in DOMAIN RobotRequests}
    <3>1. OfRobot \subseteq PossibleRequests
      BY PossibleCases
    <3>2. RobotRequests \in Seq(OfRobot)
      BY RobotAssumption
    <3> HIDE DEF OfRobot
    <3> QED
      BY <3>1, <3>2
  <2>2. Robot \in Converters
    BY DEF Converters
  <2> QED
    BY <1>2, <2>1, <2>2, MessageKeeps DEF RobotMessage
<1>3. ASSUME NEW l \in Links, NEW v \in Values \cup {NoTransform}, Listen(l, v)
      PROVE  IInv'
  <2>1. /\ buffer' \in [Links -> Values \cup {NoTransform}]
        /\ had' \in [Links -> SUBSET (Values \cup {NoTransform})]
    BY <1>0, <1>3 DEF TypeOK, Listen
  <2>2. TypeOK'
    BY <2>1, <1>0, <1>3 DEF TypeOK, Listen
  <2>3. \A k \in Links : had[k] \subseteq had'[k]
    BY <1>0, <1>3 DEF TypeOK, Listen
  <2>4. HadBuffer'
    BY <1>0, <1>3 DEF TypeOK, Listen, HadBuffer
  <2>5. \A q \in AllRequests : Link(q) \in Links
    BY <1>0, PossibleLinks DEF TypeOK, AllRequests
  <2>6. TickIsSound'
    <3> SUFFICES ASSUME at = "tick", NEW e \in published
                 PROVE  \E q \in AllRequests :
                            e.path = q.path /\ e.kind = q.kind /\ e.value \in had'[Link(q)]
      BY <1>3 DEF TickIsSound, AllRequests, Listen
    <3> QED
      BY <1>0, <2>3, <2>5 DEF TickIsSound
  <2>7. Visited'
    <3> SUFFICES ASSUME at = "tick", NEW c \in Converters \ visit,
                        NEW i \in DOMAIN requests[c]
                 PROVE  Handled(requests[c][i])' \/ Pending(requests[c][i])'
      BY <1>3 DEF Visited, Listen
    <3>1. requests[c][i] \in AllRequests
      BY DEF AllRequests
    <3>2. Handled(requests[c][i]) \/ Pending(requests[c][i])
      BY <1>0 DEF Visited
    <3>3. had[Link(requests[c][i])] \subseteq had'[Link(requests[c][i])]
      BY <3>1, <2>3, <2>5
    <3> QED
      BY <3>2, <3>3, <1>3 DEF Handled, Pending, Listen
  <2>8. TodoIsAsked' /\ Silent' /\ NullStreamUnused'
    BY <1>0, <1>3 DEF TodoIsAsked, AllRequests, Silent, NullStreamUnused, Listen
  <2> QED
    BY <2>2, <2>4, <2>6, <2>7, <2>8 DEF IInv
<1>4. CASE BeginTick
  <2>1. TypeOK' /\ HadBuffer'
    BY <1>0, <1>4 DEF TypeOK, HadBuffer, BeginTick
  <2>2. Visited' /\ TickIsSound'
    BY <1>4 DEF Visited, TickIsSound, BeginTick
  <2>3. TodoIsAsked' /\ Silent' /\ NullStreamUnused'
    BY <1>0, <1>4 DEF TodoIsAsked, AllRequests, Silent, NullStreamUnused, BeginTick
  <2> QED
    BY <2>1, <2>2, <2>3 DEF IInv
<1>5. ASSUME NEW c \in Converters, VisitConverter(c)
      PROVE  IInv'
  <2>1. TypeOK' /\ HadBuffer'
    BY <1>0, <1>5 DEF TypeOK, HadBuffer, VisitConverter
  <2>2. Visited'
    <3> SUFFICES ASSUME NEW d \in Converters \ visit', NEW i \in DOMAIN requests[d]
                 PROVE  Handled(requests[d][i])' \/ Pending(requests[d][i])'
      BY <1>5 DEF Visited, VisitConverter
    <3>1. CASE d = c
      BY <3>1, <1>5 DEF Pending, VisitConverter
    <3>2. CASE d # c
      <4>1. Handled(requests[d][i]) \/ Pending(requests[d][i])
        BY <3>2, <1>0, <1>5 DEF Visited, VisitConverter
      <4>2. ~Pending(requests[d][i])
        BY <1>5 DEF Pending, VisitConverter
      <4> QED
        BY <4>1, <4>2, <1>5 DEF Handled, VisitConverter
    <3> QED
      BY <3>1, <3>2
  <2>3. TickIsSound' /\ NullStreamUnused' /\ Silent'
    BY <1>0, <1>5 DEF TickIsSound, AllRequests, NullStreamUnused, Silent, VisitConverter
  <2>4. TodoIsAsked'
    BY <1>5 DEF TodoIsAsked, AllRequests, VisitConverter
  <2> QED
    BY <2>1, <2>2, <2>3, <2>4 DEF IInv
<1>6. CASE Publish
  <2>0. PICK r : r = Head(todo)
    OBVIOUS
  <2>1. stream
    BY <1>0, <1>6 DEF Silent, Publish, TypeOK
  <2>2. r \in PossibleRequests
    BY <1>0, <1>6, <2>0, HeadAndTail DEF TypeOK, Publish
  <2>3. buffer[Link(r)] \in had[Link(r)]
    BY <1>0, <1>6, <2>0, <2>2, PossibleLinks DEF HadBuffer, Publish
  <2>4. Handled(r)'
    BY <2>0, <2>3, <1>6 DEF Handled, Entity, Publish
  <2>5. /\ at = "tick" /\ todo # <<>> /\ todo' = Tail(todo) /\ at' = "tick"
        /\ published \subseteq published'
        /\ \A e \in published' \ published : e = Entity(r)
        /\ UNCHANGED <<stream, requests, buffer, visit, had>>
    BY <1>6, <2>0, <2>1 DEF Publish, Rest
  <2> QED
    BY <2>0, <2>4, <2>5, StepKeeps
<1>7. CASE LookupThrows
  <2>0. PICK r : r = Head(todo)
    OBVIOUS
  <2>1. r \in PossibleRequests
    BY <1>0, <1>7, <2>0, HeadAndTail DEF TypeOK, LookupThrows
  <2>2. NoTransform \in had[Link(r)]
    BY <1>0, <1>7, <2>0, <2>1, PossibleLinks DEF HadBuffer, LookupThrows
  <2>3. Handled(r)'
    BY <2>2, <1>7 DEF Handled, LookupThrows
  <2>4. /\ at = "tick" /\ todo # <<>> /\ todo' = Tail(todo) /\ at' = "tick"
        /\ published' = published
        /\ UNCHANGED <<stream, requests, buffer, visit, had>>
    BY <1>7 DEF LookupThrows, Rest
  <2> QED
    BY <2>0, <2>3, <2>4, StepKeeps
<1>8. CASE EndTick
  <2>1. TypeOK'
    BY <1>0, <1>8 DEF TypeOK, EndTick
  <2>2. /\ Visited' /\ HadBuffer' /\ TodoIsAsked' /\ Silent' /\ TickIsSound'
        /\ NullStreamUnused'
    BY <1>0, <1>8 DEF Visited, HadBuffer, TodoIsAsked, AllRequests, Silent, TickIsSound,
                      NullStreamUnused, EndTick
  <2> QED
    BY <2>1, <2>2 DEF IInv
<1>9. CASE UNCHANGED vars
  <2>1. TypeOK' /\ HadBuffer' /\ NullStreamUnused' /\ Silent'
    BY <1>0, <1>9 DEF vars, TypeOK, HadBuffer, NullStreamUnused, Silent
  <2>2. Visited'
    BY <1>0, <1>9 DEF vars, Visited, Handled, Pending
  <2>3. TodoIsAsked' /\ TickIsSound'
    BY <1>0, <1>9 DEF vars, TodoIsAsked, AllRequests, TickIsSound
  <2> QED
    BY <2>1, <2>2, <2>3 DEF IInv
<1>10. ASSUME NEW c \in Cameras, CameraSkipped(c)
       PROVE  IInv'
  BY <1>9, <1>10 DEF CameraSkipped
<1>11. ASSUME NEW c \in Converters, Recreate(c)
       PROVE  IInv'
  <2>1. Requested(c, <<>>)
    <3>1. ~stream => requests[c] = <<>>
      BY <1>0 DEF Silent
    <3> QED
      BY <3>1, <1>0, <1>11 DEF Requested, Recreate, TypeOK
  <2>2. /\ at = "idle" /\ <<>> \in Seq(PossibleRequests)
        /\ UNCHANGED <<stream, buffer, at, visit, todo, published, had>>
    BY <1>11 DEF Recreate
  <2> QED
    BY <2>1, <2>2, MessageKeeps
<1> QED
  BY <1>1, <1>2, <1>3, <1>4, <1>5, <1>6, <1>7, <1>8, <1>9, <1>10, <1>11 DEF Next, Tick

\* The invariant holds in every reachable state.
THEOREM Inductive == Spec => []IInv
<1>1. Init => IInv
  BY InitIInv
<1>2. IInv /\ [Next]_vars => IInv'
  BY NextIInv
<1> QED
  BY <1>1, <1>2, PTL DEF Spec

\* Requests, buffer and the state of the tick keep their types.
THEOREM TypeCorrect == Spec => []TypeOK
<1>1. IInv => TypeOK
  BY DEF IInv
<1> QED
  BY <1>1, Inductive, PTL

\* handleTfRequest never runs on a null stream, although it does not look.
THEOREM NullStreamIsUnused == Spec => []NullStreamUnused
<1>1. IInv => NullStreamUnused
  BY DEF IInv
<1> QED
  BY <1>1, Inductive, PTL

\* A tick publishes nothing that is not asked for, and nothing out of date.
THEOREM TicksAreSound == Spec => []TickIsSound
<1>1. IInv => TickIsSound
  BY DEF IInv
<1> QED
  BY <1>1, Inductive, PTL

\* A tick that ends has published every request whose transform was there all
\* the time, for any number of converters and requests and any failing lookups.
THEOREM TicksAreComplete == Spec => TickIsComplete
<1> DEFINE Complete ==
        at = "tick" /\ at' = "idle" =>
            \A r \in AllRequests :
                NoTransform \notin had[Link(r)] =>
                    \E v \in had[Link(r)] :
                        [path |-> r.path, kind |-> r.kind, value |-> v] \in published
<1>1. IInv /\ [Next]_vars => [Complete]_vars
  <2> SUFFICES ASSUME IInv, Next, at = "tick", at' = "idle",
                      NEW r \in AllRequests, NoTransform \notin had[Link(r)]
               PROVE  \E v \in had[Link(r)] :
                          [path |-> r.path, kind |-> r.kind, value |-> v] \in published
    OBVIOUS
  <2>1. EndTick
    BY DEF Next, Tick, CameraMessage, CameraSkipped, RobotMessage, Recreate, Listen, BeginTick,
           VisitConverter, Publish, LookupThrows
  <2>2. PICK c \in Converters : \E i \in DOMAIN requests[c] : r = requests[c][i]
    BY DEF AllRequests
  <2>3. ~Pending(r) /\ visit = {}
    BY <2>1 DEF EndTick, Pending
  <2>4. Handled(r)
    BY <2>2, <2>3 DEF IInv, Visited
  <2> QED
    BY <2>4 DEF Handled
<1> QED
  BY <1>1, Inductive, PTL DEF Spec, TickIsComplete

=============================================================================
