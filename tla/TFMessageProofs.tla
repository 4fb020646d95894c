-------------------------- MODULE TFMessageProofs ---------------------------
(***************************************************************************)
(* Proofs about TFMessage, for any frames whose ids do not hold the        *)
(* separator and any messages.                                             *)
(***************************************************************************)
EXTENDS TFMessage, TFGraphProofs, FiniteSetTheorems, SequenceTheorems

-----------------------------------------------------------------------------
\* What logToRerun logs.

\* The child is what follows the separator of a key.
LEMMA ChildOfKey ==
    ASSUME ArrowFree, NEW p \in Frames, NEW c \in Frames
    PROVE  ChildOf(Key(p, c)) = c
<1> DEFINE T == Tokens \cup {Arrow}
           k == Key(p, c)
<1>1. p \in Seq(T) /\ c \in Seq(T) /\ <<Arrow>> \in Seq(T)
  BY FramesAssumption
<1>2. /\ k \in Seq(T) /\ Len(k) = Len(p) + 1 + Len(c) /\ Len(p) \in Nat /\ Len(c) \in Nat
      /\ \A i \in 1 .. Len(p) : k[i] = p[i]
      /\ k[Len(p) + 1] = Arrow
      /\ \A i \in 1 .. Len(c) : k[Len(p) + 1 + i] = c[i]
  BY <1>1 DEF Key
<1>3. DOMAIN k = 1 .. Len(k) /\ DOMAIN p = 1 .. Len(p)
  BY <1>1, <1>2
<1> HIDE DEF k, T
<1>4. ArrowPos(k) = Len(p) + 1
  <2>1. Len(p) + 1 \in DOMAIN k /\ \A j \in 1 .. Len(p) + 1 - 1 : k[j] # Arrow
    BY <1>2, <1>3 DEF ArrowFree
  <2>2. ASSUME NEW i \in DOMAIN k, k[i] = Arrow, \A j \in 1 .. i - 1 : k[j] # Arrow
        PROVE  i = Len(p) + 1
    <3>1. ~(i <= Len(p))
      BY <1>2, <1>3, <2>2 DEF ArrowFree
    <3>2. ~(i > Len(p) + 1)
      <4>1. i > Len(p) + 1 => Len(p) + 1 \in 1 .. i - 1
        BY <1>2, <1>3
      <4> QED
        BY <1>2, <2>2, <4>1
    <3> QED
      BY <1>2, <1>3, <3>1, <3>2
  <2> QED
    BY <1>2, <2>1, <2>2 DEF ArrowPos
<1> DEFINE m == Len(p) + 2
           n == Len(k)
           s == SubSeq(k, m, n)
<1>5. m \in Int /\ n \in Int /\ n - m + 1 = Len(c) /\ \A i \in m .. n : k[i] \in T
  BY <1>2, <1>3
<1>6. /\ s \in Seq(T)
      /\ Len(s) = IF m <= n THEN n - m + 1 ELSE 0
      /\ \A i \in 1 .. n - m + 1 : s[i] = k[m + i - 1]
  <2> HIDE DEF m, n
  <2> QED
    BY <1>5, SubSeqProperties
<1>7. Len(s) = Len(c)
  BY <1>2, <1>5, <1>6
<1>8. ASSUME NEW i \in 1 .. Len(c) PROVE s[i] = c[i]
  <2>1. m + i - 1 = Len(p) + 1 + i
    BY <1>2
  <2> QED
    BY <1>2, <1>5, <1>6, <2>1
<1>9. s = c
  <2> HIDE DEF s
  <2> QED
    BY <1>1, <1>6, <1>7, <1>8, SeqEqual
<1>10. ArrowPos(k) + 1 = m
  BY <1>2, <1>4
<1> QED
  BY <1>9, <1>10 DEF ChildOf, k

\* Each frame that has a parent has one entity, and there are no others.
LEMMA KeysAreLinks ==
    ASSUME ArrowFree, Consistent
    PROVE  DOMAIN transforms = {Key(parents[f], f) : f \in DOMAIN parents}
<1> USE DEF Consistent, Shape
<1>1. ASSUME NEW k \in DOMAIN transforms
      PROVE  \E f \in DOMAIN parents : k = Key(parents[f], f)
  <2>1. PICK p \in Frames, c \in Frames : k = Key(p, c)
    BY DEF TypeOK, Keys
  <2>2. HasChild(p, c)
    BY <2>1 DEF TransformPerLink
  <2>3. c \in DOMAIN parents /\ parents[c] = p
    BY <2>2 DEF ReverseLookup, HasChild
  <2> QED
    BY <2>1, <2>3
<1>2. ASSUME NEW f \in DOMAIN parents
      PROVE  Key(parents[f], f) \in DOMAIN transforms
  BY DEF ParentListsChild, TransformPerLink, TypeOK
<1> QED
  BY <1>1, <1>2

\* The entity of a frame that has a parent.
EntityOf(f) == [path |-> EntityPath(f), value |-> transforms[Key(parents[f], f)].value]

LEMMA LoggedEntities ==
    ASSUME ArrowFree, Consistent
    PROVE  LogToRerun = {EntityOf(f) : f \in DOMAIN parents}
<1>1. DOMAIN transforms = {Key(parents[f], f) : f \in DOMAIN parents}
  BY KeysAreLinks
<1>2. ASSUME NEW f \in DOMAIN parents
      PROVE  ChildOf(Key(parents[f], f)) = f
  BY ChildOfKey DEF Consistent, Shape, TypeOK
<1> QED
  BY <1>1, <1>2 DEF LogToRerun, EntityOf

\* The path of a frame's entity starts at a root and follows the links down.
LEMMA PathOfEntity ==
    ASSUME Consistent, NEW f \in Frames
    PROVE  LET e == EntityPath(f)
           IN  /\ e \in Seq(Frames) /\ Len(e) \in Nat /\ Len(e) >= 1
               /\ e[1] \notin DOMAIN parents
               /\ e[Len(e)] = f
               /\ \A i \in 1 .. Len(e) - 1 : parents[e[i + 1]] = e[i]
<1> DEFINE up == PathToRoot(f)
           n == Len(up)
           e == EntityPath(f)
<1>1. IsWay(up, f)
  BY PathToRootIsWay DEF Consistent, Shape
<1> HIDE DEF up
<1>2. n \in Nat /\ n >= 1 /\ DOMAIN up = 1 .. n /\ \A i \in 1 .. n : up[i] \in Frames
  BY <1>1 DEF IsWay
<1>3. e = [i \in 1 .. n |-> up[n + 1 - i]]
  BY <1>2 DEF EntityPath, up
<1> HIDE DEF e, n
<1>4. \A i \in 1 .. n : n + 1 - i \in 1 .. n
  BY <1>2
<1>5. e \in Seq(Frames) /\ Len(e) = n
  BY <1>2, <1>3, <1>4
<1>6. e[1] = up[n] /\ e[n] = up[1]
  BY <1>2, <1>3
<1>7. ASSUME NEW i \in 1 .. n - 1 PROVE parents[e[i + 1]] = e[i]
  <2>1. /\ n - i \in 1 .. n - 1 /\ i \in 1 .. n /\ i + 1 \in 1 .. n
        /\ n + 1 - i = n - i + 1 /\ n + 1 - (i + 1) = n - i
    BY <1>2
  <2>2. e[i] = up[n - i + 1] /\ e[i + 1] = up[n - i]
    BY <1>3, <2>1
  <2> QED
    BY <1>1, <2>1, <2>2 DEF IsWay, n
<1> QED
  BY <1>1, <1>2, <1>5, <1>6, <1>7 DEF IsWay, e, n

\* Once the graph is logged, exactly its frames with a parent have an entity,
\* each one entity.
LEMMA GraphIsLogged ==
    ASSUME ArrowFree, Consistent, IsFiniteSet(DOMAIN parents), logged = LogToRerun
    PROVE  TreeIsLogged
<1>1. DOMAIN parents \subseteq Frames
  BY DEF Consistent, Shape, TypeOK
<1>2. logged = {EntityOf(f) : f \in DOMAIN parents}
  BY LoggedEntities
<1>3. ASSUME NEW f \in DOMAIN parents
      PROVE  /\ EntityOf(f) \in logged
             /\ IsEntityOf(EntityOf(f), f)
             /\ EntityOf(f).value = transforms[Key(parents[f], f)].value
  BY <1>1, <1>2, PathOfEntity DEF IsEntityOf, EntityOf
<1> DEFINE entity == [f \in DOMAIN parents |-> EntityOf(f)]
<1>4. ASSUME NEW f \in DOMAIN parents, NEW g \in DOMAIN parents, EntityOf(f) = EntityOf(g)
      PROVE  f = g
  BY <1>3, <1>4 DEF IsEntityOf
<1>5. entity \in Bijection(DOMAIN parents, logged)
  <2> HIDE DEF EntityOf
  <2>1. entity \in [DOMAIN parents -> logged]
    BY <1>3
  <2>2. \A f, g \in DOMAIN parents : entity[f] = entity[g] => f = g
    BY <1>4
  <2>3. \A e \in logged : \E f \in DOMAIN parents : entity[f] = e
    BY <1>2
  <2> QED
    BY <2>1, <2>2, <2>3 DEF Bijection, Injection, IsInjective, Surjection
<1>6. Cardinality(logged) = Cardinality(DOMAIN parents)
  BY <1>5, FS_Bijection DEF ExistsBijection
<1> QED
  BY <1>3, <1>6 DEF TreeIsLogged

-----------------------------------------------------------------------------
\* The inductive invariant.

\* What is left of a message is the end of one, or nothing.
Rest == \E m \in Messages \cup {<<>>} : \E i \in 1 .. Len(m) + 1 : todo = SubSeq(m, i, Len(m))

\* A callback that has returned has logged the graph as it is.
Logged == at = "idle" => logged = LogToRerun

\* All that is logged is typed, whenever it was logged.
LoggedTyped == \A e \in logged : e.path \in Seq(Frames) /\ e.value \in Values

SenderTyped == settled = {} \/ \E m \in Messages : settled = {m}

MessageInv ==
    /\ Consistent
    /\ IsFiniteSet(DOMAIN parents)
    /\ at \in {"idle", "loop"} /\ (at = "idle" => todo = <<>>)
    /\ Rest
    /\ Logged
    /\ LoggedTyped
    /\ SenderTyped

-----------------------------------------------------------------------------
\* Messages.

\* What is left of a message once its first transform is taken.
LEMMA TailIsRest ==
    ASSUME Rest, todo # <<>>
    PROVE  /\ todo \in Seq(TransformData)
           /\ Head(todo) \in TransformData
           /\ \E m \in Messages : \E i \in 1 .. Len(m) + 1 : Tail(todo) = SubSeq(m, i, Len(m))
<1>1. PICK m \in Messages \cup {<<>>} : \E i \in 1 .. Len(m) + 1 : todo = SubSeq(m, i, Len(m))
  BY DEF Rest
<1>2. PICK i \in 1 .. Len(m) + 1 : todo = SubSeq(m, i, Len(m))
  BY <1>1
<1> DEFINE n == Len(m)
<1>3. m \in Seq(TransformData) /\ n \in Nat
  <2>1. <<>> \in Seq(TransformData)
    OBVIOUS
  <2>2. m \in Seq(TransformData)
    BY <2>1, MessagesAssumption
  <2> QED
    BY <2>2
<1>4. i \in 1 .. n
  <2>1. i # n + 1
    <3>1. i = n + 1 => n < i /\ i \in Int
      BY <1>3
    <3> QED
      BY <1>2, <1>3, <3>1, SubSeqEmpty
  <2> QED
    BY <1>2, <1>3, <2>1
<1>5. m \in Messages
  BY <1>3, <1>4
<1>6. n \in i .. n
  BY <1>3, <1>4
<1>7. Head(todo) = m[i] /\ Tail(todo) = SubSeq(m, i + 1, n)
  BY <1>2, <1>3, <1>4, <1>6, HeadTailOfSubSeq
<1>8. \A k \in i .. n : m[k] \in TransformData
  BY <1>3, <1>4
<1>9. todo \in Seq(TransformData)
  <2>1. i \in Int /\ n \in Int
    BY <1>3
  <2> HIDE DEF n
  <2> QED
    BY <1>2, <1>8, <2>1, SubSeqProperties DEF n
<1>10. i + 1 \in 1 .. n + 1 /\ m[i] \in TransformData
  BY <1>3, <1>4
<1> QED
  BY <1>5, <1>7, <1>9, <1>10

LEMMA WholeIsRest ==
    ASSUME NEW m \in Messages
    PROVE  \E i \in 1 .. Len(m) + 1 : m = SubSeq(m, i, Len(m))
<1>1. m \in Seq(TransformData) /\ 1 \in 1 .. Len(m) + 1
  BY MessagesAssumption
<1> QED
  BY <1>1, SubSeqFull

\* What is logged is typed: every key of transforms_ gives a frame.
LEMMA LogTyped ==
    ASSUME ArrowFree, Consistent
    PROVE  \A e \in LogToRerun : e.path \in Seq(Frames) /\ e.value \in Values
<1>1. ASSUME NEW f \in DOMAIN parents
      PROVE  /\ EntityPath(f) \in Seq(Frames)
             /\ transforms[Key(parents[f], f)].value \in Values
  <2>1. f \in Frames
    BY DEF Consistent, Shape, TypeOK
  <2>2. Key(parents[f], f) \in DOMAIN transforms
    BY KeysAreLinks
  <2>3. transforms[Key(parents[f], f)] \in TransformData
    BY <2>2 DEF Consistent, Shape, TypeOK
  <2> QED
    BY <2>1, <2>3, PathOfEntity DEF TransformData
<1> QED
  BY <1>1, LoggedEntities DEF EntityOf

LEMMA SameLog ==
    ASSUME UNCHANGED <<children, parents, transforms>>
    PROVE  LogToRerun' = LogToRerun /\ (Consistent => Consistent')
<1>1. LogToRerun' = LogToRerun
  BY DEF LogToRerun, EntityPath, PathToRoot, ChildOf, ArrowPos
<1>2. Consistent => Consistent'
  BY ConstantSets DEF Consistent, Shape, TypeOK, Acyclic, ParentListsChild, WalkToRootEnds,
     TransformPerLink, ReverseLookup, HasChild, ChildrenOf, Key
<1> QED
  BY <1>1, <1>2

\* addTransform keeps all that the mapping to the forest rests on.
LEMMA AddConsistent ==
    ASSUME ArrowFree, Consistent, NEW p \in Frames, NEW c \in Frames, NEW v \in Values,
           AddTransform(p, c, v)
    PROVE  Consistent'
BY AddTyped, AddAcyclic, AddListed, AddWalk, AddLinked, AddReverse DEF Consistent, Shape

LEMMA InitMessage == MessageInit => MessageInv
<1> SUFFICES ASSUME MessageInit PROVE MessageInv
  OBVIOUS
<1> USE DEF MessageInit
<1>1. Consistent
  BY InitTyped, InitShape, InitLinked, InitReverse DEF Consistent, Shape
<1>2. DOMAIN parents = {} /\ DOMAIN transforms = {}
  BY DEF Init, EmptyMap
<1>3. IsFiniteSet(DOMAIN parents) /\ LogToRerun = {}
  BY <1>2, FS_EmptySet DEF LogToRerun
<1>4. Rest
  <2>1. <<>> = SubSeq(<<>>, 1, Len(<<>>)) /\ 1 \in 1 .. Len(<<>>) + 1
    OBVIOUS
  <2> QED
    BY <2>1 DEF Rest
<1> QED
  BY <1>1, <1>3, <1>4 DEF MessageInv, Logged, LoggedTyped, SenderTyped

LEMMA ApplyInv ==
    ASSUME ArrowFree, MessageInv, ApplyTransform
    PROVE  MessageInv'
<1> USE DEF MessageInv, ApplyTransform
<1>1. Head(todo) \in TransformData /\ Rest'
  BY TailIsRest DEF Rest
<1> DEFINE p == Head(todo).parent
           c == Head(todo).child
           v == Head(todo).value
<1>2. p \in Frames /\ c \in Frames /\ v \in Values
  BY <1>1 DEF TransformData
<1>3. Consistent'
  BY <1>2, AddConsistent
<1>4. DOMAIN parents' = DOMAIN parents \cup {c}
  BY DEF AddTransform, Put
<1>5. IsFiniteSet(DOMAIN parents')
  BY <1>4, FS_AddElement
<1>6. Logged' /\ LoggedTyped' /\ SenderTyped'
  BY DEF Logged, LoggedTyped, SenderTyped
<1> QED
  BY <1>1, <1>3, <1>5, <1>6

LEMMA SkipInv ==
    ASSUME MessageInv, SkipTransform
    PROVE  MessageInv'
<1> USE DEF MessageInv, SkipTransform, RejectTransform, vars
<1>1. Rest'
  BY TailIsRest DEF Rest
<1>2. Consistent'
  BY SameLog
<1>3. Logged' /\ LoggedTyped' /\ SenderTyped'
  BY DEF Logged, LoggedTyped, SenderTyped
<1> QED
  BY <1>1, <1>2, <1>3

LEMMA LogInv ==
    ASSUME ArrowFree, MessageInv, LogGraph
    PROVE  MessageInv'
<1> USE DEF MessageInv, LogGraph
<1>1. Consistent' /\ LogToRerun' = LogToRerun
  BY SameLog
<1>2. Logged' /\ LoggedTyped'
  BY <1>1, LogTyped DEF Logged, LoggedTyped
<1>3. Rest' /\ SenderTyped'
  BY DEF Rest, SenderTyped
<1> QED
  BY <1>1, <1>2, <1>3

LEMMA ReceiveMessageInv ==
    ASSUME MessageInv, NEW m \in Messages, Receive(m)
    PROVE  MessageInv'
<1> USE DEF MessageInv, Receive
<1>1. Consistent'
  BY SameLog
<1>2. Rest'
  BY WholeIsRest DEF Rest
<1>3. Logged' /\ LoggedTyped' /\ SenderTyped'
  BY DEF Logged, LoggedTyped, SenderTyped
<1> QED
  BY <1>1, <1>2, <1>3

LEMMA SettleInv ==
    ASSUME MessageInv, NEW m \in Messages, Settle(m)
    PROVE  MessageInv'
<1> USE DEF MessageInv, Settle
<1>1. Consistent' /\ LogToRerun' = LogToRerun
  BY SameLog
<1>2. Rest' /\ Logged' /\ LoggedTyped' /\ SenderTyped'
  BY <1>1 DEF Rest, Logged, LoggedTyped, SenderTyped
<1> QED
  BY <1>1, <1>2

LEMMA MessageStep ==
    ArrowFree /\ MessageInv /\ [MessageNext]_allVars => MessageInv'
<1> SUFFICES ASSUME ArrowFree, MessageInv, [MessageNext]_allVars PROVE MessageInv'
  OBVIOUS
<1>1. CASE UNCHANGED allVars
  <2>1. Consistent' /\ LogToRerun' = LogToRerun
    BY <1>1, SameLog DEF allVars, MessageInv
  <2> QED
    BY <1>1, <2>1 DEF allVars, MessageInv, Rest, Logged, LoggedTyped, SenderTyped
<1> QED
  BY <1>1, ApplyInv, SkipInv, LogInv, ReceiveMessageInv, SettleInv DEF MessageNext, Callback

-----------------------------------------------------------------------------
\* The theorems.

LEMMA MessageInvariance == ASSUME ArrowFree PROVE MessageSpec => []MessageInv
BY InitMessage, MessageStep, PTL DEF MessageSpec

\* The graph of a converter keeps its types, whatever messages it gets and
\* wherever in one it is, and all it logs is typed: every key of transforms_
\* gives back the id of a frame.
THEOREM MessageTypeCorrect == ASSUME ArrowFree PROVE MessageSpec => []MessageTypeOK
<1>1. MessageInv => MessageTypeOK
  <2> SUFFICES ASSUME MessageInv PROVE MessageTypeOK
    OBVIOUS
  <2>1. settled \in SUBSET Messages /\ Cardinality(settled) <= 1
    <3>1. CASE settled = {}
      BY <3>1, FS_EmptySet
    <3>2. CASE \E m \in Messages : settled = {m}
      <4>1. PICK m \in Messages : settled = {m}
        BY <3>2
      <4>2. Cardinality({m}) = 1
        BY FS_Singleton
      <4> QED
        BY <4>1, <4>2
    <3> QED
      BY <3>1, <3>2 DEF MessageInv, SenderTyped
  <2> QED
    BY <2>1 DEF MessageInv, MessageTypeOK, Consistent, Shape, Rest, LoggedTyped
<1> QED
  BY <1>1, MessageInvariance, PTL

\* After a callback the whole tree is logged: each frame that has a parent once,
\* at its path from the root, with the transform of its link, and nothing else.
THEOREM WholeTreeLogged == ASSUME ArrowFree PROVE MessageSpec => []TreeIsLogged
<1>1. ArrowFree /\ MessageInv => TreeIsLogged
  BY GraphIsLogged DEF MessageInv, Logged, TreeIsLogged
<1> QED
  BY <1>1, MessageInvariance, PTL

\* A converter is a caller that keeps to the forest: what a message does to its
\* graph, and what it refuses, is what the abstract forest allows.
THEOREM MessageImplementsForest == ASSUME ArrowFree PROVE MessageSpec => ForestSpec
<1>1. ArrowFree /\ MessageInv /\ [MessageNext]_allVars => [Forest!Next]_Mapped
  <2> SUFFICES ASSUME ArrowFree, MessageInv, [MessageNext]_allVars
               PROVE  [Forest!Next]_Mapped
    OBVIOUS
  <2>1. CASE ApplyTransform
    <3>1. Head(todo) \in TransformData
      BY <2>1, TailIsRest DEF ApplyTransform, MessageInv
    <3>2. PICK p \in Frames, c \in Frames, v \in Values : AddTransform(p, c, v)
      BY <2>1, <3>1 DEF ApplyTransform, TransformData
    <3>3. ~Forest!AtOrAbove(c, p)
      BY <3>2, NotAbove DEF AddTransform, MessageInv, Consistent, Shape
    <3>4. Mapped' = Put(Mapped, c, [parent |-> p, value |-> v])
      BY <3>2, AddMapped DEF MessageInv
    <3>5. Forest!Attach(p, c, v)
      BY <3>3, <3>4 DEF Forest!Attach, Forest!Put, Put, Mapped
    <3> QED
      BY <3>5 DEF Forest!Next
  <2>2. CASE UNCHANGED <<children, parents, transforms>>
    <3>1. Mapped' = Mapped
      BY <2>2 DEF Mapped, Key
    <3> QED
      BY <3>1
  <2> QED
    BY <2>1, <2>2 DEF MessageNext, Callback, SkipTransform, RejectTransform, LogGraph,
       Receive, Settle, vars, allVars
<1>2. MessageInit => Forest!Init
  BY InitForest DEF MessageInit
<1> QED
  BY <1>1, <1>2, MessageInvariance, PTL DEF MessageSpec, ForestSpec, Forest!Spec, Mapped

=============================================================================
