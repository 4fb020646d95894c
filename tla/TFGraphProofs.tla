---------------------------- MODULE TFGraphProofs ---------------------------
(***************************************************************************)
(* Proofs about TFGraph, for any set of frame ids and any bound.           *)
(***************************************************************************)
EXTENDS TFGraph, SequenceTheorems, TLAPS

-----------------------------------------------------------------------------
\* What the operations do to the vector of a frame.

\* Every frame has a vector of counts, whether children_ has an entry or not.
LEMMA ChildrenOfType ==
    ASSUME TypeOK, NEW f \in Frames
    PROVE  ChildrenOf(f) \in [Frames -> Nat]
BY DEF TypeOK, ChildrenOf, NoChildren

\* addTransform changes the number of copies of the child only, in the vectors
\* of its old parent and of its new one.
LEMMA AddChildren ==
    ASSUME TypeOK, NEW p \in Frames, NEW c \in Frames, NEW v \in Values,
           AddTransform(p, c, v), NEW q \in Frames, NEW d \in Frames
    PROVE  LET kept == IF d = c /\ c \in DOMAIN parents /\ parents[c] = q
                       THEN 0 ELSE ChildrenOf(q)[d]
           IN  ChildrenOf(q)'[d] = IF q = p /\ d = c THEN kept + 1 ELSE kept
<1> USE ChildrenOfType
<1> DEFINE Base == Detached(c)
           Vec(f) == IF f \in DOMAIN Base THEN Base[f] ELSE NoChildren
           kept == IF d = c /\ c \in DOMAIN parents /\ parents[c] = q
                   THEN 0 ELSE ChildrenOf(q)[d]
<1>1. Vec(q) \in [Frames -> Nat] /\ Vec(q)[d] = kept
  <2>1. CASE c \in DOMAIN parents /\ parents[c] = q
    <3>1. Vec(q) = Without(q, c)
      BY <2>1 DEF Detached, Put
    <3> QED
      BY <3>1, <2>1 DEF Without
  <2>2. CASE ~(c \in DOMAIN parents /\ parents[c] = q)
    <3>1. Vec(q) = ChildrenOf(q)
      BY <2>2 DEF Detached, Put, ChildrenOf
    <3> QED
      BY <3>1, <2>2
  <2> QED
    BY <2>1, <2>2
<1>2. children' = Put(Base, p, [Vec(p) EXCEPT ![c] = @ + 1])
  BY DEF AddTransform, Appended
<1>3. ChildrenOf(q)' = IF q = p THEN [Vec(q) EXCEPT ![c] = @ + 1] ELSE Vec(q)
  BY <1>2 DEF ChildrenOf, Put
<1> HIDE DEF Vec, kept, Base
<1> QED
  <2>1. ChildrenOf(q)'[d] = IF q = p /\ d = c THEN kept + 1 ELSE kept
    BY <1>1, <1>3
  <2> QED
    BY <2>1 DEF kept

\* removeTransform takes every copy of the child out of the vector of the
\* parent it names and leaves the other vectors alone.
LEMMA RemoveChildren ==
    ASSUME TypeOK, NEW p \in Frames, NEW c \in Frames,
           RemoveTransform(p, c), NEW q \in Frames, NEW d \in Frames
    PROVE  ChildrenOf(q)'[d] = IF q = p /\ d = c THEN 0 ELSE ChildrenOf(q)[d]
<1> USE ChildrenOfType
<1>1. children' = Pruned(p, c)
  BY DEF RemoveTransform
<1>2. CASE p \notin DOMAIN children
  BY <1>1, <1>2 DEF Pruned, ChildrenOf, NoChildren
<1>3. CASE p \in DOMAIN children /\ Without(p, c) = NoChildren
  <2>1. ChildrenOf(q)' = IF q = p THEN NoChildren ELSE ChildrenOf(q)
    BY <1>1, <1>3 DEF Pruned, ChildrenOf, Erase
  <2>2. q = p => Without(q, c)[d] = NoChildren[d]
    BY <1>3
  <2> QED
    BY <2>1, <2>2 DEF Without, NoChildren
<1>4. CASE p \in DOMAIN children /\ Without(p, c) # NoChildren
  <2>1. ChildrenOf(q)' = IF q = p THEN Without(p, c) ELSE ChildrenOf(q)
    BY <1>1, <1>4 DEF Pruned, ChildrenOf, Put
  <2> QED
    BY <2>1 DEF Without
<1> QED
  BY <1>2, <1>3, <1>4

-----------------------------------------------------------------------------
\* Type correctness.

\* The two sets TypeOK refers to are constants.
LEMMA ConstantSets == Keys' = Keys /\ TransformData' = TransformData
BY DEF Keys, Key, TransformData

LEMMA AddTyped ==
    ASSUME TypeOK, NEW p \in Frames, NEW c \in Frames, NEW v \in Values,
           AddTransform(p, c, v)
    PROVE  TypeOK'
<1>1. /\ DOMAIN children' \subseteq Frames
      /\ children' \in [DOMAIN children' -> [Frames -> Nat]]
  <2>1. /\ DOMAIN Detached(c) \subseteq Frames
        /\ Detached(c) \in [DOMAIN Detached(c) -> [Frames -> Nat]]
    BY ChildrenOfType DEF TypeOK, Detached, Put, Without
  <2>2. children' = Appended(Detached(c), p, c)
    BY DEF AddTransform
  <2> QED
    BY <2>1, <2>2 DEF Appended, Put, NoChildren
<1>2. /\ DOMAIN parents' \subseteq Frames
      /\ parents' \in [DOMAIN parents' -> Frames]
  BY DEF TypeOK, AddTransform, Put
<1>3. /\ DOMAIN transforms' \subseteq Keys
      /\ transforms' \in [DOMAIN transforms' -> TransformData]
  <2>1. /\ DOMAIN Released(c) \subseteq Keys
        /\ Released(c) \in [DOMAIN Released(c) -> TransformData]
    BY DEF TypeOK, Released, Erase
  <2>2. Data(p, c, v) \in TransformData /\ Key(p, c) \in Keys
    BY DEF Data, TransformData, Keys
  <2> QED
    BY <2>1, <2>2 DEF AddTransform, Put
<1> QED
  BY <1>1, <1>2, <1>3, ConstantSets DEF TypeOK

LEMMA RemoveTyped ==
    ASSUME TypeOK, NEW p \in Frames, NEW c \in Frames, RemoveTransform(p, c)
    PROVE  TypeOK'
<1>1. /\ DOMAIN children' \subseteq Frames
      /\ children' \in [DOMAIN children' -> [Frames -> Nat]]
  BY ChildrenOfType DEF TypeOK, RemoveTransform, Pruned, Put, Erase, Without
<1>2. /\ DOMAIN parents' \subseteq Frames
      /\ parents' \in [DOMAIN parents' -> Frames]
  BY DEF TypeOK, RemoveTransform, Erase
<1>3. /\ DOMAIN transforms' \subseteq Keys
      /\ transforms' \in [DOMAIN transforms' -> TransformData]
  BY DEF TypeOK, RemoveTransform, Erase
<1> QED
  BY <1>1, <1>2, <1>3, ConstantSets DEF TypeOK

LEMMA InitTyped == Init => TypeOK
BY DEF Init, TypeOK, EmptyMap

LEMMA StepTyped == TypeOK /\ [Next]_vars => TypeOK'
<1> SUFFICES ASSUME TypeOK, [Next]_vars PROVE TypeOK'
  OBVIOUS
<1>1. CASE Add
  BY <1>1, AddTyped DEF Add
<1>2. CASE Reject \/ UNCHANGED vars
  BY <1>2, ConstantSets DEF Reject, RejectTransform, vars, TypeOK
<1>3. CASE RemoveAny
  BY <1>3, RemoveTyped DEF RemoveAny
<1> QED
  BY <1>1, <1>2, <1>3 DEF Next

\* The three maps keep their types under any sequence of calls.
THEOREM TypeCorrect == Spec => []TypeOK
BY InitTyped, StepTyped, PTL DEF Spec

-----------------------------------------------------------------------------
\* The shape of the graph.

\* WouldCreateCycle is false only if some set of frames holds the child and all
\* that hangs below it but not the parent.
LEMMA BelowChild ==
    ASSUME NEW p \in Frames, NEW c \in Frames, ~WouldCreateCycle(p, c)
    PROVE  \E R \in SUBSET Frames : c \in R /\ p \notin R /\ ClosedUnderChildren(R)
BY DEF WouldCreateCycle, Reaches

LEMMA InitShape == Init => Acyclic /\ ParentListsChild /\ WalkToRootEnds
<1> SUFFICES ASSUME Init PROVE Acyclic /\ ParentListsChild /\ WalkToRootEnds
  OBVIOUS
<1>1. \A f, c \in Frames : ~HasChild(f, c)
  BY DEF Init, HasChild, ChildrenOf, NoChildren, EmptyMap
<1> QED
  BY <1>1 DEF Init, Acyclic, ParentListsChild, WalkToRootEnds, EmptyMap

LEMMA AddAcyclic ==
    ASSUME TypeOK, Acyclic, NEW p \in Frames, NEW c \in Frames, NEW v \in Values,
           AddTransform(p, c, v)
    PROVE  Acyclic'
<1>1. PICK R \in SUBSET Frames : c \in R /\ p \notin R /\ ClosedUnderChildren(R)
  BY BelowChild DEF AddTransform
<1>2. \A f, d \in Frames : HasChild(f, d)' => HasChild(f, d) \/ (f = p /\ d = c)
  BY AddChildren, ChildrenOfType DEF HasChild
<1> SUFFICES ASSUME NEW S \in SUBSET Frames, S # {}
             PROVE  \E f \in S : \A d \in S : ~HasChild(f, d)'
  BY DEF Acyclic
<1>3. CASE S \cap R # {}
  <2>1. PICK f \in S \cap R : \A d \in S \cap R : ~HasChild(f, d)
    BY <1>3 DEF Acyclic
  <2> QED
    BY <2>1, <1>1, <1>2 DEF ClosedUnderChildren
<1>4. CASE S \cap R = {}
  <2>1. PICK f \in S : \A d \in S : ~HasChild(f, d)
    BY DEF Acyclic
  <2> QED
    BY <2>1, <1>1, <1>2, <1>4
<1> QED
  BY <1>3, <1>4

LEMMA RemoveAcyclic ==
    ASSUME TypeOK, Acyclic, NEW p \in Frames, NEW c \in Frames, RemoveTransform(p, c)
    PROVE  Acyclic'
<1>1. \A f, d \in Frames : HasChild(f, d)' => HasChild(f, d)
  BY RemoveChildren, ChildrenOfType DEF HasChild
<1> QED
  BY <1>1 DEF Acyclic

LEMMA AddListed ==
    ASSUME TypeOK, ParentListsChild, NEW p \in Frames, NEW c \in Frames, NEW v \in Values,
           AddTransform(p, c, v)
    PROVE  ParentListsChild'
<1> SUFFICES ASSUME NEW d \in DOMAIN parents' PROVE HasChild(parents[d], d)'
  BY DEF ParentListsChild
<1>1. parents' = Put(parents, c, p)
  BY DEF AddTransform
<1>2. CASE d = c
  <2>1. parents'[d] = p
    BY <1>1, <1>2 DEF Put
  <2>2. ChildrenOf(p)'[c] > 0
    BY AddChildren, ChildrenOfType
  <2> QED
    BY <2>1, <2>2, <1>2 DEF HasChild
<1>3. CASE d # c
  <2>1. d \in Frames /\ d \in DOMAIN parents /\ parents'[d] = parents[d] /\ parents[d] \in Frames
    BY <1>1, <1>3 DEF Put, TypeOK
  <2>2. ChildrenOf(parents[d])'[d] = ChildrenOf(parents[d])[d]
    BY <2>1, <1>3, AddChildren
  <2> QED
    BY <2>1, <2>2 DEF HasChild, ParentListsChild, ChildrenOf
<1> QED
  BY <1>2, <1>3

LEMMA RemoveListed ==
    ASSUME TypeOK, ParentListsChild, NEW p \in Frames, NEW c \in Frames,
           RemoveTransform(p, c)
    PROVE  ParentListsChild'
<1> SUFFICES ASSUME NEW d \in DOMAIN parents' PROVE HasChild(parents[d], d)'
  BY DEF ParentListsChild
<1>1. d \in Frames /\ d \in DOMAIN parents /\ d # c /\ parents'[d] = parents[d]
      /\ parents[d] \in Frames
  BY DEF RemoveTransform, Erase, TypeOK
<1>2. ChildrenOf(parents[d])'[d] = ChildrenOf(parents[d])[d]
  BY <1>1, RemoveChildren
<1> QED
  BY <1>1, <1>2 DEF HasChild, ParentListsChild, ChildrenOf

LEMMA AddWalk ==
    ASSUME TypeOK, ParentListsChild, WalkToRootEnds,
           NEW p \in Frames, NEW c \in Frames, NEW v \in Values, AddTransform(p, c, v)
    PROVE  WalkToRootEnds'
<1>1. PICK R \in SUBSET Frames : c \in R /\ p \notin R /\ ClosedUnderChildren(R)
  BY BelowChild DEF AddTransform
<1>2. parents' = Put(parents, c, p)
  BY DEF AddTransform
<1> SUFFICES ASSUME NEW S \in SUBSET Frames, S # {},
                    \A f \in S : f \in DOMAIN parents' /\ parents'[f] \in S
             PROVE  FALSE
  BY DEF WalkToRootEnds
<1>3. \A f \in S \ {c} : f \in DOMAIN parents /\ parents[f] \in S
  BY <1>2 DEF Put
<1>4. CASE c \notin S
  BY <1>3, <1>4 DEF WalkToRootEnds
<1>5. CASE c \in S
  <2>1. p \in S \ R
    BY <1>1, <1>2, <1>5 DEF Put
  <2>2. \A f \in S \ R : f \in DOMAIN parents /\ parents[f] \in S \ R
    BY <1>1, <1>3 DEF ParentListsChild, ClosedUnderChildren
  <2> QED
    BY <2>1, <2>2 DEF WalkToRootEnds
<1> QED
  BY <1>4, <1>5

LEMMA RemoveWalk ==
    ASSUME WalkToRootEnds, NEW p \in Frames, NEW c \in Frames, RemoveTransform(p, c)
    PROVE  WalkToRootEnds'
BY DEF WalkToRootEnds, RemoveTransform, Erase

\* The invariant that carries the shape: the two loop conditions are only
\* inductive together with the types and with ParentListsChild.
Shape == TypeOK /\ Acyclic /\ ParentListsChild /\ WalkToRootEnds

LEMMA StepShape == Shape /\ [Next]_vars => Shape'
<1> SUFFICES ASSUME Shape, [Next]_vars PROVE Shape'
  OBVIOUS
<1> USE DEF Shape
<1>1. TypeOK'
  BY StepTyped
<1>2. CASE Add
  BY <1>1, <1>2, AddAcyclic, AddListed, AddWalk DEF Add
<1>3. CASE RemoveAny
  BY <1>1, <1>3, RemoveAcyclic, RemoveListed, RemoveWalk DEF RemoveAny
<1>4. CASE Reject \/ UNCHANGED vars
  BY <1>1, <1>4 DEF Reject, RejectTransform, vars, Acyclic, ParentListsChild,
                    WalkToRootEnds, HasChild, ChildrenOf
<1> QED
  BY <1>2, <1>3, <1>4 DEF Next

\* Under any sequence of addTransform and removeTransform the graph keeps its
\* shape: no cycle, every parent lists its child, every walk to the root ends.
THEOREM ShapeCorrect == Spec => []Shape
BY InitTyped, InitShape, StepShape, PTL DEF Spec, Shape

\* No sequence of calls makes the children relation cyclic, so dfsHasPath and
\* the search of getPath see a forest.
THEOREM NoCycles == Spec => []Acyclic
BY ShapeCorrect, PTL DEF Shape

\* The loop of getPathToRoot, which has no visited set, ends from every frame.
THEOREM WalksEnd == Spec => []WalkToRootEnds
BY ShapeCorrect, PTL DEF Shape

\* A frame that getParent gives a parent is one of getChildren of that parent.
THEOREM ParentsListChildren == Spec => []ParentListsChild
BY ShapeCorrect, PTL DEF Shape

-----------------------------------------------------------------------------
\* Keys.

\* Ids without the separator make different keys for different links.
LEMMA KeyInjective ==
    ASSUME ArrowFree, NEW p \in Frames, NEW c \in Frames, NEW q \in Frames, NEW d \in Frames,
           Key(p, c) = Key(q, d)
    PROVE  p = q /\ c = d
<1> /\ p \in Seq(Tokens) /\ c \in Seq(Tokens) /\ q \in Seq(Tokens) /\ d \in Seq(Tokens)
  BY FramesAssumption
<1> DEFINE T == Tokens \cup {Arrow}
<1> /\ p \in Seq(T) /\ c \in Seq(T) /\ q \in Seq(T) /\ d \in Seq(T) /\ <<Arrow>> \in Seq(T)
  OBVIOUS
<1> DEFINE k == Key(p, c)
<1>1. \A a, b \in Seq(T) :
        k = a \o <<Arrow>> \o b =>
            /\ Len(k) = Len(a) + 1 + Len(b)
            /\ \A i \in 1..Len(a) : k[i] = a[i]
            /\ k[Len(a) + 1] = Arrow
            /\ \A i \in 1..Len(b) : k[Len(a) + 1 + i] = b[i]
  OBVIOUS
<1>2. /\ k = p \o <<Arrow>> \o c
      /\ k = q \o <<Arrow>> \o d
  BY DEF Key
<1> HIDE DEF k
<1>3. /\ Len(k) = Len(p) + 1 + Len(c)
      /\ \A i \in 1..Len(p) : k[i] = p[i]
      /\ k[Len(p) + 1] = Arrow
      /\ \A i \in 1..Len(c) : k[Len(p) + 1 + i] = c[i]
  BY <1>1, <1>2
<1>4. /\ Len(k) = Len(q) + 1 + Len(d)
      /\ \A i \in 1..Len(q) : k[i] = q[i]
      /\ k[Len(q) + 1] = Arrow
      /\ \A i \in 1..Len(d) : k[Len(q) + 1 + i] = d[i]
  BY <1>1, <1>2
<1>5. Len(p) = Len(q)
  <2>1. ~(Len(p) < Len(q))
    <3> SUFFICES ASSUME Len(p) < Len(q) PROVE FALSE
      OBVIOUS
    <3>1. Len(p) + 1 \in 1..Len(q)
      OBVIOUS
    <3> QED
      BY <3>1, <1>3, <1>4 DEF ArrowFree
  <2>2. ~(Len(q) < Len(p))
    <3> SUFFICES ASSUME Len(q) < Len(p) PROVE FALSE
      OBVIOUS
    <3>1. Len(q) + 1 \in 1..Len(p)
      OBVIOUS
    <3> QED
      BY <3>1, <1>3, <1>4 DEF ArrowFree
  <2> QED
    BY <2>1, <2>2
<1>6. Len(c) = Len(d)
  BY <1>3, <1>4, <1>5
<1>7. \A i \in 1..Len(p) : p[i] = q[i]
  BY <1>3, <1>4, <1>5
<1>8. \A i \in 1..Len(c) : c[i] = d[i]
  BY <1>3, <1>4, <1>5, <1>6
<1> QED
  BY <1>5, <1>6, <1>7, <1>8

-----------------------------------------------------------------------------
\* Transforms.

\* The links the operations leave: a link is there after addTransform if it is
\* the new one, or was there and is not the one the child hung by before.
LEMMA AddLinks ==
    ASSUME TypeOK, NEW p \in Frames, NEW c \in Frames, NEW v \in Values,
           AddTransform(p, c, v), NEW q \in Frames, NEW d \in Frames
    PROVE  HasChild(q, d)' <=>
               \/ q = p /\ d = c
               \/ HasChild(q, d) /\ ~(d = c /\ c \in DOMAIN parents /\ parents[c] = q)
BY AddChildren, ChildrenOfType DEF HasChild

LEMMA RemoveLinks ==
    ASSUME TypeOK, NEW p \in Frames, NEW c \in Frames,
           RemoveTransform(p, c), NEW q \in Frames, NEW d \in Frames
    PROVE  HasChild(q, d)' <=> HasChild(q, d) /\ ~(q = p /\ d = c)
BY RemoveChildren, ChildrenOfType DEF HasChild

\* What TransformPerLink says of one link.
Linked(q, d) ==
    /\ HasChild(q, d) <=> Key(q, d) \in DOMAIN transforms
    /\ Key(q, d) \in DOMAIN transforms =>
          /\ transforms[Key(q, d)].parent = q
          /\ transforms[Key(q, d)].child = d

LEMMA AddLinked ==
    ASSUME ArrowFree, TypeOK, TransformPerLink,
           NEW p \in Frames, NEW c \in Frames, NEW v \in Values, AddTransform(p, c, v)
    PROVE  TransformPerLink'
<1> SUFFICES ASSUME NEW q \in Frames, NEW d \in Frames PROVE Linked(q, d)'
  BY DEF TransformPerLink, Linked, Key
<1>1. Linked(q, d)
  BY DEF TransformPerLink, Linked
<1>2. Key(q, d) = Key(p, c) <=> q = p /\ d = c
  BY KeyInjective
<1>3. c \in DOMAIN parents =>
        (Key(q, d) = Key(parents[c], c) <=> q = parents[c] /\ d = c)
  BY KeyInjective DEF TypeOK
<1>4. transforms' = Put(Released(c), Key(p, c), Data(p, c, v))
  BY DEF AddTransform
<1>5. /\ Key(q, d) \in DOMAIN transforms' <=>
            \/ q = p /\ d = c
            \/ /\ Key(q, d) \in DOMAIN transforms
               /\ ~(d = c /\ c \in DOMAIN parents /\ parents[c] = q)
      /\ q = p /\ d = c => transforms'[Key(q, d)] = Data(p, c, v)
      /\ ~(q = p /\ d = c) /\ Key(q, d) \in DOMAIN transforms' =>
            transforms'[Key(q, d)] = transforms[Key(q, d)]
  BY <1>2, <1>3, <1>4 DEF Put, Released, Erase
<1>6. Key(q, d)' = Key(q, d)
  BY DEF Key
<1> QED
  BY <1>1, <1>5, <1>6, AddLinks DEF Linked, Data

LEMMA RemoveLinked ==
    ASSUME ArrowFree, TypeOK, TransformPerLink,
           NEW p \in Frames, NEW c \in Frames, RemoveTransform(p, c)
    PROVE  TransformPerLink'
<1> SUFFICES ASSUME NEW q \in Frames, NEW d \in Frames PROVE Linked(q, d)'
  BY DEF TransformPerLink, Linked, Key
<1>1. Linked(q, d)
  BY DEF TransformPerLink, Linked
<1>2. Key(q, d) = Key(p, c) <=> q = p /\ d = c
  BY KeyInjective
<1>3. /\ Key(q, d) \in DOMAIN transforms' <=>
            Key(q, d) \in DOMAIN transforms /\ ~(q = p /\ d = c)
      /\ Key(q, d) \in DOMAIN transforms' =>
            transforms'[Key(q, d)] = transforms[Key(q, d)]
  BY <1>2 DEF RemoveTransform, Erase
<1>4. Key(q, d)' = Key(q, d)
  BY DEF Key
<1> QED
  BY <1>1, <1>3, <1>4, RemoveLinks DEF Linked

LEMMA InitLinked == Init => TransformPerLink
BY DEF Init, TransformPerLink, HasChild, ChildrenOf, NoChildren, EmptyMap

LEMMA StepLinked == TypeOK /\ TransformPerLink /\ [Next]_vars => TransformPerLink'
<1> SUFFICES ASSUME TypeOK, TransformPerLink, [Next]_vars, ArrowFree PROVE TransformPerLink'
  BY DEF TransformPerLink, ArrowFree
<1>1. CASE Add
  BY <1>1, AddLinked DEF Add
<1>2. CASE RemoveAny
  BY <1>2, RemoveLinked DEF RemoveAny
<1>3. CASE Reject \/ UNCHANGED vars
  BY <1>3 DEF Reject, RejectTransform, vars, TransformPerLink, HasChild, ChildrenOf, Key
<1> QED
  BY <1>1, <1>2, <1>3 DEF Next

\* Where no frame id holds the separator, exactly the links of the graph have a
\* transform, and it is one that was sent for that link.
THEOREM TransformsMatchLinks == Spec => []TransformPerLink
BY TypeCorrect, InitLinked, StepLinked, PTL DEF Spec

-----------------------------------------------------------------------------
\* The walk to the root.

\* s is the way from frame f up to its root.
IsWay(s, f) ==
    /\ s \in Seq(Frames) /\ Len(s) >= 1
    /\ s[1] = f
    /\ \A i \in 1 .. Len(s) - 1 : s[i] \in DOMAIN parents /\ parents[s[i]] = s[i + 1]
    /\ s[Len(s)] \notin DOMAIN parents

\* A frame with no parent is its own way, and only that.
LEMMA WayOfRoot ==
    ASSUME NEW f \in Frames, f \notin DOMAIN parents, NEW s
    PROVE  IsWay(s, f) <=> s = <<f>>
<1>1. IsWay(<<f>>, f)
  BY DEF IsWay
<1>2. ASSUME IsWay(s, f) PROVE s = <<f>>
  <2>1. s \in Seq(Frames) /\ Len(s) \in Nat /\ Len(s) >= 1
    BY <1>2 DEF IsWay
  <2>2. 1 \notin 1 .. Len(s) - 1
    BY <1>2 DEF IsWay
  <2>3. Len(s) = 1
    <3>1. \A n \in Nat : n >= 1 /\ 1 \notin 1 .. n - 1 => n = 1
      OBVIOUS
    <3> QED
      BY <2>1, <2>2, <3>1
  <2>4. <<f>> \in Seq(Frames) /\ Len(<<f>>) = 1 /\ <<f>>[1] = f /\ s[1] = f
    BY <1>2 DEF IsWay
  <2>5. \A i \in 1 .. Len(s) : s[i] = <<f>>[i]
    BY <2>3, <2>4
  <2> QED
    BY <2>1, <2>3, <2>4, <2>5, SeqEqual
<1> QED
  BY <1>1, <1>2

\* The way of a frame that has a parent starts with the frame and goes on with
\* the parent's way.
LEMMA WayDown ==
    ASSUME TypeOK, NEW f \in DOMAIN parents, NEW s, IsWay(s, parents[f])
    PROVE  IsWay(<<f>> \o s, f)
<1> DEFINE t == <<f>> \o s
<1>1. f \in Frames /\ s \in Seq(Frames) /\ Len(s) \in Nat /\ Len(s) >= 1
  BY DEF TypeOK, IsWay
<1>2. /\ t \in Seq(Frames) /\ Len(t) = Len(s) + 1 /\ t[1] = f
      /\ \A i \in 2 .. Len(s) + 1 : t[i] = s[i - 1]
  BY <1>1
<1> HIDE DEF t
<1>3. ASSUME NEW i \in 1 .. Len(t) - 1
      PROVE  t[i] \in DOMAIN parents /\ parents[t[i]] = t[i + 1]
  <2>1. CASE i = 1
    BY <1>1, <1>2, <2>1 DEF IsWay
  <2>2. CASE i # 1
    <3>1. i - 1 \in 1 .. Len(s) - 1 /\ i \in 2 .. Len(s) + 1 /\ i + 1 \in 2 .. Len(s) + 1
      BY <1>1, <1>2, <2>2
    <3>2. t[i] = s[i - 1] /\ t[i + 1] = s[i - 1 + 1]
      BY <1>1, <1>2, <3>1
    <3> QED
      BY <3>1, <3>2 DEF IsWay
  <2> QED
    BY <2>1, <2>2
<1>4. t[Len(t)] = s[Len(s)]
  BY <1>1, <1>2
<1>5. IsWay(t, f)
  BY <1>1, <1>2, <1>3, <1>4 DEF IsWay
<1> QED
  BY <1>5 DEF t

LEMMA WayUp ==
    ASSUME TypeOK, NEW f \in DOMAIN parents, NEW s, IsWay(s, f)
    PROVE  IsWay(Tail(s), parents[f]) /\ s = <<f>> \o Tail(s)
<1> DEFINE t == Tail(s)
<1>1. s \in Seq(Frames) /\ Len(s) \in Nat /\ Len(s) >= 2
  BY DEF IsWay
<1>2. /\ t \in Seq(Frames) /\ Len(t) = Len(s) - 1
      /\ \A i \in 1 .. Len(t) : t[i] = s[i + 1]
  BY <1>1, HeadTailProperties
<1>3. s = <<f>> \o t
  BY <1>1 DEF IsWay
<1> HIDE DEF t
<1>4. ASSUME NEW i \in 1 .. Len(t) - 1
      PROVE  t[i] \in DOMAIN parents /\ parents[t[i]] = t[i + 1]
  <2>1. i + 1 \in 1 .. Len(s) - 1 /\ i \in 1 .. Len(t) /\ i + 1 \in 1 .. Len(t)
    BY <1>1, <1>2
  <2> QED
    BY <1>2, <2>1 DEF IsWay
<1>5. t[1] = parents[f] /\ t[Len(t)] = s[Len(s)]
  <2>1. 1 \in 1 .. Len(s) - 1 /\ 1 \in 1 .. Len(t) /\ Len(t) \in 1 .. Len(t)
    BY <1>1, <1>2
  <2> QED
    BY <1>1, <1>2, <2>1 DEF IsWay
<1>6. IsWay(t, parents[f])
  BY <1>1, <1>2, <1>4, <1>5 DEF IsWay
<1> QED
  BY <1>3, <1>6 DEF t

\* Every frame has a way, as the frames without one are closed under parents.
LEMMA WayExists ==
    ASSUME TypeOK, WalkToRootEnds, NEW f \in Frames
    PROVE  \E s : IsWay(s, f)
<1> DEFINE S == {g \in Frames : ~\E s : IsWay(s, g)}
<1>1. ASSUME NEW g \in S PROVE g \in DOMAIN parents /\ parents[g] \in S
  <2>1. g \in DOMAIN parents
    BY WayOfRoot
  <2>2. parents[g] \in Frames
    BY <2>1 DEF TypeOK
  <2> QED
    BY <2>1, <2>2, WayDown
<1>2. S = {}
  BY <1>1 DEF WalkToRootEnds
<1> QED
  BY <1>2

\* It has one only, as the frames with two are closed under parents.
LEMMA WayUnique ==
    ASSUME TypeOK, WalkToRootEnds, NEW f \in Frames, NEW s, NEW t,
           IsWay(s, f), IsWay(t, f)
    PROVE  s = t
<1> DEFINE S == {g \in Frames : \E a, b : IsWay(a, g) /\ IsWay(b, g) /\ a # b}
<1>1. ASSUME NEW g \in S PROVE g \in DOMAIN parents /\ parents[g] \in S
  <2>1. g \in DOMAIN parents
    BY WayOfRoot
  <2>2. parents[g] \in Frames
    BY <2>1 DEF TypeOK
  <2>3. PICK a, b : IsWay(a, g) /\ IsWay(b, g) /\ a # b
    OBVIOUS
  <2>4. /\ IsWay(Tail(a), parents[g]) /\ IsWay(Tail(b), parents[g])
        /\ a = <<g>> \o Tail(a) /\ b = <<g>> \o Tail(b)
    BY <2>1, <2>3, WayUp
  <2>5. Tail(a) # Tail(b)
    BY <2>3, <2>4
  <2> QED
    BY <2>1, <2>2, <2>4, <2>5
<1>2. S = {}
  BY <1>1 DEF WalkToRootEnds
<1> QED
  BY <1>2

\* The equation of PathToRoot's recursive function.
IsPaths(p) ==
    p = [g \in Frames |-> IF g \in DOMAIN parents THEN <<g>> \o p[parents[g]] ELSE <<g>>]

LEMMA PathsExist ==
    ASSUME TypeOK, WalkToRootEnds
    PROVE  \E p : IsPaths(p)
<1> DEFINE way(g) == CHOOSE s : IsWay(s, g)
           p == [g \in Frames |-> way(g)]
<1>1. \A g \in Frames : IsWay(way(g), g)
  BY WayExists
<1> HIDE DEF way
<1>2. ASSUME NEW g \in Frames
      PROVE  way(g) = IF g \in DOMAIN parents THEN <<g>> \o p[parents[g]] ELSE <<g>>
  <2>1. CASE g \in DOMAIN parents
    <3>1. parents[g] \in Frames
      BY <2>1 DEF TypeOK
    <3>2. IsWay(<<g>> \o way(parents[g]), g)
      BY <1>1, <2>1, <3>1, WayDown
    <3> QED
      BY <1>1, <2>1, <3>1, <3>2, WayUnique
  <2>2. CASE g \notin DOMAIN parents
    BY <1>1, <2>2, WayOfRoot
  <2> QED
    BY <2>1, <2>2
<1>3. IsPaths(p)
  BY <1>2 DEF IsPaths
<1> QED
  BY <1>3

\* Whatever solves the equation gives each frame its way.
LEMMA PathsAreWays ==
    ASSUME TypeOK, WalkToRootEnds, NEW p, IsPaths(p), NEW f \in Frames
    PROVE  IsWay(p[f], f)
<1> DEFINE S == {g \in Frames : ~IsWay(p[g], g)}
<1>1. ASSUME NEW g \in S PROVE g \in DOMAIN parents /\ parents[g] \in S
  <2>1. p[g] = IF g \in DOMAIN parents THEN <<g>> \o p[parents[g]] ELSE <<g>>
    BY DEF IsPaths
  <2>2. g \in DOMAIN parents
    BY <2>1, WayOfRoot
  <2>3. parents[g] \in Frames
    BY <2>2 DEF TypeOK
  <2> QED
    BY <2>1, <2>2, <2>3, WayDown
<1>2. S = {}
  BY <1>1 DEF WalkToRootEnds
<1> QED
  BY <1>2

\* getPathToRoot gives the way from the frame to its root: it is the value of a
\* recursive function, which there is because the walk ends.
LEMMA PathToRootIsWay ==
    ASSUME TypeOK, WalkToRootEnds, NEW f \in Frames
    PROVE  IsWay(PathToRoot(f), f)
<1> DEFINE p == CHOOSE q : IsPaths(q)
<1>1. IsPaths(p)
  BY PathsExist
<1>2. Frames \cup {f} = Frames
  OBVIOUS
<1>3. PathToRoot(f) = p[f]
  BY <1>2 DEF PathToRoot, IsPaths
<1> QED
  BY <1>1, <1>3, PathsAreWays

-----------------------------------------------------------------------------
\* Callers that only remove transforms the graph holds.

LEMMA HeldIsAny == [NextHeld]_vars => [Next]_vars
BY DEF NextHeld, Next, RemoveHeld, RemoveAny

\* What holds for any caller holds for these.
THEOREM HeldRefinesAny == SpecHeld => Spec
BY HeldIsAny, PTL DEF SpecHeld, Spec

LEMMA AddReverse ==
    ASSUME TypeOK, ReverseLookup,
           NEW p \in Frames, NEW c \in Frames, NEW v \in Values, AddTransform(p, c, v)
    PROVE  ReverseLookup'
<1> SUFFICES ASSUME NEW q \in Frames, NEW d \in Frames
             PROVE  ChildrenOf(q)'[d] = IF d \in DOMAIN parents' /\ parents'[d] = q
                                        THEN 1 ELSE 0
  BY DEF ReverseLookup, ChildrenOf
<1>1. ChildrenOf(q)[d] = IF d \in DOMAIN parents /\ parents[d] = q THEN 1 ELSE 0
  BY DEF ReverseLookup
<1>2. parents' = Put(parents, c, p)
  BY DEF AddTransform
<1> QED
  BY <1>1, <1>2, AddChildren DEF Put

LEMMA RemoveReverse ==
    ASSUME TypeOK, ReverseLookup,
           NEW p \in Frames, NEW c \in Frames, HasChild(p, c), RemoveTransform(p, c)
    PROVE  ReverseLookup'
<1> SUFFICES ASSUME NEW q \in Frames, NEW d \in Frames
             PROVE  ChildrenOf(q)'[d] = IF d \in DOMAIN parents' /\ parents'[d] = q
                                        THEN 1 ELSE 0
  BY DEF ReverseLookup, ChildrenOf
<1>1. ChildrenOf(q)[d] = IF d \in DOMAIN parents /\ parents[d] = q THEN 1 ELSE 0
  BY DEF ReverseLookup
<1>2. c \in DOMAIN parents /\ parents[c] = p
  BY DEF ReverseLookup, HasChild
<1>3. parents' = Erase(parents, c)
  BY DEF RemoveTransform
<1> QED
  BY <1>1, <1>2, <1>3, RemoveChildren DEF Erase

LEMMA StepReverse ==
    ArrowFree /\ TypeOK /\ TransformPerLink /\ ReverseLookup /\ [NextHeld]_vars => ReverseLookup'
<1> SUFFICES ASSUME ArrowFree, TypeOK, TransformPerLink, ReverseLookup, [NextHeld]_vars
             PROVE  ReverseLookup'
  OBVIOUS
<1>1. CASE Add
  BY <1>1, AddReverse DEF Add
<1>2. CASE RemoveHeld
  BY <1>2, RemoveReverse DEF RemoveHeld, TransformPerLink
<1>3. CASE Reject \/ UNCHANGED vars
  BY <1>3 DEF Reject, RejectTransform, vars, ReverseLookup, ChildrenOf
<1> QED
  BY <1>1, <1>2, <1>3 DEF NextHeld

LEMMA InitReverse == Init => ReverseLookup
BY DEF Init, ReverseLookup, ChildrenOf, NoChildren, EmptyMap

\* parents_ stays the reverse of children_ as long as callers remove only
\* transforms the graph holds and no frame id holds the separator.
THEOREM ReverseLookupHeld == ASSUME ArrowFree PROVE SpecHeld => []ReverseLookup
<1>1. SpecHeld => [](TypeOK /\ TransformPerLink)
  BY HeldRefinesAny, TypeCorrect, TransformsMatchLinks, PTL
<1> QED
  BY <1>1, InitReverse, StepReverse, PTL DEF SpecHeld

-----------------------------------------------------------------------------
\* The graph implements the forest of TFForest.

\* All that the mapping rests on.
Consistent == Shape /\ TransformPerLink /\ ReverseLookup

\* addTransform gives the child its new link and leaves every other link as it
\* was: the key it releases and the key it sets belong to the child.
LEMMA AddMapped ==
    ASSUME ArrowFree, Consistent,
           NEW p \in Frames, NEW c \in Frames, NEW v \in Values, AddTransform(p, c, v)
    PROVE  Mapped' = Put(Mapped, c, [parent |-> p, value |-> v])
<1> USE DEF Consistent, Shape
<1>1. parents' = Put(parents, c, p)
  BY DEF AddTransform
<1>2. transforms' = Put(Released(c), Key(p, c), Data(p, c, v))
  BY DEF AddTransform
<1>3. transforms'[Key(p, c)].value = v
  BY <1>2 DEF Put, Data
<1>4. ASSUME NEW d \in DOMAIN parents, d # c
      PROVE  transforms'[Key(parents[d], d)] = transforms[Key(parents[d], d)]
  <2>1. d \in Frames /\ parents[d] \in Frames
    BY DEF TypeOK
  <2>2. Key(parents[d], d) # Key(p, c)
    BY <2>1, <1>4, KeyInjective
  <2>3. c \in DOMAIN parents => Key(parents[d], d) # Key(parents[c], c)
    BY <2>1, <1>4, KeyInjective DEF TypeOK
  <2>4. Key(parents[d], d) \in DOMAIN transforms
    BY <2>1 DEF ParentListsChild, TransformPerLink
  <2> QED
    BY <1>2, <2>2, <2>3, <2>4 DEF Put, Released, Erase
<1>5. Mapped' = [d \in DOMAIN parents' |->
                   [parent |-> parents'[d], value |-> transforms'[Key(parents'[d], d)].value]]
  BY DEF Mapped, Key
<1>6. DOMAIN parents' = DOMAIN parents \cup {c} /\ DOMAIN Mapped = DOMAIN parents
  BY <1>1 DEF Put, Mapped
<1>7. ASSUME NEW d \in DOMAIN parents'
      PROVE  Mapped'[d] = IF d = c THEN [parent |-> p, value |-> v] ELSE Mapped[d]
  <2>1. CASE d = c
    BY <1>1, <1>3, <1>5, <2>1 DEF Put
  <2>2. CASE d # c
    <3>1. d \in DOMAIN parents /\ parents'[d] = parents[d]
      BY <1>1, <2>2 DEF Put
    <3> QED
      BY <1>4, <1>5, <2>2, <3>1 DEF Mapped
  <2> QED
    BY <2>1, <2>2
<1> QED
  BY <1>5, <1>6, <1>7 DEF Put

\* removeTransform of a link the graph holds takes that link and no other.
LEMMA RemoveMapped ==
    ASSUME ArrowFree, Consistent,
           NEW p \in Frames, NEW c \in Frames, HasChild(p, c), RemoveTransform(p, c)
    PROVE  /\ c \in DOMAIN Mapped
           /\ Mapped[c].parent = p
           /\ Mapped' = Erase(Mapped, c)
<1> USE DEF Consistent, Shape
<1>1. c \in DOMAIN parents /\ parents[c] = p
  BY DEF ReverseLookup, HasChild
<1>2. parents' = Erase(parents, c) /\ transforms' = Erase(transforms, Key(p, c))
  BY DEF RemoveTransform
<1>3. ASSUME NEW d \in DOMAIN parents, d # c
      PROVE  transforms'[Key(parents[d], d)] = transforms[Key(parents[d], d)]
  <2>1. d \in Frames /\ parents[d] \in Frames
    BY DEF TypeOK
  <2>2. Key(parents[d], d) # Key(p, c)
    BY <2>1, <1>3, KeyInjective
  <2>3. Key(parents[d], d) \in DOMAIN transforms
    BY <2>1 DEF ParentListsChild, TransformPerLink
  <2> QED
    BY <1>2, <2>2, <2>3 DEF Erase
<1>4. Mapped' = [d \in DOMAIN parents' |->
                   [parent |-> parents'[d], value |-> transforms'[Key(parents'[d], d)].value]]
  BY DEF Mapped, Key
<1>5. DOMAIN parents' = DOMAIN parents \ {c} /\ DOMAIN Mapped = DOMAIN parents
  BY <1>2 DEF Erase, Mapped
<1>6. ASSUME NEW d \in DOMAIN parents' PROVE Mapped'[d] = Mapped[d]
  <2>1. d \in DOMAIN parents /\ d # c /\ parents'[d] = parents[d]
    BY <1>2 DEF Erase
  <2> QED
    BY <1>3, <1>4, <2>1 DEF Mapped
<1>7. Mapped' = Erase(Mapped, c)
  BY <1>4, <1>5, <1>6 DEF Erase
<1> QED
  BY <1>1, <1>7 DEF Mapped

\* Below the frame that is attached nothing is at or above its new parent: the
\* frames that do not hang below it are closed under parents.
LEMMA NotAbove ==
    ASSUME TypeOK, ParentListsChild,
           NEW p \in Frames, NEW c \in Frames, ~WouldCreateCycle(p, c)
    PROVE  ~Forest!AtOrAbove(c, p)
<1>1. PICK R \in SUBSET Frames : c \in R /\ p \notin R /\ ClosedUnderChildren(R)
  BY BelowChild
<1>2. \A x \in Frames \ R : x \in DOMAIN parents => parents[x] \in Frames \ R
  BY <1>1 DEF ParentListsChild, ClosedUnderChildren, TypeOK
<1>3. \A x \in DOMAIN parents : Mapped[x].parent = parents[x]
  BY DEF Mapped
<1>4. Frames \ R \in SUBSET Frames /\ p \in Frames \ R /\ c \notin Frames \ R
  BY <1>1
<1> QED
  BY <1>2, <1>3, <1>4 DEF Forest!AtOrAbove, Mapped

LEMMA InitForest == Init => Forest!Init
BY DEF Init, Forest!Init, Forest!EmptyMap, EmptyMap, Mapped

LEMMA StepForest ==
    ArrowFree /\ Consistent /\ [NextHeld]_vars => [Forest!Next]_Mapped
<1> SUFFICES ASSUME ArrowFree, Consistent, [NextHeld]_vars
             PROVE  [Forest!Next]_Mapped
  OBVIOUS
<1>1. CASE Add
  <2>1. PICK p \in Frames, c \in Frames, v \in Values : AddTransform(p, c, v)
    BY <1>1 DEF Add
  <2>2. ~Forest!AtOrAbove(c, p)
    BY <2>1, NotAbove DEF AddTransform, Consistent, Shape
  <2>3. Mapped' = Put(Mapped, c, [parent |-> p, value |-> v])
    BY <2>1, AddMapped
  <2>4. Forest!Attach(p, c, v)
    BY <2>2, <2>3 DEF Forest!Attach, Forest!Put, Put, Mapped
  <2> QED
    BY <2>4 DEF Forest!Next
<1>2. CASE RemoveHeld
  <2>1. PICK p \in Frames, c \in Frames : HasChild(p, c) /\ RemoveTransform(p, c)
    BY <1>2 DEF RemoveHeld, Consistent, TransformPerLink
  <2>2. Forest!Detach(p, c)
    BY <2>1, RemoveMapped DEF Forest!Detach, Forest!Erase, Erase, Mapped
  <2> QED
    BY <2>2 DEF Forest!Next
<1>3. CASE Reject \/ UNCHANGED vars
  <2>1. UNCHANGED vars
    BY <1>3 DEF Reject, RejectTransform
  <2>2. Mapped' = Mapped
    BY <2>1 DEF vars, Mapped, Key
  <2> QED
    BY <2>2
<1> QED
  BY <1>1, <1>2, <1>3 DEF NextHeld

\* For callers that only remove transforms the graph holds, and frame ids
\* without the separator, the three maps implement the forest of frames their
\* interface describes.
THEOREM ImplementsForest == ASSUME ArrowFree PROVE SpecHeld => ForestSpec
<1>1. SpecHeld => []Consistent
  BY HeldRefinesAny, ShapeCorrect, TransformsMatchLinks, ReverseLookupHeld, PTL DEF Consistent
<1>2. SpecHeld => Forest!Init /\ [][Forest!Next]_Mapped
  BY <1>1, InitForest, StepForest, PTL DEF SpecHeld
<1> QED
  BY <1>2, PTL DEF ForestSpec, Forest!Spec, Mapped

=============================================================================
