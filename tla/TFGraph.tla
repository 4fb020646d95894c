------------------------------ MODULE TFGraph -------------------------------
(***************************************************************************)
(* Class rerun_viz::TFGraph: three maps that describe one tree of          *)
(* coordinate frames and that every operation has to keep in step.         *)
(*                                                                         *)
(*   children    frame -> the vector of its children, abstracted to how    *)
(*               many copies of each frame the vector holds (the code      *)
(*               never looks at the order: it appends, erases every copy   *)
(*               of a frame, and asks whether the vector is empty)         *)
(*   parents     child frame -> parent frame                               *)
(*   transforms  makeTransformKey(parent, child) -> the stored transform   *)
(*                                                                         *)
(* A frame id is a sequence of tokens, one of which, Arrow, stands for the *)
(* characters "->" that makeTransformKey puts between two ids.             *)
(***************************************************************************)
EXTENDS Naturals, Sequences, Maps

CONSTANTS Tokens,      \* what frame ids are made of
          Frames,      \* frame ids a caller may name
          Arrow,       \* the token for "->"
          Values,      \* payloads of a transform (translation, rotation, stamp)
          MaxCopies    \* bound: copies of a child in one children vector

ASSUME FramesAssumption == Frames \subseteq Seq(Tokens)

ASSUME CopiesAssumption == MaxCopies \in Nat

VARIABLES children, parents, transforms

vars == <<children, parents, transforms>>

-----------------------------------------------------------------------------
\* Lookups.

NoChildren == [f \in Frames |-> 0]

\* children_[frame], or an empty vector where the map has no entry.
ChildrenOf(f) == IF f \in DOMAIN children THEN children[f] ELSE NoChildren

HasChild(p, c) == ChildrenOf(p)[c] > 0

Key(p, c) == p \o <<Arrow>> \o c

\* What dfsHasPath computes: `to` belongs to every set that holds `from` and
\* the children of each of its members.
ClosedUnderChildren(S) == \A p \in S, c \in Frames : HasChild(p, c) => c \in S

Reaches(from, to) ==
    \A S \in SUBSET Frames : from \in S /\ ClosedUnderChildren(S) => to \in S

\* Faulty variants of WouldCreateCycle, which some property has to tell
\* from the real one: only the self-loop test; the search run from the wrong end.
CycleTestSelfOnly(p, c) == p = c
CycleTestSwapped(p, c) == p = c \/ Reaches(p, c)

WouldCreateCycle(p, c) == p = c \/ Reaches(c, p)

\* getPathToRoot: the frame first, its root last.
PathToRoot(f) ==
    LET path[g \in Frames \cup {f}] ==
            IF g \in DOMAIN parents THEN <<g>> \o path[parents[g]] ELSE <<g>>
    IN  path[f]

-----------------------------------------------------------------------------
\* Operations.

\* The vector of frame f once every copy of c is erased (erase-remove).
Without(f, c) == [ChildrenOf(f) EXCEPT ![c] = 0]

\* Faulty variants of Detached: the child is left in the old parent's vector;
\* the old parent is read with operator[], which makes up an empty frame id.
LeftAttached(c) == children
DetachedFromDefault(c) ==
    LET q == IF c \in DOMAIN parents THEN parents[c] ELSE <<>>
    IN  Put(children, q, Without(q, c))

\* children_ once the link that attaches c is taken out: the old parent keeps
\* its entry, even when its vector is now empty.
Detached(c) ==
    IF c \in DOMAIN parents THEN Put(children, parents[c], Without(parents[c], c))
                            ELSE children

\* A faulty variant of Released: the old transform is forgotten in the map.
NotReleased(c) == transforms

\* transforms_ without the transform of the link that attaches c.
Released(c) ==
    IF c \in DOMAIN parents THEN Erase(transforms, Key(parents[c], c))
                            ELSE transforms

\* The map m of children with one more copy of c in the vector of p.
Appended(m, p, c) ==
    LET old == IF p \in DOMAIN m THEN m[p] ELSE NoChildren
    IN  Put(m, p, [old EXCEPT ![c] = @ + 1])

Data(p, c, v) == [parent |-> p, child |-> c, value |-> v]

Init == /\ children = EmptyMap
        /\ parents = EmptyMap
        /\ transforms = EmptyMap

\* addTransform, where it returns true.
AddTransform(p, c, v) ==
    /\ ~WouldCreateCycle(p, c)
    /\ children' = Appended(Detached(c), p, c)
    /\ parents' = Put(parents, c, p)
    /\ transforms' = Put(Released(c), Key(p, c), Data(p, c, v))

\* addTransform, where it returns false.
RejectTransform(p, c) ==
    /\ WouldCreateCycle(p, c)
    /\ UNCHANGED vars

\* children_ once c is erased from the vector of p, and the entry of p with it
\* when the vector is left empty.
Pruned(p, c) ==
    IF p \notin DOMAIN children THEN children
    ELSE IF Without(p, c) = NoChildren THEN Erase(children, p)
    ELSE Put(children, p, Without(p, c))

\* Faulty variant of RemoveTransform: the reverse map forgets to follow.
RemoveKeepsParent(p, c) ==
    /\ children' = Pruned(p, c)
    /\ UNCHANGED parents
    /\ transforms' = Erase(transforms, Key(p, c))

\* removeTransform: it never compares p with the parent that c really has.
RemoveTransform(p, c) ==
    /\ children' = Pruned(p, c)
    /\ parents' = Erase(parents, c)
    /\ transforms' = Erase(transforms, Key(p, c))

-----------------------------------------------------------------------------
\* Two kinds of caller: one that calls with any arguments, and one that only
\* removes transforms the graph holds.

Add == \E p, c \in Frames, v \in Values :
           /\ ChildrenOf(p)[c] < MaxCopies
           /\ AddTransform(p, c, v)

Reject == \E p, c \in Frames : RejectTransform(p, c)

RemoveAny == \E p, c \in Frames : RemoveTransform(p, c)

RemoveHeld == \E p, c \in Frames :
                  /\ Key(p, c) \in DOMAIN transforms
                  /\ RemoveTransform(p, c)

Next == Add \/ Reject \/ RemoveAny

NextHeld == Add \/ Reject \/ RemoveHeld

Spec == Init /\ [][Next]_vars

SpecHeld == Init /\ [][NextHeld]_vars

-----------------------------------------------------------------------------
\* Properties.

TransformData == [parent : Frames, child : Frames, value : Values]

Keys == {Key(p, c) : p, c \in Frames}

\* Type correctness: each map holds the kind of key and value it is declared with.
TypeOK ==
    /\ DOMAIN children \subseteq Frames
    /\ children \in [DOMAIN children -> [Frames -> Nat]]
    /\ DOMAIN parents \subseteq Frames
    /\ parents \in [DOMAIN parents -> Frames]
    /\ DOMAIN transforms \subseteq Keys
    /\ transforms \in [DOMAIN transforms -> TransformData]

\* No call sequence, however odd, makes the children relation cyclic: every
\* non-empty set of frames has a member with no child in the set.  This is
\* what "false if it would create a cycle" of addTransform is for, and what the
\* depth-first search relies on.
Acyclic ==
    \A S \in SUBSET Frames :
        S # {} => \E f \in S : \A c \in S : ~HasChild(f, c)

\* The loop of getPathToRoot, which follows parents_ and has no visited set,
\* ends from every frame: no non-empty set of frames is closed under parents_.
WalkToRootEnds ==
    \A S \in SUBSET Frames :
        S # {} => \E f \in S : f \notin DOMAIN parents \/ parents[f] \notin S

\* A frame that has a parent is listed among that parent's children.
ParentListsChild ==
    \A c \in DOMAIN parents : HasChild(parents[c], c)

\* No frame id holds the two characters that separate the ids of a key.
ArrowFree == \A f \in Frames : \A i \in DOMAIN f : f[i] # Arrow

\* Exactly the links of children_ have a transform, and the transform stored
\* under a link is one that was sent for that link.
TransformPerLink ==
    ArrowFree => \A p, c \in Frames :
        /\ HasChild(p, c) <=> Key(p, c) \in DOMAIN transforms
        /\ Key(p, c) \in DOMAIN transforms =>
              /\ transforms[Key(p, c)].parent = p
              /\ transforms[Key(p, c)].child = c

\* parents_ is the "Reverse lookup" of children_ (tf_graph.hpp:117): a frame is
\* listed by its parent and by no other frame, and by its parent only once.
ReverseLookup ==
    \A p, c \in Frames :
        ChildrenOf(p)[c] = IF c \in DOMAIN parents /\ parents[c] = p THEN 1 ELSE 0

\* The refinement mapping: the link of each frame that has a parent, with its
\* getParent and its getTransform.
Mapped == [c \in DOMAIN parents |->
              [parent |-> parents[c], value |-> transforms[Key(parents[c], c)].value]]

Forest == INSTANCE TFForest WITH forest <- Mapped

\* The graph implements the forest its interface describes.
ForestSpec == Forest!Spec

=============================================================================
