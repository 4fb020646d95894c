------------------------------ MODULE TFForest ------------------------------
(***************************************************************************)
(* What class TFGraph promises its callers (include/rerun_viz/tf_graph.hpp,*)
(* the doc comments of addTransform, removeTransform, getParent and        *)
(* getTransform): a forest of frames in which every frame has at most one  *)
(* parent, together with the newest transform of each parent-child link.   *)
(***************************************************************************)
EXTENDS Maps

CONSTANTS Frames, Values

\* forest[c] is the link that attaches frame c to its parent.
VARIABLE forest

Link == [parent : Frames, value : Values]

TypeOK == \E D \in SUBSET Frames : forest \in [D -> Link]

\* Frame a is f itself or lies on the way from f up to its root: it belongs
\* to every set that holds f and the parent of each of its members.
AtOrAbove(a, f) ==
    \A S \in SUBSET Frames :
        /\ f \in S
        /\ \A x \in S : x \in DOMAIN forest => forest[x].parent \in S
        => a \in S

Init == forest = EmptyMap

\* A frame is attached below p, whatever it was attached to before, unless
\* p hangs below the frame already.
Attach(p, c, v) ==
    /\ ~AtOrAbove(c, p)
    /\ forest' = Put(forest, c, [parent |-> p, value |-> v])

Detach(p, c) ==
    /\ c \in DOMAIN forest
    /\ forest[c].parent = p
    /\ forest' = Erase(forest, c)

Next == \E p, c \in Frames :
            \/ \E v \in Values : Attach(p, c, v)
            \/ Detach(p, c)

Spec == Init /\ [][Next]_forest

=============================================================================
