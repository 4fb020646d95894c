--------------------------- MODULE TFGraphQueries ---------------------------
(***************************************************************************)
(* The queries of TFGraph that search: dfsHasPath, getPath and             *)
(* getAllFrames, as the code computes them.  They change nothing; the      *)
(* properties hold them against what they promise, in every graph that     *)
(* calls of addTransform and removeTransform can build.                    *)
(***************************************************************************)
EXTENDS TFGraph, SequencesExt

\* A faulty variant of Children: a search that looks at one child only.
FirstChild(f) == {c \in Frames : HasChild(f, c) /\ c = CHOOSE d \in Frames : HasChild(f, d)}

Children(f) == {c \in Frames : HasChild(f, c)}

\* What a call of dfsHasPath returns, and the visited set as it leaves it.  One
\* that has found its target returns at once through all its callers: the set
\* it leaves is not looked at any more.
Found             == [found |-> TRUE, visited |-> {}]
NotFound(visited) == [found |-> FALSE, visited |-> visited]

\* dfsHasPath: search[<<C, V>>] is the loop over the children C, of which the
\* first is searched with the visited set V, and the others with what that call
\* leaves in it, as the set is passed by reference.
DfsHasPath(from, to) ==
    LET search[s \in (SUBSET Frames) \X SUBSET (Frames \ {to})] ==
            IF s[1] = {} THEN NotFound(s[2])
            ELSE LET child == CHOOSE c \in s[1] : TRUE
                     call  == IF child = to THEN Found
                              ELSE IF child \in s[2] THEN NotFound(s[2])
                              ELSE search[<<Children(child), s[2] \cup {child}>>]
                 IN  IF call.found THEN call
                                   ELSE search[<<s[1] \ {child}, call.visited>>]
    IN  search[<<{from}, {}>>].found

-----------------------------------------------------------------------------
\* getAllFrames: keys of children_ that have no child any more are among them.

AllFrames == DOMAIN children \cup UNION {Children(f) : f \in DOMAIN children}

-----------------------------------------------------------------------------
\* getPath.

\* A faulty variant of Neighbours: the search only goes down.
NeighboursBelow(f) == Children(f)

Neighbours(f) == Children(f) \cup (IF f \in DOMAIN parents THEN {parents[f]} ELSE {})

\* What came_from may hold, and the visited set as its domain.
CameFroms(known) == UNION {[visited -> known] : visited \in SUBSET known}

\* One pass of the loop over the queue, s = <<queue, cameFrom>>.  The frames that
\* a pass adds to the queue are in the order of SetToSeq, which cannot matter
\* where only one path leads from frame to frame.
Pass(s) ==
    LET current == Head(s[1])
        new     == Neighbours(current) \ DOMAIN s[2]
    IN  <<Tail(s[1]) \o SetToSeq(new),
          [f \in DOMAIN s[2] \cup new |-> IF f \in new THEN current ELSE s[2][f]]>>

\* The loop ends when the queue is empty or the target has been visited: the code
\* returns in the middle of that pass, with all it needs already in came_from.
Ended(s, to) == s[1] = <<>> \/ to \in DOMAIN s[2]

\* came_from as the loop leaves it, which can come to no frame but those of the
\* graph and the first one.
CameFrom(from, to) ==
    LET known == AllFrames \cup {from}
        search[s \in Seq(known) \X CameFroms(known)] ==
            IF Ended(s, to) THEN s[2] ELSE search[Pass(s)]
    IN  search[<< <<from>>, [f \in {from} |-> from]>>]

\* getPath, with the reconstruction from came_from; empty where no path is.
GetPath(from, to) ==
    LET cameFrom == CameFrom(from, to)
        path[f \in DOMAIN cameFrom] ==
            IF f = from THEN <<from>> ELSE Append(path[cameFrom[f]], f)
    IN  IF to \in DOMAIN cameFrom THEN path[to] ELSE <<>>

-----------------------------------------------------------------------------
\* Properties.

\* The depth-first search with its shared visited set finds the target exactly
\* where the children relation leads to it, whatever calls built the graph.
SearchDecidesReach ==
    \A from, to \in Frames : DfsHasPath(from, to) <=> Reaches(from, to)

Adjacent(f, g) == HasChild(f, g) \/ HasChild(g, f)

\* p leads from one frame to another along links and visits no frame twice.
IsSimplePath(p, from, to) ==
    /\ p[1] = from /\ p[Len(p)] = to
    /\ \A i \in 1 .. Len(p) - 1 : Adjacent(p[i], p[i + 1])
    /\ IsInjective(p)

\* getPath finds the one path between two frames of a tree, up to where their
\* walks to the root meet and down again, and finds none between two trees.
PathsAreTreePaths ==
    \A from, to \in Frames :
        LET p == GetPath(from, to)
        IN  IF Last(PathToRoot(from)) = Last(PathToRoot(to))
            THEN p # <<>> /\ IsSimplePath(p, from, to)
            ELSE p = <<>>

=============================================================================
