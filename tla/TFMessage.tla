----------------------------- MODULE TFMessage ------------------------------
(***************************************************************************)
(* The converter TFMessage: topic_callback applies the transforms of a     *)
(* message to the converter's own TFGraph, one by one and in their order,  *)
(* and then logs the whole graph: one entity per stored transform, at the  *)
(* path of frames from the root down to the child.                         *)
(*                                                                         *)
(* The sender of the messages is free until it settles; from then on it    *)
(* sends one and the same message over and over, as a publisher of /tf     *)
(* does for a robot whose frames no longer change.  The stream rec_ is     *)
(* never null in the program (rerun_viz.cpp:59).                           *)
(***************************************************************************)
EXTENDS TFGraph, FiniteSets

CONSTANT Messages   \* the messages a sender may send

ASSUME MessagesAssumption == Messages \subseteq Seq(TransformData)

VARIABLES at,        \* "idle", or "loop" inside topic_callback
          todo,      \* the transforms of the message still to be applied
          logged,    \* the entities this or the last callback logged: [path, value]
          settled    \* {}, or {m} once m is the only message still sent

allVars == <<children, parents, transforms, at, todo, logged, settled>>

-----------------------------------------------------------------------------
\* logToRerun and logTransformToRerun.

\* key.find("->")
ArrowPos(key) == CHOOSE i \in DOMAIN key :
                     key[i] = Arrow /\ \A j \in 1 .. i - 1 : key[j] # Arrow

\* Faulty variants of ChildOf: the separator is not skipped; the parent's id
\* is taken for the child's.
ChildWithArrow(key) == SubSeq(key, ArrowPos(key), Len(key))
ParentInstead(key) == SubSeq(key, 1, ArrowPos(key) - 1)

\* The child id parsed out of a key of transforms_.
ChildOf(key) == SubSeq(key, ArrowPos(key) + 1, Len(key))

\* The entity path of a frame, "TF" left out: its root first, itself last.
EntityPath(f) == LET up == PathToRoot(f)
                 IN  [i \in DOMAIN up |-> up[Len(up) + 1 - i]]

LogToRerun == {[path |-> EntityPath(ChildOf(key)), value |-> transforms[key].value] :
                   key \in DOMAIN transforms}

-----------------------------------------------------------------------------
\* topic_callback.

MessageInit == /\ Init
               /\ at = "idle"
               /\ todo = <<>>
               /\ logged = {}
               /\ settled = {}

Receive(m) == /\ at = "idle"
              /\ settled \in {{}, {m}}
              /\ at' = "loop"
              /\ todo' = m
              /\ logged' = {}
              /\ UNCHANGED <<children, parents, transforms, settled>>

\* One pass of the loop that adds the transform, and one whose transform would
\* close a cycle: it is skipped, and the rest of the message is not.
ApplyTransform == /\ at = "loop" /\ todo # <<>>
                  /\ AddTransform(Head(todo).parent, Head(todo).child, Head(todo).value)
                  /\ todo' = Tail(todo)
                  /\ UNCHANGED <<at, logged, settled>>

\* A faulty variant of SkipTransform: the loop breaks.
BreakAtCycle == /\ at = "loop" /\ todo # <<>>
                /\ RejectTransform(Head(todo).parent, Head(todo).child)
                /\ todo' = <<>>
                /\ UNCHANGED <<at, logged, settled>>

SkipTransform == /\ at = "loop" /\ todo # <<>>
                 /\ RejectTransform(Head(todo).parent, Head(todo).child)
                 /\ todo' = Tail(todo)
                 /\ UNCHANGED <<at, logged, settled>>

LogGraph == /\ at = "loop" /\ todo = <<>>
            /\ at' = "idle"
            /\ logged' = LogToRerun
            /\ UNCHANGED <<children, parents, transforms, todo, settled>>

Settle(m) == /\ settled = {}
             /\ settled' = {m}
             /\ UNCHANGED <<children, parents, transforms, at, todo, logged>>

Callback == ApplyTransform \/ SkipTransform \/ LogGraph

MessageNext == \/ Callback
               \/ \E m \in Messages : Receive(m) \/ Settle(m)

\* The executor runs a callback to its end, and a settled sender keeps sending.
\* Nothing makes a sender settle.
MessageSpec == /\ MessageInit /\ [][MessageNext]_allVars
               /\ WF_allVars(Callback)
               /\ WF_allVars(\E m \in settled : Receive(m))

-----------------------------------------------------------------------------
\* Properties.

\* Type correctness; a callback that has returned has been through its message.
MessageTypeOK ==
    /\ TypeOK
    /\ at \in {"idle", "loop"}
    /\ \E m \in Messages \cup {<<>>} :
           \E i \in 1 .. Len(m) + 1 : todo = SubSeq(m, i, Len(m))
    /\ at = "idle" => todo = <<>>
    /\ \A e \in logged : e.path \in Seq(Frames) /\ e.value \in Values
    /\ settled \in SUBSET Messages /\ Cardinality(settled) <= 1

\* e is the entity of frame f: its path starts at a root, follows the links
\* downwards and ends in f.
IsEntityOf(e, f) ==
    /\ e.path[1] \notin DOMAIN parents
    /\ e.path[Len(e.path)] = f
    /\ \A i \in 1 .. Len(e.path) - 1 : parents[e.path[i + 1]] = e.path[i]

\* "Log the entire TF tree to Rerun" (tf_message.cpp:74): after a callback
\* exactly the frames that have a parent have been logged, each once, at its
\* path in the tree as the message left it, with the transform of its link.
TreeIsLogged ==
    (ArrowFree /\ at = "idle") =>
        /\ \A f \in DOMAIN parents : \E e \in logged :
               /\ IsEntityOf(e, f)
               /\ e.value = transforms[Key(parents[f], f)].value
        /\ Cardinality(logged) = Cardinality(DOMAIN parents)

\* The links of a message, where it is a tree that gives a parent to every
\* frame the graph has a parent for.
LinksOf(m) == {<<m[i].parent, m[i].child>> : i \in DOMAIN m}
IsTree(m) == LET L == LinksOf(m)
             IN  /\ \A l, k \in L : l[2] = k[2] => l = k
                 /\ \A S \in SUBSET Frames :
                        S # {} => \E f \in S : \A l \in L : l[2] = f => l[1] \notin S
Covers(m) == \A f \in DOMAIN parents : \E l \in LinksOf(m) : l[2] = f

Adopted(m) == \A l \in LinksOf(m) : l[2] \in DOMAIN parents /\ parents[l[2]] = l[1]

\* A transform may be refused only because of links that the same message
\* replaces further on.  A sender that repeats its tree gets it accepted in the
\* end, in whatever order the message lists the links and whatever the graph
\* held, provided the message has a link for every frame that hangs somewhere.
TreeIsAdopted ==
    (at = "idle" /\ \E m \in settled : IsTree(m) /\ Covers(m))
        ~> (\E m \in settled : Adopted(m))

=============================================================================
