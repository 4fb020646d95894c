--------------------------- MODULE TFGraphCallers ---------------------------
(***************************************************************************)
(* A TFGraph and its caller, who is of one of two kinds: a careful one      *)
(* only removes transforms the graph holds, any other calls removeTransform *)
(* with whatever arguments.  What TFGraph and TFGraphQueries say of the     *)
(* graph holds for both; what follows here holds for the careful one.       *)
(***************************************************************************)
EXTENDS TFGraphQueries

VARIABLE careful

CallerInit == Init /\ careful \in BOOLEAN

CallerNext ==
    /\ Add \/ Reject \/ RemoveHeld \/ (~careful /\ RemoveAny)
    /\ UNCHANGED careful

CallerSpec == CallerInit /\ [][CallerNext]_<<vars, careful>>

-----------------------------------------------------------------------------
\* Properties.

\* For a careful caller parents_ is the exact reverse of children_, and no
\* children vector ever holds two copies of a frame.
CarefulReverseLookup == careful => ReverseLookup

\* For a careful caller getPath finds the one path of a tree of frames.
CarefulPaths == careful => PathsAreTreePaths

\* For a careful caller the graph implements the forest of TFForest: it begins as
\* one, and every call attaches a frame, detaches one or changes nothing.
CarefulForest ==
    /\ careful => Forest!Init
    /\ [][careful => Forest!Next]_Mapped

=============================================================================
