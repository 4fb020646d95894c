----------------------------- MODULE MCTFGraph ------------------------------
\* Instances of TFGraph, its queries and its callers for TLC: every frame id is a
\* one-token sequence.
EXTENDS TFGraphCallers

OneTokenFrames == {<<t>> : t \in Tokens}

Symmetry == Permutations(Tokens) \cup Permutations(Values)

=============================================================================
