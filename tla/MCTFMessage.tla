---------------------------- MODULE MCTFMessage -----------------------------
\* An instance of TFMessage for TLC: frame ids of one token, and every message
\* of at most MaxTransforms transforms with different children.  The transforms of
\* one message have one value, as they have one time stamp.
EXTENDS TFMessage

CONSTANT MaxTransforms

OneTokenFrames == {<<t>> : t \in Tokens}

Transforms == {d \in TransformData : d.parent # d.child}

SmallMessages ==
    {m \in UNION {[1 .. n -> Transforms] : n \in 1 .. MaxTransforms} :
        \A i, j \in DOMAIN m : /\ m[i].child = m[j].child => i = j
                               /\ m[i].value = m[j].value}

=============================================================================
