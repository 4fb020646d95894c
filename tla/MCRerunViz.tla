----------------------------- MODULE MCRerunViz -----------------------------
\* Instances of RerunViz for TLC.
EXTENDS RerunViz

CONSTANTS cloud, text, image, points, string

\* Every graph of one topic with two convertible types and one topic with none.
AllGraphs == SUBSET {<<cloud, image>>, <<cloud, points>>, <<text, string>>}

\* The graphs of one convertible and one unsupported pair.
FewGraphs == SUBSET {<<cloud, points>>, <<text, string>>}

SupportedPairs == {<<cloud, image>>, <<cloud, points>>}

=============================================================================
