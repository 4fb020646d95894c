------------------------------- MODULE MCNode -------------------------------
\* Instances of Node for TLC.  Topic `description` has a type the factory
\* converts only on topics of that name, as std_msgs/msg/String.
EXTENDS Node, TLC

CONSTANTS camera, description, image, string

FactoryPairs == {<<camera, image>>, <<description, image>>, <<description, string>>}

ThreadSymmetry == Permutations(Threads) \cup Permutations(Addresses)

=============================================================================
