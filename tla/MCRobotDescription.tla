------------------------- MODULE MCRobotDescription -------------------------
\* An instance of RobotDescription for TLC: robots with a chain, with a fork and
\* with both, one with no joint, and one with a joint that does not rotate.
EXTENDS RobotDescription

Joint(name, parent, child) ==
    [name |-> name, rotates |-> TRUE, parent |-> parent, child |-> child]

Rover == [name |-> "rover", root |-> "base",
          joints |-> {Joint("left", "base", "wheel1"), Joint("right", "base", "wheel2")}]

\* A fork above a fork.
Arm == [name |-> "arm", root |-> "base",
        joints |-> {Joint("elbow", "upper", "lower"), Joint("shoulder", "base", "upper"),
                     Joint("grip", "upper", "finger"), Joint("spin", "base", "lamp")}]

Post == [name |-> "post", root |-> "base", joints |-> {}]

Slider == [name |-> "slider", root |-> "base",
           joints |-> {Joint("turn", "base", "plate"),
                        [Joint("slide", "plate", "carriage") EXCEPT !.rotates = FALSE]}]

SomeRobots == {Rover, Arm, Post, Slider}

=============================================================================
