--------------------------- MODULE MCTfPublishing ---------------------------
\* An instance of TfPublishing for TLC: one camera with a namespace and one
\* without, and a robot with a root link and a joint.
EXTENDS TfPublishing

CameraNamespace == [c \in Cameras |-> IF c = "/camera/info" THEN "/camera" ELSE NoNamespace]

RoverRequests ==
    <<Request(FixedFrame, "base", "/rover/base", "translation and rotation"),
      Request("base", "wheel", "/rover/base/left/wheel", "rotation only")>>

=============================================================================
