----------------------------- MODULE TopicNames -----------------------------
(***************************************************************************)
(* Names of topics and of the viewer's entities, and the functions of      *)
(* utils.cpp on them.  A name is a sequence of tokens: "/" or a piece of   *)
(* text without a slash.  Two pieces may follow one another, as in         *)
(* <<"/", "cam", "2">>, which is "/cam2".                                   *)
(***************************************************************************)
EXTENDS Naturals, Sequences, SequencesExt

CONSTANT NoNamespace   \* getCameraNamespaceFromTopic throws

\* find_last_of('/'), 0 where there is none.
LastSlash(name) == SelectLastInSeq(name, LAMBDA t : t = "/")

\* A faulty variant of CameraNamespace: a slash in front is taken for one that
\* ends a namespace.
CameraNamespaceAnyway(topic) ==
    IF LastSlash(topic) = 0 THEN NoNamespace ELSE SubSeq(topic, 1, LastSlash(topic) - 1)

\* getCameraNamespaceFromTopic: neither a name without a slash nor one whose
\* only slash is the first has a namespace.
CameraNamespace(topic) ==
    IF LastSlash(topic) \in {0, 1} THEN NoNamespace ELSE SubSeq(topic, 1, LastSlash(topic) - 1)

\* The namespace as the recursion of isInNamespace leaves it.
Stripped(ns) == SubSeq(ns, 1, SelectLastInSeq(ns, LAMBDA t : t # "/"))

\* A faulty variant of IsInNamespace: "/cam2" is taken for a part of "/cam".
StartsWithNamespace(topic, ns) == {IsPrefix(Stripped(ns), topic)}

\* isInNamespace: what it may return.  Of an empty namespace it reads the
\* character before the first one, which ends the process in a build with library
\* assertions and is no slash in any other.
IsInNamespace(topic, ns) ==
    LET bare == Stripped(ns)
    IN  IF bare = <<>> THEN {TRUE, "aborted"}
        ELSE {topic = bare \/ IsPrefix(Append(bare, "/"), topic)}

\* isCameraTopic
IsCameraTopic(types) == types \cap {"sensor_msgs/msg/Image", "sensor_msgs/msg/CameraInfo"} # {}

-----------------------------------------------------------------------------
\* The names of topics in the ROS graph: they start with a slash, none ends in
\* one, and no two slashes follow one another.
IsTopicName(name) ==
    /\ name \in Seq(STRING) /\ Len(name) >= 2
    /\ name[1] = "/" /\ name[Len(name)] # "/"
    /\ \A i \in 1 .. Len(name) - 1 : name[i] = "/" => name[i + 1] # "/"

\* The last slash among the first n tokens.
SlashBefore(name, n) == LastSlash(SubSeq(name, 1, n))

\* How Rerun reads an entity path: as its parts, empty ones left out.
Parts(name) ==
    LET parts[n \in 0 .. Len(name)] ==
            IF n = 0 THEN <<>>
            ELSE IF SlashBefore(name, n) = n THEN parts[n - 1]
            ELSE Append(parts[SlashBefore(name, n)], SubSeq(name, SlashBefore(name, n) + 1, n))
    IN  parts[Len(name)]

=============================================================================
