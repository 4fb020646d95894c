----------------------------- MODULE Conversions -----------------------------
(***************************************************************************)
(* From a message to the viewer: which converter the factory makes for a   *)
(* topic and a type, and what the callbacks of PointCloud2, Imu, Image and *)
(* CameraInfo log at which entity.  (RobotDescription and TFMessage have    *)
(* modules of their own, as have the transforms that the timer logs.)      *)
(*                                                                         *)
(* Callbacks exclude each other (see RerunViz), so each is one step.  The  *)
(* viewer keeps what was last logged of each archetype at each entity.     *)
(***************************************************************************)
EXTENDS Integers, TopicNames, Maps

CONSTANTS Advertised,   \* the pairs <<topic, type>> of the ROS graph
          Clouds,       \* messages of type PointCloud2
          Word,         \* 2^32
          MaxMessages   \* bound: messages received

ASSUME TopicsAssumption == \A pair \in Advertised : IsTopicName(pair[1])

ASSUME CloudsAssumption ==
    Clouds \subseteq [height : Nat, width : Nat, pointStep : Nat, rowStep : Nat, hasXYZ : BOOLEAN]

ASSUME WordAssumption == Word \in Nat \ {0}

ASSUME MessagesAssumption == MaxMessages \in Nat

VARIABLES stream,    \* whether rec_ is a stream (TRUE) or null (FALSE)
          up,        \* no exception has left a callback
          shown,     \* <<entity, archetype>> -> what was logged, and by which topic
          messages   \* messages received so far

vars == <<stream, up, shown, messages>>

-----------------------------------------------------------------------------
\* The factory.

None == "none"

\* getConverterForRosTopic: the class of the converter, or None where it throws.
ConverterFor(topic, type) ==
    CASE type = "std_msgs/msg/String" /\ Contains(topic, "robot_description")
           -> "RobotDescription"
      [] type = "sensor_msgs/msg/PointCloud2" -> "PointCloud2"
      [] type = "sensor_msgs/msg/Imu"         -> "Imu"
      [] type = "sensor_msgs/msg/Image"       -> "Image"
      [] type = "sensor_msgs/msg/CameraInfo"  -> "CameraInfo"
      [] OTHER                                -> None

\* getRosTypeName of each class, written out in its header.
RobotDescriptionType == "std_msgs/msg/String"
PointCloud2Type == "sensor_msgs/msg/PointCloud2"
ImuType == "sensor_msgs/msg/Imu"
ImageType == "sensor_msgs/msg/Image"

\* A faulty variant of CameraInfoType: a header whose line was copied from another.
CameraInfoTypeCopied == "sensor_msgs/msg/Image"

CameraInfoType == "sensor_msgs/msg/CameraInfo"

\* Converter::getRosTypeName
RosTypeName(class) ==
    CASE class = "RobotDescription" -> RobotDescriptionType
      [] class = "PointCloud2"      -> PointCloud2Type
      [] class = "Imu"              -> ImuType
      [] class = "Image"            -> ImageType
      [] class = "CameraInfo"       -> CameraInfoType

-----------------------------------------------------------------------------
\* What a callback logs: a map from <<entity, archetype>>.

Log(name, archetype, topic, value) ==
    [k \in {<<Parts(name), archetype>>} |-> [by |-> topic, value |-> value]]

\* A faulty variant of PointCount: a product of half the width.
PointCountNarrow(cloud) == (cloud.height * cloud.width) % (Word \div 2)

PointCount(cloud) == (cloud.height * cloud.width) % Word

\* toRerunType: the iterators go from point to point, so the offset of the
\* i-th point in the data is i times point_step, whatever row_step is.
Offsets(cloud) == [i \in 1 .. PointCount(cloud) |-> (i - 1) * cloud.pointStep]

CloudLogs(topic, cloud) ==
    Log(topic \o <<"/", "PointCloud2">>, "Points3D", topic,
        [cloud |-> cloud, offsets |-> Offsets(cloud)])

\* What a sample provides is logged; covariance -1 says that it does not.
ImuLogs(topic, covariance) ==
    LET Entity(part) == Parts(topic \o <<"/", "Imu", "/", part>>)
        vectors == {v \in {"angular_velocity", "linear_acceleration"} : covariance[v] > -1}
        turns == {v \in {"orientation"} : covariance[v] > -1}
    IN  [k \in {<<Append(Entity(v), <<axis>>), "Scalars">> : v \in vectors, axis \in {"x", "y", "z"}}
                 \cup {<<Entity(v), "Transform3D">> : v \in turns}
           |-> [by |-> topic, value |-> "sample"]]

NamesDepth(topic) == Contains(topic, "depth")

\* A faulty variant of ImagePath: the image is logged in the camera's namespace.
ImagePathInCamera(topic, name) ==
    (IF CameraNamespace(topic) = NoNamespace THEN topic ELSE CameraNamespace(topic)) \o <<"/", name>>

ImagePath(topic, name) == topic \o <<"/", name>>

ImageLogs(topic, encoding) ==
    CASE encoding = "16UC1" /\ NamesDepth(topic)
           -> Log(ImagePath(topic, "DepthImage"), "DepthImage", topic, encoding)
      [] encoding \in {"rgb8", "rgba8", "mono8"} \/ (encoding = "16UC1" /\ ~NamesDepth(topic))
           -> Log(ImagePath(topic, "Image"), "Image", topic, encoding)
      [] OTHER -> EmptyMap

\* An uncalibrated camera (K[0] = 0) or one without a namespace is skipped.
CameraInfoLogs(topic, calibrated) ==
    IF CameraNamespace(topic) = NoNamespace \/ ~calibrated THEN EmptyMap
    ELSE Log(CameraNamespace(topic), "Pinhole", topic,
             IF NamesDepth(topic) THEN "focal length" ELSE "matrix")

-----------------------------------------------------------------------------
Init == /\ stream \in BOOLEAN
        /\ up = TRUE
        /\ shown = EmptyMap
        /\ messages = 0

\* What a callback logs is shown; without a stream it has returned at once.
Show(logs) == /\ shown' = IF stream THEN PutAll(shown, logs) ELSE shown
              /\ UNCHANGED <<stream, up>>

Receive(topic, class) ==
    /\ up /\ messages < MaxMessages
    /\ \E pair \in Advertised : pair[1] = topic /\ ConverterFor(topic, pair[2]) = class
    /\ messages' = messages + 1

PointCloud2Callback(topic, cloud) ==
    /\ Receive(topic, "PointCloud2")
    /\ cloud.hasXYZ \/ ~stream
    /\ Show(CloudLogs(topic, cloud))

\* The iterator of a field that a cloud does not have throws out of the
\* callback, which ends the process.
PointCloud2Throws(topic, cloud) ==
    /\ Receive(topic, "PointCloud2")
    /\ ~cloud.hasXYZ /\ stream
    /\ up' = FALSE
    /\ UNCHANGED <<stream, shown>>

ImuCallback(topic, covariance) ==
    Receive(topic, "Imu") /\ Show(ImuLogs(topic, covariance))

ImageCallback(topic, encoding) ==
    Receive(topic, "Image") /\ Show(ImageLogs(topic, encoding))

CameraInfoCallback(topic, calibrated) ==
    Receive(topic, "CameraInfo") /\ Show(CameraInfoLogs(topic, calibrated))

Covariances == [{"angular_velocity", "linear_acceleration", "orientation"} -> {-1, 0}]

Encodings == {"rgb8", "rgba8", "mono8", "16UC1", "bayer_rggb8"}

Topics == {pair[1] : pair \in Advertised}

Next == \E topic \in Topics :
    \/ \E cloud \in Clouds : PointCloud2Callback(topic, cloud) \/ PointCloud2Throws(topic, cloud)
    \/ \E covariance \in Covariances : ImuCallback(topic, covariance)
    \/ \E encoding \in Encodings : ImageCallback(topic, encoding)
    \/ \E calibrated \in BOOLEAN : CameraInfoCallback(topic, calibrated)

Spec == Init /\ [][Next]_vars

-----------------------------------------------------------------------------
\* Properties.

\* Type correctness; a callback never logs to the root of the viewer's tree
\* (a camera topic without a namespace is skipped: utils.cpp:44).
TypeOK ==
    /\ stream \in BOOLEAN /\ up \in BOOLEAN
    /\ messages \in 0 .. MaxMessages
    /\ \A k \in DOMAIN shown :
           /\ k[1] # <<>>
           /\ k[2] \in {"Points3D", "Scalars", "Transform3D", "Image", "DepthImage", "Pinhole"}
           /\ shown[k].by \in Topics

\* The converters of two topics log to entities of their own: what one shows is
\* never overwritten by another.  The exception is known: two CameraInfo topics
\* of one namespace share its Pinhole (camera_info.cpp:51).
OwnEntities ==
    [][\A k \in DOMAIN shown :
           LET before == shown[k].by
               after  == shown'[k].by
           IN  before # after => /\ k[2] = "Pinhole"
                                 /\ CameraNamespace(before) = CameraNamespace(after)]_vars

\* Rerun projects what lies at or below the entity of a Pinhole through that
\* camera.  isInNamespace says it of the topics: what topic t logs lies there
\* exactly if t is in the namespace of the camera, with or without a slash at
\* its end (a namespace that lies below t itself set apart).
EntityTree ==
    \A p, k \in DOMAIN shown :
        LET t  == shown[k].by
            ns == CameraNamespace(shown[p].by)
        IN  /\ p[2] = "Pinhole" /\ k[2] # "Pinhole"
            /\ ~IsStrictPrefix(Parts(t), Parts(ns))
            => \A n \in {ns, Append(ns, "/")} : IsInNamespace(t, n) = {IsPrefix(p[1], k[1])}

\* The data of a cloud is a sequence of fewer than 2^32 bytes that holds every
\* row, with nothing between the rows.
WellFormed(cloud) ==
    /\ cloud.pointStep > 0
    /\ cloud.rowStep = cloud.width * cloud.pointStep
    /\ cloud.height * cloud.rowStep < Word

\* A well-formed cloud is shown whole: one point for each row and column, read
\* from where the message format puts it (point_cloud2.cpp:67).
CloudIsWhole ==
    \A k \in DOMAIN shown : k[2] = "Points3D" =>
        LET cloud   == shown[k].value.cloud
            offsets == shown[k].value.offsets
        IN  WellFormed(cloud) =>
                /\ Len(offsets) = cloud.height * cloud.width
                /\ \A r \in 1 .. cloud.height, c \in 1 .. cloud.width :
                       offsets[(r - 1) * cloud.width + c]
                           = (r - 1) * cloud.rowStep + (c - 1) * cloud.pointStep

\* updateSubscriptions takes the converter that the factory made for a type for
\* one of that type, or it would make it again, and erase it, in every round
\* (node.cpp:176 and 200); and isCameraTopic finds the topics whose converters
\* show cameras.
TypeNamesAgree ==
    up => \A topic \in Topics :
        LET types   == {type \in {pair[2] : pair \in Advertised} : <<topic, type>> \in Advertised}
            classes == {ConverterFor(topic, type) : type \in types}
        IN  /\ {RosTypeName(class) : class \in classes \ {None}}
                 = {type \in types : ConverterFor(topic, type) # None}
            /\ IsCameraTopic(types) = (classes \cap {"Image", "CameraInfo"} # {})

=============================================================================
