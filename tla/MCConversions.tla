--------------------------- MODULE MCConversions ---------------------------
\* An instance of Conversions for TLC.
EXTENDS Conversions

Abs(a, b) == <<"/", a, "/", b>>

\* A colour camera, a depth camera, a camera whose name starts with that of the
\* first ("/cam2"), one without a namespace, one below an entity of the first.
Cameras == {Abs("cam", "info"), Abs("cam", "info2"), Abs("depth", "info"),
            <<"/", "cam", "2", "/", "info">>, <<"/", "info">>,
            <<"/", "cam", "/", "image", "/", "Image", "/", "info">>}

Images == {Abs("cam", "image"), Abs("cam", "image2"), Abs("depth", "image"),
           <<"/", "cam", "2", "/", "image">>, <<"/", "cam">>}

Sensors == {<<"/", "scan">>, Abs("cam", "scan")}

Names(topics, type) == {<<topic, type>> : topic \in topics}

RosGraph ==
    UNION {Names(Cameras, "sensor_msgs/msg/CameraInfo"),
           Names(Images, "sensor_msgs/msg/Image"),
           Names(Sensors, "sensor_msgs/msg/PointCloud2"),
           Names(Sensors, "sensor_msgs/msg/Imu"),
           Names({<<"/", "robot_description">>, <<"/", "rosout">>}, "std_msgs/msg/String")}

\* Clouds with padded and unpadded rows, empty ones among them, and one whose
\* number of points does not fit into the word.
SomeClouds ==
    {[height |-> h, width |-> w, pointStep |-> step, rowStep |-> w * step + pad, hasXYZ |-> TRUE] :
        h \in {0, 1, 3}, w \in {0, 2, 3}, step \in {1, 2}, pad \in {0, 1}}
    \cup {[height |-> 1, width |-> 1, pointStep |-> 1, rowStep |-> 1, hasXYZ |-> FALSE],
          [height |-> 4, width |-> 5, pointStep |-> 1, rowStep |-> 5, hasXYZ |-> TRUE]}

=============================================================================
