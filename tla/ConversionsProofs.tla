------------------------- MODULE ConversionsProofs -------------------------
(***************************************************************************)
(* Proofs about Conversions, for any topics, clouds and word: what the     *)
(* viewer shows is what some callback logged of some message, and what     *)
(* follows for clouds, entities and the types of the classes.              *)
(***************************************************************************)
EXTENDS Conversions, SequenceTheorems, FiniteSetTheorems, WellFoundedInduction, TLAPS

-----------------------------------------------------------------------------
\* What is shown comes from a callback.

\* What the callbacks of the converters of one topic may log.
LogsOf(topic) ==
    UNION {{CloudLogs(topic, cloud) : cloud \in Clouds},
           {ImuLogs(topic, covariance) : covariance \in Covariances},
           {ImageLogs(topic, encoding) : encoding \in Encodings},
           {CameraInfoLogs(topic, calibrated) : calibrated \in BOOLEAN}}

\* The inductive invariant.
FromCallback ==
    \A k \in DOMAIN shown : \E topic \in Topics : \E logs \in LogsOf(topic) :
        k \in DOMAIN logs /\ shown[k] = logs[k]

LEMMA ShowFromCallback ==
    ASSUME FromCallback, NEW topic \in Topics, NEW logs \in LogsOf(topic), Show(logs)
    PROVE  FromCallback'
<1> SUFFICES ASSUME NEW k \in DOMAIN shown'
             PROVE  \E t \in Topics : \E l \in LogsOf(t) : k \in DOMAIN l /\ shown'[k] = l[k]
  BY DEF FromCallback, Topics, LogsOf
<1>1. CASE stream /\ k \in DOMAIN logs
  <2>1. shown'[k] = logs[k]
    BY <1>1 DEF Show, PutAll
  <2> QED
    BY <1>1, <2>1
<1>2. CASE ~(stream /\ k \in DOMAIN logs)
  <2>1. k \in DOMAIN shown /\ shown'[k] = shown[k]
    BY <1>2 DEF Show, PutAll
  <2> QED
    BY <2>1 DEF FromCallback
<1> QED
  BY <1>1, <1>2

\* Every step that receives a message shows what its callback logs, or nothing.
LEMMA NextShows ==
    ASSUME [Next]_vars
    PROVE  \/ \E topic \in Topics : \E logs \in LogsOf(topic) : Show(logs)
           \/ UNCHANGED <<stream, shown>>
<1>1. CASE Next
  <2>1. PICK topic \in Topics :
            \/ \E cloud \in Clouds : PointCloud2Callback(topic, cloud) \/ PointCloud2Throws(topic, cloud)
            \/ \E covariance \in Covariances : ImuCallback(topic, covariance)
            \/ \E encoding \in Encodings : ImageCallback(topic, encoding)
            \/ \E calibrated \in BOOLEAN : CameraInfoCallback(topic, calibrated)
    BY <1>1 DEF Next
  <2>2. ASSUME NEW cloud \in Clouds, PointCloud2Callback(topic, cloud)
        PROVE  \E logs \in LogsOf(topic) : Show(logs)
    BY <2>2 DEF PointCloud2Callback, LogsOf
  <2>3. ASSUME NEW cloud \in Clouds, PointCloud2Throws(topic, cloud)
        PROVE  UNCHANGED <<stream, shown>>
    BY <2>3 DEF PointCloud2Throws
  <2>4. ASSUME NEW covariance \in Covariances, ImuCallback(topic, covariance)
        PROVE  \E logs \in LogsOf(topic) : Show(logs)
    BY <2>4 DEF ImuCallback, LogsOf
  <2>5. ASSUME NEW encoding \in Encodings, ImageCallback(topic, encoding)
        PROVE  \E logs \in LogsOf(topic) : Show(logs)
    BY <2>5 DEF ImageCallback, LogsOf
  <2>6. ASSUME NEW calibrated \in BOOLEAN, CameraInfoCallback(topic, calibrated)
        PROVE  \E logs \in LogsOf(topic) : Show(logs)
    BY <2>6 DEF CameraInfoCallback, LogsOf
  <2> QED
    BY <2>1, <2>2, <2>3, <2>4, <2>5, <2>6
<1>2. CASE UNCHANGED vars
  BY <1>2 DEF vars
<1> QED
  BY <1>1, <1>2

LEMMA InitFromCallback == Init => FromCallback
BY DEF Init, FromCallback, EmptyMap

LEMMA StepFromCallback == FromCallback /\ [Next]_vars => FromCallback'
<1> SUFFICES ASSUME FromCallback, [Next]_vars PROVE FromCallback'
  OBVIOUS
<1>1. CASE \E topic \in Topics : \E logs \in LogsOf(topic) : Show(logs)
  BY <1>1, ShowFromCallback
<1>2. CASE UNCHANGED <<stream, shown>>
  BY <1>2 DEF FromCallback, Topics, LogsOf
<1> QED
  BY <1>1, <1>2, NextShows

LEMMA AllFromCallback == Spec => []FromCallback
BY InitFromCallback, StepFromCallback, PTL DEF Spec

-----------------------------------------------------------------------------
\* What the callbacks log, archetype by archetype: e is the entry at k.

Vectors == {"angular_velocity", "linear_acceleration"}

Axes == {"x", "y", "z"}

IsCloudEntry(topic, k, e) ==
    /\ k[2] = "Points3D" /\ k[1] = Parts(topic \o <<"/", "PointCloud2">>)
    /\ \E cloud \in Clouds : e.value = [cloud |-> cloud, offsets |-> Offsets(cloud)]

IsVectorEntry(topic, k, e) ==
    /\ k[2] = "Scalars" /\ e.value = "sample"
    /\ \E v \in Vectors, axis \in Axes :
           k[1] = Append(Parts(topic \o <<"/", "Imu", "/", v>>), <<axis>>)

IsTurnEntry(topic, k, e) ==
    /\ k[2] = "Transform3D" /\ e.value = "sample"
    /\ k[1] = Parts(topic \o <<"/", "Imu", "/", "orientation">>)

IsDepthEntry(topic, k, e) ==
    k[2] = "DepthImage" /\ k[1] = Parts(topic \o <<"/", "DepthImage">>)

IsImageEntry(topic, k, e) ==
    k[2] = "Image" /\ k[1] = Parts(topic \o <<"/", "Image">>)

IsCameraEntry(topic, k, e) ==
    /\ CameraNamespace(topic) # NoNamespace
    /\ k[2] = "Pinhole" /\ k[1] = Parts(CameraNamespace(topic))

IsEntry(topic, k, e) ==
    /\ e.by = topic
    /\ \/ IsCloudEntry(topic, k, e)
       \/ IsVectorEntry(topic, k, e)
       \/ IsTurnEntry(topic, k, e)
       \/ IsDepthEntry(topic, k, e)
       \/ IsImageEntry(topic, k, e)
       \/ IsCameraEntry(topic, k, e)

LEMMA EntryOfLog ==
    ASSUME NEW name, NEW archetype, NEW topic, NEW value,
           NEW k \in DOMAIN Log(name, archetype, topic, value)
    PROVE  /\ k[1] = Parts(name) /\ k[2] = archetype
           /\ Log(name, archetype, topic, value)[k].by = topic
           /\ Log(name, archetype, topic, value)[k].value = value
BY DEF Log

LEMMA LogsAreEntries ==
    ASSUME NEW topic \in Topics, NEW logs \in LogsOf(topic), NEW k \in DOMAIN logs
    PROVE  IsEntry(topic, k, logs[k])
<1>1. CASE \E cloud \in Clouds : logs = CloudLogs(topic, cloud)
  <2>1. PICK cloud \in Clouds : logs = CloudLogs(topic, cloud)
    BY <1>1
  <2>2. /\ k[1] = Parts(topic \o <<"/", "PointCloud2">>) /\ k[2] = "Points3D"
        /\ logs[k].by = topic
        /\ logs[k].value = [cloud |-> cloud, offsets |-> Offsets(cloud)]
    BY <2>1, EntryOfLog DEF CloudLogs
  <2> QED
    BY <2>2 DEF IsEntry, IsCloudEntry
<1>2. CASE \E covariance \in Covariances : logs = ImuLogs(topic, covariance)
  <2>1. PICK covariance \in Covariances : logs = ImuLogs(topic, covariance)
    BY <1>2
  <2> DEFINE entity(part) == Parts(topic \o <<"/", "Imu", "/", part>>)
             vectors == {v \in Vectors : covariance[v] > -1}
             turns == {v \in {"orientation"} : covariance[v] > -1}
             scalars == {<<Append(entity(v), <<axis>>), "Scalars">> : v \in vectors, axis \in Axes}
             transforms == {<<entity(v), "Transform3D">> : v \in turns}
  <2>2. logs = [l \in scalars \cup transforms |-> [by |-> topic, value |-> "sample"]]
    BY <2>1 DEF ImuLogs, Vectors, Axes
  <2>3. logs[k].by = topic /\ logs[k].value = "sample" /\ k \in scalars \cup transforms
    <3> HIDE DEF scalars, transforms
    <3> QED
      BY <2>2
  <2>4. CASE k \in scalars
    <3>1. PICK v \in vectors, axis \in Axes : k = <<Append(entity(v), <<axis>>), "Scalars">>
      <4> HIDE DEF entity, vectors
      <4> QED
        BY <2>4
    <3>2. k[1] = Append(entity(v), <<axis>>) /\ k[2] = "Scalars" /\ v \in Vectors
      <4> HIDE DEF entity
      <4> QED
        BY <3>1
    <3> HIDE DEF vectors
    <3>3. IsVectorEntry(topic, k, logs[k])
      BY <2>3, <3>2 DEF IsVectorEntry
    <3> QED
      BY <2>3, <3>3 DEF IsEntry
  <2>5. CASE k \in transforms
    <3>1. k = <<entity("orientation"), "Transform3D">>
      BY <2>5
    <3>2. k[1] = entity("orientation") /\ k[2] = "Transform3D"
      <4> HIDE DEF entity
      <4> QED
        BY <3>1
    <3>3. IsTurnEntry(topic, k, logs[k])
      BY <2>3, <3>2 DEF IsTurnEntry
    <3> QED
      BY <2>3, <3>3 DEF IsEntry
  <2> HIDE DEF scalars, transforms
  <2> QED
    BY <2>3, <2>4, <2>5
<1>3. CASE \E encoding \in Encodings : logs = ImageLogs(topic, encoding)
  <2>1. PICK encoding \in Encodings : logs = ImageLogs(topic, encoding)
    BY <1>3
  <2>2. CASE encoding = "16UC1" /\ NamesDepth(topic)
    <3>1. logs = Log(ImagePath(topic, "DepthImage"), "DepthImage", topic, encoding)
      BY <2>1, <2>2 DEF ImageLogs
    <3> QED
      BY <3>1, EntryOfLog DEF ImagePath, IsEntry, IsDepthEntry
  <2>3. CASE encoding \in {"rgb8", "rgba8", "mono8"} \/ (encoding = "16UC1" /\ ~NamesDepth(topic))
    <3>1. logs = Log(ImagePath(topic, "Image"), "Image", topic, encoding)
      BY <2>1, <2>3 DEF ImageLogs
    <3> QED
      BY <2>3, <3>1, EntryOfLog DEF ImagePath, IsEntry, IsImageEntry
  <2>4. CASE encoding = "bayer_rggb8"
    BY <2>1, <2>4 DEF ImageLogs, EmptyMap
  <2> QED
    BY <2>2, <2>3, <2>4 DEF Encodings
<1>4. CASE \E calibrated \in BOOLEAN : logs = CameraInfoLogs(topic, calibrated)
  <2>1. PICK calibrated \in BOOLEAN : logs = CameraInfoLogs(topic, calibrated)
    BY <1>4
  <2> DEFINE value == IF NamesDepth(topic) THEN "focal length" ELSE "matrix"
  <2>2. CameraNamespace(topic) # NoNamespace
    BY <2>1 DEF CameraInfoLogs, EmptyMap
  <2>3. logs = Log(CameraNamespace(topic), "Pinhole", topic, value)
    BY <2>1, <2>2 DEF CameraInfoLogs, EmptyMap
  <2>4. /\ k[1] = Parts(CameraNamespace(topic)) /\ k[2] = "Pinhole"
        /\ logs[k].by = topic /\ logs[k].value = value
    <3> HIDE DEF value
    <3> QED
      BY <2>3, EntryOfLog
  <2> QED
    BY <2>2, <2>4 DEF IsEntry, IsCameraEntry
<1> QED
  BY <1>1, <1>2, <1>3, <1>4 DEF LogsOf

LEMMA ShownIsEntry ==
    ASSUME FromCallback, NEW k \in DOMAIN shown
    PROVE  shown[k].by \in Topics /\ IsEntry(shown[k].by, k, shown[k])
<1>1. PICK topic \in Topics : IsEntry(topic, k, shown[k])
  BY LogsAreEntries DEF FromCallback
<1> QED
  BY <1>1 DEF IsEntry

-----------------------------------------------------------------------------
\* Clouds.

LEMMA ProductOfNats ==
    ASSUME NEW a \in Nat, NEW b \in Nat
    PROVE  a * b \in Nat
OBVIOUS

LEMMA ProductMonotone ==
    ASSUME NEW a \in Nat, NEW b \in Nat, NEW c \in Nat, a <= b
    PROVE  a * c <= b * c
<1> DEFINE d == b - a
<1>1. d \in Nat /\ b = a + d
  OBVIOUS
<1>2. (a + d) * c = a * c + d * c
  BY <1>1
<1>3. d * c \in Nat /\ a * c \in Nat
  BY <1>1, ProductOfNats
<1> HIDE DEF d
<1> QED
  BY <1>1, <1>2, <1>3

\* The number of points of a well-formed cloud does not overflow.
LEMMA CountOfWellFormed ==
    ASSUME NEW cloud \in Clouds, WellFormed(cloud)
    PROVE  PointCount(cloud) = cloud.height * cloud.width
<1> DEFINE h == cloud.height
           w == cloud.width
           s == cloud.pointStep
<1>1. h \in Nat /\ w \in Nat /\ s \in Nat /\ s > 0 /\ cloud.rowStep = w * s
  BY CloudsAssumption DEF WellFormed
<1>2. h * (w * s) < Word
  BY <1>1 DEF WellFormed
<1> HIDE DEF h, w, s
<1>3. h * (w * s) = s * (h * w)
  BY <1>1
<1>4. h * w \in Nat /\ 1 * (h * w) = h * w
  BY <1>1, ProductOfNats
<1>5. 1 * (h * w) <= s * (h * w)
  BY <1>1, <1>4, ProductMonotone
<1>6. s * (h * w) \in Nat
  BY <1>1, <1>4, ProductOfNats
<1>7. h * w < Word
  BY <1>2, <1>3, <1>4, <1>5, <1>6, WordAssumption
<1>8. \A n \in Nat : n < Word => n % Word = n
  BY WordAssumption
<1> QED
  BY <1>4, <1>7, <1>8 DEF PointCount, h, w

\* So each of its points is read at the offset of its row and column.
LEMMA OffsetsOfWellFormed ==
    ASSUME NEW cloud \in Clouds, WellFormed(cloud)
    PROVE  /\ Len(Offsets(cloud)) = cloud.height * cloud.width
           /\ \A r \in 1 .. cloud.height, c \in 1 .. cloud.width :
                  Offsets(cloud)[(r - 1) * cloud.width + c]
                      = (r - 1) * cloud.rowStep + (c - 1) * cloud.pointStep
<1> DEFINE h == cloud.height
           w == cloud.width
           s == cloud.pointStep
           n == h * w
           offsets == [i \in 1 .. n |-> (i - 1) * s]
<1>1. h \in Nat /\ w \in Nat /\ s \in Nat /\ cloud.rowStep = w * s
  BY CloudsAssumption DEF WellFormed
<1>2. Offsets(cloud) = offsets
  BY CountOfWellFormed DEF Offsets
<1>3. n \in Nat
  BY <1>1, ProductOfNats
<1>4. Len(offsets) = n
  <2> HIDE DEF n
  <2> QED
    BY <1>3
<1>5. ASSUME NEW r \in 1 .. h, NEW c \in 1 .. w
      PROVE  offsets[(r - 1) * w + c] = (r - 1) * (w * s) + (c - 1) * s
  <2> DEFINE q == (r - 1) * w
             i == q + c
  <2>1. r - 1 \in Nat /\ r \in Nat /\ r <= h /\ c \in Nat /\ c >= 1 /\ c <= w
    BY <1>1
  <2>2. q \in Nat /\ r * w \in Nat
    BY <1>1, <2>1, ProductOfNats
  <2>3. r * w <= n
    BY <1>1, <2>1, ProductMonotone
  <2>4. q + w = r * w
    BY <1>1, <2>1
  <2>5. i \in 1 .. n
    <3> HIDE DEF q, n
    <3> QED
      BY <1>1, <1>3, <2>1, <2>2, <2>3, <2>4
  <2>6. offsets[i] = (i - 1) * s
    <3> HIDE DEF n, i
    <3> QED
      BY <2>5
  <2>7. (i - 1) * s = q * s + (c - 1) * s
    <3>1. \A x, y, z \in Int : (x + y - 1) * z = x * z + (y - 1) * z
      OBVIOUS
    <3> HIDE DEF q
    <3> QED
      BY <1>1, <2>1, <2>2, <3>1
  <2>8. q * s = (r - 1) * (w * s)
    BY <1>1, <2>1
  <2> HIDE DEF q, i, offsets
  <2> QED
    BY <2>6, <2>7, <2>8 DEF q, i
<1> HIDE DEF offsets, n
<1> QED
  BY <1>1, <1>2, <1>4, <1>5 DEF n

\* Whatever the word of the build is, a well-formed cloud is shown whole.
THEOREM CloudsAreWhole == Spec => []CloudIsWhole
<1>1. FromCallback => CloudIsWhole
  <2> SUFFICES ASSUME FromCallback, NEW k \in DOMAIN shown, k[2] = "Points3D",
                      WellFormed(shown[k].value.cloud)
               PROVE  LET cloud   == shown[k].value.cloud
                          offsets == shown[k].value.offsets
                      IN  /\ Len(offsets) = cloud.height * cloud.width
                          /\ \A r \in 1 .. cloud.height, c \in 1 .. cloud.width :
                                 offsets[(r - 1) * cloud.width + c]
                                     = (r - 1) * cloud.rowStep + (c - 1) * cloud.pointStep
    BY DEF CloudIsWhole
  <2>1. IsCloudEntry(shown[k].by, k, shown[k])
    BY ShownIsEntry DEF IsEntry, IsVectorEntry, IsTurnEntry, IsDepthEntry, IsImageEntry,
                        IsCameraEntry
  <2>2. PICK cloud \in Clouds : shown[k].value = [cloud |-> cloud, offsets |-> Offsets(cloud)]
    BY <2>1 DEF IsCloudEntry
  <2>3. shown[k].value.cloud = cloud /\ shown[k].value.offsets = Offsets(cloud)
    BY <2>2
  <2>4. WellFormed(cloud)
    BY <2>3
  <2> QED
    BY <2>3, <2>4, OffsetsOfWellFormed
<1> QED
  BY <1>1, AllFromCallback, PTL

-----------------------------------------------------------------------------
\* Numbers and names.

\* A non-empty set of numbers has a least one.
LEMMA LeastNumber ==
    ASSUME NEW T \in SUBSET Nat, T # {}
    PROVE  \E n \in T : \A m \in T : n <= m
<1>1. PICK k \in T : TRUE
  OBVIOUS
<1> DEFINE Intervals == {X \in SUBSET (1 .. k) : \E m \in T : X = 1 .. m}
<1>2. Intervals \subseteq SUBSET (1 .. k) /\ 1 .. k \in Intervals
  OBVIOUS
<1>3. IsWellFoundedOn(StrictSubsetOrdering(1 .. k), SUBSET (1 .. k))
  <2>1. IsFiniteSet(1 .. k)
    BY FS_Interval
  <2> HIDE DEF Intervals
  <2> QED
    BY <2>1, FS_StrictSubsetOrderingWellFounded, FS_FiniteSubsetsOfFinite
<1>4. PICK X \in Intervals : \A Y \in Intervals : ~(<<Y, X>> \in StrictSubsetOrdering(1 .. k))
  <2> HIDE DEF Intervals
  <2> QED
    BY <1>2, <1>3, WFMin
<1>5. PICK n \in T : X = 1 .. n
  BY <1>4
<1>6. ASSUME NEW m \in T, m < n PROVE FALSE
  <2>1. 1 .. m \subseteq 1 .. n /\ n \in 1 .. n /\ n \notin 1 .. m
    BY <1>6
  <2>2. 1 .. m \in Intervals
    BY <1>4, <1>5, <2>1
  <2>3. <<1 .. m, X>> \in StrictSubsetOrdering(1 .. k)
    BY <1>4, <1>5, <2>1, <2>2 DEF StrictSubsetOrdering
  <2> QED
    BY <1>4, <2>2, <2>3
<1> QED
  BY <1>6

LEMMA ShortestName ==
    ASSUME NEW T, NEW S \in SUBSET Seq(T), S # {}
    PROVE  \E s \in S : \A t \in S : Len(s) <= Len(t)
<1> DEFINE Lengths == {Len(s) : s \in S}
<1>1. Lengths \in SUBSET Nat /\ Lengths # {}
  <2>1. \A s \in S : Len(s) \in Nat
    OBVIOUS
  <2>2. PICK s \in S : TRUE
    OBVIOUS
  <2>3. Len(s) \in Lengths
    BY <2>2
  <2> QED
    BY <2>1, <2>3
<1>2. PICK n \in Lengths : \A m \in Lengths : n <= m
  <2> HIDE DEF Lengths
  <2> QED
    BY <1>1, LeastNumber
<1> QED
  BY <1>2

\* k is the place of the last slash, 0 where there is none.
IsLastSlash(name, k) ==
    /\ k \in 0 .. Len(name)
    /\ k # 0 => name[k] = "/"
    /\ \A i \in k + 1 .. Len(name) : name[i] # "/"

LEMMA LastSlashFound ==
    ASSUME NEW name, Len(name) \in Nat
    PROVE  IsLastSlash(name, LastSlash(name))
<1> DEFINE I == {i \in 1 .. Len(name) : name[i] = "/"}
           below(i) == Len(name) - i
           D == {below(i) : i \in I}
<1>1. LastSlash(name) = IF I # {} THEN Max(I) ELSE 0
  BY DEF LastSlash, SelectLastInSeq
<1>2. CASE I = {}
  BY <1>1, <1>2 DEF IsLastSlash
<1>3. CASE I # {}
  <2>1. D \in SUBSET Nat /\ D # {}
    BY <1>3
  <2>2. PICK d \in D : \A e \in D : d <= e
    <3> HIDE DEF D
    <3> QED
      BY <2>1, LeastNumber
  <2>3. PICK i \in I : d = below(i)
    BY <2>2
  <2>4. ASSUME NEW j \in I PROVE i >= j
    <3>1. below(j) \in D
      OBVIOUS
    <3>2. below(i) <= below(j)
      BY <2>2, <2>3, <3>1
    <3> QED
      BY <3>2
  <2>5. Max(I) \in I /\ \A j \in I : Max(I) >= j
    <3> HIDE DEF I
    <3> QED
      BY <2>3, <2>4 DEF Max
  <2>6. LastSlash(name) = Max(I)
    BY <1>1, <1>3
  <2>7. \A j \in 1 .. Len(name) : name[j] = "/" => Max(I) >= j
    BY <2>5
  <2>8. Max(I) \in 1 .. Len(name) /\ name[Max(I)] = "/"
    BY <2>5
  <2> DEFINE m == Max(I)
  <2>9. m \in 1 .. Len(name) /\ name[m] = "/" /\ \A j \in 1 .. Len(name) : name[j] = "/" => m >= j
    BY <2>7, <2>8
  <2> HIDE DEF m, I
  <2>10. IsLastSlash(name, m)
    BY <2>9 DEF IsLastSlash
  <2> QED
    BY <2>6, <2>10 DEF m
<1> QED
  BY <1>2, <1>3

LEMMA LastSlashUnique ==
    ASSUME NEW name, Len(name) \in Nat, NEW k, IsLastSlash(name, k)
    PROVE  LastSlash(name) = k
BY LastSlashFound DEF IsLastSlash

LEMMA TopicIsName ==
    ASSUME NEW topic \in Topics
    PROVE  /\ IsTopicName(topic)
           /\ topic \in Seq(STRING) /\ Len(topic) \in Nat
           /\ LastSlash(topic) \in 0 .. Len(topic)
<1>1. IsTopicName(topic)
  BY TopicsAssumption DEF Topics
<1>2. topic \in Seq(STRING) /\ Len(topic) \in Nat
  BY <1>1 DEF IsTopicName
<1> QED
  BY <1>1, <1>2, LastSlashFound DEF IsLastSlash

-----------------------------------------------------------------------------
\* Types and classes.

\* The class made for a type has the name of that type, and of no other.
LEMMA ClassHasItsType ==
    ASSUME NEW topic, NEW type, ConverterFor(topic, type) # None
    PROVE  RosTypeName(ConverterFor(topic, type)) = type
<1>1. CASE type = "std_msgs/msg/String" /\ Contains(topic, "robot_description")
  BY <1>1 DEF ConverterFor, RosTypeName, RobotDescriptionType, PointCloud2Type, ImuType,
                   ImageType, CameraInfoType
<1>2. CASE type = "sensor_msgs/msg/PointCloud2"
  BY <1>2 DEF ConverterFor, RosTypeName, RobotDescriptionType, PointCloud2Type, ImuType,
                   ImageType, CameraInfoType
<1>3. CASE type = "sensor_msgs/msg/Imu"
  BY <1>3 DEF ConverterFor, RosTypeName, RobotDescriptionType, PointCloud2Type, ImuType,
                   ImageType, CameraInfoType
<1>4. CASE type = "sensor_msgs/msg/Image"
  BY <1>4 DEF ConverterFor, RosTypeName, RobotDescriptionType, PointCloud2Type, ImuType,
                   ImageType, CameraInfoType
<1>5. CASE type = "sensor_msgs/msg/CameraInfo"
  BY <1>5 DEF ConverterFor, RosTypeName, RobotDescriptionType, PointCloud2Type, ImuType,
                   ImageType, CameraInfoType
<1> QED
  BY <1>1, <1>2, <1>3, <1>4, <1>5 DEF ConverterFor

LEMMA CameraClasses ==
    ASSUME NEW topic, NEW type
    PROVE  ConverterFor(topic, type) \in {"Image", "CameraInfo"}
               <=> type \in {"sensor_msgs/msg/Image", "sensor_msgs/msg/CameraInfo"}
BY DEF ConverterFor, None

\* For any topics and types, the factory and the names of the classes agree.
THEOREM NamesAgree == Spec => []TypeNamesAgree
<1>1. TypeNamesAgree
  <2> SUFFICES ASSUME NEW topic \in Topics
               PROVE  LET types   == {type \in {pair[2] : pair \in Advertised} : <<topic, type>> \in Advertised}
                          classes == {ConverterFor(topic, type) : type \in types}
                      IN  /\ {RosTypeName(class) : class \in classes \ {None}}
                               = {type \in types : ConverterFor(topic, type) # None}
                          /\ IsCameraTopic(types) = (classes \cap {"Image", "CameraInfo"} # {})
    BY DEF TypeNamesAgree
  <2> DEFINE types == {type \in {pair[2] : pair \in Advertised} : <<topic, type>> \in Advertised}
             classes == {ConverterFor(topic, type) : type \in types}
             names == {RosTypeName(class) : class \in classes \ {None}}
             made == {type \in types : ConverterFor(topic, type) # None}
  <2>1. names = made
    <3> HIDE DEF types
    <3>1. ASSUME NEW n \in names PROVE n \in made
      <4>1. PICK class \in classes \ {None} : n = RosTypeName(class)
        OBVIOUS
      <4>2. PICK type \in types : class = ConverterFor(topic, type)
        BY <4>1
      <4> QED
        BY <4>1, <4>2, ClassHasItsType
    <3>2. ASSUME NEW type \in made PROVE type \in names
      <4>1. ConverterFor(topic, type) \in classes \ {None}
        OBVIOUS
      <4>2. RosTypeName(ConverterFor(topic, type)) = type
        BY ClassHasItsType
      <4> QED
        BY <4>1, <4>2
    <3> QED
      BY <3>1, <3>2
  <2>2. IsCameraTopic(types) = (classes \cap {"Image", "CameraInfo"} # {})
    <3> HIDE DEF types
    <3>1. IsCameraTopic(types)
              <=> \E type \in types : type \in {"sensor_msgs/msg/Image", "sensor_msgs/msg/CameraInfo"}
      BY DEF IsCameraTopic
    <3>2. classes \cap {"Image", "CameraInfo"} # {}
              <=> \E type \in types : ConverterFor(topic, type) \in {"Image", "CameraInfo"}
      OBVIOUS
    <3>3. IsCameraTopic(types) \in BOOLEAN
      BY DEF IsCameraTopic
    <3> QED
      BY <3>1, <3>2, <3>3, CameraClasses
  <2> QED
    BY <2>1, <2>2
<1> QED
  BY <1>1, PTL

-----------------------------------------------------------------------------
\* The parts of a name.

\* All strings: the provers do not see that those of the model are among them.
Text == STRING \cup {"/", "PointCloud2", "Imu", "Image", "DepthImage", "orientation"}
               \cup Vectors \cup Axes

IsSlashBefore(name, n, k) ==
    /\ k \in 0 .. n
    /\ k # 0 => name[k] = "/"
    /\ \A i \in k + 1 .. n : name[i] # "/"

LEMMA SlashBeforeFound ==
    ASSUME NEW name \in Seq(Text), NEW n \in 0 .. Len(name)
    PROVE  IsSlashBefore(name, n, SlashBefore(name, n))
<1> DEFINE s == SubSeq(name, 1, n)
           k == LastSlash(s)
<1>1. Len(s) = n /\ \A i \in 1 .. n : s[i] = name[i]
  OBVIOUS
<1>2. n \in Nat
  OBVIOUS
<1> HIDE DEF s
<1>3. IsLastSlash(s, k)
  BY <1>1, <1>2, LastSlashFound
<1> HIDE DEF k
<1>4. IsSlashBefore(name, n, k)
  BY <1>1, <1>2, <1>3 DEF IsLastSlash, IsSlashBefore
<1> QED
  BY <1>4 DEF k, s, SlashBefore

LEMMA SlashBeforeUnique ==
    ASSUME NEW name \in Seq(Text), NEW n \in 0 .. Len(name), NEW k, IsSlashBefore(name, n, k)
    PROVE  SlashBefore(name, n) = k
BY SlashBeforeFound DEF IsSlashBefore

\* The equation of Parts' recursive function, up to the first N tokens.
NextParts(p, name, n) ==
    IF n = 0 THEN <<>>
    ELSE IF SlashBefore(name, n) = n THEN p[n - 1]
    ELSE Append(p[SlashBefore(name, n)], SubSeq(name, SlashBefore(name, n) + 1, n))

IsPartsTo(p, name, N) == p = [n \in 0 .. N |-> NextParts(p, name, n)]

\* It looks at smaller numbers only.
LEMMA NextPartsLocal ==
    ASSUME NEW name \in Seq(Text), NEW n \in 0 .. Len(name), NEW p, NEW q,
           \A j \in 0 .. n - 1 : p[j] = q[j]
    PROVE  NextParts(p, name, n) = NextParts(q, name, n)
<1>1. SlashBefore(name, n) \in 0 .. n
  BY SlashBeforeFound DEF IsSlashBefore
<1> QED
  BY <1>1 DEF NextParts

LEMMA PartsExist ==
    ASSUME NEW name \in Seq(Text), NEW N \in 0 .. Len(name)
    PROVE  \E p : IsPartsTo(p, name, N)
<1> DEFINE S == {n \in 0 .. Len(name) : ~\E p : IsPartsTo(p, name, n)}
<1>1. SUFFICES ASSUME S # {} PROVE FALSE
  OBVIOUS
<1>2. PICK n \in S : \A m \in S : n <= m
  <2>1. S \in SUBSET Nat
    OBVIOUS
  <2> HIDE DEF S
  <2> QED
    BY <1>1, <2>1, LeastNumber
<1>3. n \in 0 .. Len(name) /\ Len(name) \in Nat
  OBVIOUS
<1>4. CASE n = 0
  <2> DEFINE p == [m \in 0 .. 0 |-> <<>>]
  <2>1. IsPartsTo(p, name, 0)
    BY DEF IsPartsTo, NextParts
  <2> QED
    BY <1>2, <1>4, <2>1
<1>5. CASE n # 0
  <2>1. n - 1 \in 0 .. Len(name) /\ n - 1 \notin S
    BY <1>2, <1>3, <1>5
  <2>2. PICK q : IsPartsTo(q, name, n - 1)
    BY <2>1
  <2> DEFINE p == [m \in 0 .. n |-> IF m < n THEN q[m] ELSE NextParts(q, name, n)]
  <2>3. \A m \in 0 .. n - 1 : p[m] = q[m]
    BY <1>3
  <2>4. p[n] = NextParts(q, name, n)
    BY <1>3
  <2>5. \A m \in 0 .. n - 1 : q[m] = NextParts(q, name, m)
    BY <2>2 DEF IsPartsTo
  <2>6. p = [m \in 0 .. n |-> p[m]]
    OBVIOUS
  <2> HIDE DEF p
  <2>7. ASSUME NEW m \in 0 .. n PROVE p[m] = NextParts(p, name, m)
    <3>1. m \in 0 .. Len(name) /\ \A j \in 0 .. m - 1 : p[j] = q[j]
      BY <1>3, <2>3
    <3>2. NextParts(p, name, m) = NextParts(q, name, m)
      BY <3>1, NextPartsLocal
    <3>3. m \in 0 .. n - 1 \/ m = n
      BY <1>3
    <3> QED
      BY <2>3, <2>4, <2>5, <3>2, <3>3
  <2>8. IsPartsTo(p, name, n)
    BY <2>6, <2>7 DEF IsPartsTo
  <2> QED
    BY <1>2, <2>8
<1> QED
  BY <1>4, <1>5

\* Names that start alike have the same parts there.
LEMMA PartsAgree ==
    ASSUME NEW a \in Seq(Text), NEW b \in Seq(Text),
           NEW M \in 0 .. Len(a), NEW N \in 0 .. Len(b),
           NEW p, IsPartsTo(p, a, M), NEW q, IsPartsTo(q, b, N),
           NEW n \in Nat, n <= M, n <= N, \A i \in 1 .. n : a[i] = b[i]
    PROVE  p[n] = q[n]
<1> DEFINE S == {m \in 0 .. n : p[m] # q[m]}
<1>1. SUFFICES ASSUME S # {} PROVE FALSE
  OBVIOUS
<1>2. PICK m \in S : \A j \in S : m <= j
  <2>1. S \in SUBSET Nat
    OBVIOUS
  <2> HIDE DEF S
  <2> QED
    BY <1>1, <2>1, LeastNumber
<1>3. m \in 0 .. M /\ m \in 0 .. N /\ m \in 0 .. Len(a) /\ m \in 0 .. Len(b) /\ m \in Nat
  OBVIOUS
<1>4. \A j \in 0 .. m - 1 : p[j] = q[j]
  BY <1>2
<1>5. p[m] = NextParts(p, a, m) /\ q[m] = NextParts(q, b, m)
  BY <1>3 DEF IsPartsTo
<1>6. NextParts(p, a, m) = NextParts(q, a, m)
  BY <1>3, <1>4, NextPartsLocal
<1> DEFINE k == SlashBefore(a, m)
<1>7. IsSlashBefore(a, m, k)
  BY <1>3, SlashBeforeFound
<1>8. \A i \in 1 .. m : a[i] = b[i]
  BY <1>2
<1> HIDE DEF k, S
<1>9. IsSlashBefore(b, m, k)
  BY <1>3, <1>7, <1>8 DEF IsSlashBefore
<1>10. SlashBefore(b, m) = k
  BY <1>3, <1>9, SlashBeforeUnique
<1>11. SubSeq(a, k + 1, m) = SubSeq(b, k + 1, m)
  <2>1. k \in 0 .. m /\ k \in Nat
    BY <1>3, <1>7 DEF IsSlashBefore
  <2>2. \A i \in k + 1 .. m : i \in 1 .. Len(a) /\ i \in 1 .. Len(b) /\ a[i] = b[i]
    BY <1>3, <1>8, <2>1
  <2>3. /\ SubSeq(a, k + 1, m) = [i \in 1 .. m - (k + 1) + 1 |-> a[i + (k + 1) - 1]]
        /\ SubSeq(b, k + 1, m) = [i \in 1 .. m - (k + 1) + 1 |-> b[i + (k + 1) - 1]]
    BY <1>3, <2>1
  <2>4. \A i \in 1 .. m - (k + 1) + 1 : a[i + (k + 1) - 1] = b[i + (k + 1) - 1]
    BY <1>3, <2>1, <2>2
  <2> QED
    BY <2>3, <2>4
<1>12. NextParts(q, a, m) = NextParts(q, b, m)
  BY <1>10, <1>11 DEF NextParts, k
<1> QED
  BY <1>2, <1>5, <1>6, <1>12 DEF S

PartsOf(name) == CHOOSE p : IsPartsTo(p, name, Len(name))

LEMMA PartsOfIs ==
    ASSUME NEW name \in Seq(Text)
    PROVE  IsPartsTo(PartsOf(name), name, Len(name)) /\ Parts(name) = PartsOf(name)[Len(name)]
<1>1. Len(name) \in 0 .. Len(name)
  OBVIOUS
<1>2. IsPartsTo(PartsOf(name), name, Len(name))
  BY <1>1, PartsExist DEF PartsOf
<1>3. Parts(name) = PartsOf(name)[Len(name)]
  BY DEF Parts, PartsOf, IsPartsTo, NextParts
<1> QED
  BY <1>2, <1>3

-----------------------------------------------------------------------------
\* Names put together.

IsPiece(piece) ==
    piece \in Seq(Text) /\ Len(piece) >= 1 /\ \A i \in 1 .. Len(piece) : piece[i] # "/"

Join(a, piece) == (a \o <<"/">>) \o piece

LEMMA JoinIs ==
    ASSUME NEW a \in Seq(Text), NEW piece \in Seq(Text)
    PROVE  /\ Join(a, piece) \in Seq(Text)
           /\ Len(Join(a, piece)) = Len(a) + 1 + Len(piece)
           /\ \A i \in 1 .. Len(a) : Join(a, piece)[i] = a[i]
           /\ Join(a, piece)[Len(a) + 1] = "/"
           /\ \A i \in 1 .. Len(piece) : Join(a, piece)[Len(a) + 1 + i] = piece[i]
<1> DEFINE s == a \o <<"/">>
<1>1. <<"/">> \in Seq(Text) /\ Len(<<"/">>) = 1 /\ <<"/">>[1] = "/"
  <2>1. "/" \in Text
    BY DEF Text
  <2>2. \A t \in Text : <<t>> \in Seq(Text) /\ Len(<<t>>) = 1 /\ <<t>>[1] = t
    OBVIOUS
  <2> QED
    BY <2>1, <2>2
<1>2. /\ s \in Seq(Text) /\ Len(s) = Len(a) + 1
      /\ \A i \in 1 .. Len(a) : s[i] = a[i]
      /\ s[Len(a) + 1] = "/"
  BY <1>1
<1> HIDE DEF s
<1>3. /\ s \o piece \in Seq(Text) /\ Len(s \o piece) = Len(s) + Len(piece)
      /\ \A i \in 1 .. Len(s) + Len(piece) :
             (s \o piece)[i] = IF i <= Len(s) THEN s[i] ELSE piece[i - Len(s)]
  BY <1>2, ConcatProperties
<1>4. Len(a) \in Nat /\ Len(piece) \in Nat
  OBVIOUS
<1>5. \A i \in 1 .. Len(a) : (s \o piece)[i] = a[i]
  BY <1>2, <1>3, <1>4
<1>6. (s \o piece)[Len(a) + 1] = "/"
  BY <1>2, <1>3, <1>4
<1>7. \A i \in 1 .. Len(piece) : (s \o piece)[Len(a) + 1 + i] = piece[i]
  <2> SUFFICES ASSUME NEW i \in 1 .. Len(piece)
               PROVE  (s \o piece)[Len(a) + 1 + i] = piece[i]
    OBVIOUS
  <2>1. Len(a) + 1 + i \in 1 .. Len(s) + Len(piece) /\ ~(Len(a) + 1 + i <= Len(s))
        /\ Len(a) + 1 + i - Len(s) = i
    BY <1>2, <1>4
  <2> QED
    BY <1>3, <2>1
<1> QED
  BY <1>2, <1>3, <1>5, <1>6, <1>7 DEF Join, s

\* The empty name has no part, and a slash starts a new one.
LEMMA PartsOfEmpty == Parts(<<>>) = <<>>
<1>1. <<>> \in Seq(Text) /\ Len(<<>>) = 0
  OBVIOUS
<1> DEFINE p == PartsOf(<<>>)
<1>2. IsPartsTo(p, <<>>, 0) /\ Parts(<<>>) = p[0]
  BY <1>1, PartsOfIs
<1> HIDE DEF p
<1>3. p[0] = NextParts(p, <<>>, 0)
  BY <1>2 DEF IsPartsTo
<1> QED
  BY <1>2, <1>3 DEF NextParts

LEMMA PartsOfJoin ==
    ASSUME NEW a \in Seq(Text), NEW piece, IsPiece(piece)
    PROVE  Parts(Join(a, piece)) = Append(Parts(a), piece)
<1> DEFINE name == Join(a, piece)
           p == PartsOf(name)
           q == PartsOf(a)
           l == Len(a)
           n == Len(name)
<1>1. /\ name \in Seq(Text) /\ n = l + 1 + Len(piece)
      /\ \A i \in 1 .. l : name[i] = a[i]
      /\ name[l + 1] = "/"
      /\ \A i \in 1 .. Len(piece) : name[l + 1 + i] = piece[i]
  BY JoinIs DEF IsPiece
<1>2. l \in Nat /\ Len(piece) \in Nat /\ Len(piece) >= 1 /\ piece \in Seq(Text)
  BY DEF IsPiece
<1>3. n \in 0 .. n /\ l + 1 \in 0 .. n /\ n > l + 1 /\ n \in Nat
  BY <1>1, <1>2
<1>4. /\ IsPartsTo(p, name, n) /\ Parts(name) = p[n]
      /\ IsPartsTo(q, a, l) /\ Parts(a) = q[l]
  BY <1>1, PartsOfIs
<1> HIDE DEF name, p, q, l
<1>5. SlashBefore(name, n) = l + 1
  <2>1. \A i \in l + 2 .. n : i - (l + 1) \in 1 .. Len(piece) /\ l + 1 + (i - (l + 1)) = i
    BY <1>1, <1>2, <1>3
  <2>2. \A i \in l + 2 .. n : name[i] # "/"
    BY <1>1, <2>1 DEF IsPiece
  <2>3. IsSlashBefore(name, n, l + 1)
    BY <1>1, <1>2, <1>3, <2>2 DEF IsSlashBefore
  <2> HIDE DEF n
  <2> QED
    BY <1>1, <1>3, <2>3, SlashBeforeUnique DEF n
<1>6. SlashBefore(name, l + 1) = l + 1
  <2>1. IsSlashBefore(name, l + 1, l + 1)
    BY <1>1, <1>2, <1>3 DEF IsSlashBefore
  <2> QED
    BY <1>1, <1>3, <2>1, SlashBeforeUnique
<1>7. p[l + 1] = p[l]
  <2>1. p[l + 1] = NextParts(p, name, l + 1)
    BY <1>3, <1>4 DEF IsPartsTo
  <2> QED
    BY <1>2, <1>6, <2>1 DEF NextParts
<1>8. p[l] = q[l]
  <2>1. l \in 0 .. Len(a) /\ n \in 0 .. Len(name) /\ l <= n /\ l <= l
    BY <1>1, <1>2, <1>3 DEF l
  <2> HIDE DEF n
  <2> QED
    BY <1>1, <1>2, <1>4, <2>1, PartsAgree
<1>9. SubSeq(name, l + 2, n) = piece
  <2> DEFINE s == SubSeq(name, l + 2, n)
  <2>1. s = [i \in 1 .. n - (l + 2) + 1 |-> name[i + (l + 2) - 1]]
    BY <1>1, <1>2, <1>3
  <2>2. n - (l + 2) + 1 = Len(piece) /\ \A i \in 1 .. Len(piece) : i + (l + 2) - 1 = l + 1 + i
    BY <1>1, <1>2
  <2>3. \A i \in 1 .. Len(piece) : name[i + (l + 2) - 1] = piece[i]
    BY <1>1, <2>2
  <2>4. piece = [i \in 1 .. Len(piece) |-> piece[i]]
    BY <1>2
  <2> HIDE DEF s
  <2>5. s = piece
    BY <2>1, <2>2, <2>3, <2>4
  <2> QED
    BY <2>5 DEF s
<1>10. p[n] = Append(p[l + 1], piece)
  <2>1. p[n] = NextParts(p, name, n)
    BY <1>3, <1>4 DEF IsPartsTo
  <2>2. l + 1 + 1 = l + 2 /\ n # 0 /\ l + 1 # n
    BY <1>2, <1>3
  <2> QED
    BY <1>5, <1>9, <2>1, <2>2 DEF NextParts
<1> QED
  BY <1>4, <1>7, <1>8, <1>10 DEF name

LEMMA PartsTyped ==
    ASSUME NEW name \in Seq(Text)
    PROVE  Parts(name) \in Seq(Seq(Text))
<1> DEFINE p == PartsOf(name)
           S == {n \in 0 .. Len(name) : p[n] \notin Seq(Seq(Text))}
<1>1. IsPartsTo(p, name, Len(name)) /\ Parts(name) = p[Len(name)] /\ Len(name) \in Nat
  BY PartsOfIs
<1>2. S = {}
  <2> SUFFICES ASSUME S # {} PROVE FALSE
    OBVIOUS
  <2>1. PICK n \in S : \A m \in S : n <= m
    <3>1. S \in SUBSET Nat
      OBVIOUS
    <3> HIDE DEF S
    <3> QED
      BY <3>1, LeastNumber
  <2>2. n \in 0 .. Len(name) /\ p[n] \notin Seq(Seq(Text)) /\ n \in Nat
    OBVIOUS
  <2>3. \A j \in 0 .. n - 1 : p[j] \in Seq(Seq(Text))
    BY <1>1, <2>1, <2>2
  <2> HIDE DEF p, S
  <2>4. p[n] = NextParts(p, name, n)
    BY <1>1, <2>2 DEF IsPartsTo
  <2>5. IsSlashBefore(name, n, SlashBefore(name, n))
    BY <2>2, SlashBeforeFound
  <2> DEFINE k == SlashBefore(name, n)
  <2>6. k \in 0 .. n
    BY <2>5 DEF IsSlashBefore
  <2>7. NextParts(p, name, n) \in Seq(Seq(Text))
    <3> HIDE DEF k
    <3>1. CASE n = 0
      BY <3>1 DEF NextParts
    <3>2. CASE n # 0 /\ k = n
      BY <2>2, <2>3, <3>2 DEF NextParts, k
    <3>3. CASE n # 0 /\ k # n
      <4>1. p[k] \in Seq(Seq(Text))
        BY <2>2, <2>3, <2>6, <3>3
      <4>2. SubSeq(name, k + 1, n) \in Seq(Text)
        BY <2>2, <2>6, <3>3
      <4>3. Append(p[k], SubSeq(name, k + 1, n)) \in Seq(Seq(Text))
        BY <4>1, <4>2
      <4> QED
        BY <3>3, <4>3 DEF NextParts, k
    <3> QED
      BY <3>1, <3>2, <3>3
  <2> QED
    BY <2>2, <2>4, <2>7
<1>3. Len(name) \notin S
  BY <1>2
<1> QED
  BY <1>1, <1>3

-----------------------------------------------------------------------------
\* The names of topics.

\* A topic's name is its last piece, below a name that is none or a topic's too,
\* and is then its camera namespace.
IsSplit(name, a, piece) ==
    /\ a \in Seq(Text) /\ IsPiece(piece)
    /\ name = Join(a, piece)
    /\ Len(a) < Len(name)
    /\ LastSlash(name) = Len(a) + 1
    /\ a = <<>> \/ IsTopicName(a)
    /\ CameraNamespace(name) = IF a = <<>> THEN NoNamespace ELSE a

LEMMA NameIsText ==
    ASSUME NEW name, IsTopicName(name)
    PROVE  name \in Seq(Text) /\ Len(name) \in Nat /\ Len(name) >= 2
BY DEF IsTopicName, Text

LEMMA NameSplits ==
    ASSUME NEW name, IsTopicName(name)
    PROVE  \E a, piece : IsSplit(name, a, piece)
<1> DEFINE n == Len(name)
           k == LastSlash(name)
           a == SubSeq(name, 1, k - 1)
           piece == SubSeq(name, k + 1, n)
<1>1. /\ name \in Seq(STRING) /\ n \in Nat /\ n >= 2
      /\ name[1] = "/" /\ name[n] # "/"
      /\ \A i \in 1 .. n - 1 : name[i] = "/" => name[i + 1] # "/"
  BY DEF IsTopicName
<1>2. name \in Seq(Text)
  BY NameIsText
<1>3. k \in 0 .. n /\ (k # 0 => name[k] = "/") /\ \A i \in k + 1 .. n : name[i] # "/"
  BY <1>1, LastSlashFound DEF IsLastSlash
<1>4. k >= 1 /\ k < n /\ k \in Nat
  <2>1. k # n
    BY <1>1, <1>3
  <2>2. k # 0
    BY <1>1, <1>3
  <2> HIDE DEF k, n
  <2> QED
    BY <1>1, <1>3, <2>1, <2>2
<1> HIDE DEF k, n
<1>5. /\ a \in Seq(STRING) /\ a \in Seq(Text) /\ Len(a) = k - 1
      /\ \A i \in 1 .. k - 1 : a[i] = name[i]
  BY <1>1, <1>2, <1>4 DEF n
<1>6. /\ piece \in Seq(Text) /\ Len(piece) = n - k
      /\ \A i \in 1 .. n - k : piece[i] = name[k + i]
  <2>1. piece = [i \in 1 .. n - (k + 1) + 1 |-> name[i + (k + 1) - 1]]
    BY <1>1, <1>2, <1>4 DEF n
  <2>2. n - (k + 1) + 1 = n - k /\ \A i \in 1 .. n - k : i + (k + 1) - 1 = k + i /\ k + i \in 1 .. n
    BY <1>1, <1>4
  <2>3. \A i \in 1 .. n - k : name[k + i] \in Text
    BY <1>2, <2>2 DEF n
  <2>4. piece = [i \in 1 .. n - k |-> name[k + i]]
    BY <2>1, <2>2
  <2>5. n - k \in Nat
    BY <1>1, <1>4
  <2> HIDE DEF piece
  <2> QED
    BY <2>3, <2>4, <2>5
<1> HIDE DEF a, piece
<1>7. IsPiece(piece)
  <2>1. \A i \in 1 .. n - k : k + i \in k + 1 .. n
    BY <1>1, <1>4
  <2>2. Len(piece) >= 1
    BY <1>1, <1>4, <1>6
  <2> QED
    BY <1>3, <1>6, <2>1, <2>2 DEF IsPiece
<1>8. name = Join(a, piece)
  <2>1. /\ Join(a, piece) \in Seq(Text) /\ Len(Join(a, piece)) = n
        /\ \A i \in 1 .. k - 1 : Join(a, piece)[i] = name[i]
        /\ Join(a, piece)[k] = name[k]
        /\ \A i \in 1 .. n - k : Join(a, piece)[k + i] = name[k + i]
    <3>1. Len(a) + 1 = k /\ Len(a) + 1 + Len(piece) = n
      BY <1>1, <1>4, <1>5, <1>6
    <3> DEFINE j == Join(a, piece)
    <3>2. /\ j \in Seq(Text) /\ Len(j) = Len(a) + 1 + Len(piece)
          /\ \A i \in 1 .. Len(a) : j[i] = a[i]
          /\ j[Len(a) + 1] = "/"
          /\ \A i \in 1 .. Len(piece) : j[Len(a) + 1 + i] = piece[i]
      BY <1>5, <1>6, JoinIs
    <3>3. name[k] = "/"
      BY <1>3, <1>4
    <3> HIDE DEF j
    <3>4. \A i \in 1 .. k - 1 : j[i] = name[i]
      BY <1>5, <3>2
    <3>5. \A i \in 1 .. n - k : j[k + i] = name[k + i]
      BY <1>6, <3>1, <3>2
    <3>6. j \in Seq(Text) /\ Len(j) = n /\ j[k] = name[k]
      BY <3>1, <3>2, <3>3
    <3> QED
      BY <3>4, <3>5, <3>6 DEF j
  <2>2. ASSUME NEW i \in 1 .. n PROVE Join(a, piece)[i] = name[i]
    <3>1. CASE i \in 1 .. k
      <4>1. i \in 1 .. k - 1 \/ i = k
        BY <1>4, <3>1
      <4> QED
        BY <2>1, <4>1
    <3>2. CASE i \notin 1 .. k
      <4>1. i - k \in 1 .. n - k /\ k + (i - k) = i
        BY <1>1, <1>4, <3>2
      <4> QED
        BY <2>1, <4>1
    <3> QED
      BY <3>1, <3>2
  <2> QED
    BY <1>2, <2>1, <2>2, SeqEqual DEF n
<1>9. a = <<>> \/ IsTopicName(a)
  <2>1. CASE k = 1
    BY <1>5, <2>1
  <2>2. CASE k # 1
    <3>1. k - 1 \in 1 .. n - 1 /\ k - 1 + 1 = k
      BY <1>1, <1>4, <2>2
    <3>2. name[k - 1] # "/"
      BY <1>1, <1>3, <1>4, <3>1
    <3>3. k - 1 >= 2
      BY <1>1, <1>4, <2>2, <3>2
    <3>4. a[1] = "/" /\ a[Len(a)] # "/"
      BY <1>1, <1>5, <3>2, <3>3
    <3>5. \A i \in 1 .. Len(a) - 1 : a[i] = "/" => a[i + 1] # "/"
      <4> SUFFICES ASSUME NEW i \in 1 .. Len(a) - 1, a[i] = "/" PROVE a[i + 1] # "/"
        OBVIOUS
      <4>1. i \in 1 .. k - 1 /\ i + 1 \in 1 .. k - 1 /\ i \in 1 .. n - 1
        BY <1>1, <1>4, <1>5
      <4> QED
        BY <1>1, <1>5, <4>1
    <3> QED
      BY <1>5, <3>3, <3>4, <3>5 DEF IsTopicName
  <2> QED
    BY <2>1, <2>2
<1>10. CameraNamespace(name) = IF a = <<>> THEN NoNamespace ELSE a
  <2>1. a = <<>> <=> k = 1
    <3>1. Len(<<>>) = 0
      OBVIOUS
    <3> QED
      BY <1>4, <1>5, <3>1
  <2>2. CameraNamespace(name) = IF k = 1 THEN NoNamespace ELSE a
    BY <1>4 DEF CameraNamespace, k, a
  <2> QED
    BY <2>1, <2>2
<1>11. LastSlash(name) = Len(a) + 1 /\ Len(a) < Len(name)
  BY <1>1, <1>4, <1>5 DEF k, n
<1>12. IsSplit(name, a, piece)
  BY <1>5, <1>7, <1>8, <1>9, <1>10, <1>11 DEF IsSplit
<1> QED
  BY <1>12

LEMMA SplitParts ==
    ASSUME NEW name, NEW a, NEW piece, IsSplit(name, a, piece)
    PROVE  /\ Parts(name) = Append(Parts(a), piece)
           /\ Parts(a) \in Seq(Seq(Text)) /\ piece \in Seq(Text)
           /\ Len(Parts(name)) = Len(Parts(a)) + 1
<1>1. Parts(name) = Append(Parts(a), piece)
  BY PartsOfJoin DEF IsSplit
<1>2. Parts(a) \in Seq(Seq(Text)) /\ piece \in Seq(Text)
  BY PartsTyped DEF IsSplit, IsPiece
<1> QED
  BY <1>1, <1>2

LEMMA NameHasParts ==
    ASSUME NEW name, IsTopicName(name)
    PROVE  Parts(name) \in Seq(Seq(Text)) /\ Len(Parts(name)) >= 1
<1>1. PICK a, piece : IsSplit(name, a, piece)
  BY NameSplits
<1>2. Len(Parts(a)) \in Nat
  BY <1>1, SplitParts
<1> QED
  BY <1>1, <1>2, SplitParts, PartsTyped, NameIsText

\* No two topics have the same parts: the shortest that shared them with another
\* would lie below one that does.
LEMMA PartsInjective ==
    ASSUME NEW a, NEW b, IsTopicName(a), IsTopicName(b), Parts(a) = Parts(b)
    PROVE  a = b
<1> DEFINE Shares(x, y) == IsTopicName(x) /\ IsTopicName(y) /\ Parts(x) = Parts(y) /\ x # y
           S == {x \in Seq(Text) : \E y : Shares(x, y)}
<1> SUFFICES ASSUME a # b PROVE FALSE
  OBVIOUS
<1>1. a \in S
  BY NameIsText
<1>2. PICK x \in S : \A t \in S : Len(x) <= Len(t)
  <2>1. S \in SUBSET Seq(Text) /\ S # {}
    BY <1>1
  <2> HIDE DEF S
  <2> QED
    BY <2>1, ShortestName
<1>3. PICK y : Shares(x, y)
  BY <1>2
<1>4. PICK x1, xp : IsSplit(x, x1, xp)
  BY <1>3, NameSplits
<1>5. PICK y1, yp : IsSplit(y, y1, yp)
  BY <1>3, NameSplits
<1>6. Append(Parts(x1), xp) = Append(Parts(y1), yp)
  <2>1. Parts(x) = Append(Parts(x1), xp)
    BY <1>4, SplitParts
  <2>2. Parts(y) = Append(Parts(y1), yp)
    BY <1>5, SplitParts
  <2> QED
    BY <1>3, <2>1, <2>2
<1>7. Parts(x1) = Parts(y1) /\ xp = yp
  <2>1. /\ Parts(x1) \in Seq(Seq(Text)) /\ xp \in Seq(Text)
        /\ Parts(y1) \in Seq(Seq(Text)) /\ yp \in Seq(Text)
    BY <1>4, <1>5, SplitParts
  <2> QED
    BY <1>6, <2>1, AppendInjective
<1>8. x1 # y1
  BY <1>3, <1>4, <1>5, <1>7 DEF IsSplit
<1>9. IsTopicName(x1) /\ IsTopicName(y1)
  <2>1. ~(x1 = <<>> /\ IsTopicName(y1)) /\ ~(y1 = <<>> /\ IsTopicName(x1))
    <3>1. Len(<<>>) = 0
      OBVIOUS
    <3> QED
      BY <1>7, <3>1, NameHasParts, PartsOfEmpty
  <2> QED
    BY <1>4, <1>5, <1>8, <2>1 DEF IsSplit
<1>10. x1 \in S
  BY <1>7, <1>8, <1>9, NameIsText
<1>11. Len(x1) < Len(x) /\ Len(x1) \in Nat /\ Len(x) \in Nat
  BY <1>3, <1>4, <1>9, NameIsText DEF IsSplit
<1> HIDE DEF S
<1> QED
  BY <1>2, <1>10, <1>11

-----------------------------------------------------------------------------
\* Names below names.

LEMMA PrefixPointwise ==
    ASSUME NEW T, NEW s \in Seq(T), NEW t \in Seq(T)
    PROVE  IsPrefix(s, t) <=> Len(s) <= Len(t) /\ \A i \in 1 .. Len(s) : s[i] = t[i]
<1>1. Len(s) \in Nat /\ Len(t) \in Nat
  OBVIOUS
<1>2. ASSUME Len(s) <= Len(t)
      PROVE  SubSeq(s, 1, Len(s)) = SubSeq(t, 1, Len(s)) <=> \A i \in 1 .. Len(s) : s[i] = t[i]
  <2>1. SubSeq(s, 1, Len(s)) = [i \in 1 .. Len(s) |-> s[i]]
    BY <1>1
  <2>2. SubSeq(t, 1, Len(s)) = [i \in 1 .. Len(s) |-> t[i]]
    BY <1>1, <1>2
  <2> QED
    BY <2>1, <2>2
<1> QED
  BY <1>2 DEF IsPrefix

LEMMA PrefixOfAppend ==
    ASSUME NEW T, NEW s \in Seq(T), NEW t \in Seq(T), NEW x \in T
    PROVE  IsPrefix(s, Append(t, x)) <=> IsPrefix(s, t) \/ s = Append(t, x)
<1> DEFINE u == Append(t, x)
<1>1. /\ u \in Seq(T) /\ Len(u) = Len(t) + 1
      /\ \A i \in 1 .. Len(t) : u[i] = t[i]
  BY AppendProperties
<1>2. Len(s) \in Nat /\ Len(t) \in Nat
  OBVIOUS
<1> HIDE DEF u
<1>3. IsPrefix(s, u) <=> Len(s) <= Len(u) /\ \A i \in 1 .. Len(s) : s[i] = u[i]
  BY <1>1, PrefixPointwise
<1>4. IsPrefix(s, t) <=> Len(s) <= Len(t) /\ \A i \in 1 .. Len(s) : s[i] = t[i]
  BY PrefixPointwise
<1>5. CASE Len(s) <= Len(t)
  <2>1. s # u
    BY <1>1, <1>2, <1>5
  <2>2. \A i \in 1 .. Len(s) : u[i] = t[i]
    BY <1>1, <1>2, <1>5
  <2>3. Len(s) <= Len(u)
    BY <1>1, <1>2, <1>5
  <2> QED
    BY <1>3, <1>4, <1>5, <2>1, <2>2, <2>3 DEF u
<1>6. CASE ~(Len(s) <= Len(t))
  <2>1. ~IsPrefix(s, t)
    BY <1>4, <1>6
  <2>2. IsPrefix(s, u) => Len(s) = Len(u)
    BY <1>1, <1>2, <1>3, <1>6
  <2>3. IsPrefix(s, u) => s = u
    BY <1>1, <1>3, <2>2, SeqEqual
  <2>4. s = u => IsPrefix(s, u)
    BY <1>1, <1>2, <1>3
  <2> QED
    BY <2>1, <2>3, <2>4 DEF u
<1> QED
  BY <1>5, <1>6

\* Name b is a or lies below it.
IsBelow(a, b) == b = a \/ IsPrefix(Append(a, "/"), b)

LEMMA BelowPointwise ==
    ASSUME NEW a \in Seq(Text), NEW b \in Seq(Text)
    PROVE  IsPrefix(Append(a, "/"), b)
               <=> /\ Len(a) + 1 <= Len(b) /\ b[Len(a) + 1] = "/"
                   /\ \A i \in 1 .. Len(a) : a[i] = b[i]
<1> DEFINE s == Append(a, "/")
<1>1. "/" \in Text
  BY DEF Text
<1>2. /\ s \in Seq(Text) /\ Len(s) = Len(a) + 1 /\ s[Len(a) + 1] = "/"
      /\ \A i \in 1 .. Len(a) : s[i] = a[i]
  BY <1>1, AppendProperties
<1>3. Len(a) \in Nat
  OBVIOUS
<1> HIDE DEF s
<1>4. IsPrefix(s, b) <=> Len(s) <= Len(b) /\ \A i \in 1 .. Len(s) : s[i] = b[i]
  BY <1>2, PrefixPointwise
<1>5. (\A i \in 1 .. Len(a) + 1 : s[i] = b[i])
          <=> s[Len(a) + 1] = b[Len(a) + 1] /\ \A i \in 1 .. Len(a) : s[i] = b[i]
  BY <1>3
<1> QED
  BY <1>2, <1>4, <1>5 DEF s

LEMMA BelowSplit ==
    ASSUME NEW a, IsTopicName(a), NEW b, IsTopicName(b), NEW b1, NEW y, IsSplit(b, b1, y)
    PROVE  IsBelow(a, b) <=> a = b \/ IsBelow(a, b1)
<1>1. /\ a \in Seq(Text) /\ b \in Seq(Text) /\ b1 \in Seq(Text) /\ y \in Seq(Text)
      /\ Len(a) \in Nat /\ Len(b) \in Nat /\ Len(b1) \in Nat /\ Len(y) \in Nat /\ Len(y) >= 1
  BY NameIsText DEF IsSplit, IsPiece
<1>2. /\ Len(b) = Len(b1) + 1 + Len(y) /\ b[Len(b1) + 1] = "/"
      /\ \A i \in 1 .. Len(b1) : b[i] = b1[i]
  BY <1>1, JoinIs DEF IsSplit
<1>3. \A i \in 1 .. Len(b) : b[i] = "/" => i <= Len(b1) + 1
  <2>1. LastSlash(b) = Len(b1) + 1
    BY DEF IsSplit
  <2>2. \A i \in Len(b1) + 2 .. Len(b) : b[i] # "/"
    BY <1>1, <2>1, LastSlashFound DEF IsLastSlash
  <2> QED
    BY <1>1, <2>2
<1>4. ASSUME IsPrefix(Append(a, "/"), b) PROVE IsBelow(a, b1)
  <2>1. /\ Len(a) + 1 <= Len(b) /\ b[Len(a) + 1] = "/"
        /\ \A i \in 1 .. Len(a) : a[i] = b[i]
    BY <1>1, <1>4, BelowPointwise
  <2>2. Len(a) + 1 <= Len(b1) + 1
    BY <1>1, <1>3, <2>1
  <2>3. \A i \in 1 .. Len(a) : a[i] = b1[i]
    BY <1>1, <1>2, <2>1, <2>2
  <2>4. CASE Len(a) = Len(b1)
    <3>1. b1 = a
      BY <1>1, <2>3, <2>4, SeqEqual
    <3> QED
      BY <3>1 DEF IsBelow
  <2>5. CASE Len(a) # Len(b1)
    <3>1. Len(a) + 1 <= Len(b1) /\ b1[Len(a) + 1] = "/"
      BY <1>1, <1>2, <2>1, <2>2, <2>5
    <3> QED
      BY <1>1, <2>3, <3>1, BelowPointwise DEF IsBelow
  <2> QED
    BY <2>4, <2>5
<1>5. ASSUME IsBelow(a, b1) PROVE IsPrefix(Append(a, "/"), b)
  <2>1. CASE b1 = a
    <3>1. Len(a) + 1 <= Len(b) /\ b[Len(a) + 1] = "/"
      BY <1>1, <1>2, <2>1
    <3>2. \A i \in 1 .. Len(a) : a[i] = b[i]
      BY <1>2, <2>1
    <3> QED
      BY <1>1, <3>1, <3>2, BelowPointwise
  <2>2. CASE b1 # a
    <3>1. /\ Len(a) + 1 <= Len(b1) /\ b1[Len(a) + 1] = "/"
          /\ \A i \in 1 .. Len(a) : a[i] = b1[i]
      BY <1>1, <1>5, <2>2, BelowPointwise DEF IsBelow
    <3>2. Len(a) + 1 <= Len(b) /\ b[Len(a) + 1] = "/"
      BY <1>1, <1>2, <3>1
    <3>3. \A i \in 1 .. Len(a) : a[i] = b[i]
      BY <1>1, <1>2, <3>1
    <3> QED
      BY <1>1, <3>2, <3>3, BelowPointwise
  <2> QED
    BY <2>1, <2>2
<1> QED
  BY <1>4, <1>5 DEF IsBelow

\* A name lies below another exactly if its parts start with that one's.
LEMMA PartsBelow ==
    ASSUME NEW a, IsTopicName(a), NEW b, IsTopicName(b)
    PROVE  IsPrefix(Parts(a), Parts(b)) <=> IsBelow(a, b)
<1> DEFINE Differs(x) == ~(IsPrefix(Parts(a), Parts(x)) <=> IsBelow(a, x))
           S == {x \in Seq(Text) : IsTopicName(x) /\ Differs(x)}
<1> SUFFICES ASSUME Differs(b) PROVE FALSE
  OBVIOUS
<1>1. b \in S
  BY NameIsText
<1>2. PICK x \in S : \A t \in S : Len(x) <= Len(t)
  <2>1. S \in SUBSET Seq(Text) /\ S # {}
    BY <1>1
  <2> HIDE DEF S
  <2> QED
    BY <2>1, ShortestName
<1>3. IsTopicName(x) /\ Differs(x)
  OBVIOUS
<1>4. PICK x1, y : IsSplit(x, x1, y)
  BY <1>3, NameSplits
<1>5. /\ Parts(x) = Append(Parts(x1), y)
      /\ Parts(x1) \in Seq(Seq(Text)) /\ y \in Seq(Text)
      /\ Parts(a) \in Seq(Seq(Text)) /\ Len(Parts(a)) >= 1
  BY <1>4, SplitParts, NameHasParts
<1>6. IsPrefix(Parts(a), Parts(x)) <=> IsPrefix(Parts(a), Parts(x1)) \/ Parts(a) = Parts(x)
  BY <1>5, PrefixOfAppend
<1>7. Parts(a) = Parts(x) <=> a = x
  BY <1>3, PartsInjective
<1>8. IsBelow(a, x) <=> a = x \/ IsBelow(a, x1)
  BY <1>3, <1>4, BelowSplit
<1>9. ~(IsPrefix(Parts(a), Parts(x1)) <=> IsBelow(a, x1))
  BY <1>3, <1>6, <1>7, <1>8
<1>10. CASE x1 = <<>>
  <2>1. x1 \in Seq(Text) /\ Len(x1) = 0 /\ Len(Parts(x1)) = 0 /\ a \in Seq(Text)
        /\ Len(a) \in Nat /\ Len(a) >= 2
    BY <1>4, <1>10, PartsOfEmpty, NameIsText DEF IsSplit
  <2>2. ~IsPrefix(Parts(a), Parts(x1))
    BY <1>5, <2>1 DEF IsPrefix
  <2>3. ~IsPrefix(Append(a, "/"), x1)
    <3>1. IsPrefix(Append(a, "/"), x1) => Len(a) + 1 <= Len(x1)
      <4> HIDE DEF S
      <4> QED
        BY <2>1, BelowPointwise
    <3> QED
      BY <2>1, <3>1
  <2> QED
    BY <1>9, <2>1, <2>2, <2>3 DEF IsBelow
<1>11. CASE x1 # <<>>
  <2>1. IsTopicName(x1) /\ Len(x1) < Len(x)
    BY <1>4, <1>11 DEF IsSplit
  <2>2. x1 \in S
    BY <1>9, <2>1, NameIsText
  <2>3. Len(x) <= Len(x1) /\ Len(x) \in Nat /\ Len(x1) \in Nat
    BY <1>2, <1>3, <2>1, <2>2, NameIsText
  <2> QED
    BY <2>1, <2>3
<1> QED
  BY <1>10, <1>11

-----------------------------------------------------------------------------
\* Entities.

LEMMA OnePiece ==
    ASSUME NEW x \in Text, x # "/"
    PROVE  IsPiece(<<x>>)
<1>1. <<x>> \in Seq(Text) /\ Len(<<x>>) = 1 /\ <<x>>[1] = x
  OBVIOUS
<1> QED
  BY <1>1 DEF IsPiece

LEMMA PartsOfChild ==
    ASSUME NEW name \in Seq(Text), NEW x \in Text, x # "/"
    PROVE  /\ name \o <<"/", x>> \in Seq(Text)
           /\ Parts(name \o <<"/", x>>) = Append(Parts(name), <<x>>)
<1>1. IsPiece(<<x>>) /\ <<x>> \in Seq(Text)
  BY OnePiece DEF IsPiece
<1>2. "/" \in Text
  BY DEF Text
<1>3. \A c \in Text : name \o <<c, x>> = (name \o <<c>>) \o <<x>>
  OBVIOUS
<1>4. name \o <<"/", x>> = Join(name, <<x>>)
  BY <1>2, <1>3 DEF Join
<1> QED
  BY <1>1, <1>4, PartsOfJoin, JoinIs

LEMMA ThreeAppended ==
    ASSUME NEW T, NEW P \in Seq(T), NEW a \in T, NEW b \in T, NEW c \in T
    PROVE  /\ Append(Append(Append(P, a), b), c) = P \o <<a, b, c>>
           /\ <<a, b, c>> \in Seq(T) /\ Len(<<a, b, c>>) = 3
<1> DEFINE Q == Append(Append(P, a), b)
           s == <<a, b, c>>
<1>1. s \in Seq(T) /\ Len(s) = 3 /\ s[1] = a /\ s[2] = b /\ s[3] = c
  OBVIOUS
<1>2. Q = P \o <<a, b>> /\ Q \in Seq(T)
  OBVIOUS
<1>3. <<a, b>> \in Seq(T) /\ Append(<<a, b>>, c) = s
  <2> DEFINE u == Append(<<a, b>>, c)
  <2>1. <<a, b>> \in Seq(T) /\ Len(<<a, b>>) = 2 /\ <<a, b>>[1] = a /\ <<a, b>>[2] = b
    OBVIOUS
  <2>2. u \in Seq(T) /\ Len(u) = 3 /\ u[1] = a /\ u[2] = b /\ u[3] = c
    BY <2>1, AppendProperties
  <2> HIDE DEF u, s
  <2>3. \A i \in 1 .. 3 : u[i] = s[i]
    BY <1>1, <2>2
  <2> QED
    BY <1>1, <2>1, <2>2, <2>3, SeqEqual DEF u
<1>4. ASSUME NEW r \in Seq(T) PROVE Append(P \o r, c) = P \o Append(r, c)
  OBVIOUS
<1>5. Append(Q, c) = P \o s
  <2> HIDE DEF s, Q
  <2> QED
    BY <1>2, <1>3, <1>4
<1> QED
  BY <1>1, <1>5

\* What an archetype's entity has more parts than its topic.
Depth(archetype) ==
    IF archetype = "Scalars" THEN 3 ELSE IF archetype = "Transform3D" THEN 2 ELSE 1

\* Every entity but that of a Pinhole lies below its topic.
LEMMA EntityBelowTopic ==
    ASSUME NEW topic \in Topics, NEW k, NEW e, IsEntry(topic, k, e), k[2] # "Pinhole"
    PROVE  \E s \in Seq(Seq(Text)) : Len(s) = Depth(k[2]) /\ k[1] = Parts(topic) \o s
<1> DEFINE P == Parts(topic)
<1>1. topic \in Seq(Text) /\ P \in Seq(Seq(Text))
  BY TopicIsName, NameIsText, PartsTyped
<1>2. ASSUME NEW x \in Text, x # "/" PROVE <<x>> \in Seq(Text)
  BY <1>2
<1>3. ASSUME NEW x \in Text, x # "/", k[1] = Parts(topic \o <<"/", x>>), Depth(k[2]) = 1
      PROVE  \E s \in Seq(Seq(Text)) : Len(s) = Depth(k[2]) /\ k[1] = P \o s
  <2> DEFINE s == <<<<x>>>>
  <2>1. k[1] = Append(P, <<x>>)
    BY <1>1, <1>3, PartsOfChild
  <2>2. \A y \in Seq(Text) : Append(P, y) = P \o <<y>> /\ <<y>> \in Seq(Seq(Text)) /\ Len(<<y>>) = 1
    <3> HIDE DEF P
    <3> QED
      BY <1>1
  <2>3. k[1] = P \o s /\ s \in Seq(Seq(Text)) /\ Len(s) = 1
    BY <1>2, <1>3, <2>1, <2>2
  <2> QED
    BY <1>3, <2>3
<1>4. ASSUME NEW x \in Text, x # "/"
      PROVE  Parts(topic \o <<"/", "Imu", "/", x>>) = Append(Append(P, <<"Imu">>), <<x>>)
  <2> DEFINE imu == topic \o <<"/", "Imu">>
  <2>1. "Imu" \in Text /\ "/" \in Text
    BY DEF Text
  <2>2. imu \in Seq(Text) /\ Parts(imu) = Append(P, <<"Imu">>)
    BY <1>1, <2>1, PartsOfChild
  <2>3. Parts(imu \o <<"/", x>>) = Append(Parts(imu), <<x>>)
    <3> HIDE DEF imu
    <3> QED
      BY <1>4, <2>2, PartsOfChild
  <2>4. \A c, d \in Text : (topic \o <<c, d>>) \o <<c, x>> = topic \o <<c, d, c, x>>
    BY <1>1, <1>4
  <2>5. imu \o <<"/", x>> = topic \o <<"/", "Imu", "/", x>>
    BY <2>1, <2>4
  <2> QED
    BY <2>2, <2>3, <2>5
<1> HIDE DEF P
<1>5. CASE IsCloudEntry(topic, k, e)
  <2>1. "PointCloud2" \in Text
    BY DEF Text
  <2> QED
    BY <1>3, <1>5, <2>1 DEF IsCloudEntry, Depth, P
<1>6. CASE IsDepthEntry(topic, k, e)
  <2>1. "DepthImage" \in Text
    BY DEF Text
  <2> QED
    BY <1>3, <1>6, <2>1 DEF IsDepthEntry, Depth, P
<1>7. CASE IsImageEntry(topic, k, e)
  <2>1. "Image" \in Text
    BY DEF Text
  <2> QED
    BY <1>3, <1>7, <2>1 DEF IsImageEntry, Depth, P
<1>8. CASE IsTurnEntry(topic, k, e)
  <2>1. "orientation" \in Text /\ "Imu" \in Text
    BY DEF Text
  <2>2. k[1] = Append(Append(P, <<"Imu">>), <<"orientation">>)
    BY <1>4, <1>8, <2>1 DEF IsTurnEntry
  <2>3. <<"Imu">> \in Seq(Text) /\ <<"orientation">> \in Seq(Text)
    BY <1>2, <2>1
  <2>4. ASSUME NEW a \in Seq(Text), NEW b \in Seq(Text)
        PROVE  Append(Append(P, a), b) = P \o <<a, b>> /\ <<a, b>> \in Seq(Seq(Text)) /\ Len(<<a, b>>) = 2
    BY <1>1
  <2>5. Depth(k[2]) = 2
    BY <1>8 DEF IsTurnEntry, Depth
  <2> QED
    BY <2>2, <2>3, <2>4, <2>5 DEF P
<1>9. CASE IsVectorEntry(topic, k, e)
  <2>1. PICK v \in Vectors, axis \in Axes : k[1] = Append(Parts(topic \o <<"/", "Imu", "/", v>>), <<axis>>)
    BY <1>9 DEF IsVectorEntry
  <2>2. v \in Text /\ v # "/" /\ axis \in Text /\ axis # "/" /\ "Imu" \in Text
    BY DEF Text, Vectors, Axes
  <2>3. k[1] = Append(Append(Append(P, <<"Imu">>), <<v>>), <<axis>>)
    BY <1>4, <2>1, <2>2
  <2>4. <<"Imu">> \in Seq(Text) /\ <<v>> \in Seq(Text) /\ <<axis>> \in Seq(Text)
    BY <1>2, <2>2
  <2>5. ASSUME NEW a \in Seq(Text), NEW b \in Seq(Text), NEW c \in Seq(Text)
        PROVE  /\ Append(Append(Append(P, a), b), c) = P \o <<a, b, c>>
               /\ <<a, b, c>> \in Seq(Seq(Text)) /\ Len(<<a, b, c>>) = 3
    BY <1>1, ThreeAppended
  <2>6. Depth(k[2]) = 3
    BY <1>9 DEF IsVectorEntry, Depth
  <2> DEFINE s == <<<<"Imu">>, <<v>>, <<axis>>>>
  <2>7. k[1] = P \o s /\ s \in Seq(Seq(Text)) /\ Len(s) = 3
    BY <2>3, <2>4, <2>5
  <2> HIDE DEF s
  <2> QED
    BY <2>6, <2>7 DEF P
<1>10. ~IsCameraEntry(topic, k, e)
  BY DEF IsCameraEntry
<1> QED
  BY <1>5, <1>6, <1>7, <1>8, <1>9, <1>10 DEF IsEntry, P

\* The namespace of a camera that is shown is a topic's name.
LEMMA CameraBelow ==
    ASSUME NEW topic \in Topics, NEW k, NEW e, IsEntry(topic, k, e), k[2] = "Pinhole"
    PROVE  IsTopicName(CameraNamespace(topic)) /\ k[1] = Parts(CameraNamespace(topic))
<1>1. IsCameraEntry(topic, k, e)
  BY DEF IsEntry, IsCloudEntry, IsVectorEntry, IsTurnEntry, IsDepthEntry, IsImageEntry
<1>2. CameraNamespace(topic) # NoNamespace /\ k[1] = Parts(CameraNamespace(topic))
  BY <1>1 DEF IsCameraEntry
<1>3. PICK a, piece : IsSplit(topic, a, piece)
  BY TopicIsName, NameSplits
<1> QED
  BY <1>2, <1>3 DEF IsSplit

\* Two topics that log the same archetype at one entity are one, or cameras of
\* one namespace.
LEMMA EntriesApart ==
    ASSUME NEW t \in Topics, NEW u \in Topics, NEW k, NEW e, NEW f,
           IsEntry(t, k, e), IsEntry(u, k, f), t # u
    PROVE  k[2] = "Pinhole" /\ CameraNamespace(t) = CameraNamespace(u)
<1>1. CASE k[2] = "Pinhole"
  BY <1>1, CameraBelow, PartsInjective
<1>2. CASE k[2] # "Pinhole"
  <2>1. PICK r \in Seq(Seq(Text)) : Len(r) = Depth(k[2]) /\ k[1] = Parts(t) \o r
    BY <1>2, EntityBelowTopic
  <2>2. PICK s \in Seq(Seq(Text)) : Len(s) = Depth(k[2]) /\ k[1] = Parts(u) \o s
    BY <1>2, EntityBelowTopic
  <2>3. Parts(t) \in Seq(Seq(Text)) /\ Parts(u) \in Seq(Seq(Text))
    BY TopicIsName, NameIsText, PartsTyped
  <2>4. ASSUME NEW P \in Seq(Seq(Text)), NEW Q \in Seq(Seq(Text)), P \o r = Q \o s
        PROVE  P = Q
    <3>1. Len(P) = Len(Q)
      <4>1. Len(P \o r) = Len(P) + Len(r) /\ Len(Q \o s) = Len(Q) + Len(s)
        OBVIOUS
      <4>2. Len(P) \in Nat /\ Len(Q) \in Nat /\ Len(r) \in Nat /\ Len(r) = Len(s)
        BY <2>1, <2>2
      <4> QED
        BY <2>4, <4>1, <4>2
    <3>2. ASSUME NEW i \in 1 .. Len(P) PROVE P[i] = Q[i]
      <4>1. (P \o r)[i] = P[i]
        OBVIOUS
      <4>2. (Q \o s)[i] = Q[i]
        BY <3>1
      <4> QED
        BY <2>4, <4>1, <4>2
    <3> QED
      BY <3>1, <3>2, SeqEqual
  <2>5. Parts(t) = Parts(u)
    BY <2>1, <2>2, <2>3, <2>4
  <2> QED
    BY <2>5, PartsInjective, TopicIsName
<1> QED
  BY <1>1, <1>2

-----------------------------------------------------------------------------
\* Types.

\* The variables but shown.
Counted == stream \in BOOLEAN /\ up \in BOOLEAN /\ messages \in 0 .. MaxMessages

LEMMA StepCounted == Counted /\ [Next]_vars => Counted'
<1> SUFFICES ASSUME Counted, [Next]_vars PROVE Counted'
  OBVIOUS
<1>1. ASSUME NEW topic, NEW class, Receive(topic, class)
      PROVE  messages' \in 0 .. MaxMessages
  BY <1>1, MessagesAssumption DEF Counted, Receive
<1>2. ASSUME NEW topic \in Topics,
             \/ \E cloud \in Clouds : PointCloud2Callback(topic, cloud) \/ PointCloud2Throws(topic, cloud)
             \/ \E covariance \in Covariances : ImuCallback(topic, covariance)
             \/ \E encoding \in Encodings : ImageCallback(topic, encoding)
             \/ \E calibrated \in BOOLEAN : CameraInfoCallback(topic, calibrated)
      PROVE  \E class : Receive(topic, class)
  BY <1>2 DEF PointCloud2Callback, PointCloud2Throws, ImuCallback, ImageCallback, CameraInfoCallback
<1>3. CASE Next
  <2>1. messages' \in 0 .. MaxMessages
    BY <1>1, <1>2, <1>3 DEF Next
  <2>2. stream' = stream /\ up' \in {up, FALSE}
    BY <1>3 DEF Next, PointCloud2Callback, PointCloud2Throws, ImuCallback, ImageCallback,
                CameraInfoCallback, Show
  <2> QED
    BY <2>1, <2>2 DEF Counted
<1>4. CASE UNCHANGED vars
  BY <1>4 DEF Counted, vars
<1> QED
  BY <1>3, <1>4

\* What is shown has a place below the root, and one of the archetypes.
LEMMA ShownTyped ==
    ASSUME FromCallback, NEW k \in DOMAIN shown
    PROVE  /\ k[1] # <<>>
           /\ k[2] \in {"Points3D", "Scalars", "Transform3D", "Image", "DepthImage", "Pinhole"}
           /\ shown[k].by \in Topics
<1> DEFINE topic == shown[k].by
<1>1. topic \in Topics /\ IsEntry(topic, k, shown[k])
  BY ShownIsEntry
<1> HIDE DEF topic
<1>2. k[2] \in {"Points3D", "Scalars", "Transform3D", "Image", "DepthImage", "Pinhole"}
  BY <1>1 DEF IsEntry, IsCloudEntry, IsVectorEntry, IsTurnEntry, IsDepthEntry, IsImageEntry,
              IsCameraEntry
<1>3. ASSUME k[2] = "Pinhole" PROVE Len(k[1]) >= 1
  BY <1>1, <1>3, CameraBelow, NameHasParts
<1>4. ASSUME k[2] # "Pinhole" PROVE Len(k[1]) >= 1
  <2>1. PICK s \in Seq(Seq(Text)) : Len(s) = Depth(k[2]) /\ k[1] = Parts(topic) \o s
    BY <1>1, <1>4, EntityBelowTopic
  <2>2. Parts(topic) \in Seq(Seq(Text))
    BY <1>1, NameHasParts, TopicIsName
  <2>3. ASSUME NEW P \in Seq(Seq(Text)) PROVE Len(P \o s) = Len(P) + Len(s) /\ Len(P) \in Nat
    BY ConcatProperties
  <2>4. Len(k[1]) = Len(Parts(topic)) + Len(s) /\ Len(Parts(topic)) \in Nat
    BY <2>1, <2>2, <2>3
  <2>5. Len(s) >= 1 /\ Len(s) \in Nat
    BY <2>1 DEF Depth
  <2> QED
    BY <2>4, <2>5
<1>5. Len(<<>>) = 0
  OBVIOUS
<1> QED
  BY <1>1, <1>2, <1>3, <1>4, <1>5 DEF topic

\* Type correctness: no callback logs at the root of the viewer's tree.
THEOREM TypeCorrect == Spec => []TypeOK
<1>1. Init => Counted
  BY MessagesAssumption DEF Init, Counted
<1>2. FromCallback /\ Counted => TypeOK
  BY ShownTyped DEF Counted, TypeOK
<1> QED
  BY <1>1, <1>2, StepCounted, AllFromCallback, PTL DEF Spec

-----------------------------------------------------------------------------
\* Topics do not overwrite each other's entities.

\* No topic takes over what another shows, but for cameras of one namespace.
THEOREM EntitiesAreOwn == Spec => OwnEntities
<1> DEFINE Kept == \A k \in DOMAIN shown :
                       LET before == shown[k].by
                           after  == shown'[k].by
                       IN  before # after => /\ k[2] = "Pinhole"
                                             /\ CameraNamespace(before) = CameraNamespace(after)
<1>1. ASSUME FromCallback, [Next]_vars PROVE Kept
  <2> SUFFICES ASSUME NEW k \in DOMAIN shown, shown[k].by # shown'[k].by
               PROVE  /\ k[2] = "Pinhole"
                      /\ CameraNamespace(shown[k].by) = CameraNamespace(shown'[k].by)
    OBVIOUS
  <2>1. PICK topic \in Topics : \E logs \in LogsOf(topic) : Show(logs)
    BY <1>1, NextShows
  <2>2. PICK logs \in LogsOf(topic) : Show(logs)
    BY <2>1
  <2>3. k \in DOMAIN logs /\ shown'[k] = logs[k]
    BY <2>2 DEF Show, PutAll
  <2>4. IsEntry(topic, k, logs[k]) /\ shown'[k].by = topic
    BY <2>3, LogsAreEntries DEF IsEntry
  <2>5. shown[k].by \in Topics /\ IsEntry(shown[k].by, k, shown[k])
    BY <1>1, ShownIsEntry
  <2> QED
    BY <2>4, <2>5, EntriesApart
<1>2. FromCallback /\ [Next]_vars => [Kept]_vars
  BY <1>1
<1> QED
  BY <1>2, AllFromCallback, PTL DEF Spec, OwnEntities

-----------------------------------------------------------------------------
\* The entity tree follows the namespaces of the topics.

LEMMA StrippedAt ==
    ASSUME NEW s, Len(s) \in Nat, NEW m \in 1 .. Len(s), s[m] # "/",
           \A j \in m + 1 .. Len(s) : s[j] = "/"
    PROVE  Stripped(s) = SubSeq(s, 1, m)
<1> DEFINE I == {i \in 1 .. Len(s) : s[i] # "/"}
<1>1. m \in I /\ \A j \in I : m >= j
  OBVIOUS
<1>2. \A x \in I : (\A y \in I : x >= y) => x = m
  BY <1>1
<1>3. Max(I) = m
  <2> HIDE DEF I
  <2> QED
    BY <1>1, <1>2 DEF Max
<1>4. Stripped(s) = SubSeq(s, 1, IF I # {} THEN Max(I) ELSE 0)
  BY DEF Stripped, SelectLastInSeq
<1> HIDE DEF I
<1> QED
  BY <1>1, <1>3, <1>4

\* A namespace counts the same with a slash at its end.
LEMMA NamespaceStripped ==
    ASSUME NEW ns, IsTopicName(ns), NEW n \in {ns, Append(ns, "/")}
    PROVE  Stripped(n) = ns
<1>1. ns \in Seq(Text) /\ Len(ns) \in Nat /\ Len(ns) >= 2 /\ ns[Len(ns)] # "/"
  BY NameIsText DEF IsTopicName
<1>2. CASE n = ns
  <2>1. Stripped(ns) = SubSeq(ns, 1, Len(ns))
    BY <1>1, StrippedAt
  <2>2. SubSeq(ns, 1, Len(ns)) = ns
    BY <1>1
  <2> QED
    BY <1>2, <2>1, <2>2
<1>3. CASE n = Append(ns, "/")
  <2>1. "/" \in Text
    BY DEF Text
  <2>2. /\ n \in Seq(Text) /\ Len(n) = Len(ns) + 1 /\ n[Len(ns) + 1] = "/"
        /\ \A i \in 1 .. Len(ns) : n[i] = ns[i]
    BY <1>1, <1>3, <2>1, AppendProperties
  <2>3. Stripped(n) = SubSeq(n, 1, Len(ns))
    BY <1>1, <2>2, StrippedAt
  <2>4. SubSeq(n, 1, Len(ns)) = ns
    <3> DEFINE u == SubSeq(n, 1, Len(ns))
    <3>1. u \in Seq(Text) /\ Len(u) = Len(ns) /\ \A i \in 1 .. Len(ns) : u[i] = n[i]
      BY <1>1, <2>2
    <3> HIDE DEF u
    <3>2. u = ns
      BY <1>1, <2>2, <3>1, SeqEqual
    <3> QED
      BY <3>2 DEF u
  <2> QED
    BY <2>3, <2>4
<1> QED
  BY <1>2, <1>3

\* isInNamespace says of a topic's name whether it lies below.
LEMMA InNamespaceIsBelow ==
    ASSUME NEW ns, IsTopicName(ns), NEW t, NEW n \in {ns, Append(ns, "/")}
    PROVE  IsInNamespace(t, n) = {IsBelow(ns, t)}
<1>1. ns # <<>>
  <2>1. Len(<<>>) = 0
    OBVIOUS
  <2> QED
    BY <2>1, NameIsText
<1>2. Stripped(n) = ns
  BY NamespaceStripped
<1> QED
  BY <1>1, <1>2 DEF IsInNamespace, IsBelow

\* More parts at the end make a prefix only of what lies strictly below.
LEMMA PrefixOfLonger ==
    ASSUME NEW T, NEW P \in Seq(T), NEW Q \in Seq(T), NEW s \in Seq(T), ~IsStrictPrefix(Q, P)
    PROVE  IsPrefix(P, Q \o s) <=> IsPrefix(P, Q)
<1> DEFINE R == Q \o s
<1>1. /\ R \in Seq(T) /\ Len(R) = Len(Q) + Len(s)
      /\ \A i \in 1 .. Len(Q) : R[i] = Q[i]
      /\ Len(P) \in Nat /\ Len(Q) \in Nat /\ Len(s) \in Nat
  BY ConcatProperties
<1> HIDE DEF R
<1>2. IsPrefix(P, R) <=> Len(P) <= Len(R) /\ \A i \in 1 .. Len(P) : P[i] = R[i]
  BY <1>1, PrefixPointwise
<1>3. IsPrefix(P, Q) <=> Len(P) <= Len(Q) /\ \A i \in 1 .. Len(P) : P[i] = Q[i]
  BY PrefixPointwise
<1>4. IsPrefix(Q, P) <=> Len(Q) <= Len(P) /\ \A i \in 1 .. Len(Q) : Q[i] = P[i]
  BY PrefixPointwise
<1>5. CASE Len(P) <= Len(Q)
  <2>1. \A i \in 1 .. Len(P) : R[i] = Q[i]
    BY <1>1, <1>5
  <2>2. Len(P) <= Len(R)
    BY <1>1, <1>5
  <2> QED
    BY <1>2, <1>3, <1>5, <2>1, <2>2 DEF R
<1>6. CASE ~(Len(P) <= Len(Q))
  <2>1. P # Q
    BY <1>6
  <2>2. ~IsPrefix(Q, P)
    BY <2>1 DEF IsStrictPrefix
  <2>3. PICK i \in 1 .. Len(Q) : Q[i] # P[i]
    BY <1>1, <1>4, <1>6, <2>2
  <2>4. i \in 1 .. Len(P) /\ P[i] # R[i]
    BY <1>1, <1>6, <2>3
  <2> QED
    BY <1>2, <1>3, <1>6, <2>4 DEF R
<1> QED
  BY <1>5, <1>6

\* What a topic shows lies below a camera's entity exactly if the topic is in
\* the camera's namespace.
THEOREM EntitiesAreNested == Spec => []EntityTree
<1>1. FromCallback => EntityTree
  <2> SUFFICES ASSUME FromCallback, NEW p \in DOMAIN shown, NEW k \in DOMAIN shown,
                      p[2] = "Pinhole", k[2] # "Pinhole",
                      ~IsStrictPrefix(Parts(shown[k].by), Parts(CameraNamespace(shown[p].by))),
                      NEW n \in {CameraNamespace(shown[p].by), Append(CameraNamespace(shown[p].by), "/")}
               PROVE  IsInNamespace(shown[k].by, n) = {IsPrefix(p[1], k[1])}
    BY DEF EntityTree
  <2> DEFINE t == shown[k].by
             ns == CameraNamespace(shown[p].by)
  <2>1. t \in Topics /\ IsEntry(t, k, shown[k]) /\ IsTopicName(t)
    BY ShownIsEntry, TopicIsName
  <2>2. IsTopicName(ns) /\ p[1] = Parts(ns)
    BY ShownIsEntry, CameraBelow
  <2>3. n \in {ns, Append(ns, "/")} /\ ~IsStrictPrefix(Parts(t), Parts(ns))
    OBVIOUS
  <2> HIDE DEF t, ns
  <2>4. PICK s \in Seq(Seq(Text)) : Len(s) = Depth(k[2]) /\ k[1] = Parts(t) \o s
    BY <2>1, EntityBelowTopic
  <2>5. IsPrefix(p[1], k[1]) <=> IsPrefix(Parts(ns), Parts(t))
    BY <2>1, <2>2, <2>3, <2>4, NameHasParts, PrefixOfLonger
  <2>6. IsPrefix(Parts(ns), Parts(t)) <=> IsBelow(ns, t)
    BY <2>1, <2>2, PartsBelow
  <2>7. IsInNamespace(t, n) = {IsBelow(ns, t)}
    BY <2>2, <2>3, InNamespaceIsBelow
  <2>8. IsBelow(ns, t) \in BOOLEAN /\ IsPrefix(p[1], k[1]) \in BOOLEAN
    BY DEF IsBelow, IsPrefix
  <2>9. IsBelow(ns, t) = IsPrefix(p[1], k[1])
    BY <2>5, <2>6, <2>8
  <2> QED
    BY <2>7, <2>9 DEF t
<1> QED
  BY <1>1, AllFromCallback, PTL

=============================================================================
