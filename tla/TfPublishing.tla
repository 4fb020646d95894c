---------------------------- MODULE TfPublishing ----------------------------
(***************************************************************************)
(* What happens inside the node between a request for a transform and the  *)
(* entity that shows it: the converters CameraInfo and RobotDescription    *)
(* hold requests, on_timer walks over them and handleTfRequest looks each  *)
(* one up in the tf buffer, which another thread (the tf listener) changes *)
(* at any moment, and logs what it finds.  A lookup may throw.             *)
(*                                                                         *)
(* Callbacks and the timer exclude each other (see RerunViz), so a message *)
(* is handled in one step.  The converters a tick visits are fixed: the    *)
(* Node holds subscriptions_mutex_ for the whole of it (see Node).  Between *)
(* ticks an update may replace a converter, whose requests go with it.     *)
(***************************************************************************)
EXTENDS Sequences

CONSTANTS Cameras,     \* the topics with a CameraInfo converter
          Namespace,   \* topic -> getCameraNamespaceFromTopic, or NoNamespace
          NoNamespace, \* where that throws
          Robot,       \* the RobotDescription converter
          RobotRequests, \* the requests it holds after a message
          CameraFrames,\* header.frame_id of a camera message
          FixedFrame,  \* what getFixedFrameId returns
          Values,      \* transforms the buffer may hold
          NoTransform  \* a lookup that throws

ASSUME RobotAssumption == RobotRequests \in Seq({RobotRequests[i] : i \in DOMAIN RobotRequests})

ASSUME ConverterAssumption == Robot \notin Cameras

VARIABLES stream,      \* whether rec_ is a stream (TRUE) or null (FALSE)
          requests,    \* converter -> what its getTfRequests returns
          buffer,      \* <<parent, child>> -> what a lookup finds, or NoTransform
          at,          \* "idle", "tick" inside on_timer, "crashed"
          visit,       \* converters this tick has still to visit
          todo,        \* requests of the converter it visits, still to be handled
          published,   \* what this tick, or the last, has logged
          had          \* <<parent, child>> -> what its lookup could have found in the tick

vars == <<stream, requests, buffer, at, visit, todo, published, had>>

Converters == Cameras \cup {Robot}

Link(req) == <<req.parent, req.child>>

\* The lookups that converters may ask for.
Links == {<<FixedFrame, f>> : f \in CameraFrames}
             \cup {Link(RobotRequests[i]) : i \in DOMAIN RobotRequests}

Request(parent, child, path, kind) ==
    [parent |-> parent, child |-> child, path |-> path, kind |-> kind]

CameraRequest(topic, frame) ==
    Request(FixedFrame, frame, Namespace[topic], "translation and rotation")

-----------------------------------------------------------------------------
Init == /\ stream \in BOOLEAN
        /\ requests = [c \in Converters |-> <<>>]
        /\ buffer \in [Links -> {NoTransform}]
        /\ at = "idle"
        /\ visit = {}
        /\ todo = <<>>
        /\ published = {}
        /\ had = [l \in Links |-> {}]

\* A faulty variant of Requested: the null stream is noticed too late.
RequestedAnyway(c, new) == requests' = [requests EXCEPT ![c] = new]

\* The requests of c, unless the callback has returned early for want of a stream.
Requested(c, new) ==
    requests' = [requests EXCEPT ![c] = IF stream THEN new ELSE @]

\* A faulty variant of CameraMessage: it goes on without a namespace.
CameraMessageAnyway(topic, frame) ==
    /\ at = "idle"
    /\ Requested(topic, <<CameraRequest(topic, frame)>>)
    /\ UNCHANGED <<stream, buffer, at, visit, todo, published, had>>

\* CameraInfo::topic_callback for a message of a calibrated camera.
CameraMessage(topic, frame) ==
    /\ at = "idle"
    /\ Namespace[topic] # NoNamespace
    /\ Requested(topic, <<CameraRequest(topic, frame)>>)
    /\ UNCHANGED <<stream, buffer, at, visit, todo, published, had>>

\* The same for a camera without a namespace (what it throws is caught), or one
\* that is not calibrated: an older request stays as it is.
CameraSkipped(topic) ==
    /\ at = "idle"
    /\ UNCHANGED vars

\* RobotDescription::topic_callback.
RobotMessage ==
    /\ at = "idle"
    /\ Requested(Robot, RobotRequests)
    /\ UNCHANGED <<stream, buffer, at, visit, todo, published, had>>

\* updateSubscriptions destroys a converter, as its topic is gone; a new one of
\* the topic, when that is back, starts without a request.
Recreate(c) ==
    /\ at = "idle"
    /\ requests' = [requests EXCEPT ![c] = <<>>]
    /\ UNCHANGED <<stream, buffer, at, visit, todo, published, had>>

\* The tf listener sets or drops a transform, during a tick as well.
Listen(l, v) ==
    /\ at # "crashed"
    /\ buffer' = [buffer EXCEPT ![l] = v]
    /\ had' = IF at = "tick" THEN [had EXCEPT ![l] = @ \cup {v}] ELSE had
    /\ UNCHANGED <<stream, requests, at, visit, todo, published>>

\* on_timer.
BeginTick ==
    /\ at = "idle"
    /\ at' = "tick"
    /\ visit' = Converters
    /\ published' = {}
    /\ had' = [l \in Links |-> {buffer[l]}]
    /\ UNCHANGED <<stream, requests, buffer, todo>>

VisitConverter(c) ==
    /\ at = "tick" /\ todo = <<>> /\ c \in visit
    /\ todo' = requests[c]
    /\ visit' = visit \ {c}
    /\ UNCHANGED <<stream, requests, buffer, at, published, had>>

\* A faulty variant of Entity: the kind of the request is not looked at.
EntityWhole(req) == [path |-> req.path, kind |-> "translation and rotation",
                     value |-> buffer[Link(req)]]

Entity(req) == [path |-> req.path, kind |-> req.kind, value |-> buffer[Link(req)]]

\* A faulty variant of Rest: one lookup that throws ends the converter's loop.
RestUnlessThrown(found) == IF found THEN Tail(todo) ELSE <<>>

\* What is still to be handled after a lookup, which found a transform or threw.
Rest(found) == Tail(todo)

\* handleTfRequest: the lookup, then the log call on the stream, which crashes
\* the process where the stream is null.
Publish ==
    /\ at = "tick" /\ todo # <<>>
    /\ buffer[Link(Head(todo))] # NoTransform
    /\ at' = IF stream THEN at ELSE "crashed"
    /\ published' = published \cup {Entity(Head(todo))}
    /\ todo' = Rest(TRUE)
    /\ UNCHANGED <<stream, requests, buffer, visit, had>>

\* The lookup throws, and the handler around handleTfRequest goes on.
LookupThrows ==
    /\ at = "tick" /\ todo # <<>>
    /\ buffer[Link(Head(todo))] = NoTransform
    /\ todo' = Rest(FALSE)
    /\ UNCHANGED <<stream, requests, buffer, at, visit, published, had>>

EndTick ==
    /\ at = "tick" /\ todo = <<>> /\ visit = {}
    /\ at' = "idle"
    /\ UNCHANGED <<stream, requests, buffer, visit, todo, published, had>>

Tick == \/ BeginTick
        \/ \E c \in Converters : VisitConverter(c)
        \/ Publish
        \/ LookupThrows
        \/ EndTick

Next == \/ \E c \in Cameras, f \in CameraFrames : CameraMessage(c, f)
        \/ \E c \in Cameras : CameraSkipped(c)
        \/ RobotMessage
        \/ \E c \in Converters : Recreate(c)
        \/ \E l \in Links, v \in Values \cup {NoTransform} : Listen(l, v)
        \/ Tick

Spec == Init /\ [][Next]_vars

\* The timer of 100 ms fires again and again, on_timer runs to its end, and the
\* callbacks in between are short.
FairSpec == Spec /\ WF_vars(Tick)

-----------------------------------------------------------------------------
\* Properties.

\* The requests a converter can hold.
NamedCameras == {topic \in Cameras : Namespace[topic] # NoNamespace}

CameraRequests(topic) == {CameraRequest(topic, frame) : frame \in CameraFrames}

PossibleRequests == (UNION {CameraRequests(topic) : topic \in NamedCameras})
                        \cup {RobotRequests[i] : i \in DOMAIN RobotRequests}

\* Type correctness.
TypeOK ==
    /\ stream \in BOOLEAN
    /\ requests \in [Converters -> Seq(PossibleRequests)]
    /\ buffer \in [Links -> Values \cup {NoTransform}]
    /\ at \in {"idle", "tick", "crashed"}
    /\ visit \subseteq Converters
    /\ todo \in Seq(PossibleRequests)
    /\ had \in [Links -> SUBSET (Values \cup {NoTransform})]
    /\ at = "idle" => todo = <<>> /\ visit = {}

\* A Node without a stream never logs: its converters make no request while the
\* stream they share with it is null, and handleTfRequest does not look.
NullStreamUnused == at # "crashed"

AllRequests == UNION {{requests[c][i] : i \in DOMAIN requests[c]} : c \in Converters}

\* A tick publishes every request whose transform was there all through the
\* tick, whichever lookups of other requests and converters threw.
TickIsComplete ==
    [][at = "tick" /\ at' = "idle" =>
          \A r \in AllRequests :
              NoTransform \notin had[Link(r)] =>
                  \E v \in had[Link(r)] :
                      [path |-> r.path, kind |-> r.kind, value |-> v] \in published]_vars

\* What a converter goes on asking for is shown again and again once its transform
\* stays, whatever other lookups throw and whatever messages come in between.
KeepsBeingShown ==
    \A r \in PossibleRequests :
        <>[](r \in AllRequests /\ buffer[Link(r)] # NoTransform)
            => []<>(\E e \in published : e.path = r.path /\ e.kind = r.kind)

\* And it publishes nothing else: only what a converter asks for, in the way it
\* asks for it, with a transform the buffer held in the course of the tick.
TickIsSound ==
    at = "tick" =>
        \A e \in published : \E r \in AllRequests :
            e.path = r.path /\ e.kind = r.kind /\ e.value \in had[Link(r)]

=============================================================================
