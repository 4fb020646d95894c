-------------------------- MODULE RobotDescription --------------------------
(***************************************************************************)
(* The converter RobotDescription.  topic_callback parses a URDF and       *)
(* rebuilds tf_requests_, the transforms the Node has to publish for it:   *)
(* one that ties the root link to the fixed frame and one for each joint,  *)
(* found by a depth-first walk over links and joints.  The list is rebuilt *)
(* in place, under a recursive mutex that the walk takes again for every   *)
(* joint; getTfRequests copies the list under the same mutex.              *)
(*                                                                         *)
(* A robot is a record [name, root, joints], its joints a set of records   *)
(* [name, rotates, parent, child]: the order in which a link lists its      *)
(* joints is the parser's.  Entity paths are sequences of names.  The      *)
(* stream is never null in the program.                                    *)
(***************************************************************************)
EXTENDS Naturals, Sequences, FiniteSets

CONSTANTS Robots,      \* the robots a message may describe
          Unparsable,  \* a message that initString rejects
          FixedFrame,  \* what getFixedFrameId returns
          Readers,     \* threads that call getTfRequests
          Walker,      \* the thread that runs topic_callback
          NoThread, None,
          MaxMessages  \* bound: messages received

\* The robots of URDF: no two joints have the same child link, none has the root
\* as its child, and every joint hangs below the root, that is, any set of joints
\* has one in it that hangs from the root or from a joint outside the set.
IsTree(d) ==
    /\ IsFiniteSet(d.joints)
    /\ \A j, k \in d.joints : j.child # d.root /\ (j.child = k.child => j = k)
    /\ \A U \in SUBSET d.joints :
           U # {} => \E j \in U : \/ j.parent = d.root
                                 \/ \E k \in d.joints \ U : k.child = j.parent

ASSUME RobotsAssumption == \A d \in Robots : IsTree(d)

ASSUME NoneAssumption == Unparsable \notin Robots /\ None \notin Robots \cup {Unparsable}

ASSUME MessagesAssumption == MaxMessages \in Nat

ASSUME ThreadsAssumption == Walker \notin Readers /\ NoThread \notin Readers \cup {Walker}

VARIABLES requests,    \* tf_requests_
          owner, depth,\* tf_requests_mutex_: its thread, and how often it took it
          at,          \* where the walker is in topic_callback
          robot,       \* the robot it walks
          stack,       \* the urdfDepthFirst calls on links that are active
          got,         \* reader -> {the list it has copied and still to return}
          current,     \* the robot of the last rebuild that was completed
          messages     \* messages received so far

vars == <<requests, owner, depth, at, robot, stack, got, current, messages>>

Request(parent, child, path, kind) ==
    [parent |-> parent, child |-> child, path |-> path, kind |-> kind]

RootRequest(d) ==
    Request(FixedFrame, d.root, <<d.name, d.root>>, "translation and rotation")

\* A call of urdfDepthFirst on a link: the path of the link, and the child
\* joints it has still to visit.
Call(d, link, path) == [path |-> path, todo |-> {j \in d.joints : j.parent = link}]

-----------------------------------------------------------------------------
\* The recursive mutex.

\* A faulty variant of Lock: a plain mutex.
LockOnce(t) == owner = NoThread /\ owner' = t /\ depth' = 1

Lock(t) == owner \in {NoThread, t} /\ owner' = t /\ depth' = depth + 1

Unlock == /\ depth' = depth - 1
          /\ owner' = IF depth = 1 THEN NoThread ELSE owner

-----------------------------------------------------------------------------
Init == /\ requests = <<>>
        /\ owner = NoThread /\ depth = 0
        /\ at = "idle" /\ robot = None /\ stack = <<>>
        /\ got = [r \in Readers |-> {}]
        /\ current = None
        /\ messages = 0

Receive(d) == /\ at = "idle" /\ messages < MaxMessages
              /\ messages' = messages + 1
              /\ at' = "parsed" /\ robot' = d
              /\ UNCHANGED <<requests, owner, depth, stack, got, current>>

\* The result of initString is not looked at: getRoot() is null and
\* dereferenced, which ends the process.
NullRoot == /\ at = "parsed" /\ robot = Unparsable
            /\ at' = "crashed"
            /\ UNCHANGED <<requests, owner, depth, robot, stack, got, current, messages>>

\* A faulty variant of Fresh: the requests of the last robot stay.
NotCleared(d) == Append(requests, RootRequest(d))

\* The list once it is cleared and given the request of the root link.
Fresh(d) == <<RootRequest(d)>>

BeginRebuild == /\ at = "parsed" /\ robot # Unparsable
                /\ Lock(Walker)
                /\ requests' = Fresh(robot)
                /\ stack' = <<Call(robot, robot.root, <<robot.name, robot.root>>)>>
                /\ at' = "walk"
                /\ UNCHANGED <<robot, got, current, messages>>

Top == stack[Len(stack)]

\* The joints that the walk can go on with.
Ahead == IF at = "walk" /\ stack # <<>> THEN Top.todo ELSE {}

\* A faulty variant of Unsupported: the joint is left out, with what is below it.
SkipUnsupported == \E j \in Ahead :
    /\ ~j.rotates
    /\ stack' = [stack EXCEPT ![Len(stack)].todo = @ \ {j}]
    /\ UNCHANGED <<requests, owner, depth, at, robot, got, current, messages>>

\* urdfDepthFirst on a joint that neither is continuous nor revolute: nothing
\* on the stack, nor in the executor, catches what it throws.
Unsupported == \E j \in Ahead :
    /\ ~j.rotates
    /\ at' = "crashed"
    /\ UNCHANGED <<requests, owner, depth, robot, stack, got, current, messages>>

JointPath(path, j) == path \o <<j.name, j.child>>

JointRequest(path, j) == Request(j.parent, j.child, JointPath(path, j), "rotation only")

\* urdfDepthFirst on a joint: its request is appended under the mutex.  (What is
\* called next, on the joint's child link, is put on the stack by the same step.)
VisitJoint == \E j \in Ahead :
    /\ j.rotates
    /\ Lock(Walker)
    /\ requests' = Append(requests, JointRequest(Top.path, j))
    /\ stack' = Append([stack EXCEPT ![Len(stack)].todo = @ \ {j}],
                       Call(robot, j.child, JointPath(Top.path, j)))
    /\ at' = "joint"
    /\ UNCHANGED <<robot, got, current, messages>>

\* The inner lock_guard ends, and the walk goes on with the joint's child link.
Descend ==
    /\ at = "joint"
    /\ Unlock
    /\ at' = "walk"
    /\ UNCHANGED <<requests, robot, stack, got, current, messages>>

\* urdfDepthFirst returns from a link with no more joints.
Return == /\ at = "walk" /\ stack # <<>> /\ Top.todo = {}
          /\ stack' = SubSeq(stack, 1, Len(stack) - 1)
          /\ UNCHANGED <<requests, owner, depth, at, robot, got, current, messages>>

EndRebuild == /\ at = "walk" /\ stack = <<>>
              /\ Unlock
              /\ current' = robot
              /\ at' = "logging"
              /\ UNCHANGED <<requests, robot, stack, got, messages>>

\* log_file_from_contents, after which the callback returns whether it threw or not.
LogUrdf == /\ at = "logging"
           /\ at' = "idle" /\ robot' = None
           /\ UNCHANGED <<requests, owner, depth, stack, got, current, messages>>

\* A faulty variant of ReadLock: getTfRequests copies without the mutex.
ReadUnlocked(r) == UNCHANGED <<owner, depth>>

ReadLock(r) == Lock(r)

\* getTfRequests: the copy is made under the mutex, which the return releases.
CopyRequests(r) == /\ got[r] = {} /\ at # "crashed"
                   /\ ReadLock(r)
                   /\ got' = [got EXCEPT ![r] = {requests}]
                   /\ UNCHANGED <<requests, at, robot, stack, current, messages>>

\* A faulty variant of ReturnRequests: the mutex stays locked.
ReturnLocked(r) == /\ got[r] # {} /\ at # "crashed"
                   /\ got' = [got EXCEPT ![r] = {}]
                   /\ UNCHANGED <<requests, owner, depth, at, robot, stack, current, messages>>

ReturnRequests(r) == /\ got[r] # {} /\ at # "crashed"
                     /\ Unlock
                     /\ got' = [got EXCEPT ![r] = {}]
                     /\ UNCHANGED <<requests, at, robot, stack, current, messages>>

Walk == BeginRebuild \/ VisitJoint \/ Descend \/ Return \/ EndRebuild \/ LogUrdf
            \/ NullRoot \/ Unsupported

Next == \/ \E d \in Robots \cup {Unparsable} : Receive(d)
        \/ Walk
        \/ \E r \in Readers : CopyRequests(r) \/ ReturnRequests(r)

\* The walker and the readers run whenever they can.  The mutex is free again
\* and again, as no reader holds it for longer than a copy.
Spec == /\ Init /\ [][Next]_vars
        /\ WF_vars(Walk) /\ SF_vars(BeginRebuild)
        /\ \A r \in Readers : WF_vars(ReturnRequests(r))

-----------------------------------------------------------------------------
\* Properties.

Kinds == {"translation and rotation", "rotation only"}

\* Type correctness, and where the walker and the mutex agree.
TypeOK ==
    /\ \A i \in DOMAIN requests : requests[i].kind \in Kinds
    /\ owner \in Readers \cup {Walker, NoThread}
    /\ depth \in 0 .. 2 /\ (depth = 0 <=> owner = NoThread)
    /\ at \in {"idle", "parsed", "walk", "joint", "logging", "crashed"}
    /\ robot \in Robots \cup {Unparsable, None}
    /\ at \in {"walk", "joint"} => owner = Walker /\ depth = (IF at = "walk" THEN 1 ELSE 2)
    /\ current \in Robots \cup {None}
    /\ messages \in 0 .. MaxMessages

\* list is what a robot needs: one request for its root link and one for each
\* joint, after that of the joint's parent link and at the path that continues
\* the parent's with the joint and its child link.
IsListOf(list, d) ==
    IF d = None THEN list = <<>>
    ELSE /\ list # <<>> /\ list[1] = RootRequest(d)
         /\ Len(list) = 1 + Cardinality(d.joints)
         /\ \A j \in d.joints : \E k \in DOMAIN list : \E h \in 1 .. k - 1 :
                list[h].child = j.parent /\ list[k] = JointRequest(list[h].path, j)

\* Who finds the mutex free finds the list of the last robot that was walked
\* to its end: nothing half built, nothing left of the robot before.
WholeList == owner = NoThread => IsListOf(requests, current)

\* What a reader copies is that list, whenever the copy is made.
ReadsAreWhole ==
    [][\A r \in Readers :
           got[r] = {} => \A list \in got'[r] : IsListOf(list, current)]_vars

\* The "timebomb to avoid suprises" of robot_description.cpp:103: a robot with a
\* joint that does not rotate, however deep, ends the process and is never shown,
\* not even in part, and a robot without one is never taken for such.
UnsupportedJointEndsProcess ==
    robot \in Robots =>
        /\ at = "logging" => \A j \in robot.joints : j.rotates
        /\ at = "crashed" => \E j \in robot.joints : ~j.rotates

\* What the program is a replacement of rviz for: "rviz can easily crash if given
\* invalid data" (README.md:5).  A description that does not parse is such data.
InvalidDataSurvived == at = "crashed" => robot # Unparsable

\* The callback ends: the walk takes the mutex it already holds once more for
\* every joint, and that must not block it, nor may a reader for ever.
CallbackEnds == (at = "parsed") ~> (at \in {"idle", "crashed"})

=============================================================================
