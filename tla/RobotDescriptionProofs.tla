----------------------- MODULE RobotDescriptionProofs -----------------------
(***************************************************************************)
(* Proofs about RobotDescription, for any robots that are trees, any set   *)
(* of readers and any number of messages.                                  *)
(***************************************************************************)
EXTENDS RobotDescription, FiniteSetTheorems, SequenceTheorems, TLAPS

-----------------------------------------------------------------------------
\* The inductive invariant.

\* s is a sequence, of whatever values.
IsSequence(s) == s \in Seq({s[k] : k \in DOMAIN s})

Walking == at \in {"walk", "joint"}

\* The mutex is the walker's only while it walks, and a reader's exactly while
\* the reader has a copy to return.
Mutex ==
    /\ DOMAIN got = Readers
    /\ owner = Walker => at \in {"walk", "joint", "crashed"}
    /\ \A r \in Readers : got[r] # {} <=> owner = r
    /\ owner \in Readers => depth = 1

\* Between two walks the list is that of the last robot walked to its end.
Whole == owner # Walker => IsListOf(requests, current)

\* Why the walker is where it is.
Reasons ==
    /\ at = "parsed" => robot \in Robots \cup {Unparsable}
    /\ at \in {"walk", "joint", "logging"} => robot \in Robots
    /\ at = "logging" => \A j \in robot.joints : j.rotates
    /\ at = "crashed" /\ robot # Unparsable => \E j \in robot.joints : ~j.rotates

\* The k-th request of the list is that of one of d's joints, one that rotates,
\* and has that of the joint's parent link before it.
IsEntry(list, k, d) ==
    \E j \in d.joints : \E h \in 1 .. k - 1 :
        /\ j.rotates
        /\ list[h].child = j.parent
        /\ list[k] = JointRequest(list[h].path, j)

\* While it walks, the list starts with the request for the root link.
Listed ==
    /\ IsSequence(requests) /\ requests # <<>>
    /\ requests[1] = RootRequest(robot)
    /\ \A k \in 2 .. Len(requests) : IsEntry(requests, k, robot)

\* The joints that have their request.
Done == {j \in robot.joints : \E k \in 2 .. Len(requests) : requests[k].child = j.child}

\* Each active call is on a link that has its request, with joints of that link to visit.
Called ==
    /\ IsSequence(stack)
    /\ \A i \in 1 .. Len(stack) : stack[i] = [path |-> stack[i].path, todo |-> stack[i].todo]
    /\ \A i \in 1 .. Len(stack) : \E h \in 1 .. Len(requests) :
           /\ stack[i].path = requests[h].path
           /\ \A j \in stack[i].todo : j \in robot.joints /\ j.parent = requests[h].child

\* No joint is visited twice: those still to visit have no request, and no
\* joint is to be visited by two calls.
Once ==
    /\ \A i \in 1 .. Len(stack) : stack[i].todo \cap Done = {}
    /\ \A i, k \in 1 .. Len(stack) : i # k => stack[i].todo \cap stack[k].todo = {}

\* The walk has not come to the link that joint j hangs from.
Unreached(j) ==
    /\ j.parent # robot.root
    /\ \A k \in robot.joints : k.child = j.parent => k \notin Done

\* No joint is lost: it has its request, or is still to visit, or is out of reach.
Kept ==
    \A j \in robot.joints :
        \/ j \in Done
        \/ \E i \in 1 .. Len(stack) : j \in stack[i].todo
        \/ Unreached(j)

\* The list has no request but these.
Counted == Len(requests) = 1 + Cardinality(Done)

WalkInv == Listed /\ Called /\ Once /\ Kept /\ Counted

IInv == TypeOK /\ Mutex /\ Whole /\ Reasons /\ (Walking => WalkInv)

-----------------------------------------------------------------------------
\* Sequences.

LEMMA SequenceType ==
    ASSUME NEW s, IsSequence(s)
    PROVE  Len(s) \in Nat /\ DOMAIN s = 1 .. Len(s) /\ (s # <<>> <=> Len(s) >= 1)
BY DEF IsSequence

LEMMA AnySequence ==
    ASSUME NEW S, NEW s \in Seq(S)
    PROVE  IsSequence(s)
<1>1. Len(s) \in Nat /\ DOMAIN s = 1 .. Len(s) /\ s = [k \in 1 .. Len(s) |-> s[k]]
  OBVIOUS
<1>2. \A k \in 1 .. Len(s) : s[k] \in {s[i] : i \in DOMAIN s}
  BY <1>1
<1> QED
  BY <1>1, <1>2 DEF IsSequence

LEMMA Singleton ==
    ASSUME NEW x
    PROVE  IsSequence(<<x>>) /\ Len(<<x>>) = 1 /\ <<x>>[1] = x
<1>1. <<x>> \in Seq({x})
  OBVIOUS
<1> QED
  BY <1>1, AnySequence

LEMMA Appending ==
    ASSUME NEW s, IsSequence(s), NEW x
    PROVE  /\ IsSequence(Append(s, x))
           /\ Len(Append(s, x)) = Len(s) + 1
           /\ DOMAIN Append(s, x) = 1 .. Len(s) + 1
           /\ \A k \in 1 .. Len(s) : Append(s, x)[k] = s[k]
           /\ Append(s, x)[Len(s) + 1] = x
<1> DEFINE S == {s[k] : k \in DOMAIN s} \cup {x}
<1>1. s \in Seq(S)
  BY DEF IsSequence
<1> HIDE DEF S
<1>2. x \in S
  BY DEF S
<1>3. Append(s, x) \in Seq(S)
  BY <1>1, <1>2
<1>4. IsSequence(Append(s, x))
  BY <1>3, AnySequence
<1> QED
  BY <1>1, <1>2, <1>3, <1>4

LEMMA Shortening ==
    ASSUME NEW s, IsSequence(s), s # <<>>
    PROVE  /\ IsSequence(SubSeq(s, 1, Len(s) - 1))
           /\ Len(SubSeq(s, 1, Len(s) - 1)) = Len(s) - 1
           /\ \A k \in 1 .. Len(s) - 1 : SubSeq(s, 1, Len(s) - 1)[k] = s[k]
<1> DEFINE S == {s[k] : k \in DOMAIN s}
           n == Len(s) - 1
<1>1. s \in Seq(S) /\ n \in Nat
  BY DEF IsSequence
<1>2. \A k \in 1 .. n : s[k] \in S
  BY <1>1
<1> HIDE DEF S, n
<1>3. /\ SubSeq(s, 1, n) \in Seq(S)
      /\ Len(SubSeq(s, 1, n)) = IF 1 <= n THEN n - 1 + 1 ELSE 0
      /\ \A k \in 1 .. n - 1 + 1 : SubSeq(s, 1, n)[k] = s[1 + k - 1]
  BY <1>1, <1>2, SubSeqProperties
<1>4. (IF 1 <= n THEN n - 1 + 1 ELSE 0) = n
  BY <1>1
<1>5. ASSUME NEW k \in 1 .. n PROVE SubSeq(s, 1, n)[k] = s[k]
  <2>1. k \in 1 .. n - 1 + 1 /\ 1 + k - 1 = k
    BY <1>1
  <2> QED
    BY <1>3, <2>1
<1>6. IsSequence(SubSeq(s, 1, n))
  BY <1>3, AnySequence
<1> QED
  BY <1>3, <1>4, <1>5, <1>6 DEF n

LEMMA Replacing ==
    ASSUME NEW s, IsSequence(s), NEW i \in 1 .. Len(s), NEW x
    PROVE  /\ IsSequence([s EXCEPT ![i] = x])
           /\ Len([s EXCEPT ![i] = x]) = Len(s)
<1> DEFINE S == {s[k] : k \in DOMAIN s} \cup {x}
<1>1. s \in Seq(S)
  BY DEF IsSequence
<1> HIDE DEF S
<1>2. x \in S
  BY DEF S
<1>3. s \in [1 .. Len(s) -> S] /\ Len(s) \in Nat
  BY <1>1
<1>4. [s EXCEPT ![i] = x] \in [1 .. Len(s) -> S]
  BY <1>2, <1>3
<1>5. [s EXCEPT ![i] = x] \in Seq(S) /\ Len([s EXCEPT ![i] = x]) = Len(s)
  BY <1>3, <1>4
<1> QED
  BY <1>5, AnySequence

LEMMA RequestFields ==
    ASSUME NEW path, NEW j
    PROVE  /\ JointRequest(path, j).child = j.child
           /\ JointRequest(path, j).path = JointPath(path, j)
           /\ JointRequest(path, j).kind \in Kinds
BY DEF JointRequest, Request, Kinds

LEMMA RootFields ==
    ASSUME NEW d
    PROVE  /\ RootRequest(d).child = d.root
           /\ RootRequest(d).path = <<d.name, d.root>>
           /\ RootRequest(d).kind \in Kinds
BY DEF RootRequest, Request, Kinds

-----------------------------------------------------------------------------
\* The actions that do not walk.

LEMMA Untouched ==
    ASSUME WalkInv, UNCHANGED <<requests, robot, stack>>
    PROVE  WalkInv'
<1>1. Done' = Done
  BY DEF Done
<1>2. Listed' /\ Called'
  BY DEF WalkInv, Listed, IsSequence, Called
<1>3. Once'
  BY <1>1 DEF WalkInv, Once
<1>4. Kept'
  BY <1>1 DEF WalkInv, Kept, Unreached
<1>5. Counted'
  BY <1>1 DEF WalkInv, Counted
<1> QED
  BY <1>2, <1>3, <1>4, <1>5 DEF WalkInv

LEMMA InitInv == Init => IInv
<1> SUFFICES ASSUME Init PROVE IInv
  OBVIOUS
<1> USE DEF Init
<1>1. TypeOK
  BY MessagesAssumption DEF TypeOK
<1>2. Mutex
  BY ThreadsAssumption DEF Mutex
<1>3. Whole /\ Reasons
  BY DEF Whole, Reasons, IsListOf
<1> QED
  BY <1>1, <1>2, <1>3 DEF IInv, Walking

LEMMA ReceiveInv ==
    ASSUME IInv, NEW d \in Robots \cup {Unparsable}, Receive(d)
    PROVE  IInv'
<1> USE DEF IInv, Receive
<1>1. TypeOK'
  BY MessagesAssumption DEF TypeOK
<1>2. Mutex' /\ Whole' /\ Reasons'
  BY ThreadsAssumption DEF Mutex, Whole, Reasons
<1> QED
  BY <1>1, <1>2 DEF Walking

LEMMA NullRootInv ==
    ASSUME IInv, NullRoot
    PROVE  IInv'
<1> USE DEF IInv, NullRoot
<1>1. TypeOK'
  BY DEF TypeOK
<1>2. Mutex' /\ Whole' /\ Reasons'
  BY ThreadsAssumption DEF Mutex, Whole, Reasons
<1> QED
  BY <1>1, <1>2 DEF Walking

LEMMA UnsupportedInv ==
    ASSUME IInv, Unsupported
    PROVE  IInv'
<1> USE DEF IInv
<1>1. PICK j \in Ahead :
          /\ ~j.rotates /\ at' = "crashed"
          /\ UNCHANGED <<requests, owner, depth, robot, stack, got, current, messages>>
  BY DEF Unsupported
<1>2. at = "walk" /\ stack # <<>> /\ j \in stack[Len(stack)].todo
  BY <1>1 DEF Ahead, Top
<1>3. j \in robot.joints
  BY <1>2, SequenceType DEF Walking, WalkInv, Called
<1>4. TypeOK'
  BY <1>1, <1>2 DEF TypeOK
<1>5. Mutex' /\ Whole'
  BY <1>1, <1>2 DEF Mutex, Whole
<1>6. Reasons'
  BY <1>1, <1>3 DEF Reasons
<1> QED
  BY <1>1, <1>4, <1>5, <1>6 DEF Walking

LEMMA LogUrdfInv ==
    ASSUME IInv, LogUrdf
    PROVE  IInv'
<1> USE DEF IInv, LogUrdf
<1>1. TypeOK'
  BY DEF TypeOK
<1>2. Mutex' /\ Whole' /\ Reasons'
  BY ThreadsAssumption DEF Mutex, Whole, Reasons
<1> QED
  BY <1>1, <1>2 DEF Walking

\* A copy is made of a list that is whole: the walker is not in its walk.
LEMMA CopyRequestsInv ==
    ASSUME IInv, NEW r \in Readers, CopyRequests(r)
    PROVE  /\ IInv'
           /\ IsListOf(requests, current)
<1> USE DEF IInv, CopyRequests, ReadLock, Lock
<1>1. owner = NoThread /\ depth = 0 /\ owner' = r /\ depth' = 1
  BY DEF Mutex, TypeOK
<1>2. ~Walking /\ ~Walking'
  BY <1>1, ThreadsAssumption DEF TypeOK, Walking
<1>3. TypeOK'
  BY <1>1, <1>2, ThreadsAssumption DEF TypeOK, Walking
<1>4. Mutex'
  BY <1>1, ThreadsAssumption DEF Mutex
<1>5. IsListOf(requests, current)
  BY <1>1, ThreadsAssumption DEF Whole
<1>6. Whole' /\ Reasons'
  BY <1>5 DEF Whole, Reasons
<1> QED
  BY <1>2, <1>3, <1>4, <1>5, <1>6

LEMMA ReturnRequestsInv ==
    ASSUME IInv, NEW r \in Readers, ReturnRequests(r)
    PROVE  IInv'
<1> USE DEF IInv, ReturnRequests, Unlock
<1>1. owner = r /\ depth = 1 /\ owner' = NoThread /\ depth' = 0
  BY DEF Mutex
<1>2. ~Walking /\ ~Walking'
  BY <1>1, ThreadsAssumption DEF TypeOK, Walking
<1>3. TypeOK'
  BY <1>1, <1>2 DEF TypeOK, Walking
<1>4. Mutex'
  BY <1>1, ThreadsAssumption DEF Mutex
<1>5. Whole' /\ Reasons'
  BY <1>1, ThreadsAssumption DEF Whole, Reasons
<1> QED
  BY <1>2, <1>3, <1>4, <1>5

-----------------------------------------------------------------------------
\* The walk.

LEMMA BeginRebuildInv ==
    ASSUME IInv, BeginRebuild
    PROVE  IInv'
<1> USE DEF IInv, BeginRebuild, Lock, Fresh
<1>1. robot \in Robots /\ robot' = robot /\ IsTree(robot)
  BY RobotsAssumption DEF Reasons
<1>2. owner = NoThread /\ depth = 0 /\ owner' = Walker /\ depth' = 1 /\ at' = "walk"
  BY ThreadsAssumption DEF Mutex, TypeOK
<1>3. /\ IsSequence(requests') /\ Len(requests') = 1 /\ requests' # <<>>
      /\ requests'[1] = RootRequest(robot) /\ DOMAIN requests' = {1}
  BY Singleton, SequenceType
<1>4. /\ IsSequence(stack') /\ Len(stack') = 1
      /\ stack'[1] = Call(robot, robot.root, <<robot.name, robot.root>>)
  BY Singleton
<1>5. /\ requests'[1].kind \in Kinds
      /\ requests'[1].child = robot.root
      /\ requests'[1].path = <<robot.name, robot.root>>
  BY <1>3, RootFields
<1>6. TypeOK'
  <2>1. \A i \in DOMAIN requests' : requests'[i].kind \in Kinds
    BY <1>3, <1>5
  <2> QED
    BY <1>1, <1>2, <2>1, ThreadsAssumption DEF TypeOK
<1>7. Mutex' /\ Whole' /\ Reasons'
  BY <1>1, <1>2, ThreadsAssumption DEF Mutex, Whole, Reasons
<1>8. Done' = {}
  BY <1>3 DEF Done
<1>9. Listed'
  BY <1>1, <1>3 DEF Listed
<1>10. Called'
  <2>1. /\ stack'[1].path = requests'[1].path
        /\ \A j \in stack'[1].todo : j \in robot'.joints /\ j.parent = requests'[1].child
        /\ stack'[1] = [path |-> stack'[1].path, todo |-> stack'[1].todo]
    BY <1>1, <1>4, <1>5 DEF Call
  <2>2. 1 \in 1 .. Len(requests') /\ 1 .. Len(stack') = {1}
    BY <1>3, <1>4
  <2> QED
    BY <1>4, <2>1, <2>2 DEF Called
<1>11. Once'
  BY <1>4, <1>8 DEF Once
<1>12. Kept'
  BY <1>1, <1>4, <1>8 DEF Kept, Unreached, Call
<1>13. Counted'
  BY <1>3, <1>8, FS_EmptySet DEF Counted
<1> QED
  BY <1>6, <1>7, <1>9, <1>10, <1>11, <1>12, <1>13 DEF WalkInv

LEMMA DescendInv ==
    ASSUME IInv, Descend
    PROVE  IInv'
<1> USE DEF IInv, Descend, Unlock
<1>1. owner = Walker /\ depth = 2 /\ owner' = Walker /\ depth' = 1
  BY DEF TypeOK
<1>2. TypeOK'
  BY <1>1, ThreadsAssumption DEF TypeOK
<1>3. Mutex' /\ Whole' /\ Reasons'
  BY <1>1, ThreadsAssumption DEF Mutex, Whole, Reasons
<1>4. WalkInv'
  BY Untouched DEF Walking
<1> QED
  BY <1>2, <1>3, <1>4

LEMMA ReturnInv ==
    ASSUME IInv, Return
    PROVE  IInv'
<1> USE DEF IInv, Return
<1>1. WalkInv
  BY DEF Walking
<1> DEFINE n == Len(stack)
<1>2. IsSequence(stack) /\ n \in Nat /\ n >= 1
  BY <1>1, SequenceType DEF WalkInv, Called
<1>3. /\ IsSequence(stack') /\ Len(stack') = n - 1
      /\ \A i \in 1 .. n - 1 : stack'[i] = stack[i]
  BY <1>2, Shortening
<1>4. stack[n].todo = {}
  BY DEF Top
<1> HIDE DEF n
<1>5. Done' = Done
  BY DEF Done
<1>6. Listed'
  BY <1>1 DEF WalkInv, Listed, IsSequence
<1>7. Called'
  <2>1. ASSUME NEW i \in 1 .. n - 1
        PROVE  /\ stack'[i] = [path |-> stack'[i].path, todo |-> stack'[i].todo]
               /\ \E h \in 1 .. Len(requests) :
                      /\ stack'[i].path = requests[h].path
                      /\ \A j \in stack'[i].todo :
                             j \in robot.joints /\ j.parent = requests[h].child
    <3>1. i \in 1 .. Len(stack) /\ stack'[i] = stack[i]
      BY <1>2, <1>3 DEF n
    <3> QED
      BY <1>1, <3>1 DEF WalkInv, Called
  <2>2. requests' = requests /\ robot' = robot /\ 1 .. Len(stack') = 1 .. n - 1
    BY <1>3
  <2> HIDE DEF IInv, Return
  <2> QED
    BY <1>3, <2>1, <2>2 DEF Called
<1>8. Once'
  BY <1>1, <1>2, <1>3, <1>5 DEF WalkInv, Once, n
<1>9. Kept'
  <2>1. ASSUME NEW j \in robot.joints, NEW i \in 1 .. n, j \in stack[i].todo
        PROVE  \E k \in 1 .. Len(stack') : j \in stack'[k].todo
    BY <2>1, <1>2, <1>3, <1>4
  <2>2. ASSUME NEW j \in robot.joints, Unreached(j)
        PROVE  Unreached(j)'
    BY <2>2, <1>5 DEF Unreached
  <2> QED
    BY <1>1, <1>5, <2>1, <2>2 DEF WalkInv, Kept, n
<1>10. Counted'
  BY <1>1, <1>5 DEF WalkInv, Counted
<1>11. TypeOK' /\ Mutex' /\ Whole' /\ Reasons'
  BY DEF TypeOK, Mutex, Whole, Reasons
<1> QED
  BY <1>6, <1>7, <1>8, <1>9, <1>10, <1>11 DEF WalkInv

\* The walk that is out of calls has come to every joint.
LEMMA AllDone ==
    ASSUME robot \in Robots, WalkInv, stack = <<>>
    PROVE  Done = robot.joints
<1> DEFINE U == robot.joints \ Done
<1>1. Done \subseteq robot.joints
  BY DEF Done
<1>2. 1 .. Len(stack) = {}
  OBVIOUS
<1>3. \A j \in U : Unreached(j)
  BY <1>2 DEF WalkInv, Kept
<1>4. \A j \in U : /\ j.parent # robot.root
                   /\ \A k \in robot.joints \ U : k.child # j.parent
  BY <1>1, <1>3 DEF Unreached
<1>5. U # {} => \E j \in U : \/ j.parent = robot.root
                            \/ \E k \in robot.joints \ U : k.child = j.parent
  BY RobotsAssumption DEF IsTree
<1>6. U = {}
  BY <1>4, <1>5
<1> QED
  BY <1>1, <1>6

LEMMA EndRebuildInv ==
    ASSUME IInv, EndRebuild
    PROVE  IInv'
<1> USE DEF IInv, EndRebuild, Unlock
<1>1. WalkInv /\ robot \in Robots
  BY DEF Walking, Reasons
<1>2. Done = robot.joints
  BY <1>1, AllDone
<1>3. IsSequence(requests) /\ DOMAIN requests = 1 .. Len(requests) /\ Len(requests) \in Nat
  BY <1>1, SequenceType DEF WalkInv, Listed
<1>4. \A j, k \in robot.joints : j.child = k.child => j = k
  BY <1>1, RobotsAssumption DEF IsTree
<1>5. ASSUME NEW j \in robot.joints
      PROVE  /\ j.rotates
             /\ \E k \in DOMAIN requests : \E h \in 1 .. k - 1 :
                    /\ requests[h].child = j.parent
                    /\ requests[k] = JointRequest(requests[h].path, j)
  <2>1. PICK k \in 2 .. Len(requests) : requests[k].child = j.child
    BY <1>2 DEF Done
  <2>2. PICK i \in robot.joints, h \in 1 .. k - 1 :
            /\ i.rotates
            /\ requests[h].child = i.parent
            /\ requests[k] = JointRequest(requests[h].path, i)
    BY <1>1, <2>1 DEF WalkInv, Listed, IsEntry
  <2>3. requests[k].child = i.child
    BY <2>2, RequestFields
  <2>4. i = j
    BY <1>4, <2>1, <2>3
  <2>5. k \in DOMAIN requests
    BY <1>3
  <2> QED
    BY <2>2, <2>4, <2>5
<1>6. IsListOf(requests, robot)
  <2>1. robot # None
    BY <1>1, NoneAssumption
  <2>2. /\ requests # <<>> /\ requests[1] = RootRequest(robot)
        /\ Len(requests) = 1 + Cardinality(robot.joints)
    BY <1>1, <1>2 DEF WalkInv, Listed, Counted
  <2> QED
    BY <1>5, <2>1, <2>2 DEF IsListOf
<1>7. owner = Walker /\ depth = 1 /\ owner' = NoThread /\ depth' = 0
  BY DEF TypeOK
<1>8. TypeOK'
  BY <1>1, <1>7 DEF TypeOK
<1>9. Mutex'
  BY <1>1, <1>7, ThreadsAssumption DEF Mutex
<1>10. Whole'
  BY <1>6 DEF Whole
<1>11. Reasons'
  BY <1>1, <1>5 DEF Reasons
<1> QED
  BY <1>8, <1>9, <1>10, <1>11 DEF Walking

\* A joint that is still to visit has a child link that no request has.
LEMMA NotListed ==
    ASSUME robot \in Robots, WalkInv, NEW i \in 1 .. Len(stack), NEW j \in stack[i].todo
    PROVE  /\ j \in robot.joints
           /\ \A h \in 1 .. Len(requests) : requests[h].child # j.child
<1>1. j \in robot.joints
  BY DEF WalkInv, Called
<1>2. Len(requests) \in Nat
  BY SequenceType DEF WalkInv, Listed
<1>3. requests[1].child # j.child
  <2>1. requests[1].child = robot.root
    BY RootFields DEF WalkInv, Listed
  <2> QED
    BY <1>1, <2>1, RobotsAssumption DEF IsTree
<1>4. j \notin Done
  BY DEF WalkInv, Once
<1>5. ASSUME NEW h \in 2 .. Len(requests)
      PROVE  requests[h].child # j.child
  BY <1>1, <1>4 DEF Done
<1>6. \A h \in 1 .. Len(requests) : h = 1 \/ h \in 2 .. Len(requests)
  BY <1>2
<1> QED
  BY <1>1, <1>3, <1>5, <1>6

LEMMA VisitJointInv ==
    ASSUME IInv, VisitJoint
    PROVE  IInv'
<1> DEFINE n == Len(stack)
           m == Len(requests)
<1>1. PICK j \in Ahead :
          /\ j.rotates
          /\ Lock(Walker)
          /\ requests' = Append(requests, JointRequest(Top.path, j))
          /\ stack' = Append([stack EXCEPT ![n].todo = @ \ {j}],
                             Call(robot, j.child, JointPath(Top.path, j)))
          /\ at' = "joint"
          /\ UNCHANGED <<robot, got, current, messages>>
  BY DEF VisitJoint
<1>2. at = "walk" /\ stack # <<>> /\ j \in stack[n].todo
  BY <1>1 DEF Ahead, Top
<1>3. WalkInv /\ robot \in Robots /\ TypeOK /\ Mutex /\ Whole /\ Reasons
  BY <1>2 DEF IInv, Walking, Reasons
<1>4. /\ IsSequence(stack) /\ n \in Nat /\ n >= 1
      /\ IsSequence(requests) /\ m \in Nat /\ m >= 1 /\ DOMAIN requests = 1 .. m
  BY <1>2, <1>3, SequenceType DEF WalkInv, Called, Listed
<1>5. /\ j \in robot.joints
      /\ \A h \in 1 .. m : requests[h].child # j.child
  BY <1>2, <1>3, <1>4, NotListed
<1> DEFINE new == JointRequest(stack[n].path, j)
           call == Call(robot, j.child, JointPath(stack[n].path, j))
<1>6. /\ IsSequence(requests') /\ Len(requests') = m + 1 /\ DOMAIN requests' = 1 .. m + 1
      /\ \A h \in 1 .. m : requests'[h] = requests[h]
      /\ requests'[m + 1] = new
  BY <1>1, <1>4, Appending DEF Top
<1>7. /\ new.child = j.child /\ new.kind \in Kinds
      /\ new.path = JointPath(stack[n].path, j)
  BY RequestFields
<1>8. /\ IsSequence(stack') /\ Len(stack') = n + 1
      /\ \A i \in 1 .. n - 1 : stack'[i] = stack[i]
      /\ stack'[n] = [path |-> stack[n].path, todo |-> stack[n].todo \ {j}]
      /\ stack'[n + 1] = [path |-> new.path, todo |-> {k \in robot.joints : k.parent = j.child}]
  <2> DEFINE less == [stack EXCEPT ![n] = [path |-> stack[n].path, todo |-> stack[n].todo \ {j}]]
  <2>1. n \in 1 .. n /\ 1 .. n - 1 \subseteq 1 .. n
    BY <1>4
  <2>2. stack[n] = [path |-> stack[n].path, todo |-> stack[n].todo]
    BY <1>3, <2>1 DEF WalkInv, Called
  <2>3. less = [stack EXCEPT ![n].todo = @ \ {j}]
    BY <2>2
  <2>4. stack' = Append(less, call)
    BY <1>1, <2>3 DEF Top
  <2>5. IsSequence(less) /\ Len(less) = n
    BY <1>4, <2>1, Replacing
  <2>6. DOMAIN stack = 1 .. n
    BY <1>4, SequenceType
  <2>7. /\ less[n] = [path |-> stack[n].path, todo |-> stack[n].todo \ {j}]
        /\ \A i \in 1 .. n - 1 : less[i] = stack[i]
    BY <1>4, <2>1, <2>6
  <2> HIDE DEF less, call
  <2>8. /\ IsSequence(stack') /\ Len(stack') = n + 1
        /\ \A i \in 1 .. n : stack'[i] = less[i]
        /\ stack'[n + 1] = call
    BY <2>4, <2>5, Appending
  <2>9. call = [path |-> new.path, todo |-> {k \in robot.joints : k.parent = j.child}]
    BY <1>7 DEF call, Call
  <2> QED
    BY <2>1, <2>7, <2>8, <2>9
<1> HIDE DEF n, m, new, call
<1>9. j.rotates /\ robot' = robot
  BY <1>1
<1>10. Done' = Done \cup {j} /\ j \notin Done
  <2>1. \A k \in robot.joints : k.child = j.child => k = j
    BY <1>3, <1>5, RobotsAssumption DEF IsTree
  <2>2. ASSUME NEW k \in robot.joints
        PROVE  k \in Done' <=> k \in Done \/ k = j
    <3>1. \A h \in 2 .. m + 1 : h \in 1 .. m \/ h = m + 1
      BY <1>4
    <3>2. m + 1 \in 2 .. m + 1 /\ \A h \in 2 .. m : h \in 1 .. m /\ h \in 2 .. m + 1
      BY <1>4
    <3>3. \A h \in 2 .. m + 1 : h \in 2 .. m \/ h = m + 1
      BY <1>4
    <3>4. k \in Done' => k \in Done \/ k = j
      BY <1>1, <1>6, <1>7, <2>1, <3>2, <3>3 DEF Done, m
    <3>5. k \in Done \/ k = j => k \in Done'
      BY <1>1, <1>6, <1>7, <3>2 DEF Done, m
    <3> QED
      BY <3>4, <3>5
  <2>3. j \notin Done
    <3>1. \A h \in 2 .. m : h \in 1 .. m
      BY <1>4
    <3> QED
      BY <1>5, <3>1 DEF Done, m
  <2>4. Done' \subseteq robot.joints /\ Done \subseteq robot.joints
    BY <1>1 DEF Done
  <2> QED
    BY <1>5, <2>2, <2>3, <2>4
<1>11. Listed'
  <2>1. PICK h \in 1 .. m :
            /\ stack[n].path = requests[h].path
            /\ j \in robot.joints /\ j.parent = requests[h].child
    BY <1>2, <1>3, <1>4 DEF WalkInv, Called, n, m
  <2>2. ASSUME NEW k \in 2 .. m PROVE IsEntry(requests', k, robot)
    <3>1. IsEntry(requests, k, robot)
      BY <1>3, <2>2 DEF WalkInv, Listed, m
    <3>2. k \in 1 .. m /\ 1 .. k - 1 \subseteq 1 .. m
      BY <1>4
    <3> QED
      BY <1>6, <3>1, <3>2 DEF IsEntry
  <2>3. ASSUME NEW k, k = m + 1 PROVE IsEntry(requests', k, robot)
    <3>1. h \in 1 .. k - 1
      BY <1>4, <2>3
    <3>2. requests'[h].child = j.parent /\ requests'[k] = JointRequest(requests'[h].path, j)
      BY <1>6, <2>1, <2>3 DEF new
    <3> QED
      BY <1>9, <2>1, <3>1, <3>2 DEF IsEntry
  <2>4. \A k \in 2 .. m + 1 : k \in 2 .. m \/ k = m + 1
    BY <1>4
  <2>5. \A k \in 2 .. m + 1 : IsEntry(requests', k, robot)
    BY <2>2, <2>3, <2>4
  <2>6. requests'[1] = RootRequest(robot) /\ requests' # <<>>
    BY <1>3, <1>4, <1>6, SequenceType DEF WalkInv, Listed
  <2> QED
    BY <1>1, <1>6, <2>5, <2>6 DEF Listed
<1>12. Called'
  <2> DEFINE Frame(f, h) ==
          /\ f.path = requests'[h].path
          /\ \A k \in f.todo : k \in robot.joints /\ k.parent = requests'[h].child
  <2>1. ASSUME NEW i \in 1 .. n
        PROVE  \E h \in 1 .. m : Frame(stack[i], h)
    BY <1>3, <1>6 DEF WalkInv, Called, n, m
  <2>2. Frame(stack'[n + 1], m + 1)
    BY <1>6, <1>7, <1>8
  <2>3. ASSUME NEW i \in 1 .. n - 1
        PROVE  /\ stack'[i] = [path |-> stack'[i].path, todo |-> stack'[i].todo]
               /\ \E h \in 1 .. m : Frame(stack'[i], h)
    <3>1. i \in 1 .. n /\ stack'[i] = stack[i]
      BY <1>4, <1>8
    <3> QED
      BY <1>3, <2>1, <3>1 DEF WalkInv, Called, n
  <2>4. \E h \in 1 .. m : Frame(stack'[n], h)
    <3>1. n \in 1 .. n
      BY <1>4
    <3> QED
      BY <1>8, <2>1, <3>1
  <2>5. ASSUME NEW i \in 1 .. n + 1
        PROVE  /\ stack'[i] = [path |-> stack'[i].path, todo |-> stack'[i].todo]
               /\ \E h \in 1 .. m + 1 : Frame(stack'[i], h)
    <3>1. i \in 1 .. n - 1 \/ i = n \/ i = n + 1
      BY <1>4
    <3>2. 1 .. m \subseteq 1 .. m + 1 /\ m + 1 \in 1 .. m + 1
      BY <1>4
    <3> QED
      BY <1>8, <2>2, <2>3, <2>4, <3>1, <3>2
  <2> QED
    BY <1>6, <1>8, <1>9, <2>5 DEF Called
<1>13. Once'
  <2>1. n \in 1 .. n /\ \A i \in 1 .. n + 1 : i \in 1 .. n - 1 \/ i = n \/ i = n + 1
    BY <1>4
  <2>2. \A i \in 1 .. n - 1 : i \in 1 .. n /\ i # n
    BY <1>4
  <2> DEFINE old(i) == stack[i].todo
  <2>3. /\ \A i \in 1 .. n - 1 : stack'[i].todo = old(i)
        /\ stack'[n].todo = old(n) \ {j}
    BY <1>8
  <2>4. /\ \A i \in 1 .. n : old(i) \cap Done = {}
        /\ \A i, k \in 1 .. n : i # k => old(i) \cap old(k) = {}
    BY <1>3 DEF WalkInv, Once, n
  <2>5. ASSUME NEW k \in stack'[n + 1].todo
        PROVE  k \notin Done' /\ \A i \in 1 .. n : k \notin old(i)
    <3>1. k \in robot.joints /\ k.parent = j.child
      BY <1>8, <2>5
    <3>2. ASSUME NEW i \in 1 .. n, k \in old(i) PROVE FALSE
      <4>1. \E h \in 1 .. m : k.parent = requests[h].child
        BY <1>3, <3>2 DEF WalkInv, Called, n, m
      <4> QED
        BY <1>5, <3>1, <4>1
    <3>3. k # j
      BY <1>2, <2>1, <3>2
    <3>4. k \notin Done
      <4>1. SUFFICES ASSUME k \in Done PROVE FALSE
        OBVIOUS
      <4>2. PICK g \in 2 .. m : requests[g].child = k.child
        BY <4>1 DEF Done, m
      <4>3. PICK i \in robot.joints, h \in 1 .. g - 1 :
                requests[h].child = i.parent /\ requests[g] = JointRequest(requests[h].path, i)
        BY <1>3, <4>2 DEF WalkInv, Listed, IsEntry, m
      <4>4. i = k
        BY <1>3, <3>1, <4>2, <4>3, RequestFields, RobotsAssumption DEF IsTree
      <4>5. h \in 1 .. m
        BY <1>4, <4>2, <4>3
      <4> QED
        BY <1>5, <3>1, <4>3, <4>4, <4>5
    <3> QED
      BY <1>10, <3>2, <3>3, <3>4
  <2>6. ASSUME NEW i \in 1 .. n + 1 PROVE stack'[i].todo \cap Done' = {}
    <3>1. CASE i \in 1 .. n - 1
      BY <1>2, <1>10, <2>1, <2>2, <2>3, <2>4, <3>1
    <3>2. CASE i = n
      BY <1>10, <2>1, <2>3, <2>4, <3>2
    <3>3. CASE i = n + 1
      BY <2>5, <3>3
    <3> QED
      BY <2>1, <3>1, <3>2, <3>3
  <2>7. \A i \in 1 .. n : stack'[i].todo \subseteq old(i)
    BY <1>4, <2>1, <2>3
  <2>8. ASSUME NEW i \in 1 .. n + 1, NEW k \in 1 .. n + 1, i # k
        PROVE  stack'[i].todo \cap stack'[k].todo = {}
    <3>1. (i \in 1 .. n \/ i = n + 1) /\ (k \in 1 .. n \/ k = n + 1)
      BY <1>4
    <3>2. CASE i \in 1 .. n /\ k \in 1 .. n
      BY <2>4, <2>7, <2>8, <3>2
    <3>3. CASE i = n + 1 /\ k \in 1 .. n
      BY <2>5, <2>7, <3>3
    <3>4. CASE i \in 1 .. n /\ k = n + 1
      BY <2>5, <2>7, <3>4
    <3> QED
      BY <2>8, <3>1, <3>2, <3>3, <3>4
  <2> QED
    BY <1>8, <2>6, <2>8 DEF Once
<1>14. Kept'
  <2>1. n \in 1 .. n + 1 /\ n + 1 \in 1 .. n + 1 /\ 1 .. n - 1 \subseteq 1 .. n + 1
    BY <1>4
  <2>2. ASSUME NEW i \in 1 .. n, NEW k \in stack[i].todo, k # j
        PROVE  \E h \in 1 .. n + 1 : k \in stack'[h].todo
    <3>1. i \in 1 .. n - 1 \/ i = n
      BY <1>4
    <3> QED
      BY <1>8, <2>1, <2>2, <3>1
  <2>3. ASSUME NEW k \in robot.joints, Unreached(k), k.parent = j.child
        PROVE  \E h \in 1 .. n + 1 : k \in stack'[h].todo
    BY <1>8, <2>1, <2>3
  <2>4. ASSUME NEW k \in robot.joints, Unreached(k), k.parent # j.child
        PROVE  Unreached(k)'
    BY <1>1, <1>10, <2>4 DEF Unreached
  <2>5. ASSUME NEW k \in robot.joints
        PROVE  \/ k \in Done'
               \/ \E h \in 1 .. n + 1 : k \in stack'[h].todo
               \/ Unreached(k)'
    <3>1. k \in Done \/ (\E i \in 1 .. n : k \in stack[i].todo) \/ Unreached(k)
      BY <1>3 DEF WalkInv, Kept, n
    <3> QED
      BY <1>10, <2>2, <2>3, <2>4, <3>1
  <2> QED
    BY <1>1, <1>8, <2>5 DEF Kept
<1>15. Counted'
  <2>1. IsFiniteSet(robot.joints) /\ Done \subseteq robot.joints
    BY <1>3, RobotsAssumption DEF IsTree, Done
  <2>2. IsFiniteSet(Done)
    BY <2>1, FS_Subset
  <2>3. Cardinality(Done') = Cardinality(Done) + 1 /\ Cardinality(Done) \in Nat
    BY <1>10, <2>2, FS_AddElement, FS_CardinalityType
  <2> QED
    BY <1>3, <1>6, <2>3 DEF WalkInv, Counted, m
<1>16. TypeOK'
  <2>1. owner' = Walker /\ depth' = 2
    BY <1>1, <1>2, <1>3 DEF Lock, TypeOK
  <2>2. \A i \in 1 .. m + 1 : i \in 1 .. m \/ i = m + 1
    BY <1>4
  <2>3. \A i \in DOMAIN requests' : requests'[i].kind \in Kinds
    BY <1>3, <1>4, <1>6, <1>7, <2>2 DEF TypeOK
  <2> QED
    BY <1>1, <1>3, <2>1, <2>3, ThreadsAssumption DEF TypeOK
<1>17. Mutex' /\ Whole' /\ Reasons'
  <2>1. owner = Walker /\ owner' = Walker
    BY <1>1, <1>2, <1>3 DEF Lock, TypeOK
  <2> QED
    BY <1>1, <1>3, <2>1, ThreadsAssumption DEF Mutex, Whole, Reasons
<1> QED
  BY <1>1, <1>11, <1>12, <1>13, <1>14, <1>15, <1>16, <1>17 DEF IInv, WalkInv

-----------------------------------------------------------------------------
\* The theorems.

LEMMA StepInv == IInv /\ [Next]_vars => IInv'
<1> SUFFICES ASSUME IInv, [Next]_vars PROVE IInv'
  OBVIOUS
<1>1. ASSUME NEW d \in Robots \cup {Unparsable}, Receive(d) PROVE IInv'
  BY <1>1, ReceiveInv
<1>2. CASE Walk
  BY <1>2, BeginRebuildInv, VisitJointInv, DescendInv, ReturnInv, EndRebuildInv,
     LogUrdfInv, NullRootInv, UnsupportedInv DEF Walk
<1>3. ASSUME NEW r \in Readers, CopyRequests(r) \/ ReturnRequests(r) PROVE IInv'
  BY <1>3, CopyRequestsInv, ReturnRequestsInv
<1>4. CASE UNCHANGED vars
  <2> USE <1>4 DEF vars, IInv
  <2>1. TypeOK' /\ Mutex' /\ Whole' /\ Reasons'
    BY DEF TypeOK, Mutex, Whole, Reasons
  <2>2. Walking' => WalkInv'
    BY Untouched DEF Walking
  <2> QED
    BY <2>1, <2>2
<1> QED
  BY <1>1, <1>2, <1>3, <1>4 DEF Next

THEOREM Invariance == Spec => []IInv
BY InitInv, StepInv, PTL DEF Spec

\* The mutex, the walker and the list keep their types: the recursive mutex is
\* never taken a third time, nor held by nobody, nor free inside the walk.
THEOREM TypeCorrect == Spec => []TypeOK
<1>1. IInv => TypeOK
  BY DEF IInv
<1> QED
  BY <1>1, Invariance, PTL

\* Whatever a URDF's tree, and in whatever order the parser lists its joints,
\* who finds the mutex free finds the list of the last robot walked to its end,
\* with one request for each joint after that of its parent link.
THEOREM ListWhole == Spec => []WholeList
<1>1. IInv => WholeList
  BY ThreadsAssumption DEF IInv, Whole, WholeList
<1> QED
  BY <1>1, Invariance, PTL

\* A robot with a joint that does not rotate, at any depth, ends the process
\* before it is shown, and no other robot that parses does.
THEOREM UnsupportedJointEnds == Spec => []UnsupportedJointEndsProcess
<1>1. IInv => UnsupportedJointEndsProcess
  BY NoneAssumption DEF IInv, Reasons, UnsupportedJointEndsProcess
<1> QED
  BY <1>1, Invariance, PTL

\* Whichever thread copies the list, and between whichever steps of the walk,
\* gets the whole list of the last robot walked to its end.
THEOREM CopiesWhole == Spec => ReadsAreWhole
<1> DEFINE Copy == \A r \in Readers :
                       got[r] = {} => \A list \in got'[r] : IsListOf(list, current)
<1>1. IInv /\ [Next]_vars => [Copy]_vars
  <2> SUFFICES ASSUME IInv, Next PROVE Copy
    OBVIOUS
  <2> SUFFICES ASSUME NEW r \in Readers, got[r] = {}, NEW list \in got'[r]
               PROVE  IsListOf(list, current)
    OBVIOUS
  <2>1. CASE UNCHANGED got
    BY <2>1
  <2>2. ASSUME NEW p \in Readers, CopyRequests(p) PROVE IsListOf(list, current)
    <3>1. IsListOf(requests, current)
      BY <2>2, CopyRequestsInv
    <3>2. list = requests
      BY <2>2 DEF CopyRequests, IInv, Mutex
    <3> QED
      BY <3>1, <3>2
  <2>3. ASSUME NEW p \in Readers, ReturnRequests(p) PROVE FALSE
    BY <2>3 DEF ReturnRequests, IInv, Mutex
  <2> QED
    BY <2>1, <2>2, <2>3 DEF Next, Receive, Walk, BeginRebuild, VisitJoint, Descend, Return,
       EndRebuild, LogUrdf, NullRoot, Unsupported
<1> QED
  BY <1>1, Invariance, PTL DEF Spec, ReadsAreWhole

=============================================================================
