-------------------------------- MODULE Node --------------------------------
(***************************************************************************)
(* Class rerun_viz::Node: the map from topics to converters, the mutex that *)
(* guards it, and the two operations that hold the mutex for long:          *)
(* updateSubscriptions, which brings the map in line with the topics and    *)
(* types of the ROS graph, and on_timer, which asks every converter for the *)
(* transforms it wants published.                                           *)
(*                                                                         *)
(* A ROS graph is the set of <<topic, type>> pairs that are advertised.    *)
(* A converter is an object of one topic and one type at an address; the   *)
(* address tells an object from the one that replaces it.  The vectors of  *)
(* subscriptions_ are sets: nothing depends on their order.                *)
(***************************************************************************)
EXTENDS Maps

CONSTANTS Topics, Types,
          Supported,   \* the pairs ConverterFactory has a converter for
          Addresses,   \* bound: addresses converters are allocated at
          Threads,     \* the threads that call the operations
          NoThread

ASSUME SupportedAssumption == Supported \subseteq Topics \X Types

ASSUME NoThreadAssumption == NoThread \notin Threads

VARIABLES subscriptions,   \* topic -> set of converters
          mutex,           \* the thread that holds subscriptions_mutex_
          at,              \* thread -> where it is in Node
          wanted,          \* the graph the last update was called with
          todo,            \* topics that update has still to go through
          missed,          \* pairs it could not create a converter for
          visit            \* thread -> converters on_timer has still to ask

vars == <<subscriptions, mutex, at, wanted, todo, missed, visit>>

Graphs == SUBSET (Topics \X Types)

Converters == [topic : Topics, type : Types, address : Addresses]

TopicsOf(G) == {pair[1] : pair \in G}

Pair(k) == <<k.topic, k.type>>

\* The converters that exist: the map holds the one lasting reference to each.
Live == UNION {subscriptions[t] : t \in DOMAIN subscriptions}

At(t) == IF t \in DOMAIN subscriptions THEN subscriptions[t] ELSE {}

-----------------------------------------------------------------------------
Init == /\ subscriptions = EmptyMap
        /\ mutex = NoThread
        /\ at = [p \in Threads |-> "outside"]
        /\ wanted = {}
        /\ todo = {}
        /\ missed = {}
        /\ visit = [p \in Threads |-> {}]

\* A faulty variant of Lock: the caller does not wait for the mutex.
EnterAnyway(p) == UNCHANGED mutex

\* std::lock_guard on subscriptions_mutex_.
Lock(p) == mutex = NoThread /\ mutex' = p

\* A faulty variant of Unlock: an exit on which the mutex stays locked.
StayLocked == UNCHANGED mutex

Unlock == mutex' = NoThread

\* Faulty variants of Survivors: topics that are gone stay subscribed; the map
\* starts from scratch.
AllTopics(G) == subscriptions
NoTopics(G) == EmptyMap

\* Step 1 of updateSubscriptions: the topics that are gone are erased.
Survivors(G) == [t \in DOMAIN subscriptions \cap TopicsOf(G) |-> subscriptions[t]]

\* updateSubscriptions up to the end of its step 1.  (For a Node that no
\* shared_ptr owns it returns here with nothing changed, a stuttering step.)
BeginUpdate(p, G) ==
    /\ at[p] = "outside"
    /\ Lock(p)
    /\ at' = [at EXCEPT ![p] = "updating"]
    /\ subscriptions' = Survivors(G)
    /\ wanted' = G
    /\ todo' = TopicsOf(G)
    /\ missed' = {}
    /\ UNCHANGED visit

\* A faulty variant of Missing: the existing converters are not looked at.
Convertible(t) == {pair \in wanted \cap Supported : pair[1] = t}

\* The pairs of topic t that the update asks the factory for, with success
\* if all goes well: the advertised ones of a type it supports on the topic that
\* have no converter yet.
Missing(t) ==
    {pair \in wanted \cap Supported : pair[1] = t /\ \A k \in At(t) : Pair(k) # pair}

\* A faulty variant of Kept: a converter that is not needed any more is reset
\* in its place and stays in the vector as a null pointer.
KeptOrNull(t) ==
    {IF Pair(k) \in wanted THEN k ELSE [k EXCEPT !.address = "null"] : k \in At(t)}

\* The converters of topic t whose type is still advertised.
Kept(t) == {k \in At(t) : Pair(k) \in wanted}

\* The converters getConverterForRosTopic makes for the given pairs of topic t.
Created(t, address) ==
    {[topic |-> t, type |-> pair[2], address |-> address[pair]] : pair \in DOMAIN address}

\* One pass of step 2 of updateSubscriptions: the factory throws for the pairs
\* of `failed` and returns a new converter for every other missing pair; the
\* converters whose type is no longer advertised are erased.  A new converter
\* is not placed where one of `held` lies.  The code catches std::runtime_error
\* (node.cpp:156, 188), which is what the factory throws for an unsupported type
\* and rclcpp for a subscription it cannot make (RCLError); an exception of any
\* other kind, such as std::bad_alloc, would go past it and is left out.
UpdateTopic(p, t, failed, held) ==
    /\ at[p] = "updating"
    /\ t \in todo
    /\ failed \subseteq Missing(t)
    /\ \E address \in [Missing(t) \ failed -> Addresses] :
           /\ Created(t, address) \cap (Live \cup held) = {}
           /\ subscriptions' = Put(subscriptions, t, Kept(t) \cup Created(t, address))
    /\ todo' = todo \ {t}
    /\ missed' = missed \cup failed
    /\ UNCHANGED <<mutex, at, wanted, visit>>

EndUpdate(p) ==
    /\ at[p] = "updating"
    /\ todo = {}
    /\ Unlock
    /\ at' = [at EXCEPT ![p] = "outside"]
    /\ UNCHANGED <<subscriptions, wanted, todo, missed, visit>>

-----------------------------------------------------------------------------
\* on_timer takes the mutex and goes through the converters one by one.
BeginOnTimer(p) ==
    /\ at[p] = "outside"
    /\ Lock(p)
    /\ at' = [at EXCEPT ![p] = "visiting"]
    /\ visit' = [visit EXCEPT ![p] = Live]
    /\ UNCHANGED <<subscriptions, wanted, todo, missed>>

\* on_timer asks converter k for its requests.
VisitConverter(p, k) ==
    /\ at[p] = "visiting"
    /\ k \in visit[p]
    /\ visit' = [visit EXCEPT ![p] = @ \ {k}]
    /\ UNCHANGED <<subscriptions, mutex, at, wanted, todo, missed>>

EndOnTimer(p) ==
    /\ at[p] = "visiting"
    /\ visit[p] = {}
    /\ Unlock
    /\ at' = [at EXCEPT ![p] = "outside"]
    /\ UNCHANGED <<subscriptions, wanted, todo, missed, visit>>

\* Every thread may call every operation: the class is its own monitor.
Held == UNION {visit[p] : p \in Threads}

Next == \E p \in Threads :
    \/ \E G \in Graphs : BeginUpdate(p, G)
    \/ \E t \in todo : \E failed \in SUBSET Missing(t) : UpdateTopic(p, t, failed, Held)
    \/ EndUpdate(p)
    \/ BeginOnTimer(p)
    \/ \E k \in visit[p] : VisitConverter(p, k)
    \/ EndOnTimer(p)

Spec == Init /\ [][Next]_vars

-----------------------------------------------------------------------------
\* Properties.

\* Type correctness of the map, the mutex and the progress of each thread.
TypeOK ==
    /\ DOMAIN subscriptions \subseteq Topics
    /\ subscriptions \in [DOMAIN subscriptions -> SUBSET Converters]
    /\ mutex \in Threads \cup {NoThread}
    /\ at \in [Threads -> {"outside", "updating", "visiting"}]
    /\ wanted \in Graphs
    /\ todo \subseteq Topics
    /\ missed \in Graphs
    /\ visit \in [Threads -> SUBSET Converters]

\* Whoever takes the mutex (on_timer, getSubscriptions, getConverter) finds the
\* result of a whole update, never of half of one: the topics of the graph it
\* was called with, each with the types the factory supports, except those whose
\* creation failed in that very update.
WholeUpdate ==
    mutex = NoThread =>
        /\ DOMAIN subscriptions = TopicsOf(wanted)
        /\ {Pair(k) : k \in Live} = (wanted \cap Supported) \ missed

\* A topic never has two converters of one type, which would log every message
\* twice, and a converter is filed under its own topic.
OneConverterPerType ==
    \A t \in DOMAIN subscriptions : \A k, l \in subscriptions[t] :
        k.topic = t /\ (k.type = l.type => k = l)

\* The timer never asks a converter that an update has destroyed.
TimerVisitsLive == \A p \in Threads : visit[p] \subseteq Live

\* A converter is not destroyed, and not replaced by another object, while
\* its topic goes on being advertised with its type: the messages and the
\* requests it has kept would be lost with it.
KeptWhileAdvertised ==
    [][\A k \in Live : Pair(k) \in wanted' => k \in Live']_vars

=============================================================================
