----------------------------- MODULE NodeRunner -----------------------------
(***************************************************************************)
(* Class rerun_viz::NodeRunner: the graph update thread, which polls the ROS*)
(* graph and has the Node follow it until it is told to stop, and the       *)
(* destructor that stops and joins it.  With them, as the thread sees it,   *)
(* the part of rclcpp it uses: the context (rclcpp::ok), the graph, and the *)
(* graph event, which is set by a change that comes after it was handed out.*)
(***************************************************************************)
CONSTANTS RosGraphs,    \* the graphs there may be
          EmptyGraph    \* the graph as the program starts

VARIABLES ok,       \* rclcpp::ok(): the context is not shut down
          stop,     \* stop_graph_update_thread_
          pc,       \* where the graph update thread is
          watched,  \* rclcpp's graph listener watches the graph for the node
          event,    \* the event of this round has been set
          graph,    \* the topics and types that are advertised
          polled    \* the graph the thread has read last

runnerVars == <<ok, stop, pc, watched, event, graph, polled>>

Init == /\ ok = TRUE
        /\ stop = FALSE
        /\ pc = "loop"
        /\ watched = FALSE
        /\ event = FALSE
        /\ graph = EmptyGraph
        /\ polled = EmptyGraph

\* canGraphUpdateThreadRun
CanRun == ok /\ ~stop

\* The condition of the while loop.
LoopCheck ==
    /\ pc = "loop"
    /\ pc' = IF CanRun THEN "register" ELSE "done"
    /\ UNCHANGED <<ok, stop, watched, event, graph, polled>>

\* get_graph_event; the first call has the graph listener started.
Register ==
    /\ pc = "register"
    /\ ok \/ watched
    /\ watched' = TRUE
    /\ event' = FALSE
    /\ pc' = "wait"
    /\ UNCHANGED <<ok, stop, graph, polled>>

\* That first call throws once the context is shut down: std::terminate.
RegisterThrows ==
    /\ pc = "register"
    /\ ~ok /\ ~watched
    /\ pc' = "aborted"
    /\ UNCHANGED <<ok, stop, watched, event, graph, polled>>

\* wait_for_graph_change returns because the event is set or the context is
\* shut down.
WaitNotified ==
    /\ pc = "wait"
    /\ event \/ ~ok
    /\ pc' = "check"
    /\ UNCHANGED <<ok, stop, watched, event, graph, polled>>

\* A faulty variant of WaitTimeout: a wait without a limit.
WaitForever == FALSE /\ UNCHANGED runnerVars

\* wait_for_graph_change returns because one second has passed.
WaitTimeout ==
    /\ pc = "wait"
    /\ pc' = "check"
    /\ UNCHANGED <<ok, stop, watched, event, graph, polled>>

\* The second call of canGraphUpdateThreadRun, after the wait.
RunCheck ==
    /\ pc = "check"
    /\ pc' = IF CanRun THEN "query" ELSE "done"
    /\ UNCHANGED <<ok, stop, watched, event, graph, polled>>

\* get_topic_names_and_types reads the graph.
Query ==
    /\ pc = "query"
    /\ ok
    /\ polled' = graph
    /\ pc' = "update"
    /\ UNCHANGED <<ok, stop, watched, event, graph>>

\* get_topic_names_and_types throws once the context is shut down.  Nothing in
\* the thread catches it: std::terminate.
QueryThrows ==
    /\ pc = "query"
    /\ ~ok
    /\ pc' = "aborted"
    /\ UNCHANGED <<ok, stop, watched, event, graph, polled>>

\* updateSubscriptions has returned.
UpdateDone ==
    /\ pc = "update"
    /\ pc' = "loop"
    /\ UNCHANGED <<ok, stop, watched, event, graph, polled>>

Step == \/ LoopCheck \/ Register \/ RegisterThrows \/ WaitNotified \/ WaitTimeout
        \/ RunCheck \/ Query \/ QueryThrows

\* A publisher or a subscription of some node appears or goes.  More than rclcpp
\* may show: it counts the Node's own subscriptions too, so that a pair the Node
\* is subscribed to leaves the graph only where the two names differ (remapping),
\* while the subscription is not seen yet, or once it is gone.
GraphChange(G) ==
    /\ G # graph
    /\ graph' = G
    /\ event' = TRUE
    /\ UNCHANGED <<ok, stop, pc, watched, polled>>

\* The signal handler of rclcpp shuts the context down.
Shutdown ==
    /\ ok
    /\ ok' = FALSE
    /\ UNCHANGED <<stop, pc, watched, event, graph, polled>>

\* The first half of stopAndJoinGraphUpdateThread.
Stop ==
    /\ stop' = TRUE
    /\ UNCHANGED <<ok, pc, watched, event, graph, polled>>

\* A faulty variant of Joinable: the thread is left to itself (detach).
LeftToItself == TRUE

\* The second half, join, waits until the thread function has returned.
Joinable == pc = "done"

\* Type correctness of the context, the flag and the thread.

TypeOK ==
    /\ ok \in BOOLEAN
    /\ stop \in BOOLEAN
    /\ pc \in {"loop", "register", "wait", "check", "query", "update", "done", "aborted"}
    /\ watched \in BOOLEAN
    /\ event \in BOOLEAN
    /\ graph \in RosGraphs
    /\ polled \in RosGraphs

=============================================================================
