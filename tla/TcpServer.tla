----------------------------- MODULE TcpServer -----------------------------
(***************************************************************************)
(* The client-facing server (src/server/tcp_server.cpp): the accept        *)
(* thread, one detached thread per session, and stop(), called by main     *)
(* before RaftNode::stop.  Requests are not modelled, only whether a       *)
(* session is inside CommandService::execute.                              *)
(***************************************************************************)
EXTENDS Integers, FiniteSets

CONSTANTS
    Session,         \* the connections that clients open, one each
    MaxConnections   \* config_.max_connections

ASSUME ConstantsAssumption ==
    /\ IsFiniteSet(Session)
    /\ Session \cap {"checking", "accepting", "exited"} = {}
    /\ MaxConnections \in Nat \ {0}

VARIABLES
    running,     \* running_
    sockets,     \* sockets_: the registered sessions
    open,        \* sessions whose socket is open
    accepting,   \* accept thread: "checking", "accepting", "exited", or the
                 \* session it has just accepted
    session,     \* where each session thread is
    clients,     \* connected_clients of CommandService
    stopping     \* where stop() is

vars == <<running, sockets, open, accepting, session, clients, stopping>>

\* erased: out of sockets_, sessions_cv_ not notified yet
SessionSteps == {"none", "starting", "checking", "reading", "executing",
                 "closing", "closed", "erased", "notified", "ended", "refused"}

\* checking: evaluating the condition variable's predicate; asleep: in wait
StopSteps == {"none", "flagged", "closed", "joined", "asleep", "returned"}

TypeOK ==
    /\ running \in BOOLEAN
    /\ sockets \subseteq Session
    /\ open \subseteq Session
    /\ accepting \in {"checking", "accepting", "exited"} \cup Session
    /\ session \in [Session -> SessionSteps]
    /\ clients \in 0 .. Cardinality(Session)
    /\ stopping \in StopSteps

-----------------------------------------------------------------------------
(* The accept thread *)

accept_loop ==
    /\ accepting = "checking"
    /\ accepting' = IF running THEN "accepting" ELSE "exited"
    /\ UNCHANGED <<running, sockets, open, session, clients, stopping>>

\* Nobody there (would_block), or an error
acceptFails ==
    /\ accepting = "accepting"
    /\ accepting' = "checking"
    /\ UNCHANGED <<running, sockets, open, session, clients, stopping>>

accept(s) ==
    /\ accepting = "accepting"
    /\ session[s] = "none"
    /\ accepting' = s
    /\ open' = open \cup {s}
    /\ UNCHANGED <<running, sockets, session, clients, stopping>>

\* Mutant: the limit is checked after the fact
AtLimit_late == Cardinality(sockets) > MaxConnections

AtLimit == Cardinality(sockets) >= MaxConnections

\* Under sessions_mutex_: register the socket and start its thread
register ==
    /\ accepting \in Session
    /\ ~AtLimit
    /\ sockets' = sockets \cup {accepting}
    /\ session' = [session EXCEPT ![accepting] = "starting"]
    /\ accepting' = "checking"
    /\ UNCHANGED <<running, open, clients, stopping>>

\* The limit is reached, no_delay fails or the thread cannot be created
refuse ==
    /\ accepting \in Session
    /\ open' = open \ {accepting}
    /\ session' = [session EXCEPT ![accepting] = "refused"]
    /\ accepting' = "checking"
    /\ UNCHANGED <<running, sockets, clients, stopping>>

-----------------------------------------------------------------------------
(* A session thread *)

At(s, from, to) ==
    /\ session[s] = from
    /\ session' = [session EXCEPT ![s] = to]

client_connected(s) ==
    /\ At(s, "starting", "checking")
    /\ clients' = clients + 1
    /\ UNCHANGED <<running, sockets, open, accepting, stopping>>

\* Mutant: the loop ends only when reading fails
session_loop_untilError(s) ==
    /\ At(s, "checking", "reading")
    /\ UNCHANGED <<running, sockets, open, accepting, clients, stopping>>

session_loop(s) ==
    /\ At(s, "checking", IF running THEN "reading" ELSE "closing")
    /\ UNCHANGED <<running, sockets, open, accepting, clients, stopping>>

\* The client sends a request: read_some returns it
receive(s) ==
    /\ s \in open
    /\ At(s, "reading", "executing")
    /\ UNCHANGED <<running, sockets, open, accepting, clients, stopping>>

\* stop() or the client has closed the connection: read_some returns an error
disconnected(s) ==
    /\ s \notin open
    /\ At(s, "reading", "closing")
    /\ UNCHANGED <<running, sockets, open, accepting, clients, stopping>>

\* All requests of one read: each execute returns and its response is written;
\* or a write fails, or execute throws
execute(s) ==
    /\ \/ s \in open /\ At(s, "executing", "checking")
       \/ At(s, "executing", "closing")
    /\ UNCHANGED <<running, sockets, open, accepting, clients, stopping>>

close_socket(s) ==
    /\ At(s, "closing", "closed")
    /\ open' = open \ {s}
    /\ UNCHANGED <<running, sockets, accepting, clients, stopping>>

erase(s) ==
    /\ At(s, "closed", "erased")
    /\ sockets' = sockets \ {s}
    /\ UNCHANGED <<running, open, accepting, clients, stopping>>

\* Without the mutex; wakes stop() if it sleeps
notify_all(s) ==
    /\ At(s, "erased", "notified")
    /\ stopping' = IF stopping = "asleep" THEN "joined" ELSE stopping
    /\ UNCHANGED <<running, sockets, open, accepting, clients>>

client_disconnected(s) ==
    /\ At(s, "notified", "ended")
    /\ clients' = clients - 1
    /\ UNCHANGED <<running, sockets, open, accepting, stopping>>

-----------------------------------------------------------------------------
(* stop *)

stop ==
    /\ stopping = "none"
    /\ stopping' = "flagged"
    /\ running' = FALSE
    /\ UNCHANGED <<sockets, open, accepting, session, clients>>

stopCloses ==
    /\ stopping = "flagged"
    /\ stopping' = "closed"
    /\ open' = open \ sockets
    /\ UNCHANGED <<running, sockets, accepting, session, clients>>

stopJoins ==
    /\ stopping = "closed"
    /\ accepting = "exited"
    /\ stopping' = "joined"
    /\ UNCHANGED <<running, sockets, open, accepting, session, clients>>

\* Mutant: sessions are not waited for
stopWaits_not ==
    /\ stopping = "joined"
    /\ stopping' = "returned"
    /\ UNCHANGED <<running, sockets, open, accepting, session, clients>>

\* sessions_cv_.wait, one evaluation of the predicate
stopWaits ==
    /\ stopping = "joined"
    /\ stopping' = IF sockets = {} THEN "returned" ELSE "asleep"
    /\ UNCHANGED <<running, sockets, open, accepting, session, clients>>

\* A client goes away
ClientCloses(s) ==
    /\ session[s] \in {"reading", "executing"}
    /\ s \in open
    /\ open' = open \ {s}
    /\ UNCHANGED <<running, sockets, accepting, session, clients, stopping>>

-----------------------------------------------------------------------------

\* After start()
Init ==
    /\ running = TRUE
    /\ sockets = {}
    /\ open = {}
    /\ accepting = "checking"
    /\ session = [s \in Session |-> "none"]
    /\ clients = 0
    /\ stopping = "none"

Accepting ==
    \/ accept_loop \/ acceptFails \/ \E s \in Session : accept(s)
    \/ register \/ refuse

SessionRuns(s) ==
    \/ client_connected(s) \/ session_loop(s) \/ disconnected(s) \/ execute(s)
    \/ close_socket(s) \/ erase(s) \/ notify_all(s) \/ client_disconnected(s)

Stopping == stopCloses \/ stopJoins \/ stopWaits

Next ==
    \/ Accepting
    \/ \E s \in Session :
          SessionRuns(s) \/ receive(s) \/ ClientCloses(s)
    \/ stop \/ Stopping

Spec == Init /\ [][Next]_vars

-----------------------------------------------------------------------------
(* Properties *)

\* The accept thread never registers a session beyond max_connections
WithinLimit == Cardinality(sockets) <= MaxConnections

=============================================================================
