--------------------------- MODULE ServerProcess ---------------------------
(***************************************************************************)
(* The server process (src/main.cpp): the configuration is loaded, then    *)
(* RaftNode and TcpServer are started, main waits for a signal or a fatal  *)
(* storage error, and stops both in the opposite order.  Composes          *)
(* ConfigFile and TcpServer with the life of RaftNode.                     *)
(***************************************************************************)
EXTENDS ConfigFile, TcpServer

VARIABLES
    main,            \* where main() is
    stop_requested,  \* stop_requested, set by the signal handler
    fatal_error,     \* fatal_error_ of FileStateManager # 0
    raft,            \* RaftNode: "off", "running", or stopping: "down" once its threads
                     \* and NuRaft are stopped, "flushed" once the log is
    code             \* what main is to return

processVars == <<main, stop_requested, fatal_error, raft, code>>
serverVars == vars
allVars == <<loadVars, serverVars, processVars>>

MainSteps == {"loading", "loaded", "raft.start", "server.start", "polling", "server.stop",
              "raft.stop", "unwinding", "exited"}
Codes == {"none", "0", "1", "3", "abort"}

ProcessTypeOK ==
    /\ TypeOK
    /\ main \in MainSteps
    /\ stop_requested \in BOOLEAN
    /\ fatal_error \in BOOLEAN
    /\ raft \in {"off", "running", "down", "flushed"}
    /\ code \in Codes

ProcessInit ==
    /\ LoadInit
    /\ running = FALSE
    /\ sockets = {}
    /\ open = {}
    /\ accepting = "exited"
    /\ session = [s \in Session |-> "none"]
    /\ clients = 0
    /\ stopping = "none"
    /\ main = "loading"
    /\ stop_requested = FALSE
    /\ fatal_error = FALSE
    /\ raft = "off"
    /\ code = "none"

-----------------------------------------------------------------------------
(* main *)

Load ==
    /\ main = "loading"
    /\ load
    /\ UNCHANGED <<serverVars, processVars>>

Go(from, to) == main = from /\ main' = to

\* The configuration is complete; its lines are done with. Signal handlers are set.
loaded ==
    /\ loading = "accepted"
    /\ Go("loading", "loaded")
    /\ UNCHANGED <<loadVars, serverVars, stop_requested, fatal_error, raft, code>>

\* An exception leaves main with 1: the destructors run, of TcpServer first
Throw(from) ==
    /\ Go(from, "unwinding")
    /\ code' = "1"

loadThrows ==
    /\ loading = "thrown"
    /\ Throw("loading")
    /\ UNCHANGED <<loadVars, serverVars, stop_requested, fatal_error, raft>>

\* The constructors; the logger may not be able to open its file. What was read is
\* not looked at any more here, and forgotten.
construct ==
    /\ \/ Go("loaded", "raft.start") /\ UNCHANGED code
       \/ Throw("loaded")
    /\ lines' = <<>>
    /\ at' = 0
    /\ config' = ConfigDefault
    /\ nodes' = <<>>
    /\ section' = ""
    /\ cluster_nodes' = FALSE
    /\ current' = FALSE
    /\ loading' = "done"
    /\ UNCHANGED <<serverVars, stop_requested, fatal_error, raft>>

\* RaftNode::start succeeds, or fails with everything reset (or never created)
start_raft ==
    /\ \/ Go("raft.start", "server.start") /\ raft' = "running" /\ UNCHANGED code
       \/ Throw("raft.start") /\ UNCHANGED raft
       \* init or start_workers throws: launcher_ is set, and the destructor will stop the node
       \/ Throw("raft.start") /\ raft' = "running"
    /\ UNCHANGED <<loadVars, serverVars, stop_requested, fatal_error>>

\* TcpServer::start: the address may be in use
start_server ==
    /\ Go("server.start", "polling")
    /\ running' = TRUE
    /\ accepting' = "checking"
    /\ UNCHANGED <<sockets, open, session, clients, stopping>>
    /\ UNCHANGED <<loadVars, stop_requested, fatal_error, raft, code>>

startServerThrows ==
    /\ Throw("server.start")
    /\ UNCHANGED <<loadVars, serverVars, stop_requested, fatal_error, raft>>

\* The loop ends; fatal_storage_error is read once more
poll ==
    /\ stop_requested \/ fatal_error
    /\ Go("polling", "server.stop")
    /\ code' = IF fatal_error THEN "3" ELSE "0"
    /\ UNCHANGED <<loadVars, serverVars, stop_requested, fatal_error, raft>>

\* TcpServer::stop
stop_server ==
    /\ stop
    /\ main = "server.stop"
    /\ UNCHANGED <<loadVars, processVars>>

server_stopped ==
    /\ stopping = "returned"
    /\ Go("server.stop", "raft.stop")
    /\ UNCHANGED <<loadVars, serverVars, stop_requested, fatal_error, raft, code>>

-----------------------------------------------------------------------------
(* RaftNode::stop, called by main and again by the destructor *)

InStop == main \in {"raft.stop", "unwinding"}

stop_raft ==
    /\ InStop
    /\ raft = "running"
    /\ raft' = "down"
    /\ UNCHANGED <<loadVars, serverVars, main, stop_requested, fatal_error, code>>

flush ==
    /\ InStop
    /\ raft = "down"
    /\ raft' = "flushed"
    /\ UNCHANGED <<loadVars, serverVars, main, stop_requested, fatal_error, code>>

\* checkpoint, then everything is reset
checkpoint ==
    /\ InStop
    /\ raft = "flushed"
    /\ raft' = "off"
    /\ UNCHANGED <<loadVars, serverVars, main, stop_requested, fatal_error, code>>

\* flush or checkpoint throws. From main, the destructor calls stop again, which finds
\* launcher_ still set; from the destructor, the process is terminated.
stopRaftThrows ==
    /\ raft \in {"down", "flushed"}
    /\ raft' = "down"
    /\ \/ Throw("raft.stop")
       \/ Go("unwinding", "exited") /\ code' = "abort"
    /\ UNCHANGED <<loadVars, serverVars, stop_requested, fatal_error>>

\* stop returns, at once if launcher_ is null, and main returns its code
return ==
    /\ raft = "off"
    /\ InStop
    /\ main' = "exited"
    /\ UNCHANGED <<loadVars, serverVars, stop_requested, fatal_error, raft, code>>

-----------------------------------------------------------------------------

\* handle_signal
handle_signal ==
    /\ main \notin {"loading", "loaded", "exited"}
    /\ stop_requested' = TRUE
    /\ UNCHANGED <<loadVars, serverVars, main, fatal_error, raft, code>>

\* FileStateManager::system_exit, called by NuRaft when it cannot write
system_exit ==
    /\ raft = "running"
    /\ main # "exited"
    /\ fatal_error' = TRUE
    /\ UNCHANGED <<loadVars, serverVars, main, stop_requested, raft, code>>

Main ==
    \/ Load \/ loaded \/ loadThrows \/ construct \/ start_raft
    \/ start_server \/ startServerThrows \/ poll \/ stop_server \/ server_stopped
    \/ stop_raft \/ flush \/ checkpoint \/ stopRaftThrows \/ return

\* The server's threads, while there is a process
Threads(A) ==
    /\ main # "exited"
    /\ A
    /\ UNCHANGED <<loadVars, processVars>>

ServerStep ==
    \/ Accepting
    \/ \E s \in Session : SessionRuns(s) \/ receive(s) \/ ClientCloses(s)
    \/ Stopping

ProcessNext ==
    \/ Main
    \/ Threads(ServerStep)
    \/ handle_signal
    \/ system_exit

\* main and the server's threads run; shutdown, flush and execute return. Nothing is
\* assumed of clients, signals and storage.
ProcessSpec ==
    /\ ProcessInit
    /\ [][ProcessNext]_allVars
    /\ WF_allVars(Main)
    /\ WF_allVars(Threads(Accepting))
    /\ \A s \in Session : WF_allVars(Threads(SessionRuns(s)))
    /\ WF_allVars(Threads(Stopping))

-----------------------------------------------------------------------------
(* Properties *)

\* From the moment RaftNode is being stopped, or is gone, no session is executing a
\* request, none will, and none can be accepted any more: not even one accepted while
\* TcpServer::stop was closing the sockets, and also where main leaves by an exception
\* (main, TcpServer::stop, RaftNode::stop).
NodeOutlivesRequests ==
    raft # "running" =>
        /\ accepting = "exited"
        /\ \A s \in Session :
               session[s] \in {"none", "refused", "erased", "notified", "ended"}

\* A signal or a fatal storage error ends the process, whatever the sessions are doing,
\* whatever clients do, and also where storage fails again on the way (main,
\* TcpServer::stop, RaftNode::stop).
ProcessEnds == stop_requested \/ fatal_error ~> main = "exited"

=============================================================================
