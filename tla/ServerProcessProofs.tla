------------------------ MODULE ServerProcessProofs ------------------------
(***************************************************************************)
(* Proofs about ServerProcess: for any number of sessions, any limit and   *)
(* any configuration file.                                                 *)
(***************************************************************************)
EXTENDS ServerProcess, FiniteSetTheorems, TLAPS

-----------------------------------------------------------------------------
(* The inductive invariant of the server and its process *)

\* From the registration of a session to the point where its thread erases it
Registered == {"starting", "checking", "reading", "executing", "closing", "closed"}

\* No session can be accepted any more, and none is left
Quiet == accepting = "exited" /\ sockets = {}

\* sockets_ holds the sessions whose threads may still execute requests, and
\* stop() gets past its waits only when the accept thread and they are gone
ServerInv ==
    /\ accepting \in {"checking", "accepting", "exited"} \cup Session
    /\ session \in [Session -> SessionSteps]
    /\ sockets = {s \in Session : session[s] \in Registered}
    /\ accepting \in Session => session[accepting] = "none"
    /\ stopping # "none" => ~running
    /\ stopping \in {"joined", "asleep", "returned"} => accepting = "exited"
    /\ stopping = "returned" => sockets = {}
    /\ WithinLimit

\* The server is up only while main polls or stops it, and main lets go of the
\* node only after that
MainInv ==
    /\ main \in MainSteps
    /\ main \notin {"polling", "server.stop"} => Quiet
    /\ main \in {"loading", "loaded", "raft.start", "server.start", "polling"} =>
           stopping = "none"
    /\ main \in {"server.start", "polling", "server.stop"} => raft = "running"

ProcessInv == ServerInv /\ MainInv

-----------------------------------------------------------------------------
(* The server's threads *)

\* What a thread of the server may do to what main relies on
Settles ==
    /\ Quiet => Quiet'
    /\ stopping = "none" => stopping' = "none"

ThreadKeeps == ServerInv' /\ Settles

\* A session thread goes on, without being registered or erased
LEMMA SessionMoves ==
    ASSUME ServerInv, NEW s \in Session, NEW from, NEW to, At(s, from, to),
           from \in Registered \/ from \in {"erased", "notified"},
           to \in SessionSteps, from \in Registered <=> to \in Registered,
           UNCHANGED <<running, sockets, accepting>>,
           \/ stopping' = stopping
           \/ stopping' = IF stopping = "asleep" THEN "joined" ELSE stopping
    PROVE  ThreadKeeps
<1>1. session \in [Session -> SessionSteps] /\ session[s] = from
      /\ session' = [session EXCEPT ![s] = to]
  BY DEF ServerInv, At
<1>2. /\ session' \in [Session -> SessionSteps]
      /\ session'[s] = to
      /\ \A q \in Session : q # s => session'[q] = session[q]
  BY <1>1
<1>3. sockets' = {q \in Session : session'[q] \in Registered}
  <2>1. \A q \in Session : session'[q] \in Registered <=> session[q] \in Registered
    BY Zenon, <1>1, <1>2
  <2> QED BY Zenon, <2>1 DEF ServerInv
<1>4. accepting' \in Session => session'[accepting'] = "none"
  <2>1. from # "none"
    BY DEF Registered
  <2> QED BY Zenon, <1>1, <1>2, <2>1 DEF ServerInv
<1>5. /\ stopping' # "none" => stopping # "none"
      /\ stopping' \in {"joined", "asleep", "returned"} =>
             stopping \in {"joined", "asleep", "returned"}
      /\ stopping' = "returned" => stopping = "returned"
      /\ stopping = "none" => stopping' = "none"
  OBVIOUS
<1>6. WithinLimit'
  BY Zenon DEF ServerInv, WithinLimit
<1>7. ServerInv'
  BY Zenon, <1>2, <1>3, <1>4, <1>5, <1>6 DEF ServerInv
<1> QED BY Zenon, <1>5, <1>7 DEF ThreadKeeps, Settles, Quiet

LEMMA EraseKeeps ==
    ASSUME ServerInv, NEW s \in Session, erase(s)
    PROVE  ThreadKeeps
<1>1. /\ session \in [Session -> SessionSteps] /\ session[s] = "closed"
      /\ session' = [session EXCEPT ![s] = "erased"]
      /\ sockets' = sockets \ {s}
      /\ UNCHANGED <<running, accepting, stopping>>
  BY DEF ServerInv, erase, At
<1>2. /\ session' \in [Session -> SessionSteps]
      /\ session'[s] = "erased"
      /\ \A q \in Session : q # s => session'[q] = session[q]
  BY <1>1 DEF SessionSteps
<1>3. sockets' = {q \in Session : session'[q] \in Registered}
  BY <1>1, <1>2 DEF ServerInv, Registered
<1>4. accepting' \in Session => session'[accepting'] = "none"
  BY <1>1, <1>2 DEF ServerInv
<1>5. WithinLimit'
  <2>1. IsFiniteSet(sockets)
    BY ConstantsAssumption, FS_Subset DEF ServerInv
  <2>2. Cardinality(sockets') <= Cardinality(sockets)
    BY <1>1, <2>1, FS_Subset
  <2>3. IsFiniteSet(sockets')
    BY <1>1, <2>1, FS_Subset
  <2>4. Cardinality(sockets) \in Nat /\ Cardinality(sockets') \in Nat
    BY <2>1, <2>3, FS_CardinalityType
  <2>5. Cardinality(sockets) <= MaxConnections /\ MaxConnections \in Nat
    BY ConstantsAssumption DEF ServerInv, WithinLimit
  <2>6. Cardinality(sockets') <= MaxConnections
    BY <2>2, <2>4, <2>5
  <2> QED BY Zenon, <2>6 DEF WithinLimit
<1>6. sockets = {} => sockets' = {}
  BY <1>1
<1>7. ServerInv'
  BY Zenon, <1>1, <1>2, <1>3, <1>4, <1>5, <1>6 DEF ServerInv
<1> QED BY Zenon, <1>1, <1>6, <1>7 DEF ThreadKeeps, Settles, Quiet

LEMMA RegisterKeeps ==
    ASSUME ServerInv, register
    PROVE  ThreadKeeps
<1>1. PICK s \in Session : s = accepting
  BY DEF register
<1>2. /\ session \in [Session -> SessionSteps] /\ session[s] = "none"
      /\ session' = [session EXCEPT ![s] = "starting"]
      /\ sockets' = sockets \cup {s}
      /\ accepting' = "checking"
      /\ UNCHANGED <<running, stopping>>
      /\ ~AtLimit
  BY <1>1 DEF ServerInv, register
<1>3. /\ session' \in [Session -> SessionSteps]
      /\ session'[s] = "starting"
      /\ \A q \in Session : q # s => session'[q] = session[q]
  BY <1>2 DEF SessionSteps
<1>4. sockets' = {q \in Session : session'[q] \in Registered}
  BY <1>2, <1>3 DEF ServerInv, Registered
<1>5. accepting' \notin Session /\ accepting # "exited"
  BY <1>1, <1>2, ConstantsAssumption
<1>6. stopping \notin {"joined", "asleep", "returned"}
  BY <1>5 DEF ServerInv
<1>7. WithinLimit'
  <2>1. IsFiniteSet(sockets)
    BY ConstantsAssumption, FS_Subset DEF ServerInv
  <2>2. s \notin sockets
    BY <1>2 DEF ServerInv, Registered
  <2>3. Cardinality(sockets') = Cardinality(sockets) + 1
    BY Zenon, <1>2, <2>1, <2>2, FS_AddElement
  <2>4. Cardinality(sockets) \in Nat
    BY <2>1, FS_CardinalityType
  <2>5. ~(Cardinality(sockets) >= MaxConnections) /\ MaxConnections \in Nat
    BY <1>2, ConstantsAssumption DEF AtLimit
  <2>6. Cardinality(sockets') <= MaxConnections
    BY <2>3, <2>4, <2>5
  <2> QED BY Zenon, <2>6 DEF WithinLimit
<1>8. ServerInv'
  <2>1. accepting' \in {"checking", "accepting", "exited"} \cup Session
    BY <1>2
  <2>2. stopping # "returned"
    BY <1>6
  <2> QED BY Zenon, <1>2, <1>3, <1>4, <1>5, <1>6, <1>7, <2>1, <2>2 DEF ServerInv
<1> QED BY Zenon, <1>2, <1>5, <1>8 DEF ThreadKeeps, Settles, Quiet

LEMMA RefuseKeeps ==
    ASSUME ServerInv, refuse
    PROVE  ThreadKeeps
<1>1. PICK s \in Session : s = accepting
  BY DEF refuse
<1>2. /\ session \in [Session -> SessionSteps] /\ session[s] = "none"
      /\ session' = [session EXCEPT ![s] = "refused"]
      /\ accepting' = "checking"
      /\ UNCHANGED <<running, sockets, stopping>>
  BY <1>1 DEF ServerInv, refuse
<1>3. /\ session' \in [Session -> SessionSteps]
      /\ session'[s] = "refused"
      /\ \A q \in Session : q # s => session'[q] = session[q]
  BY <1>2 DEF SessionSteps
<1>4. sockets' = {q \in Session : session'[q] \in Registered}
  BY <1>2, <1>3 DEF ServerInv, Registered
<1>5. accepting' \notin Session /\ accepting # "exited"
  BY <1>1, <1>2, ConstantsAssumption
<1>6. stopping \notin {"joined", "asleep", "returned"}
  BY <1>5 DEF ServerInv
<1>7. WithinLimit'
  BY Zenon, <1>2 DEF ServerInv, WithinLimit
<1>8. ServerInv'
  <2>1. accepting' \in {"checking", "accepting", "exited"} \cup Session
    BY <1>2
  <2> QED BY Zenon, <1>2, <1>3, <1>4, <1>5, <1>6, <1>7, <2>1 DEF ServerInv
<1> QED BY Zenon, <1>2, <1>5, <1>8 DEF ThreadKeeps, Settles, Quiet

\* The accept thread and stop(), where they leave the sessions alone
LEMMA WaitKeeps ==
    ASSUME ServerInv, UNCHANGED <<running, sockets, session>>,
           accepting' \in {"checking", "accepting", "exited"} \cup Session,
           accepting' \in Session => session[accepting'] = "none",
           stopping' # "none" => ~running,
           stopping' \in {"joined", "asleep", "returned"} => accepting' = "exited",
           stopping' = "returned" => sockets = {},
           accepting = "exited" => accepting' = "exited",
           stopping = "none" => stopping' = "none"
    PROVE  ThreadKeeps
<1>1. WithinLimit'
  BY Zenon DEF ServerInv, WithinLimit
<1>2. sockets' = {q \in Session : session'[q] \in Registered}
  BY Zenon DEF ServerInv
<1>3. ServerInv'
  BY Zenon, <1>1, <1>2 DEF ServerInv
<1> QED BY Zenon, <1>3 DEF ThreadKeeps, Settles, Quiet

LEMMA AcceptKeeps ==
    ASSUME ServerInv, Accepting
    PROVE  ThreadKeeps
<1> USE DEF ServerInv
<1>1. CASE accept_loop
  <2>1. /\ accepting = "checking" /\ accepting' \in {"accepting", "exited"}
        /\ UNCHANGED <<running, sockets, session, stopping>>
    BY <1>1 DEF accept_loop
  <2>2. accepting' \notin Session
    BY <2>1, ConstantsAssumption
  <2> QED BY <2>1, <2>2, WaitKeeps
<1>2. CASE acceptFails
  <2>1. /\ accepting = "accepting" /\ accepting' = "checking"
        /\ UNCHANGED <<running, sockets, session, stopping>>
    BY <1>2 DEF acceptFails
  <2>2. accepting' \notin Session
    BY <2>1, ConstantsAssumption
  <2> QED BY <2>1, <2>2, WaitKeeps
<1>3. ASSUME NEW s \in Session, accept(s)
      PROVE  ThreadKeeps
  <2>1. /\ accepting = "accepting" /\ accepting' = s /\ session[s] = "none"
        /\ UNCHANGED <<running, sockets, session, stopping>>
    BY <1>3 DEF accept
  <2> QED BY <2>1, WaitKeeps
<1>4. CASE register
  BY <1>4, RegisterKeeps
<1>5. CASE refuse
  BY <1>5, RefuseKeeps
<1> QED BY <1>1, <1>2, <1>3, <1>4, <1>5 DEF Accepting

LEMMA SessionKeeps ==
    ASSUME ServerInv, NEW s \in Session,
           SessionRuns(s) \/ receive(s) \/ ClientCloses(s)
    PROVE  ThreadKeeps
<1> USE DEF Registered, SessionSteps
<1>1. CASE client_connected(s)
  <2>1. At(s, "starting", "checking") /\ UNCHANGED <<running, sockets, accepting, stopping>>
    BY <1>1 DEF client_connected
  <2> QED BY <2>1, SessionMoves
<1>2. CASE session_loop(s)
  <2>1. /\ At(s, "checking", "reading") \/ At(s, "checking", "closing")
        /\ UNCHANGED <<running, sockets, accepting, stopping>>
    BY <1>2 DEF session_loop
  <2> QED BY <2>1, SessionMoves
<1>3. CASE disconnected(s)
  <2>1. At(s, "reading", "closing") /\ UNCHANGED <<running, sockets, accepting, stopping>>
    BY <1>3 DEF disconnected
  <2> QED BY <2>1, SessionMoves
<1>4. CASE execute(s)
  <2>1. /\ At(s, "executing", "checking") \/ At(s, "executing", "closing")
        /\ UNCHANGED <<running, sockets, accepting, stopping>>
    BY <1>4 DEF execute
  <2> QED BY <2>1, SessionMoves
<1>5. CASE close_socket(s)
  <2>1. At(s, "closing", "closed") /\ UNCHANGED <<running, sockets, accepting, stopping>>
    BY <1>5 DEF close_socket
  <2> QED BY <2>1, SessionMoves
<1>6. CASE erase(s)
  BY <1>6, EraseKeeps
<1>7. CASE notify_all(s)
  <2>1. /\ At(s, "erased", "notified")
        /\ stopping' = IF stopping = "asleep" THEN "joined" ELSE stopping
        /\ UNCHANGED <<running, sockets, accepting>>
    BY <1>7 DEF notify_all
  <2> QED BY <2>1, SessionMoves
<1>8. CASE client_disconnected(s)
  <2>1. At(s, "notified", "ended") /\ UNCHANGED <<running, sockets, accepting, stopping>>
    BY <1>8 DEF client_disconnected
  <2> QED BY <2>1, SessionMoves
<1>9. CASE receive(s)
  <2>1. At(s, "reading", "executing") /\ UNCHANGED <<running, sockets, accepting, stopping>>
    BY <1>9 DEF receive
  <2> QED BY <2>1, SessionMoves
<1>10. CASE ClientCloses(s)
  <2>1. UNCHANGED <<running, sockets, session, accepting, stopping>>
    BY <1>10 DEF ClientCloses
  <2> QED BY <2>1, WaitKeeps DEF ServerInv
<1> QED BY <1>1, <1>2, <1>3, <1>4, <1>5, <1>6, <1>7, <1>8, <1>9, <1>10 DEF SessionRuns

LEMMA StopKeeps ==
    ASSUME ServerInv, Stopping
    PROVE  ThreadKeeps
<1> USE DEF ServerInv
<1>1. CASE stopCloses
  <2>1. /\ stopping = "flagged" /\ stopping' = "closed"
        /\ UNCHANGED <<running, sockets, session, accepting>>
    BY <1>1 DEF stopCloses
  <2> QED BY <2>1, WaitKeeps
<1>2. CASE stopJoins
  <2>1. /\ stopping = "closed" /\ stopping' = "joined" /\ accepting = "exited"
        /\ UNCHANGED <<running, sockets, session, accepting>>
    BY <1>2 DEF stopJoins
  <2> QED BY <2>1, WaitKeeps
<1>3. CASE stopWaits
  <2>1. /\ stopping = "joined" /\ stopping' \in {"returned", "asleep"}
        /\ stopping' = "returned" => sockets = {}
        /\ UNCHANGED <<running, sockets, session, accepting>>
    BY <1>3 DEF stopWaits
  <2> QED BY <2>1, WaitKeeps
<1> QED BY <1>1, <1>2, <1>3 DEF Stopping

LEMMA ThreadsKeep ==
    ASSUME ServerInv, ServerStep
    PROVE  ThreadKeeps
BY AcceptKeeps, SessionKeeps, StopKeeps DEF ServerStep

-----------------------------------------------------------------------------
(* main *)

LEMMA ServerStutter ==
    ASSUME ServerInv, UNCHANGED serverVars
    PROVE  ServerInv' /\ (Quiet => Quiet') /\ stopping' = stopping
<1>1. UNCHANGED <<running, sockets, accepting, session, stopping>>
  BY DEF serverVars, vars
<1>2. WithinLimit'
  BY Zenon, <1>1 DEF ServerInv, WithinLimit
<1>3. ServerInv'
  BY Zenon, <1>1, <1>2 DEF ServerInv
<1> QED BY Zenon, <1>1, <1>3 DEF Quiet

\* main goes from one of its steps to another while the server stays as it is
LEMMA MainMoves ==
    ASSUME ProcessInv, UNCHANGED serverVars, main' \in MainSteps,
           main' \in {"polling", "server.stop"}
               \/ main \notin {"polling", "server.stop"}
               \/ stopping = "returned",
           main' \in {"loading", "loaded", "raft.start", "server.start", "polling"} =>
               main \in {"loading", "loaded", "raft.start", "server.start", "polling"},
           main' \in {"server.start", "polling", "server.stop"} => raft' = "running"
    PROVE  ProcessInv'
<1>1. ServerInv' /\ (Quiet => Quiet') /\ stopping' = stopping
  BY ServerStutter DEF ProcessInv
<1>2. main' \notin {"polling", "server.stop"} => Quiet
  BY DEF ProcessInv, MainInv, ServerInv, Quiet
<1>3. MainInv'
  BY Zenon, <1>1, <1>2 DEF ProcessInv, MainInv
<1> QED BY <1>1, <1>3 DEF ProcessInv

LEMMA ServerStarts ==
    ASSUME ProcessInv, start_server
    PROVE  ProcessInv'
<1>1. /\ main = "server.start" /\ main' = "polling"
      /\ running' = TRUE /\ accepting' = "checking" /\ raft' = raft
      /\ UNCHANGED <<sockets, session, stopping>>
  BY DEF start_server, Go
<1>2. stopping = "none" /\ raft = "running"
  BY <1>1 DEF ProcessInv, MainInv
<1>3. accepting' \notin Session
      /\ accepting' \in {"checking", "accepting", "exited"} \cup Session
  BY <1>1, ConstantsAssumption
<1>4. WithinLimit'
  BY Zenon, <1>1 DEF ProcessInv, ServerInv, WithinLimit
<1>5. ServerInv'
  <2>1. stopping' = "none" /\ stopping' \notin {"joined", "asleep", "returned"}
    BY <1>1, <1>2
  <2>2. stopping' # "returned"
    BY <2>1
  <2> QED BY Zenon, <1>1, <1>3, <1>4, <2>1, <2>2 DEF ProcessInv, ServerInv
<1>6. MainInv'
  BY <1>1, <1>2 DEF MainInv, MainSteps
<1> QED BY <1>5, <1>6 DEF ProcessInv

LEMMA ServerStops ==
    ASSUME ProcessInv, stop_server
    PROVE  ProcessInv'
<1>1. /\ main = "server.stop" /\ main' = main /\ raft' = raft
      /\ stopping' = "flagged" /\ running' = FALSE
      /\ UNCHANGED <<sockets, accepting, session>>
  BY DEF stop_server, stop, processVars
<1>2. WithinLimit'
  BY Zenon, <1>1 DEF ProcessInv, ServerInv, WithinLimit
<1>3. ServerInv'
  <2>1. stopping' \notin {"joined", "asleep", "returned"} /\ stopping' # "returned"
    BY <1>1
  <2> QED BY Zenon, <1>1, <1>2, <2>1 DEF ProcessInv, ServerInv
<1>4. MainInv'
  BY <1>1 DEF ProcessInv, MainInv
<1> QED BY <1>3, <1>4 DEF ProcessInv

LEMMA ProcessInitially ==
    ASSUME ProcessInit
    PROVE  ProcessInv
<1>1. sockets = {} /\ Cardinality(sockets) = 0
  BY FS_EmptySet DEF ProcessInit
<1>2. WithinLimit
  BY <1>1, ConstantsAssumption DEF WithinLimit
<1>3. accepting = "exited" /\ accepting \notin Session
  BY ConstantsAssumption DEF ProcessInit
<1>4. ServerInv
  BY <1>1, <1>2, <1>3 DEF ProcessInit, ServerInv, SessionSteps, Registered
<1>5. MainInv
  BY <1>1, <1>3 DEF ProcessInit, MainInv, MainSteps, Quiet
<1> QED BY <1>4, <1>5 DEF ProcessInv

LEMMA MainKeeps ==
    ASSUME ProcessInv, Main
    PROVE  ProcessInv'
<1> USE DEF Go, Throw, processVars
<1>1. main \in MainSteps
      /\ (main \in {"server.start", "polling", "server.stop"} => raft = "running")
  BY DEF ProcessInv, MainInv
<1>2. CASE Load
  BY <1>1, <1>2, MainMoves DEF Load
<1>3. CASE loaded
  BY <1>3, MainMoves DEF loaded, MainSteps
<1>4. CASE loadThrows
  BY <1>4, MainMoves DEF loadThrows, MainSteps
<1>5. CASE construct
  BY Zenon, <1>5, MainMoves DEF construct, MainSteps
<1>6. CASE start_raft
  BY <1>6, MainMoves DEF start_raft, MainSteps
<1>7. CASE start_server
  BY <1>7, ServerStarts
<1>8. CASE startServerThrows
  BY <1>8, MainMoves DEF startServerThrows, MainSteps
<1>9. CASE poll
  BY <1>1, <1>9, MainMoves DEF poll, MainSteps
<1>10. CASE stop_server
  BY <1>10, ServerStops
<1>11. CASE server_stopped
  BY <1>11, MainMoves DEF server_stopped, MainSteps
<1>12. CASE stop_raft
  BY <1>1, <1>12, MainMoves DEF stop_raft, InStop
<1>13. CASE flush
  BY <1>1, <1>13, MainMoves DEF flush, InStop
<1>14. CASE checkpoint
  BY <1>1, <1>14, MainMoves DEF checkpoint, InStop
<1>15. CASE stopRaftThrows
  BY <1>15, MainMoves DEF stopRaftThrows, MainSteps
<1>16. CASE return
  BY <1>16, MainMoves DEF return, InStop, MainSteps
<1> QED BY Zenon, <1>2, <1>3, <1>4, <1>5, <1>6, <1>7, <1>8, <1>9, <1>10, <1>11, <1>12,
           <1>13, <1>14, <1>15, <1>16 DEF Main

LEMMA ProcessStep ==
    ASSUME ProcessInv, [ProcessNext]_allVars
    PROVE  ProcessInv'
<1>1. main \in MainSteps
      /\ (main \in {"server.start", "polling", "server.stop"} => raft = "running")
  BY DEF ProcessInv, MainInv
<1>2. CASE Main
  BY <1>2, MainKeeps
<1>3. CASE Threads(ServerStep)
  <2>1. ServerStep /\ main' = main /\ raft' = raft
    BY <1>3 DEF Threads, processVars
  <2>2. ServerInv' /\ (Quiet => Quiet') /\ (stopping = "none" => stopping' = "none")
    BY <2>1, ThreadsKeep DEF ProcessInv, ThreadKeeps, Settles
  <2>3. MainInv'
    BY Zenon, <2>1, <2>2 DEF ProcessInv, MainInv
  <2> QED BY <2>2, <2>3 DEF ProcessInv
<1>4. CASE handle_signal
  BY <1>1, <1>4, MainMoves DEF handle_signal
<1>5. CASE system_exit
  BY <1>1, <1>5, MainMoves DEF system_exit
<1>6. CASE UNCHANGED allVars
  BY <1>1, <1>6, MainMoves DEF allVars, processVars
<1> QED BY <1>2, <1>3, <1>4, <1>5, <1>6 DEF ProcessNext

\* ProcessInv holds in every reachable state of ServerProcess
THEOREM ProcessInvariant == ProcessSpec => []ProcessInv
<1>1. ProcessInit => ProcessInv
  BY ProcessInitially
<1>2. ProcessInv /\ [ProcessNext]_allVars => ProcessInv'
  BY ProcessStep
<1> QED BY <1>1, <1>2, PTL DEF ProcessSpec

\* TcpServer::accept_loop never registers more sessions than max_connections,
\* whatever the sessions and stop() are doing
THEOREM WithinLimitCorrect == ProcessSpec => []WithinLimit
<1>1. ProcessInv => WithinLimit
  BY DEF ProcessInv, ServerInv
<1> QED BY <1>1, ProcessInvariant, PTL

\* While RaftNode is stopped by main or by its destructor, or is gone, no session
\* executes a request and none can be accepted
THEOREM NodeOutlivesRequestsCorrect == ProcessSpec => []NodeOutlivesRequests
<1>1. ASSUME ProcessInv, raft # "running"
      PROVE  /\ accepting = "exited"
             /\ \A s \in Session :
                    session[s] \in {"none", "refused", "erased", "notified", "ended"}
  <2>1. accepting = "exited" /\ sockets = {}
    BY <1>1 DEF ProcessInv, MainInv, Quiet
  <2>2. \A s \in Session : session[s] \in SessionSteps /\ session[s] \notin Registered
    BY <1>1, <2>1 DEF ProcessInv, ServerInv
  <2> QED BY <2>1, <2>2 DEF SessionSteps, Registered
<1>2. ProcessInv => NodeOutlivesRequests
  BY <1>1 DEF NodeOutlivesRequests
<1> QED BY <1>2, ProcessInvariant, PTL

-----------------------------------------------------------------------------
(* The inductive invariant of Config::load *)

Field == DOMAIN ConfigDefault
Key == DOMAIN NodeDefault

\* The lines of S before line n
Before(S, n) == {i \in S : i < n}

\* What the lines read so far leave in a field, and in a field of a node
FieldSays(field) ==
    IF Before(Says(field), at) = {} THEN ConfigDefault[field]
    ELSE Assigned(field, lines[Highest(Before(Says(field), at))].value)

NodeSays(n, key) ==
    IF Before(SaysOf(n, key), at) = {} THEN NodeDefault[key]
    ELSE lines[Highest(Before(SaysOf(n, key), at))].value

NodeValue ==
    {NodeDefault[key] : key \in Key}
    \cup {lines[i].value : i \in {j \in DOMAIN lines : lines[j].kind \in {"item", "field"}}}

\* A line has been read that lets no more lines say anything of node n
Ends(i) == lines[i].kind \in {"item", "section", "nodes"}
Closed(n) == \E j \in Item(n) + 1 .. at - 1 : Ends(j)

FileInv ==
    /\ lines \in Seq({lines[i] : i \in DOMAIN lines})
    /\ at \in 1 .. Len(lines) + 1
    /\ section = SectionAt(at - 1)

FieldsInv ==
    /\ DOMAIN config = Field
    /\ \A field \in Field : config[field] = FieldSays(field)

\* parse_bounded has accepted every number but the initial ones
LimitsInv ==
    \A field \in Fields(Numeric) :
        LET limits == Numeric[field[1]][field[2]]
        IN  \/ config[field].number \in limits.range
            \/ config[field].number = limits.default.number

\* current_node is the last node, while its lines have not ended
NodeInv(n) ==
    /\ Item(n) \in Items /\ Item(n) < at
    /\ Closed(n) <=> n # Len(nodes) \/ ~current
    /\ \A key \in Key : nodes[n][key] = NodeSays(n, key)

NodesInv ==
    /\ nodes \in Seq([Key -> NodeValue])
    /\ Len(nodes) = Cardinality(Before(Items, at))
    /\ current => section = "cluster" /\ Len(nodes) > 0
    /\ current \in BOOLEAN
    /\ \A n \in 1 .. Len(nodes) : NodeInv(n)

ReadInv == FileInv /\ FieldsInv /\ LimitsInv /\ NodesInv

LoadInv ==
    /\ loading \in {"reading", "accepted"} => ReadInv
    /\ loading = "accepted" => at = Len(lines) + 1 /\ validate

-----------------------------------------------------------------------------
(* The tables of fields *)

LEMMA BoundedLimits ==
    ASSUME NEW min \in Int, NEW max \in Int, NEW default \in Int, min <= default,
           NEW x, \/ x \in Bounded(min, max, default).range
                  \/ x = Bounded(min, max, default).default.number
    PROVE  x \in Int /\ x >= min
<1>1. /\ Bounded(min, max, default).range = min .. max
      /\ Bounded(min, max, default).default.number = default
  BY Zenon DEF Bounded, Numeral
<1>2. x \in min .. max \/ x = default
  BY Zenon, <1>1
<1> QED BY <1>2

LEMMA NumericDomain ==
    /\ DOMAIN Numeric = {"node", "network", "raft", "server"}
    /\ DOMAIN Numeric["node"] = {"id"}
    /\ DOMAIN Numeric["network"] = {"client_port", "raft_port"}
    /\ DOMAIN Numeric["raft"] =
           {"heartbeat_ms", "election_timeout_lower_ms", "election_timeout_upper_ms",
            "client_request_timeout_ms", "snapshot_distance", "reserved_log_items"}
    /\ DOMAIN Numeric["server"] = {"max_connections", "max_request_size"}
BY SMT DEF Numeric

LEMMA TextualDomain ==
    /\ DOMAIN Textual = {"network", "security", "storage", "raft", "logging"}
    /\ DOMAIN Textual["network"] = {"bind"}
    /\ DOMAIN Textual["security"] = {"requirepass"}
    /\ DOMAIN Textual["storage"] = {"data_dir", "raft_log_dir", "snapshot_dir"}
    /\ DOMAIN Textual["raft"] = {"enable_lease_reads"}
    /\ DOMAIN Textual["logging"] = {"level", "path"}
BY Zenon DEF Textual

LEMMA NodeKeys ==
    /\ Key = {"id", "host", "raft_port", "client_port"}
    /\ NodeDefault \in [Key -> NodeValue]
    /\ \A key, value : NodeAssignable(key, value) => key \in Key
<1>1. Key = {"id", "host", "raft_port", "client_port"}
  BY Zenon DEF NodeDefault, Key
<1>2. DOMAIN NodeNumeric = {"id", "raft_port", "client_port"}
  BY Zenon DEF NodeNumeric
<1>3. NodeDefault = [key \in Key |-> NodeDefault[key]]
  BY Zenon DEF NodeDefault, Key
<1>4. \A key \in Key : NodeDefault[key] \in NodeValue
  BY Zenon DEF NodeValue
<1>5. NodeDefault \in [Key -> NodeValue]
  BY Zenon, <1>3, <1>4
<1>6. \A key, value : NodeAssignable(key, value) => key \in Key
  BY <1>1, <1>2 DEF NodeAssignable
<1> QED BY <1>1, <1>5, <1>6

LEMMA InFields ==
    ASSUME NEW table, NEW x
    PROVE  x \in Fields(table) <=>
               \E name \in DOMAIN table : \E key \in DOMAIN table[name] : x = <<name, key>>
BY DEF Fields

LEMMA FieldSets ==
    /\ Field = Fields(Numeric) \cup Fields(Textual)
    /\ Fields(Numeric) \cap Fields(Textual) = {}
    /\ \A field \in Field : field[1] # "cluster" /\ field = <<field[1], field[2]>>
    /\ Password \in Fields(Textual)
<1>1. Field = Fields(Numeric) \cup Fields(Textual)
  BY Zenon DEF Field, ConfigDefault
<1>2. ASSUME NEW x \in Fields(Numeric), x \in Fields(Textual)
      PROVE  FALSE
  <2>1. PICK name \in DOMAIN Numeric : \E key \in DOMAIN Numeric[name] : x = <<name, key>>
    BY InFields
  <2>2. PICK key \in DOMAIN Numeric[name] : x = <<name, key>>
    BY <2>1
  <2>3. PICK name2 \in DOMAIN Textual : \E key2 \in DOMAIN Textual[name2] : x = <<name2, key2>>
    BY <1>2, InFields
  <2>4. PICK key2 \in DOMAIN Textual[name2] : x = <<name2, key2>>
    BY <2>3
  <2>5. name = name2 /\ key = key2
    BY <2>2, <2>4
  <2> QED BY <2>5, NumericDomain, TextualDomain
<1>3. ASSUME NEW x \in Field
      PROVE  x[1] # "cluster" /\ x = <<x[1], x[2]>>
  <2>1. PICK name \in DOMAIN Numeric \cup DOMAIN Textual : \E key : x = <<name, key>>
    BY <1>1, <1>3, InFields
  <2>2. PICK key : x = <<name, key>>
    BY <2>1
  <2> QED BY <2>2, NumericDomain, TextualDomain
<1>4. Password \in Fields(Textual)
  BY InFields, TextualDomain DEF Password
<1> QED BY Zenon, <1>1, <1>2, <1>3, <1>4

-----------------------------------------------------------------------------
(* One line further *)

LEMMA HighestIs ==
    ASSUME NEW S, NEW n \in S, \A j \in S : j \in Int /\ j <= n
    PROVE  Highest(S) = n
<1>1. \A j \in S : j <= Highest(S) /\ Highest(S) \in S
  <2>1. \E i \in S : \A j \in S : j <= i
    OBVIOUS
  <2> QED BY <2>1, Zenon DEF Highest
<1>2. n <= Highest(S) /\ Highest(S) <= n /\ Highest(S) \in Int /\ n \in Int
  BY <1>1
<1> HIDE DEF Highest
<1> QED BY <1>2

LEMMA BeforeNext ==
    ASSUME NEW S, \A i \in S : i \in Int, NEW n \in Int
    PROVE  /\ n \notin S => Before(S, n + 1) = Before(S, n)
           /\ n \in S => /\ Before(S, n + 1) # {}
                         /\ Highest(Before(S, n + 1)) = n
<1>1. \A i \in S : i < n + 1 <=> i < n \/ i = n
  OBVIOUS
<1>2. ASSUME n \notin S
      PROVE  Before(S, n + 1) = Before(S, n)
  BY <1>1, <1>2, Zenon DEF Before
<1>3. ASSUME n \in S
      PROVE  /\ Before(S, n + 1) # {}
             /\ Highest(Before(S, n + 1)) = n
  <2>1. n \in Before(S, n + 1)
    BY <1>3 DEF Before
  <2>2. \A j \in Before(S, n + 1) : j \in Int /\ j <= n
    BY DEF Before
  <2> QED BY <2>1, <2>2, HighestIs
<1> QED BY <1>2, <1>3

\* A line is read
Advances == lines' = lines /\ at' = at + 1 /\ at \in DOMAIN lines

LEMMA LineFacts ==
    ASSUME FileInv
    PROVE  /\ Len(lines) \in Nat /\ DOMAIN lines = 1 .. Len(lines) /\ at \in Nat
           /\ \A field : \A i \in Says(field) : i \in Int
           /\ \A i \in Items : i \in Int
           /\ \A n, key : Item(n) \in Items => \A i \in SaysOf(n, key) : i \in Int
<1>1. Len(lines) \in Nat /\ DOMAIN lines = 1 .. Len(lines) /\ at \in Nat
  BY DEF FileInv
<1>2. \A i \in DOMAIN lines : i \in Int
  BY <1>1
<1>3. \A field : \A i \in Says(field) : i \in Int
  BY <1>2, Zenon DEF Says
<1>4. \A i \in Items : i \in Int
  BY <1>2, Zenon DEF Items
<1>5. ASSUME NEW n, NEW key, Item(n) \in Items
      PROVE  \A i \in SaysOf(n, key) : i \in Int
  <2>1. Item(n) \in Int
    BY <1>4, <1>5
  <2>2. \A i \in Item(n) .. Len(lines) : i \in Int
    <3> HIDE DEF Item
    <3> QED BY <1>1, <2>1
  <2> QED BY <2>2, Zenon DEF SaysOf
<1> QED BY <1>1, <1>3, <1>4, <1>5

\* What the file says does not change
LEMMA LinesSame ==
    ASSUME lines' = lines
    PROVE  /\ \A field : Says(field)' = Says(field)
           /\ Items' = Items
           /\ \A n : Item(n)' = Item(n)
           /\ \A n, key : SaysOf(n, key)' = SaysOf(n, key)
           /\ \A i : SectionAt(i)' = SectionAt(i)
           /\ \A i : Ends(i)' = Ends(i)
           /\ NodeValue' = NodeValue
<1>1. \A i : SectionAt(i)' = SectionAt(i)
  <2>1. \A i : SectionLines(i)' = SectionLines(i)
    BY Zenon DEF SectionLines
  <2> QED BY Zenon, <2>1 DEF SectionAt
<1>2. \A field : Says(field)' = Says(field)
  BY Zenon, <1>1 DEF Says
<1>3. Items' = Items
  BY Zenon DEF Items
<1>4. \A n : Item(n)' = Item(n)
  BY Zenon, <1>3 DEF Item
<1>5. \A n, key : SaysOf(n, key)' = SaysOf(n, key)
  BY Zenon, <1>4 DEF SaysOf
<1>6. \A i : Ends(i)' = Ends(i)
  BY Zenon DEF Ends
<1>7. NodeValue' = NodeValue
  BY Zenon DEF NodeValue
<1> QED BY <1>1, <1>2, <1>3, <1>4, <1>5, <1>6, <1>7

LEMMA FieldSaysNext ==
    ASSUME FileInv, Advances, NEW field
    PROVE  /\ at \notin Says(field) => FieldSays(field)' = FieldSays(field)
           /\ at \in Says(field) => FieldSays(field)' = Assigned(field, lines[at].value)
<1>1. /\ \A i \in Says(field) : i \in Int /\ at \in Int
      /\ Says(field)' = Says(field) /\ at' = at + 1 /\ lines' = lines
  BY LineFacts, LinesSame DEF Advances
<1>2. FieldSays(field)' =
          IF Before(Says(field), at + 1) = {} THEN ConfigDefault[field]
          ELSE Assigned(field, lines[Highest(Before(Says(field), at + 1))].value)
  BY Zenon, <1>1 DEF FieldSays
<1>3. PICK S : S = Says(field)
  OBVIOUS
<1>4. PICK m : m = at
  OBVIOUS
<1>5. /\ m \notin S => Before(S, m + 1) = Before(S, m)
      /\ m \in S => Before(S, m + 1) # {} /\ Highest(Before(S, m + 1)) = m
  BY <1>1, <1>3, <1>4, BeforeNext, LineFacts
<1> QED BY Zenon, <1>2, <1>3, <1>4, <1>5 DEF FieldSays

LEMMA NodeSaysNext ==
    ASSUME FileInv, Advances, NEW n, NEW key, Item(n) \in Items
    PROVE  /\ at \notin SaysOf(n, key) => NodeSays(n, key)' = NodeSays(n, key)
           /\ at \in SaysOf(n, key) => NodeSays(n, key)' = lines[at].value
<1>1. /\ \A i \in SaysOf(n, key) : i \in Int
      /\ SaysOf(n, key)' = SaysOf(n, key) /\ at' = at + 1 /\ lines' = lines
      /\ at \in Int
  BY LineFacts, LinesSame DEF Advances
<1>2. NodeSays(n, key)' =
          IF Before(SaysOf(n, key), at + 1) = {} THEN NodeDefault[key]
          ELSE lines[Highest(Before(SaysOf(n, key), at + 1))].value
  BY Zenon, <1>1 DEF NodeSays
<1>3. PICK S : S = SaysOf(n, key)
  OBVIOUS
<1>4. PICK m : m = at
  OBVIOUS
<1>5. /\ m \notin S => Before(S, m + 1) = Before(S, m)
      /\ m \in S => Before(S, m + 1) # {} /\ Highest(Before(S, m + 1)) = m
  BY <1>1, <1>3, <1>4, BeforeNext
<1> QED BY Zenon, <1>2, <1>3, <1>4, <1>5 DEF NodeSays

LEMMA SectionNext ==
    ASSUME FileInv, Advances
    PROVE  /\ lines[at].kind # "section" => SectionAt(at) = section
           /\ lines[at].kind = "section" => SectionAt(at) = lines[at].key
<1>1. PICK m : m = at
  OBVIOUS
<1>2. m \in Nat /\ m >= 1
  BY <1>1, LineFacts DEF Advances
<1>3. \A j : j \in 1 .. m <=> j \in 1 .. m - 1 \/ j = m
  BY <1>2
<1>4. ASSUME lines[m].kind # "section"
      PROVE  SectionAt(m) = section
  <2>1. SectionLines(m) = SectionLines(m - 1)
    BY Zenon, <1>3, <1>4 DEF SectionLines
  <2>2. SectionAt(m) = SectionAt(m - 1)
    BY Zenon, <2>1 DEF SectionAt
  <2> QED BY Zenon, <1>1, <2>2 DEF FileInv
<1>5. ASSUME lines[m].kind = "section"
      PROVE  SectionAt(m) = lines[m].key
  <2>1. m \in SectionLines(m)
    BY <1>2, <1>5 DEF SectionLines
  <2>2. \A j \in SectionLines(m) : j \in Int /\ j <= m
    BY <1>2 DEF SectionLines
  <2>3. Highest(SectionLines(m)) = m
    BY <2>1, <2>2, HighestIs
  <2> QED BY Zenon, <2>1, <2>3 DEF SectionAt
<1> QED BY Zenon, <1>1, <1>4, <1>5

LEMMA FileNext ==
    ASSUME FileInv, Advances, section' = SectionAt(at)
    PROVE  FileInv'
<1>1. /\ lines' = lines /\ at \in Nat /\ at' = at + 1
      /\ DOMAIN lines = 1 .. Len(lines) /\ Len(lines) \in Nat /\ at \in DOMAIN lines
  BY LineFacts DEF Advances
<1>2. at' \in 1 .. Len(lines) + 1 /\ at' - 1 = at
  BY <1>1
<1>3. SectionLines(at - 1)' = SectionLines(at)
  BY Zenon, <1>1, <1>2 DEF SectionLines
<1>4. SectionAt(at - 1)' = SectionAt(at)
  BY Zenon, <1>1, <1>3 DEF SectionAt
<1> QED BY Zenon, <1>1, <1>2, <1>4 DEF FileInv

\* The line says nothing of a field of config
LEMMA FieldsNext ==
    ASSUME FileInv, FieldsInv, LimitsInv, Advances, config' = config,
           \A field \in Field : at \notin Says(field)
    PROVE  FieldsInv' /\ LimitsInv'
<1>1. \A field \in Field : FieldSays(field)' = FieldSays(field)
  BY FieldSaysNext
<1>2. FieldsInv'
  BY Zenon, <1>1 DEF FieldsInv
<1>3. LimitsInv'
  BY Zenon DEF LimitsInv
<1> QED BY <1>2, <1>3

LEMMA ItemRange ==
    ASSUME FileInv, Advances, NEW n, Item(n) \in Items, Item(n) < at
    PROVE  \A j : j \in Item(n) + 1 .. at <=> j \in Item(n) + 1 .. at - 1 \/ j = at
<1>1. PICK k : k = Item(n)
  OBVIOUS
<1>2. k \in Int /\ at \in Nat /\ k < at
  BY <1>1, LineFacts
<1>3. \A j : j \in k + 1 .. at <=> j \in k + 1 .. at - 1 \/ j = at
  BY <1>2
<1> QED BY Zenon, <1>1, <1>3

LEMMA ClosedNext ==
    ASSUME FileInv, Advances, NEW n, Item(n) \in Items, Item(n) < at
    PROVE  /\ Closed(n)' <=> Closed(n) \/ Ends(at)
           /\ Closed(n) \/ Ends(at) => \A key : at \notin SaysOf(n, key)
<1>1. \A j : j \in Item(n) + 1 .. at <=> j \in Item(n) + 1 .. at - 1 \/ j = at
  BY ItemRange
<1>2. Item(n)' = Item(n) /\ at' - 1 = at /\ \A i : Ends(i)' = Ends(i)
  <2>1. at' - 1 = at
    BY LineFacts DEF Advances
  <2> QED BY Zenon, <2>1, LinesSame DEF Advances
<1>3. Closed(n)' <=> \E j \in Item(n) + 1 .. at : Ends(j)
  BY Zenon, <1>2 DEF Closed
<1>4. Closed(n)' <=> Closed(n) \/ Ends(at)
  BY Zenon, <1>1, <1>3 DEF Closed
<1>5. ASSUME NEW key, at \in SaysOf(n, key), Closed(n) \/ Ends(at)
      PROVE  FALSE
  <2>1. PICK j \in Item(n) + 1 .. at : Ends(j)
    BY Zenon, <1>1, <1>5 DEF Closed
  <2>2. lines[j].kind \notin {"item", "section", "nodes"}
    BY Zenon, <1>5 DEF SaysOf
  <2> QED BY Zenon, <2>1, <2>2 DEF Ends
<1> QED BY Zenon, <1>4, <1>5

\* The line says nothing of node n
LEMMA NodeNext ==
    ASSUME FileInv, Advances, NEW n, NodeInv(n), nodes'[n] = nodes[n],
           \A key \in Key : at \notin SaysOf(n, key),
           Closed(n) \/ Ends(at) <=> n # Len(nodes') \/ ~current'
    PROVE  NodeInv(n)'
<1>1. Item(n) \in Items /\ Item(n) < at /\ at \in Nat /\ Item(n) \in Int
  BY LineFacts DEF NodeInv
<1>2. Item(n)' = Item(n) /\ Items' = Items
  BY LinesSame DEF Advances
<1>3. Item(n) < at'
  BY <1>1 DEF Advances
<1>4. Closed(n)' <=> n # Len(nodes') \/ ~current'
  BY <1>1, ClosedNext
<1>5. \A key \in Key : nodes'[n][key] = NodeSays(n, key)'
  BY Zenon, <1>1, NodeSaysNext DEF NodeInv
<1> QED BY Zenon, <1>1, <1>2, <1>3, <1>4, <1>5 DEF NodeInv

LEMMA ItemsFinite ==
    ASSUME FileInv
    PROVE  IsFiniteSet(Items)
<1>1. IsFiniteSet(DOMAIN lines)
  BY LineFacts, FS_Interval
<1>2. Items \in SUBSET DOMAIN lines
  BY Zenon DEF Items
<1> QED BY <1>1, <1>2, FS_Subset

LEMMA CountNext ==
    ASSUME FileInv, Advances
    PROVE  LET read == Cardinality(Before(Items, at))
           IN  /\ lines[at].kind # "item" => Cardinality(Before(Items, at))' = read
               /\ lines[at].kind = "item" => Cardinality(Before(Items, at))' = read + 1
<1>1. PICK m : m = at
  OBVIOUS
<1>2. /\ m \in Nat /\ at' = m + 1 /\ \A i \in Items : i \in Int
      /\ Items' = Items /\ m \in DOMAIN lines
  BY Zenon, <1>1, LineFacts, LinesSame DEF Advances
<1>3. Before(Items, at)' = Before(Items, m + 1)
  BY Zenon, <1>2
<1>4. \A i \in Items : i < m + 1 <=> i < m \/ i = m
  BY <1>2
<1>5. ASSUME lines[m].kind # "item"
      PROVE  Before(Items, m + 1) = Before(Items, m)
  <2>1. m \notin Items
    BY Zenon, <1>5 DEF Items
  <2> QED BY Zenon, <1>4, <2>1 DEF Before
<1>6. ASSUME lines[m].kind = "item"
      PROVE  Cardinality(Before(Items, m + 1)) = Cardinality(Before(Items, m)) + 1
  <2>1. m \in Items
    BY Zenon, <1>2, <1>6 DEF Items
  <2>2. Before(Items, m + 1) = Before(Items, m) \cup {m}
    BY Zenon, <1>4, <2>1 DEF Before
  <2>3. m \notin Before(Items, m)
    BY <1>2 DEF Before
  <2>4. IsFiniteSet(Before(Items, m))
    <3>1. Before(Items, m) \in SUBSET Items
      BY Zenon DEF Before
    <3> QED BY <3>1, ItemsFinite, FS_Subset
  <2> QED BY <2>2, <2>3, <2>4, FS_AddElement
<1> QED BY Zenon, <1>1, <1>3, <1>5, <1>6

\* An item is the only one with its number
LEMMA ItemIs ==
    ASSUME FileInv, NEW i \in Items, NEW n, n = Cardinality({j \in Items : j <= i})
    PROVE  Item(n) = i
<1> DEFINE Upto(k) == {j \in Items : j <= k}
<1>1. \A k \in Items : k \in Int
  BY LineFacts
<1>2. ASSUME NEW k \in Items, NEW l \in Items, k < l
      PROVE  Cardinality(Upto(k)) # Cardinality(Upto(l))
  <2>1. k \in Int /\ l \in Int
    BY <1>1
  <2>2. \A j \in Items : j <= k => j <= l
    BY <1>1, <1>2, <2>1
  <2>3. Upto(k) \in SUBSET Upto(l)
    BY Zenon, <2>2
  <2>4. l \in Upto(l) /\ l \notin Upto(k)
    BY <1>2, <2>1
  <2>5. IsFiniteSet(Upto(l))
    <3>1. Upto(l) \in SUBSET Items
      BY Zenon
    <3> QED BY <3>1, ItemsFinite, FS_Subset
  <2> HIDE DEF Upto
  <2> QED BY <2>3, <2>4, <2>5, FS_Subset
<1>3. \A k \in Items : Cardinality(Upto(k)) = n => k = i
  <2> SUFFICES ASSUME NEW k \in Items, Cardinality(Upto(k)) = n
               PROVE  k = i
    BY Zenon
  <2>1. k < i \/ i < k \/ k = i
    BY <1>1
  <2> QED BY Zenon, <1>2, <2>1
<1>4. Item(n) = CHOOSE k \in Items : Cardinality(Upto(k)) = n
  BY Zenon DEF Item
<1>5. i \in Items /\ Cardinality(Upto(i)) = n
  BY Zenon
<1> HIDE DEF Upto
<1> QED BY Zenon, <1>3, <1>4, <1>5

LEMMA NodesNext ==
    ASSUME ReadInv, Advances, nodes' = nodes, lines[at].kind # "item",
           current' \in BOOLEAN, current' => current /\ section' = section,
           \A n \in 1 .. Len(nodes) :
               /\ \A key \in Key : at \notin SaysOf(n, key)
               /\ Closed(n) \/ Ends(at) <=> n # Len(nodes) \/ ~current'
    PROVE  NodesInv'
<1>1. FileInv /\ NodesInv
  BY DEF ReadInv
<1>2. nodes' \in Seq([Key -> NodeValue'])
  BY Zenon, <1>1, LinesSame DEF Advances, NodesInv
<1>3. Len(nodes') = Cardinality(Before(Items, at))'
  BY Zenon, <1>1, CountNext DEF NodesInv
<1>4. ASSUME NEW n \in 1 .. Len(nodes')
      PROVE  NodeInv(n)'
  <2>1. n \in 1 .. Len(nodes) /\ NodeInv(n)
    BY Zenon, <1>1, <1>4 DEF NodesInv
  <2>2. Closed(n) \/ Ends(at) <=> n # Len(nodes') \/ ~current'
    BY Zenon, <2>1
  <2>3. nodes'[n] = nodes[n] /\ \A key \in Key : at \notin SaysOf(n, key)
    BY Zenon, <2>1
  <2> QED BY <1>1, <2>1, <2>2, <2>3, NodeNext
<1>5. Len(nodes)' = Len(nodes')
  OBVIOUS
<1> QED BY Zenon, <1>1, <1>2, <1>3, <1>4, <1>5 DEF NodesInv

LEMMA NextLine ==
    ASSUME ReadInv, nextLine
    PROVE  Advances /\ Line = lines[at] /\ loading' = "reading"
<1>1. at \in Nat /\ DOMAIN lines = 1 .. Len(lines) /\ at >= 1 /\ Len(lines) \in Nat
  BY LineFacts DEF ReadInv, FileInv
<1>2. at \in DOMAIN lines
  BY <1>1 DEF nextLine
<1> QED BY Zenon, <1>2 DEF nextLine, Advances, Line

LEMMA BlankKeeps ==
    ASSUME ReadInv, blankLine
    PROVE  ReadInv'
<1>1. Advances /\ lines[at].kind = "blank"
      /\ UNCHANGED <<section, nodes, current, config>>
  BY NextLine DEF blankLine
<1>2. FileInv /\ FieldsInv /\ LimitsInv /\ NodesInv
  BY DEF ReadInv
<1>3. section' = SectionAt(at)
  BY <1>1, <1>2, SectionNext
<1>4. \A field \in Field : at \notin Says(field)
  BY Zenon, <1>1 DEF Says
<1>5. \A n, key : at \notin SaysOf(n, key)
  BY <1>1 DEF SaysOf
<1>6. ~Ends(at)
  BY <1>1 DEF Ends
<1>7. \A n \in 1 .. Len(nodes) : Closed(n) \/ Ends(at) <=> n # Len(nodes) \/ ~current'
  BY Zenon, <1>1, <1>2, <1>6 DEF NodesInv, NodeInv
<1>8. NodesInv'
  <2>1. lines[at].kind # "item" /\ current' \in BOOLEAN
    BY <1>1, <1>2 DEF NodesInv
  <2> QED BY Zenon, <1>1, <1>5, <1>7, <2>1, NodesNext
<1>9. FileInv' /\ FieldsInv' /\ LimitsInv'
  BY <1>1, <1>2, <1>3, <1>4, FileNext, FieldsNext
<1> QED BY <1>8, <1>9 DEF ReadInv

\* A section or the list of nodes begins: no node is open any more
LEMMA HeadingKeeps ==
    ASSUME ReadInv, Advances, lines[at].kind \in {"section", "nodes"},
           section' = SectionAt(at), current' = FALSE, UNCHANGED <<nodes, config>>
    PROVE  ReadInv'
<1>1. lines[at].kind # "field" /\ lines[at].kind # "item" /\ Ends(at)
  BY DEF Ends
<1>2. FileInv /\ FieldsInv /\ LimitsInv /\ NodesInv
  BY DEF ReadInv
<1>3. \A field \in Field : at \notin Says(field)
  BY Zenon, <1>1 DEF Says
<1>4. \A n, key : at \notin SaysOf(n, key)
  BY Zenon, <1>1 DEF SaysOf
<1>5. NodesInv'
  BY Zenon, <1>1, <1>4, NodesNext
<1>6. FileInv' /\ FieldsInv' /\ LimitsInv'
  BY <1>2, <1>3, FileNext, FieldsNext
<1> QED BY <1>5, <1>6 DEF ReadInv

LEMMA FieldKeeps ==
    ASSUME ReadInv, fieldLine
    PROVE  ReadInv'
<1>1. PICK g, v : g = <<section, lines[at].key>> /\ v = lines[at].value
  BY Zenon
<1>2. /\ Advances /\ lines[at].kind = "field"
      /\ Assignable(g, v) /\ config' = [config EXCEPT ![g] = Assigned(g, v)]
      /\ UNCHANGED <<section, nodes, current>>
  BY Zenon, <1>1, NextLine DEF fieldLine, Line, nextLine
<1>3. FileInv /\ FieldsInv /\ LimitsInv /\ NodesInv
  BY DEF ReadInv
<1>4. g \in Field
  BY Zenon, <1>2, FieldSets DEF Assignable
<1>5. section # "cluster" /\ ~current
  <2>1. g[1] = section
    BY <1>1
  <2> QED BY Zenon, <1>3, <1>4, <2>1, FieldSets DEF NodesInv
<1>6. SectionAt(at) = section
  BY <1>2, <1>3, SectionNext
<1>7. \A field \in Field : at \in Says(field) <=> field = g
  <2> SUFFICES ASSUME NEW field \in Field
               PROVE  at \in Says(field) <=> field = g
    BY Zenon
  <2>1. field = <<field[1], field[2]>>
    BY FieldSets
  <2>2. at \in Says(field) <=> section = field[1] /\ lines[at].key = field[2]
    BY Zenon, <1>2, <1>6 DEF Says, Advances
  <2>3. section = field[1] /\ lines[at].key = field[2] <=> field = g
    BY <1>1, <2>1
  <2> QED BY <2>2, <2>3
<1>8. /\ DOMAIN config' = Field
      /\ config'[g] = Assigned(g, v)
      /\ \A field \in Field : field # g => config'[field] = config[field]
  BY <1>2, <1>3, <1>4 DEF FieldsInv
<1>9. FieldsInv'
  <2>1. \A field \in Field : field # g => FieldSays(field)' = FieldSays(field)
    BY Zenon, <1>2, <1>3, <1>7, FieldSaysNext
  <2>2. FieldSays(g)' = Assigned(g, v)
    BY Zenon, <1>1, <1>2, <1>3, <1>4, <1>7, FieldSaysNext
  <2> QED BY Zenon, <1>3, <1>8, <2>1, <2>2 DEF FieldsInv
<1>10. LimitsInv'
  <2> SUFFICES ASSUME NEW field \in Fields(Numeric)
               PROVE  LET limits == Numeric[field[1]][field[2]]
                      IN  \/ config'[field].number \in limits.range
                          \/ config'[field].number = limits.default.number
    BY Zenon DEF LimitsInv
  <2>1. field \in Field /\ field \notin Fields(Textual) /\ field # Password
    BY Zenon, FieldSets
  <2>2. CASE field # g
    BY Zenon, <1>3, <1>8, <2>1, <2>2 DEF LimitsInv
  <2>3. CASE field = g
    <3>1. v.number \in Numeric[field[1]][field[2]].range
      BY Zenon, <1>2, <2>1, <2>3 DEF Assignable
    <3>2. Assigned(g, v) = v
      BY Zenon, <2>1, <2>3 DEF Assigned
    <3> QED BY Zenon, <1>8, <2>3, <3>1, <3>2
  <2> QED BY Zenon, <2>2, <2>3
<1>11. NodesInv'
  <2>1. \A n \in 1 .. Len(nodes) : Closed(n) /\ Item(n) \in Items /\ Item(n) < at
    BY Zenon, <1>3, <1>5 DEF NodesInv, NodeInv
  <2>2. \A n \in 1 .. Len(nodes) : \A key \in Key : at \notin SaysOf(n, key)
    BY Zenon, <1>2, <1>3, <2>1, ClosedNext
  <2>3. lines[at].kind # "item" /\ current' \in BOOLEAN
    BY <1>2, <1>3 DEF NodesInv
  <2> QED BY Zenon, <1>2, <1>5, <2>1, <2>2, <2>3, NodesNext
<1>12. FileInv'
  BY <1>2, <1>3, <1>6, FileNext
<1> QED BY <1>9, <1>10, <1>11, <1>12 DEF ReadInv

\* Lines of nodes say nothing of config
LEMMA ClusterFields ==
    ASSUME ReadInv, Advances, section = "cluster", lines[at].kind \in {"item", "field"},
           section' = section, config' = config
    PROVE  FileInv' /\ FieldsInv' /\ LimitsInv'
<1>1. FileInv /\ FieldsInv /\ LimitsInv
  BY DEF ReadInv
<1>2. SectionAt(at) = section
  BY <1>1, SectionNext
<1>3. \A field \in Field : at \notin Says(field)
  BY Zenon, <1>2, FieldSets DEF Says
<1> QED BY <1>1, <1>2, <1>3, FileNext, FieldsNext

LEMMA NodeLineKeeps ==
    ASSUME ReadInv, nodeLine
    PROVE  ReadInv'
<1>1. PICK k, v, L : k = lines[at].key /\ v = lines[at].value /\ L = Len(nodes)
  BY Zenon
<1>2. /\ Advances /\ lines[at].kind = "field" /\ section = "cluster" /\ current
      /\ NodeAssignable(k, v) /\ nodes' = [nodes EXCEPT ![L][k] = v]
      /\ UNCHANGED <<section, current, config>>
  BY Zenon, <1>1, NextLine DEF nodeLine, Line, nextLine
<1>3. FileInv /\ NodesInv
  BY DEF ReadInv
<1>4. /\ nodes \in Seq([Key -> NodeValue]) /\ L \in Nat /\ L > 0 /\ L \in 1 .. L
      /\ k \in Key /\ v \in NodeValue
  <2>1. nodes \in Seq([Key -> NodeValue]) /\ L \in Nat /\ L > 0
    BY <1>1, <1>2, <1>3 DEF NodesInv
  <2>2. k \in Key
    BY Zenon, <1>2, NodeKeys
  <2>3. v \in NodeValue
    BY <1>1, <1>2 DEF NodeValue, Advances
  <2> QED BY <2>1, <2>2, <2>3
<1>5. /\ nodes' \in Seq([Key -> NodeValue]) /\ Len(nodes') = L
      /\ \A n \in 1 .. L : n # L => nodes'[n] = nodes[n]
      /\ nodes'[L] = [nodes[L] EXCEPT ![k] = v]
      /\ nodes[L] \in [Key -> NodeValue]
  <2>1. nodes[L] \in [Key -> NodeValue]
    BY <1>1, <1>4
  <2>2. [nodes[L] EXCEPT ![k] = v] \in [Key -> NodeValue]
    BY <1>4, <2>1
  <2> DEFINE x == [nodes[L] EXCEPT ![k] = v]
  <2>3. nodes' = [nodes EXCEPT ![L] = x]
    BY Zenon, <1>2
  <2> HIDE DEF x
  <2>4. /\ nodes' \in Seq([Key -> NodeValue]) /\ Len(nodes') = L
        /\ \A n \in 1 .. L : n # L => nodes'[n] = nodes[n]
        /\ nodes'[L] = x
    <3> DEFINE S == [Key -> NodeValue]
    <3>1. nodes \in Seq(S) /\ x \in S /\ L = Len(nodes) /\ L \in DOMAIN nodes
      BY <1>1, <1>4, <2>2 DEF x
    <3> HIDE DEF S
    <3>2. nodes' \in Seq(S) /\ Len(nodes') = L
      BY <2>3, <3>1
    <3>3. \A n \in 1 .. L : nodes'[n] = IF n = L THEN x ELSE nodes[n]
      BY <2>3, <3>1
    <3>4. L \in 1 .. L
      BY <3>1
    <3> QED BY <3>2, <3>3, <3>4 DEF S
  <2> QED BY <2>1, <2>4 DEF x
<1>6. ASSUME NEW n \in 1 .. L
      PROVE  NodeInv(n)'
  <2>1. NodeInv(n) /\ Item(n) \in Items /\ Item(n) < at
    BY Zenon, <1>1, <1>3 DEF NodesInv, NodeInv
  <2>2. ~Ends(at)
    BY <1>2 DEF Ends
  <2>3. CASE n # L
    <3>1. Closed(n) /\ \A key \in Key : at \notin SaysOf(n, key)
      BY Zenon, <1>1, <1>2, <1>3, <2>1, <2>3, ClosedNext DEF NodeInv
    <3>2. nodes'[n] = nodes[n]
      BY <1>5, <2>3
    <3>3. Closed(n) \/ Ends(at) <=> n # Len(nodes') \/ ~current'
      BY Zenon, <1>5, <2>3, <3>1
    <3> QED BY <1>2, <1>3, <2>1, <3>1, <3>2, <3>3, NodeNext
  <2>4. CASE n = L
    <3>1. ~Closed(n)
      BY Zenon, <1>1, <1>2, <2>1, <2>4 DEF NodeInv
    <3>2. ~Closed(n)' /\ n = Len(nodes') /\ current'
      BY Zenon, <1>2, <1>3, <1>5, <2>1, <2>2, <2>4, <3>1, ClosedNext
    <3>3. Item(n)' \in Items' /\ Item(n)' < at'
      <4>1. Item(n)' = Item(n) /\ Items' = Items
        BY <1>2, LinesSame DEF Advances
      <4>2. Item(n) < at'
        BY <1>2, <1>3, <2>1, LineFacts DEF Advances
      <4> QED BY Zenon, <2>1, <4>1, <4>2
    <3>4. ASSUME NEW key \in Key
          PROVE  at \in SaysOf(n, key) <=> key = k
      <4>1. at \in Item(n) .. Len(lines)
        <5>1. PICK i : i = Item(n)
          OBVIOUS
        <5>2. i \in Int /\ i < at /\ at \in 1 .. Len(lines) /\ Len(lines) \in Nat
          BY <1>2, <1>3, <2>1, <5>1, LineFacts DEF Advances
        <5>3. at \in i .. Len(lines)
          BY <5>2
        <5> QED BY Zenon, <5>1, <5>3
      <4>2. \A j \in Item(n) + 1 .. at : lines[j].kind \notin {"item", "section", "nodes"}
        <5>1. \A j : j \in Item(n) + 1 .. at <=> j \in Item(n) + 1 .. at - 1 \/ j = at
          BY <1>2, <1>3, <2>1, ItemRange
        <5> QED BY Zenon, <2>2, <3>1, <5>1 DEF Closed, Ends
      <4>3. lines[at].kind \in {"item", "field"}
        BY <1>2
      <4> QED BY Zenon, <1>1, <4>1, <4>2, <4>3 DEF SaysOf
    <3>5. ASSUME NEW key \in Key
          PROVE  nodes'[n][key] = NodeSays(n, key)'
      <4>1. nodes'[n][key] = IF key = k THEN v ELSE nodes[n][key]
        BY <1>4, <1>5, <2>4
      <4>2. NodeSays(n, key)' = IF key = k THEN v ELSE NodeSays(n, key)
        BY Zenon, <1>1, <1>2, <1>3, <2>1, <3>4, NodeSaysNext
      <4>3. nodes[n][key] = NodeSays(n, key)
        BY <2>1 DEF NodeInv
      <4> QED BY <4>1, <4>2, <4>3
    <3> QED BY Zenon, <3>2, <3>3, <3>5 DEF NodeInv
  <2> QED BY <2>3, <2>4
<1>7. NodesInv'
  <2>1. Len(nodes)' = L /\ NodeValue' = NodeValue
    BY <1>2, <1>5, LinesSame DEF Advances
  <2>2. Cardinality(Before(Items, at))' = L
    <3>1. lines[at].kind # "item"
      BY <1>2
    <3> QED BY Zenon, <1>1, <1>2, <1>3, <3>1, CountNext DEF NodesInv
  <2>3. Len(nodes)' > 0
    BY <1>4, <2>1
  <2> QED BY Zenon, <1>2, <1>3, <1>5, <1>6, <2>1, <2>2, <2>3 DEF NodesInv
<1>8. FileInv' /\ FieldsInv' /\ LimitsInv'
  BY <1>2, ClusterFields
<1> QED BY <1>7, <1>8 DEF ReadInv

\* A new node: its item is the line, and the line is all that is said of it
LEMMA NewNode ==
    ASSUME ReadInv, Advances, lines[at].kind = "item", NEW m, m = Len(nodes) + 1,
           Len(nodes') = m, current', NEW k \in Key, k = lines[at].key,
           nodes'[m] = [NodeDefault EXCEPT ![k] = lines[at].value]
    PROVE  NodeInv(m)'
<1>1. FileInv /\ NodesInv
  BY DEF ReadInv
<1>2. /\ at \in Nat /\ at \in DOMAIN lines /\ DOMAIN lines = 1 .. Len(lines)
      /\ Len(lines) \in Nat /\ at' = at + 1
      /\ Item(m)' = Item(m) /\ Items' = Items /\ \A i : Ends(i)' = Ends(i)
  BY <1>1, LineFacts, LinesSame DEF Advances
<1>3. at \in Items
  BY Zenon, <1>2 DEF Items
<1>4. Item(m) = at
  <2>1. PICK a : a = at
    OBVIOUS
  <2>2. {j \in Items : j <= a} = Before(Items, a + 1)
    <3>1. \A j \in Items : j <= a <=> j < a + 1
      BY <1>1, <1>2, <2>1, LineFacts
    <3> QED BY Zenon, <3>1 DEF Before
  <2>3. Before(Items, at)' = Before(Items, a + 1)
    BY Zenon, <1>2, <2>1
  <2>4. Cardinality(Before(Items, at))' = m
    BY Zenon, <1>1, CountNext DEF NodesInv
  <2>5. m = Cardinality({j \in Items : j <= a})
    BY Zenon, <2>2, <2>3, <2>4
  <2> QED BY <1>1, <1>3, <2>1, <2>5, ItemIs
<1>5. ~Closed(m)'
  <2>1. at + 1 .. at' - 1 = {}
    BY <1>2
  <2> QED BY Zenon, <1>2, <1>4, <2>1 DEF Closed
<1>6. at < at'
  BY <1>2
<1>7. ASSUME NEW key \in Key
      PROVE  nodes'[m][key] = NodeSays(m, key)'
  <2>1. at \in SaysOf(m, key) <=> key = k
    <3>1. at \in at .. Len(lines) /\ at + 1 .. at = {}
      BY <1>2
    <3>2. lines[at].kind \in {"item", "field"}
      OBVIOUS
    <3> QED BY Zenon, <1>4, <3>1, <3>2 DEF SaysOf
  <2>2. Before(SaysOf(m, key), at) = {}
    <3>1. \A i \in at .. Len(lines) : ~(i < at)
      BY <1>2
    <3> QED BY Zenon, <1>4, <3>1 DEF SaysOf, Before
  <2>3. NodeSays(m, key) = NodeDefault[key]
    BY Zenon, <2>2 DEF NodeSays
  <2>4. NodeSays(m, key)' = IF key = k THEN lines[at].value ELSE NodeDefault[key]
    <3>1. Item(m) \in Items
      BY Zenon, <1>3, <1>4
    <3>2. /\ at \notin SaysOf(m, key) => NodeSays(m, key)' = NodeSays(m, key)
          /\ at \in SaysOf(m, key) => NodeSays(m, key)' = lines[at].value
      BY <1>1, <3>1, NodeSaysNext
    <3> QED BY Zenon, <2>1, <2>3, <3>2
  <2>5. nodes'[m][key] = IF key = k THEN lines[at].value ELSE NodeDefault[key]
    <3>1. NodeDefault \in [Key -> NodeValue]
      BY NodeKeys
    <3> QED BY <3>1
  <2> QED BY <2>4, <2>5
<1> QED BY Zenon, <1>2, <1>3, <1>4, <1>5, <1>6, <1>7 DEF NodeInv

LEMMA ItemKeeps ==
    ASSUME ReadInv, itemLine
    PROVE  ReadInv'
<1>1. PICK k, v, L : k = lines[at].key /\ v = lines[at].value /\ L = Len(nodes)
  BY Zenon
<1> DEFINE x == [NodeDefault EXCEPT ![k] = v]
<1>2. /\ Advances /\ lines[at].kind = "item" /\ section = "cluster" /\ current' = TRUE
      /\ NodeAssignable(k, v) /\ nodes' = Append(nodes, x)
      /\ UNCHANGED <<section, config>>
  BY Zenon, <1>1, NextLine DEF itemLine, Line, nextLine
<1>3. FileInv /\ NodesInv
  BY DEF ReadInv
<1>4. nodes \in Seq([Key -> NodeValue]) /\ L \in Nat /\ k \in Key /\ x \in [Key -> NodeValue]
  <2>1. nodes \in Seq([Key -> NodeValue]) /\ L \in Nat
    BY <1>1, <1>3 DEF NodesInv
  <2>2. k \in Key /\ NodeDefault \in [Key -> NodeValue]
    BY Zenon, <1>2, NodeKeys
  <2>3. v \in NodeValue
    BY <1>1, <1>2 DEF NodeValue, Advances
  <2> QED BY <2>1, <2>2, <2>3
<1>5. nodes'[L + 1] = [NodeDefault EXCEPT ![k] = lines[at].value]
  <2>1. nodes'[L + 1] = x
    <3> HIDE DEF x
    <3> QED BY <1>1, <1>2, <1>4
  <2> QED BY Zenon, <1>1, <2>1
<1> HIDE DEF x
<1>6. /\ nodes' \in Seq([Key -> NodeValue]) /\ Len(nodes') = L + 1
      /\ \A n \in 1 .. L : nodes'[n] = nodes[n]
      /\ \A n \in 1 .. L + 1 : n \in 1 .. L \/ n = L + 1
      /\ \A n \in 1 .. L : n # L + 1
  BY <1>1, <1>2, <1>4
<1>7. Ends(at)
  BY <1>2 DEF Ends
<1>8. ASSUME NEW n \in 1 .. L + 1
      PROVE  NodeInv(n)'
  <2>1. CASE n \in 1 .. L
    <3>1. NodeInv(n) /\ Item(n) \in Items /\ Item(n) < at
      BY Zenon, <1>1, <1>3, <2>1 DEF NodesInv, NodeInv
    <3>2. \A key \in Key : at \notin SaysOf(n, key)
      BY Zenon, <1>2, <1>3, <1>7, <3>1, ClosedNext
    <3>3. Closed(n) \/ Ends(at) <=> n # Len(nodes') \/ ~current'
      BY Zenon, <1>6, <1>7, <2>1
    <3>4. nodes'[n] = nodes[n]
      BY Zenon, <1>6, <2>1
    <3> QED BY Zenon, <1>2, <1>3, <3>1, <3>2, <3>3, <3>4, NodeNext
  <2>2. CASE n = L + 1
    BY Zenon, <1>1, <1>2, <1>4, <1>5, <1>6, <2>2, NewNode
  <2> QED BY Zenon, <1>6, <2>1, <2>2
<1>9. NodesInv'
  <2>1. Len(nodes)' = L + 1 /\ NodeValue' = NodeValue
    BY <1>2, <1>6, LinesSame DEF Advances
  <2>2. Cardinality(Before(Items, at))' = L + 1
    BY Zenon, <1>1, <1>2, <1>3, CountNext DEF NodesInv
  <2>3. Len(nodes)' > 0 /\ current' \in BOOLEAN
    BY <1>2, <1>4, <2>1
  <2> QED BY Zenon, <1>2, <1>6, <1>8, <2>1, <2>2, <2>3 DEF NodesInv
<1>10. FileInv' /\ FieldsInv' /\ LimitsInv'
  BY <1>2, ClusterFields
<1> QED BY <1>9, <1>10 DEF ReadInv

LEMMA ReadStutter ==
    ASSUME ReadInv, UNCHANGED <<lines, at, section, nodes, current, config>>
    PROVE  ReadInv'
<1>1. FileInv'
  <2>1. SectionLines(at - 1)' = SectionLines(at - 1)
    BY Zenon DEF SectionLines
  <2>2. SectionAt(at - 1)' = SectionAt(at - 1)
    BY Zenon, <2>1 DEF SectionAt
  <2> QED BY Zenon, <2>2 DEF ReadInv, FileInv
<1>2. FieldsInv' /\ LimitsInv'
  <2>1. ASSUME NEW field
        PROVE  FieldSays(field)' = FieldSays(field)
    <3>1. Says(field)' = Says(field)
      BY LinesSame
    <3> QED BY Zenon, <3>1 DEF FieldSays
  <2> QED BY Zenon, <2>1 DEF ReadInv, FieldsInv, LimitsInv
<1>3. NodesInv'
  <2>1. ASSUME NEW n, NodeInv(n)
        PROVE  NodeInv(n)'
    <3>1. ASSUME NEW key
          PROVE  NodeSays(n, key)' = NodeSays(n, key)
      <4>1. SaysOf(n, key)' = SaysOf(n, key)
        BY LinesSame
      <4> QED BY Zenon, <4>1 DEF NodeSays
    <3>2. Item(n)' = Item(n) /\ Items' = Items /\ \A i : Ends(i)' = Ends(i)
      BY LinesSame
    <3>3. Closed(n)' <=> Closed(n)
      BY Zenon, <3>2 DEF Closed
    <3> QED BY Zenon, <2>1, <3>1, <3>2, <3>3 DEF NodeInv
  <2>2. Before(Items, at)' = Before(Items, at) /\ NodeValue' = NodeValue
    BY Zenon, LinesSame
  <2> QED BY Zenon, <2>1, <2>2 DEF ReadInv, NodesInv
<1> QED BY <1>1, <1>2, <1>3 DEF ReadInv

LEMMA ValidateStutter ==
    ASSUME UNCHANGED <<nodes, config>>
    PROVE  validate' <=> validate
<1>1. nodes' = nodes /\ config' = config
  OBVIOUS
<1>2. /\ Distinct(Ids)' <=> Distinct(Ids)
      /\ Distinct(RaftEndpoints)' <=> Distinct(RaftEndpoints)
      /\ Distinct(ClientEndpoints)' <=> Distinct(ClientEndpoints)
  BY Zenon, <1>1 DEF Distinct, Ids, RaftEndpoints, ClientEndpoints
<1>3. NodesValid' <=> NodesValid
  BY Zenon, <1>1, <1>2 DEF NodesValid
<1>4. LocalNodeValid' <=> LocalNodeValid
  BY Zenon, <1>1 DEF LocalNodeValid, find_node
<1>5. \A field : Number(field)' = Number(field)
  BY Zenon, <1>1 DEF Number
<1> QED BY Zenon, <1>1, <1>3, <1>4, <1>5 DEF validate

LEMMA LoadInitially ==
    ASSUME LoadInit
    PROVE  LoadInv
<1>1. /\ lines \in Seq({lines[i] : i \in DOMAIN lines}) /\ at = 1
      /\ nodes = <<>> /\ current = FALSE /\ config = ConfigDefault
  BY Zenon, FileAssumption DEF LoadInit
<1>2. FileInv
  <2>1. at \in 1 .. Len(lines) + 1 /\ 1 .. at - 1 = {}
    BY <1>1
  <2>2. SectionLines(at - 1) = {}
    BY Zenon, <2>1 DEF SectionLines
  <2>3. SectionAt(at - 1) = section
    BY Zenon, <2>2 DEF SectionAt, LoadInit
  <2> QED BY Zenon, <1>1, <2>1, <2>3 DEF FileInv
<1>3. \A i \in DOMAIN lines : ~(i < at)
  BY <1>1, <1>2, LineFacts
<1>4. FieldsInv
  <2>1. \A field : Before(Says(field), at) = {}
    BY Zenon, <1>3 DEF Before, Says
  <2> QED BY Zenon, <1>1, <2>1 DEF FieldsInv, FieldSays, Field
<1>5. LimitsInv
  <2>1. \A field \in Fields(Numeric) :
            ConfigDefault[field] = Numeric[field[1]][field[2]].default
    BY Zenon DEF ConfigDefault
  <2> QED BY Zenon, <1>1, <2>1 DEF LimitsInv
<1>6. NodesInv
  <2>1. Before(Items, at) = {}
    BY Zenon, <1>3 DEF Before, Items
  <2>2. Cardinality({}) = 0
    BY FS_EmptySet
  <2>3. nodes \in Seq([Key -> NodeValue]) /\ Len(nodes) = 0 /\ 1 .. Len(nodes) = {}
    BY <1>1
  <2> QED BY Zenon, <1>1, <2>1, <2>2, <2>3 DEF NodesInv
<1>7. loading = "reading"
  BY Zenon DEF LoadInit
<1> QED BY <1>2, <1>4, <1>5, <1>6, <1>7 DEF LoadInv, ReadInv

LEMMA LoadKeeps ==
    ASSUME LoadInv, load
    PROVE  LoadInv'
<1> USE DEF LoadInv
<1>1. CASE openFails \/ lineThrows
  <2>1. loading' = "thrown"
    BY <1>1 DEF openFails, lineThrows
  <2> QED BY <2>1
<1>2. CASE blankLine
  <2>1. nextLine /\ ReadInv
    BY <1>2 DEF blankLine, nextLine
  <2>2. loading' = "reading" /\ ReadInv'
    BY <1>2, <2>1, NextLine, BlankKeeps
  <2> QED BY <2>2
<1>3. CASE sectionLine
  <2>1. nextLine /\ ReadInv
    BY <1>3 DEF sectionLine, nextLine
  <2>2. /\ lines[at].kind = "section" /\ section' = lines[at].key /\ current' = FALSE
        /\ UNCHANGED <<nodes, config>>
    BY <1>3 DEF sectionLine, Line
  <2>3. Advances /\ loading' = "reading"
    BY <2>1, NextLine
  <2>4. section' = SectionAt(at)
    BY <2>1, <2>2, <2>3, SectionNext DEF ReadInv
  <2>5. ReadInv'
    BY Zenon, <2>1, <2>2, <2>3, <2>4, HeadingKeeps
  <2> QED BY <2>3, <2>5
<1>4. CASE nodesLine
  <2>1. nextLine /\ ReadInv
    BY <1>4 DEF nodesLine, nextLine
  <2>2. /\ lines[at].kind = "nodes" /\ section' = section /\ current' = FALSE
        /\ UNCHANGED <<nodes, config>>
    BY <1>4 DEF nodesLine, Line
  <2>3. Advances /\ loading' = "reading"
    BY <2>1, NextLine
  <2>4. section' = SectionAt(at)
    BY <2>1, <2>2, <2>3, SectionNext DEF ReadInv
  <2>5. ReadInv'
    BY Zenon, <2>1, <2>2, <2>3, <2>4, HeadingKeeps
  <2> QED BY <2>3, <2>5
<1>5. CASE itemLine
  <2>1. nextLine /\ ReadInv
    BY <1>5 DEF itemLine, nextLine
  <2>2. loading' = "reading" /\ ReadInv'
    BY <1>5, <2>1, NextLine, ItemKeeps
  <2> QED BY <2>2
<1>6. CASE nodeLine
  <2>1. nextLine /\ ReadInv
    BY <1>6 DEF nodeLine, nextLine
  <2>2. loading' = "reading" /\ ReadInv'
    BY <1>6, <2>1, NextLine, NodeLineKeeps
  <2> QED BY <2>2
<1>7. CASE fieldLine
  <2>1. nextLine /\ ReadInv
    BY <1>7 DEF fieldLine, nextLine
  <2>2. loading' = "reading" /\ ReadInv'
    BY <1>7, <2>1, NextLine, FieldKeeps
  <2> QED BY <2>2
<1>8. CASE endOfFile
  <2>1. /\ loading = "reading" /\ at > Len(lines)
        /\ loading' = IF validate THEN "accepted" ELSE "thrown"
        /\ UNCHANGED <<lines, at, section, nodes, current, config>>
    BY <1>8 DEF endOfFile
  <2>2. ReadInv /\ at = Len(lines) + 1
    BY <2>1, LineFacts DEF ReadInv, FileInv
  <2>3. ReadInv'
    BY <2>1, <2>2, ReadStutter
  <2>4. validate' <=> validate
    BY <2>1, ValidateStutter
  <2> QED BY Zenon, <2>1, <2>2, <2>3, <2>4
<1> QED BY <1>1, <1>2, <1>3, <1>4, <1>5, <1>6, <1>7, <1>8 DEF load

LEMMA LoadStutter ==
    ASSUME LoadInv, UNCHANGED loadVars
    PROVE  LoadInv'
<1>1. UNCHANGED <<lines, at, section, nodes, current, config, loading>>
  BY DEF loadVars
<1>2. ReadInv => ReadInv'
  BY <1>1, ReadStutter
<1>3. validate' <=> validate
  BY <1>1, ValidateStutter
<1> QED BY Zenon, <1>1, <1>2, <1>3 DEF LoadInv

LEMMA LoadStep ==
    ASSUME LoadInv, [ProcessNext]_allVars
    PROVE  LoadInv'
<1>1. CASE Load
  BY <1>1, LoadKeeps DEF Load
<1>2. CASE construct
  <2>1. loading' = "done"
    BY Zenon, <1>2 DEF construct
  <2> QED BY <2>1 DEF LoadInv
<1>3. CASE ~Load /\ ~construct
  <2>1. UNCHANGED loadVars
    BY Zenon, <1>3 DEF ProcessNext, Main, Threads, allVars, handle_signal, system_exit,
           loaded, loadThrows, start_raft, start_server, startServerThrows, poll,
           stop_server, server_stopped, stop_raft, flush, checkpoint, stopRaftThrows,
           return
  <2> QED BY <2>1, LoadStutter
<1> QED BY <1>1, <1>2, <1>3

\* LoadInv holds in every reachable state of ServerProcess
THEOREM LoadInvariant == ProcessSpec => []LoadInv
<1>1. ProcessInit => LoadInv
  BY LoadInitially DEF ProcessInit
<1>2. LoadInv /\ [ProcessNext]_allVars => LoadInv'
  BY LoadStep
<1> QED BY <1>1, <1>2, PTL DEF ProcessSpec

\* Config::load gives every field what the last line about it in its own section
\* says, and every node what its own lines say, whatever the file
THEOREM FieldsAsWrittenCorrect == ProcessSpec => []FieldsAsWritten
<1>1. ASSUME LoadInv, loading = "accepted"
      PROVE  /\ DOMAIN config = Field
             /\ \A field \in Field :
                    config[field] =
                        IF Says(field) = {} THEN ConfigDefault[field]
                        ELSE Assigned(field, lines[Highest(Says(field))].value)
             /\ Len(nodes) = Cardinality(Items)
             /\ \A n \in DOMAIN nodes, key \in Key :
                    nodes[n][key] =
                        IF SaysOf(n, key) = {} THEN NodeDefault[key]
                        ELSE lines[Highest(SaysOf(n, key))].value
  <2>1. FileInv /\ FieldsInv /\ NodesInv /\ at = Len(lines) + 1
    BY <1>1 DEF LoadInv, ReadInv
  <2>2. Len(lines) \in Nat /\ DOMAIN lines = 1 .. Len(lines) /\ \A i \in Items : i \in Int
    BY <2>1, LineFacts
  <2>3. \A i \in DOMAIN lines : i < at
    BY <2>1, <2>2
  <2>4. \A field : Before(Says(field), at) = Says(field)
    BY Zenon, <2>3 DEF Before, Says
  <2>5. Before(Items, at) = Items
    BY Zenon, <2>3 DEF Before, Items
  <2>6. DOMAIN nodes = 1 .. Len(nodes)
    BY <2>1 DEF NodesInv
  <2>7. ASSUME NEW n \in DOMAIN nodes, NEW key \in Key
        PROVE  nodes[n][key] = IF SaysOf(n, key) = {} THEN NodeDefault[key]
                               ELSE lines[Highest(SaysOf(n, key))].value
    <3>1. NodeInv(n)
      BY <2>1, <2>6 DEF NodesInv
    <3>2. \A i \in Item(n) .. Len(lines) : i < at
      <4>1. PICK k : k = Item(n)
        OBVIOUS
      <4>2. k \in Int
        BY <2>2, <3>1, <4>1 DEF NodeInv
      <4>3. \A i \in k .. Len(lines) : i < at
        BY <2>1, <2>2, <4>2
      <4> QED BY Zenon, <4>1, <4>3
    <3>3. Before(SaysOf(n, key), at) = SaysOf(n, key)
      BY Zenon, <3>2 DEF Before, SaysOf
    <3> QED BY Zenon, <3>1, <3>3 DEF NodeInv, NodeSays
  <2> QED BY Zenon, <2>1, <2>4, <2>5, <2>7 DEF FieldsInv, FieldSays, NodesInv
<1>2. LoadInv => FieldsAsWritten
  BY Zenon, <1>1 DEF FieldsAsWritten, Key
<1> QED BY <1>2, LoadInvariant, PTL

-----------------------------------------------------------------------------
(* What Config::validate leaves *)

\* As many values as nodes, if no two nodes have the same
LEMMA DistinctValues ==
    ASSUME NEW L \in Nat, NEW f, NEW V,
           V = {f[i] : i \in 1 .. L},
           \A i, j \in 1 .. L : f[i] = f[j] => i = j
    PROVE  Cardinality(V) = L
<1> DEFINE I == 1 .. L
           g == [i \in I |-> f[i]]
<1>1. IsFiniteSet(I) /\ Cardinality(I) = L
  <2>1. IsFiniteSet(I) /\ Cardinality(I) = IF 1 > L THEN 0 ELSE L - 1 + 1
    BY FS_Interval
  <2> HIDE DEF I
  <2> QED BY <2>1
<1>2. g \in Bijection(I, V)
  <2> HIDE DEF I
  <2>1. g \in [I -> V] /\ \A i \in I : g[i] = f[i]
    BY DEF I
  <2>2. \A i, j \in I : g[i] = g[j] => i = j
    BY Zenon, <2>1 DEF I
  <2>3. \A v \in V : \E i \in I : g[i] = v
    BY Zenon, <2>1 DEF I
  <2> HIDE DEF g
  <2> QED BY Zenon, <2>1, <2>2, <2>3 DEF Bijection, Injection, Surjection, IsInjective
<1>3. ExistsBijection(I, V)
  BY Zenon, <1>2 DEF ExistsBijection
<1> HIDE DEF I
<1> QED BY <1>1, <1>3, FS_Bijection

LEMMA LocalNode ==
    ASSUME Len(nodes) \in Nat, DOMAIN nodes = 1 .. Len(nodes), Distinct(Ids), LocalNodeValid
    PROVE  Cardinality({i \in DOMAIN nodes :
                           /\ nodes[i].id = config[<<"node", "id">>]
                           /\ nodes[i].raft_port = config[<<"network", "raft_port">>]
                           /\ nodes[i].client_port = config[<<"network", "client_port">>]}) = 1
<1> DEFINE id == config[<<"node", "id">>]
           First(i) == nodes[i].id = id /\ \A j \in 1 .. i - 1 : nodes[j].id # id
<1>1. PICK k \in DOMAIN nodes : nodes[k].id = id
  BY Zenon DEF LocalNodeValid
<1>2. \A i \in DOMAIN nodes : nodes[i].id = id => i = k
  <2>1. \A i \in DOMAIN nodes : Ids[i] = nodes[i].id
    BY Zenon DEF Ids
  <2> QED BY Zenon, <1>1, <2>1 DEF Distinct
<1>3. First(k)
  <2>1. k \in Nat /\ \A j \in 1 .. k - 1 : j \in DOMAIN nodes /\ j # k
    <3>1. k \in 1 .. Len(nodes)
      BY <1>1
    <3>2. \A j \in 1 .. k - 1 : j \in 1 .. Len(nodes) /\ j # k
      BY <3>1
    <3> QED BY <3>1, <3>2
  <2> QED BY Zenon, <1>1, <1>2, <2>1
<1>4. (CHOOSE i \in DOMAIN nodes : First(i)) = k
  <2>1. \A i \in DOMAIN nodes : First(i) => i = k
    BY Zenon, <1>2
  <2> HIDE DEF First
  <2> QED BY Zenon, <1>1, <1>3, <2>1
<1>5. find_node(id) = nodes[k]
  BY Zenon, <1>4 DEF find_node
<1>6. /\ nodes[k].raft_port = config[<<"network", "raft_port">>]
      /\ nodes[k].client_port = config[<<"network", "client_port">>]
  BY Zenon, <1>5 DEF LocalNodeValid
<1>7. {i \in DOMAIN nodes :
          /\ nodes[i].id = id
          /\ nodes[i].raft_port = config[<<"network", "raft_port">>]
          /\ nodes[i].client_port = config[<<"network", "client_port">>]} = {k}
  BY Zenon, <1>1, <1>2, <1>6
<1> QED BY Zenon, <1>7, FS_Singleton

\* The fields other parts use as numbers are numbers, above the limits of the table
LEMMA NumberLimits ==
    ASSUME LimitsInv
    PROVE  /\ Number(<<"raft", "heartbeat_ms">>) \in Int
           /\ Number(<<"raft", "heartbeat_ms">>) >= 10
           /\ Number(<<"raft", "election_timeout_lower_ms">>) \in Int
           /\ Number(<<"raft", "election_timeout_lower_ms">>) >= 20
           /\ Number(<<"server", "max_request_size">>) \in Int
           /\ Number(<<"server", "max_request_size">>) >= 64
           /\ Number(<<"server", "max_connections">>) \in Int
           /\ Number(<<"server", "max_connections">>) >= 1
<1>1. /\ Numeric["raft"]["heartbeat_ms"] = Bounded(10, 60000, 100)
      /\ Numeric["raft"]["election_timeout_lower_ms"] = Bounded(20, 120000, 300)
      /\ Numeric["server"]["max_request_size"] = Bounded(64, 1073741824, 1048576)
      /\ Numeric["server"]["max_connections"] = Bounded(1, 1000000, 10000)
  <2>1. Numeric["raft"]["heartbeat_ms"] = Bounded(10, 60000, 100)
    BY SMT DEF Numeric
  <2>2. Numeric["raft"]["election_timeout_lower_ms"] = Bounded(20, 120000, 300)
    BY SMT DEF Numeric
  <2>3. Numeric["server"]["max_request_size"] = Bounded(64, 1073741824, 1048576)
    BY SMT DEF Numeric
  <2>4. Numeric["server"]["max_connections"] = Bounded(1, 1000000, 10000)
    BY SMT DEF Numeric
  <2> QED BY SMT, <2>1, <2>2, <2>3, <2>4
<1>2. /\ <<"raft", "heartbeat_ms">> \in Fields(Numeric)
      /\ <<"raft", "election_timeout_lower_ms">> \in Fields(Numeric)
      /\ <<"server", "max_request_size">> \in Fields(Numeric)
      /\ <<"server", "max_connections">> \in Fields(Numeric)
  BY SMT, NumericDomain, InFields
<1>3. ASSUME NEW s, NEW key, <<s, key>> \in Fields(Numeric)
      PROVE  \/ Number(<<s, key>>) \in Numeric[s][key].range
             \/ Number(<<s, key>>) = Numeric[s][key].default.number
  <2>1. <<s, key>>[1] = s /\ <<s, key>>[2] = key
    OBVIOUS
  <2> QED BY Zenon, <1>3, <2>1 DEF LimitsInv, Number
<1>4. ASSUME NEW s, NEW key, NEW min \in Int, NEW max \in Int, NEW default \in Int,
             min <= default, <<s, key>> \in Fields(Numeric),
             Numeric[s][key] = Bounded(min, max, default)
      PROVE  Number(<<s, key>>) \in Int /\ Number(<<s, key>>) >= min
  <2>1. \/ Number(<<s, key>>) \in Bounded(min, max, default).range
        \/ Number(<<s, key>>) = Bounded(min, max, default).default.number
    BY Zenon, <1>3, <1>4
  <2> QED BY Zenon, <1>4, <2>1, BoundedLimits
<1>5. /\ Number(<<"raft", "heartbeat_ms">>) \in Int
      /\ Number(<<"raft", "heartbeat_ms">>) >= 10
  BY SMT, <1>1, <1>2, <1>4
<1>6. /\ Number(<<"raft", "election_timeout_lower_ms">>) \in Int
      /\ Number(<<"raft", "election_timeout_lower_ms">>) >= 20
  BY SMT, <1>1, <1>2, <1>4
<1>7. /\ Number(<<"server", "max_request_size">>) \in Int
      /\ Number(<<"server", "max_request_size">>) >= 64
  BY SMT, <1>1, <1>2, <1>4
<1>8. /\ Number(<<"server", "max_connections">>) \in Int
      /\ Number(<<"server", "max_connections">>) >= 1
  BY SMT, <1>1, <1>2, <1>4
<1> QED BY <1>5, <1>6, <1>7, <1>8

\* An accepted configuration fits the parts that use it: distinct members, this node
\* among them, a majority that survives a failure, a lease shorter than an election
\* timeout, limits the parser and the server accept, whatever the file
THEOREM ConfigFitsCorrect == ProcessSpec => []ConfigFits
<1>1. ASSUME LoadInv, loading = "accepted"
      PROVE  /\ Cardinality({nodes[i].id : i \in DOMAIN nodes}) = Len(nodes)
             /\ Cardinality({raft_endpoint(nodes[i]) : i \in DOMAIN nodes}) = Len(nodes)
             /\ Cardinality({client_endpoint(nodes[i]) : i \in DOMAIN nodes}) = Len(nodes)
  <2>1. NodesInv /\ validate
    BY Zenon, <1>1 DEF LoadInv, ReadInv
  <2>2. Len(nodes) \in Nat /\ DOMAIN nodes = 1 .. Len(nodes)
    BY <2>1 DEF NodesInv
  <2>3. Distinct(Ids) /\ Distinct(RaftEndpoints) /\ Distinct(ClientEndpoints)
    BY Zenon, <2>1 DEF validate, NodesValid
  <2>4. ASSUME NEW f, DOMAIN f = DOMAIN nodes, Distinct(f)
        PROVE  Cardinality({f[i] : i \in DOMAIN nodes}) = Len(nodes)
    <3>1. \A i, j \in 1 .. Len(nodes) : f[i] = f[j] => i = j
      BY Zenon, <2>2, <2>4 DEF Distinct
    <3>2. PICK L \in Nat : L = Len(nodes)
      BY Zenon, <2>2
    <3>3. PICK V : V = {f[i] : i \in 1 .. L}
      BY Zenon
    <3>4. \A i, j \in 1 .. L : f[i] = f[j] => i = j
      BY Zenon, <3>1, <3>2
    <3>5. Cardinality(V) = L
      BY <3>3, <3>4, DistinctValues
    <3> QED BY Zenon, <2>2, <3>2, <3>3, <3>5
  <2>5. {nodes[i].id : i \in DOMAIN nodes} = {Ids[i] : i \in DOMAIN nodes}
    BY Zenon DEF Ids
  <2>6. {raft_endpoint(nodes[i]) : i \in DOMAIN nodes} = {RaftEndpoints[i] : i \in DOMAIN nodes}
    BY Zenon DEF RaftEndpoints
  <2>7. {client_endpoint(nodes[i]) : i \in DOMAIN nodes}
           = {ClientEndpoints[i] : i \in DOMAIN nodes}
    BY Zenon DEF ClientEndpoints
  <2>8. /\ DOMAIN Ids = DOMAIN nodes /\ DOMAIN RaftEndpoints = DOMAIN nodes
        /\ DOMAIN ClientEndpoints = DOMAIN nodes
    BY Zenon DEF Ids, RaftEndpoints, ClientEndpoints
  <2> QED BY Zenon, <2>3, <2>4, <2>5, <2>6, <2>7, <2>8
<1>2. ASSUME LoadInv, loading = "accepted"
      PROVE  /\ Cardinality({i \in DOMAIN nodes :
                     /\ nodes[i].id = config[<<"node", "id">>]
                     /\ nodes[i].raft_port = config[<<"network", "raft_port">>]
                     /\ nodes[i].client_port = config[<<"network", "client_port">>]}) = 1
             /\ Len(nodes) \div 2 + 1 < Len(nodes)
  <2>1. NodesInv /\ validate
    BY Zenon, <1>2 DEF LoadInv, ReadInv
  <2>2. Len(nodes) \in Nat /\ DOMAIN nodes = 1 .. Len(nodes)
    BY <2>1 DEF NodesInv
  <2>3. Distinct(Ids) /\ LocalNodeValid /\ Len(nodes) >= 3
    BY Zenon, <2>1 DEF validate, NodesValid
  <2>4. Len(nodes) \div 2 + 1 < Len(nodes)
    BY <2>2, <2>3
  <2> QED BY Zenon, <2>2, <2>3, <2>4, LocalNode
<1>3. ASSUME LoadInv, loading = "accepted"
      PROVE  /\ Number(<<"raft", "election_timeout_lower_ms">>)
                  - Number(<<"raft", "heartbeat_ms">>)
                  \in 1 .. Number(<<"raft", "election_timeout_lower_ms">>) - 1
             /\ Number(<<"raft", "snapshot_distance">>)
                  > Number(<<"raft", "reserved_log_items">>)
             /\ Number(<<"server", "max_request_size">>) >= 16
             /\ Number(<<"server", "max_connections">>) >= 1
             /\ config[Password] # Text("")
  <2>1. LimitsInv /\ validate
    BY Zenon, <1>3 DEF LoadInv, ReadInv
  <2>2. /\ Number(<<"raft", "heartbeat_ms">>) < Number(<<"raft", "election_timeout_lower_ms">>)
        /\ Number(<<"raft", "snapshot_distance">>) > Number(<<"raft", "reserved_log_items">>)
        /\ config[Password] # Text("")
    BY Zenon, <2>1 DEF validate
  <2>3. /\ Number(<<"raft", "election_timeout_lower_ms">>)
             - Number(<<"raft", "heartbeat_ms">>)
             \in 1 .. Number(<<"raft", "election_timeout_lower_ms">>) - 1
        /\ Number(<<"server", "max_request_size">>) >= 16
        /\ Number(<<"server", "max_connections">>) >= 1
    <3>1. Number(<<"raft", "heartbeat_ms">>) < Number(<<"raft", "election_timeout_lower_ms">>)
      BY Zenon, <2>2
    <3> QED BY <2>1, <3>1, NumberLimits
  <2> QED BY Zenon, <2>2, <2>3
<1>4. LoadInv => ConfigFits
  BY Zenon, <1>1, <1>2, <1>3 DEF ConfigFits
<1> QED BY <1>4, LoadInvariant, PTL

=============================================================================
