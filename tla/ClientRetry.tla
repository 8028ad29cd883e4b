---------------------------- MODULE ClientRetry ----------------------------
(***************************************************************************)
(* The C++ client (src/client/client.cpp) against the cluster: command()   *)
(* numbers a write, and request_with_redirect_locked repeats it with the   *)
(* same number until a node answers something else than NOT_LEADER.  Each  *)
(* attempt reaches some node, whose CommandService submits it; what was    *)
(* submitted may get committed long after the client has given up on the   *)
(* attempt.  The replicated state is the one of KvCommands.                *)
(*                                                                         *)
(* Every call is an INCR of one key: the value that comes back tells which *)
(* execution it belongs to.                                                *)
(***************************************************************************)
EXTENDS KvCommands, FiniteSets

CONSTANTS
    TheClient,    \* client_id_
    TheKey,
    Attempts,     \* max_attempts: seeds_.size() + 3
    MaxCalls      \* bound: calls of command()

\* No client lives to count to the limit of an int64
ASSUME ClientAssumption ==
    /\ TheClient \in Client
    /\ TheKey \in Key
    /\ Attempts \in Nat \ {0}
    /\ MaxCalls \in Nat \ {0}
    /\ MaxCalls <= MaxInt

VARIABLES
    pc,          \* "idle", "connecting" or "waiting" (in request_once_locked)
    request,     \* next_request_id_, the number of the last call
    attempt,     \* number of the attempt under way
    connected,   \* socket_ is open
    stage,       \* how far each attempt has come on the server side
    reply,       \* what the server wrote to the attempt's connection
    returned,    \* what each call returned to the application
    state,       \* the replicated state
    executions   \* history: how often each request has taken effect

vars == <<pc, request, attempt, connected, stage, reply, returned, state,
          executions>>

Call == 1 .. MaxCalls
Attempt == Call \X (1 .. Attempts)
current == <<request, attempt>>

\* Responses, errors of the service included, have the shape of a result
Failure == {"not_leader", "timeout", "unavailable"}
Response ==
    [code : Code \cup Failure \cup {"nothing", "unreachable"},
     value : Value \cup {Absent}]

Nothing == Reply("nothing", Absent)

TypeOK ==
    /\ pc \in {"idle", "connecting", "waiting"}
    /\ request \in 0 .. MaxCalls
    /\ attempt \in 0 .. Attempts
    /\ connected \in BOOLEAN
    /\ stage \in [Attempt -> {"unsent", "received", "submitted", "committed"}]
    /\ reply \in [Attempt -> Response]
    /\ returned \in [Call -> Response]
    /\ state \in StateData
    /\ executions \in [Call -> Nat]

-----------------------------------------------------------------------------
(* The client *)

\* Mutant: every attempt is a request of its own
NumberOf_attempt(a) == (a[1] - 1) * Attempts + a[2]

\* The REQUEST number an attempt carries
NumberOf(a) == a[1]

command ==
    /\ pc = "idle"
    /\ request < MaxCalls
    /\ request' = request + 1
    /\ attempt' = 1
    /\ pc' = "connecting"
    /\ UNCHANGED <<connected, stage, reply, returned, state, executions>>

Return(value) ==
    /\ returned' = [returned EXCEPT ![request] = value]
    /\ pc' = "idle"
    /\ UNCHANGED <<request, attempt>>

\* Mutant: the last attempt is repeated for ever
Retry_forEver ==
    /\ connected' = FALSE
    /\ attempt' = IF attempt < Attempts THEN attempt + 1 ELSE attempt
    /\ pc' = "connecting"
    /\ UNCHANGED <<request, returned>>

\* Close the connection; try again, or give up after the last attempt
Retry ==
    /\ connected' = FALSE
    /\ IF attempt < Attempts
       THEN /\ attempt' = attempt + 1
            /\ pc' = "connecting"
            /\ UNCHANGED <<request, returned>>
       ELSE Return(Reply("unreachable", Absent))

\* An open socket is used again; otherwise the node a redirect named, or the
\* first seed that accepts
connect ==
    /\ pc = "connecting"
    /\ ~connected
    /\ connected' = TRUE
    /\ UNCHANGED <<pc, request, attempt, stage, reply, returned, state,
                   executions>>

connectFails ==
    /\ pc = "connecting"
    /\ ~connected
    /\ Retry
    /\ UNCHANGED <<stage, reply, state, executions>>

\* The write succeeds; `arrives' is FALSE if the bytes are lost with the
\* connection
request_once(arrives) ==
    /\ pc = "connecting"
    /\ connected
    /\ pc' = "waiting"
    /\ stage' = IF arrives THEN [stage EXCEPT ![current] = "received"] ELSE stage
    /\ UNCHANGED <<request, attempt, connected, reply, returned, state,
                   executions>>

\* The write or the read fails: the connection breaks, the server dies
connectionLost ==
    /\ pc = "waiting"
    /\ Retry
    /\ UNCHANGED <<stage, reply, state, executions>>

redirected ==
    /\ pc = "waiting"
    /\ reply[current].code = "not_leader"
    /\ Retry
    /\ UNCHANGED <<stage, reply, state, executions>>

\* Any other response, TIMEOUT and UNAVAILABLE included, ends the call
responded ==
    /\ pc = "waiting"
    /\ reply[current].code \notin {"nothing", "not_leader"}
    /\ Return(reply[current])
    /\ UNCHANGED <<connected, stage, reply, state, executions>>

-----------------------------------------------------------------------------
(* The node an attempt has reached, and the cluster behind it *)

\* CommandService::execute_write parses the request and calls submit
execute_write(a) ==
    /\ stage[a] = "received"
    /\ reply[a] = Nothing
    /\ stage' = [stage EXCEPT ![a] = "submitted"]
    /\ UNCHANGED <<pc, request, attempt, connected, reply, returned, state,
                   executions>>

\* submit fails, with or without the command in some leader's log
submitFails(a) ==
    /\ stage[a] \in {"received", "submitted"}
    /\ reply[a] = Nothing
    /\ \E f \in Failure : reply' = [reply EXCEPT ![a] = Reply(f, Absent)]
    /\ UNCHANGED <<pc, request, attempt, connected, stage, returned, state,
                   executions>>

\* The command is committed and applied; the node answers unless it has done
\* so already
commit(a) ==
    LET done == apply_locked(state, [type    |-> "INCR",
                                     key     |-> TheKey,
                                     value   |-> Absent,
                                     client  |-> TheClient,
                                     request |-> NumberOf(a)])
    IN  /\ stage[a] = "submitted"
        /\ stage' = [stage EXCEPT ![a] = "committed"]
        /\ state' = done.state
        /\ executions' = IF done.fresh
                         THEN [executions EXCEPT ![a[1]] = @ + 1]
                         ELSE executions
        /\ reply' = IF reply[a] = Nothing
                    THEN [reply EXCEPT ![a] = done.result] ELSE reply
        /\ UNCHANGED <<pc, request, attempt, connected, returned>>

-----------------------------------------------------------------------------

Init ==
    /\ pc = "idle"
    /\ request = 0
    /\ attempt = 0
    /\ connected = FALSE
    /\ stage = [a \in Attempt |-> "unsent"]
    /\ reply = [a \in Attempt |-> Nothing]
    /\ returned = [r \in Call |-> Nothing]
    /\ state = InitialState
    /\ executions = [r \in Call |-> 0]

Requesting ==
    \/ connect \/ connectFails
    \/ \E arrives \in BOOLEAN : request_once(arrives)
    \/ connectionLost \/ redirected \/ responded

Serving(a) == execute_write(a) \/ submitFails(a) \/ commit(a)

Next == command \/ Requesting \/ \E a \in Attempt : Serving(a)

Spec == Init /\ [][Next]_vars

\* A connection that carries nothing any more is eventually found broken, a
\* node that is up answers (RaftNode's AllAnswered), and the client runs
FairSpec == Spec /\ WF_vars(Requesting)

-----------------------------------------------------------------------------
(* Properties *)

Succeeded(r) == returned[r].code \in Code

\* However attempts are lost, repeated and reordered, a call of command()
\* takes effect at most once
AtMostOnce == \A r \in Call : executions[r] <= 1

\* A call that returns a result took effect exactly once, and the result is
\* that of its own execution: it is never told it is stale, and later calls
\* get later values
ResultIsOwn ==
    \A r \in Call : Succeeded(r) =>
        /\ executions[r] = 1
        /\ returned[r].code = "integer"
        /\ returned[r].value =
             Cardinality({q \in 1 .. r : executions[q] = 1})

\* Every call returns to the application
CallReturns == pc # "idle" ~> pc = "idle"

=============================================================================
