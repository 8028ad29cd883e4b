------------------------------ MODULE RaftNode ------------------------------
(***************************************************************************)
(* RaftNode (src/raft/raft_node.cpp) on one node: client threads in submit *)
(* and linearizable_get, the proposal worker and the read worker with      *)
(* their queues, and stop().  NuRaft appears through the calls RaftNode    *)
(* makes: who leads, what is committed cluster-wide, and how far this      *)
(* node's state machine has applied it.                                    *)
(*                                                                         *)
(* A value read is represented by the number of entries applied when it    *)
(* was read; a write's result by the log index it was computed for.        *)
(***************************************************************************)
EXTENDS Integers, Sequences, FiniteSets

CONSTANTS
    Writer,      \* client threads, each calling submit once
    Reader,      \* client threads, each calling linearizable_get once
    MaxBatch,    \* kMaximumProposalBatch and kMaximumReadBatch
    CacheLimit,  \* kMaximumCachedResults of the state machine
    Failures,    \* the cmd_result_codes with which an append may fail
    MayStop,     \* TRUE: stop() may be called at any time
    MaxTerm,     \* bound: times this node becomes leader
    MaxLog       \* bound: other leaders stop committing at this length

Caller == Writer \cup Reader

\* The read worker's own proposal, and log entries nobody here waits for
Barrier == "barrier"
Config == "config"
Foreign == "foreign"
Request == Caller \cup {Barrier}
LogEntry == Writer \cup {Barrier, Config, Foreign}

ASSUME ConstantsAssumption ==
    /\ Writer \cap Reader = {}
    /\ {Barrier, Config, Foreign} \cap Caller = {}
    /\ MaxBatch \in Nat \ {0}
    /\ CacheLimit \in Nat \ {0}
    /\ Failures \subseteq {"NOT_LEADER", "TERM_MISMATCH", "TIMEOUT", "CANCELLED",
                           "RESULT_NOT_EXIST_YET", "FAILED", "BAD_REQUEST"}
    /\ Failures # {}
    /\ MayStop \in BOOLEAN
    /\ MaxTerm \in Nat
    /\ MaxLog \in Nat

VARIABLES
    running,     \* running_
    stopping,    \* how far stop() has come
    proposals,   \* proposal_queue_, proposal_stopping_, and its worker
    reads,       \* the same for reads
    call,        \* append_entries_ext under way: expected_term_, log_indexes
    phase,       \* where each request is
    outcome,     \* what its promise was set to
    value,       \* the index or applied count that came with it
    leaseTerm,   \* the term linearizable_get started in
    seen,        \* history: the last acknowledged write when a read began
    acked,       \* history: the highest log index acknowledged to a client
    role,        \* "leader", "stale" (deposed, not yet aware) or "follower"
    term, leaderStart,     \* get_term, get_log_idx_at_becoming_leader
    log,         \* the committed log of the cluster
    inflight,    \* this node's entries behind it, not committed yet
    known,       \* get_committed_log_idx
    applied,     \* last_commit_index of the state machine
    cached       \* indexes in recent_results_

clients == <<phase, outcome, value, leaseTerm, seen, acked>>
raft == <<role, term, leaderStart, log, inflight, known, applied, cached>>
vars == <<running, stopping, proposals, reads, call, clients, raft>>

StopSteps == <<"none", "flagged", "reads", "proposals", "stopped">>

Worker(Item, Pc) ==
    [queue : Seq(Item), stopping : BOOLEAN, pc : Pc, batch : Seq(Item)]

TypeOK ==
    /\ running \in BOOLEAN
    /\ stopping \in {StopSteps[i] : i \in DOMAIN StopSteps}
    /\ proposals \in Worker(Writer \cup {Barrier},
                            {"waiting", "collecting", "got", "appended", "exited"})
    /\ reads \in Worker(Reader,
                        {"waiting", "collecting", "got", "exited"})
    /\ call \in [term : Nat, indexes : Seq(Nat)]
    /\ phase \in [Request -> {"new", "checked", "leased", "read", "queued", "done"}]
    /\ outcome \in [Request -> {"none", "ok", "not_leader", "timeout",
                                "unavailable", "rejected"}]
    /\ value \in [Request -> Nat]
    /\ leaseTerm \in [Reader -> Nat]
    /\ seen \in [Reader -> Nat]
    /\ acked \in Nat
    /\ role \in {"leader", "stale", "follower"}
    /\ term \in Nat
    /\ leaderStart \in Nat
    /\ log \in Seq(LogEntry)
    /\ inflight \in Seq(LogEntry)
    /\ known \in 0 .. Len(log)
    /\ applied \in 0 .. known
    /\ cached \subseteq 1 .. applied

-----------------------------------------------------------------------------
(* Completing requests *)

is_leader == role \in {"leader", "stale"}

Items(s) == {s[k] : k \in DOMAIN s}

\* completion.set_value for every request in S
Answer(S, result) ==
    /\ outcome' = [c \in Request |-> IF c \in S THEN result ELSE outcome[c]]
    /\ phase' = [c \in Request |-> IF c \in S THEN "done" ELSE phase[c]]

map_status(code) ==
    CASE code \in {"NOT_LEADER", "TERM_MISMATCH"} -> "not_leader"
      [] code = "TIMEOUT" -> "timeout"
      [] code \in {"CANCELLED", "RESULT_NOT_EXIST_YET", "FAILED"} -> "unavailable"
      [] OTHER -> "rejected"

\* What submit and linearizable_get return without queueing anything
Refusal == IF ~running THEN "unavailable" ELSE "not_leader"
Refused == ~running \/ ~is_leader

-----------------------------------------------------------------------------
(* submit, called by a client thread or, for the barrier, the read worker *)

submitChecks(c) ==
    \/ /\ Refused
       /\ Answer({c}, Refusal)
    \/ /\ ~Refused
       /\ phase' = [phase EXCEPT ![c] = "checked"]
       /\ UNCHANGED outcome

\* Under proposal_mutex_
submitEnqueues(c) ==
    IF proposals.stopping \/ ~running
    THEN /\ Answer({c}, "unavailable")
         /\ UNCHANGED proposals
    ELSE /\ proposals' = [proposals EXCEPT !.queue = Append(@, c)]
         /\ phase' = [phase EXCEPT ![c] = "queued"]
         /\ UNCHANGED outcome

submit(c) ==
    /\ phase[c] = "new"
    /\ submitChecks(c)
    /\ UNCHANGED <<running, stopping, proposals, reads, call, value,
                   leaseTerm, seen, acked, raft>>

submitQueues(c) ==
    /\ phase[c] = "checked"
    /\ submitEnqueues(c)
    /\ UNCHANGED <<running, stopping, reads, call, value, leaseTerm, seen,
                   acked, raft>>

-----------------------------------------------------------------------------
(* linearizable_get *)

\* Mutant: being committed is taken for being applied
has_valid_read_lease_unapplied(t) ==
    /\ role = "leader"
    /\ term = t
    /\ leaderStart <= known

\* Freshness of a quorum is taken to imply that no other leader exists yet,
\* which is the timing argument of the lease
has_valid_read_lease(t) ==
    /\ role = "leader"
    /\ term = t
    /\ leaderStart <= known
    /\ leaderStart <= applied

linearizable_get(c) ==
    /\ phase[c] = "new"
    /\ seen' = [seen EXCEPT ![c] = acked]
    /\ leaseTerm' = [leaseTerm EXCEPT ![c] = term]
    /\ submitChecks(c)
    /\ UNCHANGED <<running, stopping, proposals, reads, call, value, acked,
                   raft>>

\* The first lease check; without a lease, or with lease reads disabled, the
\* request stays "checked" and takes the barrier path
leaseHolds(c) ==
    /\ phase[c] = "checked"
    /\ has_valid_read_lease(leaseTerm[c])
    /\ phase' = [phase EXCEPT ![c] = "leased"]
    /\ UNCHANGED <<running, stopping, proposals, reads, call, outcome,
                   value, leaseTerm, seen, acked, raft>>

get(c) ==
    /\ phase[c] = "leased"
    /\ value' = [value EXCEPT ![c] = applied]
    /\ phase' = [phase EXCEPT ![c] = "read"]
    /\ UNCHANGED <<running, stopping, proposals, reads, call, outcome,
                   leaseTerm, seen, acked, raft>>

leaseStillHolds(c) ==
    /\ phase[c] = "read"
    /\ has_valid_read_lease(leaseTerm[c])
    /\ Answer({c}, "ok")
    /\ UNCHANGED <<running, stopping, proposals, reads, call, value,
                   leaseTerm, seen, acked, raft>>

\* Mutant: the queue is joined without a look at read_stopping_
queueRead_unchecked(c) ==
    /\ phase[c] = "checked"
    /\ reads' = [reads EXCEPT !.queue = Append(@, c)]
    /\ phase' = [phase EXCEPT ![c] = "queued"]
    /\ UNCHANGED <<running, stopping, proposals, call, outcome, value,
                   leaseTerm, seen, acked, raft>>

\* The barrier path, also when the second check has failed
queueRead(c) ==
    /\ \/ phase[c] = "checked"
       \/ phase[c] = "read" /\ ~has_valid_read_lease(leaseTerm[c])
    /\ IF reads.stopping \/ ~running
       THEN /\ Answer({c}, "unavailable")
            /\ UNCHANGED reads
       ELSE /\ reads' = [reads EXCEPT !.queue = Append(@, c)]
            /\ phase' = [phase EXCEPT ![c] = "queued"]
            /\ UNCHANGED outcome
    /\ UNCHANGED <<running, stopping, proposals, call, value, leaseTerm,
                   seen, acked, raft>>

-----------------------------------------------------------------------------
(* The workers. Both wait for work, let a batch collect for a moment with the *)
(* mutex released, and take what is then at the head of the queue.            *)

Idle(w) == [w EXCEPT !.pc = "waiting", !.batch = <<>>]

\* Mutant: the wait ends for work only
Wakes_forWork(w, next) ==
    /\ w.pc = "waiting"
    /\ w.queue # <<>>
    /\ next = [w EXCEPT !.pc = "collecting"]

Wakes(w, next) ==
    /\ w.pc = "waiting"
    /\ w.stopping \/ w.queue # <<>>
    /\ next = [w EXCEPT !.pc = IF w.queue = <<>> THEN "exited" ELSE "collecting"]

Takes(w, next) ==
    LET n == IF Len(w.queue) < MaxBatch THEN Len(w.queue) ELSE MaxBatch
    IN  /\ w.pc = "collecting"
        /\ next = [w EXCEPT !.pc = "got",
                           !.batch = SubSeq(w.queue, 1, n),
                           !.queue = SubSeq(w.queue, n + 1, Len(w.queue))]

proposal_worker ==
    /\ Wakes(proposals, proposals') \/ Takes(proposals, proposals')
    /\ UNCHANGED <<running, stopping, reads, call, clients, raft>>

NoCall == [term |-> 0, indexes |-> <<>>]

\* An empty batch (stop() took the queue), or a node that no longer leads
process_proposal_batchFails ==
    /\ proposals.pc = "got"
    /\ proposals.batch = <<>> \/ ~is_leader
    /\ Answer(Items(proposals.batch), "not_leader")
    /\ proposals' = Idle(proposals)
    /\ UNCHANGED <<running, stopping, reads, call, value, leaseTerm, seen,
                   acked, raft>>

\* append_entries_ext, given the index behind which the batch goes. A deposed
\* leader that does not know it yet appends to its own log only, at indexes
\* that other entries will take.
appendBehind(last) ==
    /\ proposals.pc = "got"
    /\ proposals.batch # <<>>
    /\ is_leader
    /\ call' = [term    |-> term,
                indexes |-> [k \in DOMAIN proposals.batch |-> last + k]]
    /\ inflight' = IF role = "leader" THEN inflight \o proposals.batch
                   ELSE inflight
    /\ proposals' = [proposals EXCEPT !.pc = "appended"]
    /\ UNCHANGED <<running, stopping, reads, clients, role, term, leaderStart,
                   log, known, applied, cached>>

LastIndex == IF role = "leader" THEN Len(log) + Len(inflight) ELSE known

\* Mutant: log_indexes starts at the entry before the batch
process_proposal_batch_offByOne == appendBehind(LastIndex - 1)

process_proposal_batch == appendBehind(LastIndex)

\* The call returns OK once the node that is still leader has applied the
\* batch; then take_result is called for each index
appendReturns ==
    LET batch == proposals.batch
        taken == {k \in DOMAIN batch : call.indexes[k] \in cached}
        ok == {batch[k] : k \in taken}
        indexOf(c) == call.indexes[CHOOSE k \in DOMAIN batch : batch[k] = c]
    IN  /\ proposals.pc = "appended"
        /\ is_leader /\ term = call.term
        /\ call.indexes[Len(batch)] <= applied
        /\ outcome' = [c \in Request |->
                          IF c \in ok THEN "ok"
                          ELSE IF c \in Items(batch) THEN "unavailable"
                          ELSE outcome[c]]
        /\ phase' = [c \in Request |->
                        IF c \in Items(batch) THEN "done" ELSE phase[c]]
        /\ value' = [c \in Request |->
                        IF c \in ok THEN indexOf(c) ELSE value[c]]
        /\ acked' = LET new == {indexOf(c) : c \in ok \ {Barrier}}
                    IN  CHOOSE i \in new \cup {acked} :
                            \A j \in new \cup {acked} : j <= i
        /\ cached' = cached \ {call.indexes[k] : k \in taken}
        /\ proposals' = Idle(proposals)
        /\ call' = NoCall
        /\ UNCHANGED <<running, stopping, reads, leaseTerm, seen, role,
                       term, leaderStart, log, inflight, known, applied>>

\* Mutant: no return after fail_all
appendFails_goesOn ==
    /\ proposals.pc = "appended"
    /\ \E code \in Failures : Answer(Items(proposals.batch), map_status(code))
    /\ UNCHANGED <<running, stopping, proposals, reads, call, value, leaseTerm,
                   seen, acked, raft>>

\* The entries may still get committed
appendFails ==
    /\ proposals.pc = "appended"
    /\ \E code \in Failures : Answer(Items(proposals.batch), map_status(code))
    /\ proposals' = Idle(proposals)
    /\ call' = NoCall
    /\ UNCHANGED <<running, stopping, reads, value, leaseTerm, seen,
                   acked, raft>>

read_worker ==
    /\ Wakes(reads, reads') \/ Takes(reads, reads')
    /\ UNCHANGED <<running, stopping, proposals, call, clients, raft>>

\* The worker submits one barrier for its batch, an empty one included
readBarrier ==
    /\ reads.pc = "got"
    /\ submit(Barrier) \/ submitQueues(Barrier)

\* get_many, or the barrier's failure, for the whole batch; the next batch has
\* a barrier of its own
answerReads ==
    LET batch == Items(reads.batch)
    IN  /\ reads.pc = "got"
        /\ phase[Barrier] = "done"
        /\ outcome' = [c \in Request |->
                          IF c \in batch THEN outcome[Barrier]
                          ELSE IF c = Barrier THEN "none" ELSE outcome[c]]
        /\ phase' = [c \in Request |->
                        IF c \in batch THEN "done"
                        ELSE IF c = Barrier THEN "new" ELSE phase[c]]
        /\ value' = [c \in Request |->
                        IF c \in batch /\ outcome[Barrier] = "ok"
                        THEN applied ELSE value[c]]
        /\ reads' = Idle(reads)
        /\ UNCHANGED <<running, stopping, proposals, call, leaseTerm, seen,
                       acked, raft>>

-----------------------------------------------------------------------------
(* stop *)

stop ==
    /\ MayStop
    /\ stopping = "none"
    /\ stopping' = "flagged"
    /\ running' = FALSE
    /\ UNCHANGED <<proposals, reads, call, clients, raft>>

Rejected(w) == [w EXCEPT !.stopping = TRUE, !.queue = <<>>]

stop_workersReads ==
    /\ stopping = "flagged"
    /\ stopping' = "reads"
    /\ reads' = Rejected(reads)
    /\ Answer(Items(reads.queue), "unavailable")
    /\ UNCHANGED <<running, proposals, call, value, leaseTerm, seen, acked,
                   raft>>

stop_workersProposals ==
    /\ stopping = "reads"
    /\ stopping' = "proposals"
    /\ proposals' = Rejected(proposals)
    /\ Answer(Items(proposals.queue), "unavailable")
    /\ UNCHANGED <<running, reads, call, value, leaseTerm, seen, acked, raft>>

\* Both threads are joined; then NuRaft is shut down and server_ reset
stop_workersJoins ==
    /\ stopping = "proposals"
    /\ reads.pc = "exited" /\ proposals.pc = "exited"
    /\ stopping' = "stopped"
    /\ UNCHANGED <<running, proposals, reads, call, clients, raft>>

-----------------------------------------------------------------------------
(* NuRaft *)

Alive == stopping # "stopped"
Rest == <<running, stopping, proposals, reads, call, clients>>

\* A new leader has every committed entry, and appends a configuration entry
BecomeLeader ==
    /\ Alive
    /\ role = "follower"
    /\ term < MaxTerm
    /\ role' = "leader"
    /\ term' = term + 1
    /\ leaderStart' = Len(log) + 1
    /\ inflight' = <<Config>>
    /\ UNCHANGED <<Rest, log, known, applied, cached>>

CommitEntry ==
    /\ Alive
    /\ role = "leader"
    /\ inflight # <<>>
    /\ log' = Append(log, Head(inflight))
    /\ inflight' = Tail(inflight)
    /\ known' = Len(log) + 1
    /\ UNCHANGED <<Rest, role, term, leaderStart, applied, cached>>

\* Another node is elected; this one finds out later
Depose ==
    /\ role = "leader"
    /\ role' = "stale"
    /\ UNCHANGED <<Rest, term, leaderStart, log, inflight, known, applied,
                   cached>>

StepDown ==
    /\ role = "stale"
    /\ role' = "follower"
    /\ UNCHANGED <<Rest, term, leaderStart, log, inflight, known, applied,
                   cached>>

\* The other leader may have this node's entries and commit them
InheritEntry ==
    /\ role # "leader"
    /\ inflight # <<>>
    /\ log' = Append(log, Head(inflight))
    /\ inflight' = Tail(inflight)
    /\ UNCHANGED <<Rest, role, term, leaderStart, known, applied, cached>>

\* or commit, and acknowledge, its own in their place
ForeignCommit ==
    /\ role # "leader"
    /\ Len(log) < MaxLog
    /\ log' = Append(log, Foreign)
    /\ inflight' = <<>>
    /\ acked' = Len(log) + 1
    /\ UNCHANGED <<running, stopping, proposals, reads, call, phase, outcome,
                   value, leaseTerm, seen, role, term, leaderStart, known,
                   applied, cached>>

LearnCommit ==
    /\ Alive
    /\ role = "follower"
    /\ known < Len(log)
    /\ known' = Len(log)
    /\ UNCHANGED <<Rest, role, term, leaderStart, log, inflight, applied,
                   cached>>

\* KvStateMachine::commit or commit_config
ApplyEntry ==
    LET i == applied + 1
        results == IF log[i] = Config THEN cached ELSE cached \cup {i}
    IN  /\ Alive
        /\ applied < known
        /\ applied' = i
        /\ cached' = IF Cardinality(results) <= CacheLimit THEN results
                     ELSE results \ {CHOOSE j \in results :
                                         \A k \in results : j <= k}
        /\ UNCHANGED <<Rest, role, term, leaderStart, log, inflight, known>>

NuRaft ==
    \/ BecomeLeader \/ CommitEntry \/ Depose \/ StepDown \/ InheritEntry
    \/ ForeignCommit \/ LearnCommit \/ ApplyEntry

-----------------------------------------------------------------------------

NewWorker == [queue |-> <<>>, stopping |-> FALSE, pc |-> "waiting", batch |-> <<>>]

\* After start(), some other node leading
Init ==
    /\ running = TRUE
    /\ stopping = "none"
    /\ proposals = NewWorker
    /\ reads = NewWorker
    /\ call = NoCall
    /\ phase = [c \in Request |-> "new"]
    /\ outcome = [c \in Request |-> "none"]
    /\ value = [c \in Request |-> 0]
    /\ leaseTerm = [c \in Reader |-> 0]
    /\ seen = [c \in Reader |-> 0]
    /\ acked = 0
    /\ role = "follower"
    /\ term = 0
    /\ leaderStart = 0
    /\ log = <<>>
    /\ inflight = <<>>
    /\ known = 0
    /\ applied = 0
    /\ cached = {}

WriterStep(c) == submit(c) \/ submitQueues(c)
ReaderStep(c) ==
    \/ linearizable_get(c) \/ leaseHolds(c) \/ get(c) \/ leaseStillHolds(c)
    \/ queueRead(c)
ProposalStep ==
    \/ proposal_worker \/ process_proposal_batchFails
    \/ process_proposal_batch \/ appendReturns \/ appendFails
ReadStep == read_worker \/ readBarrier \/ answerReads
StopStep == stop_workersReads \/ stop_workersProposals \/ stop_workersJoins

Next ==
    \/ \E c \in Writer : WriterStep(c)
    \/ \E c \in Reader : ReaderStep(c)
    \/ ProposalStep
    \/ ReadStep
    \/ stop
    \/ StopStep
    \/ NuRaft

Spec == Init /\ [][Next]_vars

\* Threads are scheduled, and append_entries_ext returns: NuRaft bounds it by
\* client_req_timeout_. Nothing is assumed of elections or commits.
Fairness ==
    /\ \A c \in Writer : WF_vars(WriterStep(c))
    /\ \A c \in Reader : WF_vars(ReaderStep(c))
    /\ WF_vars(ProposalStep)
    /\ WF_vars(ReadStep)
    /\ WF_vars(StopStep)

FairSpec == Spec /\ Fairness

-----------------------------------------------------------------------------
(* Properties *)

\* A write answered OK is committed, and the result it got is the one of its
\* own log entry: batching pairs log_indexes and promises correctly, and no
\* OK comes from an index that another leader's entry has taken
OwnResult ==
    \A c \in Writer : outcome[c] = "ok" =>
        value[c] \in 1 .. Len(log) /\ log[value[c]] = c

\* A GET answered OK, by lease or by barrier, reflects every write that had
\* been acknowledged by any node when the GET began
ReadsAreFresh ==
    \A c \in Reader : outcome[c] = "ok" => seen[c] <= value[c]

\* No promise is set twice (std::future_error would end the worker thread)
AnsweredOnce ==
    [][\A c \in Caller : outcome[c] # "none" => outcome'[c] = outcome[c]]_vars

\* Every call of submit and linearizable_get returns, whatever happens to the
\* leadership and whenever stop() is called
AllAnswered == \A c \in Caller : <>(phase[c] = "done")

\* stop() returns: the joins do not wait for each other's threads
StopReturns == stopping = "flagged" ~> stopping = "stopped"

=============================================================================
