--------------------------- MODULE KvStateMachine ---------------------------
(***************************************************************************)
(* The replicated key-value state machine                                  *)
(* (src/state_machine/kv_state_machine.cpp) on one node, with the parts of *)
(* NuRaft that drive it: the committed log it is fed from, snapshot        *)
(* creation on the commit thread, snapshot installation on a network       *)
(* thread, and the compaction of the local log that follows either.        *)
(*                                                                         *)
(* A file that does not exist reads as the initial state with index 0.     *)
(***************************************************************************)
EXTENDS KvCommands, Sequences, FiniteSets, IndexMap

CONSTANTS
    Commands,       \* the commands that get replicated
    CacheLimit,     \* kMaximumCachedResults
    Reserved,       \* reserved_log_items_
    Distance,       \* snapshot_distance_
    Overlap,        \* TRUE: a snapshot may arrive while one is being created
    MaxLog,         \* bound: entries in the committed log
    MaxCrashes      \* bound: crashes and stops

ASSUME ConstantsAssumption ==
    /\ Commands \subseteq Command
    /\ \A c \in Commands : c.type = "SET" => c.value \in Value
    /\ CacheLimit \in Nat \ {0}
    /\ Reserved \in Nat
    /\ Distance \in Nat \ {0}
    /\ Overlap \in BOOLEAN
    /\ MaxLog \in Nat
    /\ MaxCrashes \in Nat

VARIABLES
    status,        \* "up" or "down"
    state,         \* state_
    recent,        \* recent_results_
    lastSnapshot,  \* index of last_snapshot_, 0 if none
    stateFile,     \* kv-state.bin
    snapshotFile,  \* snapshot/latest.bin
    creating,      \* create_snapshot on the commit thread: where it is, and
                   \* the state it has serialized
    installing,    \* save_logical_snp_obj / apply_snapshot, likewise
    log,           \* the committed entries of the cluster
    logStart,      \* first entry the node's own log store still has
    expected,      \* history: what applying the first n entries must give
    crashes        \* bound: crashes and stops so far

files == <<stateFile, snapshotFile>>
environment == <<log, expected>>
vars == <<status, state, recent, lastSnapshot, files, creating, installing,
          environment, logStart, crashes>>

Steps == {"idle", "serialized", "stored", "done", "received", "saved",
          "compacted"}

TypeOK ==
    /\ status \in {"up", "down"}
    /\ state \in StateData
    /\ IsPartial(recent, Result)
    /\ lastSnapshot \in Nat
    /\ stateFile \in StateData
    /\ snapshotFile \in StateData
    /\ creating \in [pc : Steps, image : StateData]
    /\ installing \in [pc : Steps, image : StateData]
    /\ log \in Seq(Commands)
    /\ logStart \in Nat
    /\ expected \in Seq([state : StateData, result : Result, fresh : BOOLEAN])
    /\ crashes \in Nat

-----------------------------------------------------------------------------
(* The commit thread *)

\* Mutant: results nobody collects are kept
Cap_unbounded(f) == f

Cap(f) == IF Cardinality(DOMAIN f) > CacheLimit THEN Above(f, First(f)) ELSE f

\* The next entry is there to be applied: the node's log still has it, and no
\* snapshot that replaces it is being installed (NuRaft sends one only to a
\* node whose log ends before it)
HasNext ==
    /\ status = "up"
    /\ creating.pc = "idle"
    /\ state.index < Len(log)
    /\ logStart <= state.index + 1
    /\ installing.pc = "idle" \/ state.index + 1 < installing.image.index

commit ==
    /\ HasNext
    /\ LET i == state.index + 1
           done == Commit(state, log[i], i)
       IN  /\ log[i].type # "config"
           /\ state' = done.state
           /\ recent' = Cap(Put(recent, i, done.result))
    /\ UNCHANGED <<status, lastSnapshot, files, creating, installing,
                   environment, logStart, crashes>>

\* Mutant: a configuration entry leaves last_commit_index alone
commit_config_ignored ==
    /\ HasNext
    /\ log[state.index + 1].type = "config"
    /\ UNCHANGED vars

commit_config ==
    /\ HasNext
    /\ log[state.index + 1].type = "config"
    /\ state' = [state EXCEPT !.index = @ + 1]
    /\ UNCHANGED <<status, recent, lastSnapshot, files, creating, installing,
                   environment, logStart, crashes>>

\* A proposal's caller collects its result, once
take_result(i) ==
    /\ status = "up"
    /\ i \in DOMAIN recent
    /\ recent' = [j \in DOMAIN recent \ {i} |-> recent[j]]
    /\ UNCHANGED <<status, state, lastSnapshot, files, creating, installing,
                   environment, logStart, crashes>>

\* create_snapshot serializes under the lock, writes the file without it,
\* publishes last_snapshot_ under the lock again, and reports through
\* when_done, upon which NuRaft compacts the log. NuRaft asks for a snapshot
\* at most once per applied entry, Distance entries after the last one.
create_snapshot ==
    /\ status = "up"
    /\ creating.pc = "idle"
    /\ Overlap \/ installing.pc = "idle"
    /\ state.index > creating.image.index
    /\ state.index >= lastSnapshot + Distance
    /\ creating' = [pc |-> "serialized", image |-> state]
    /\ UNCHANGED <<status, state, recent, lastSnapshot, files, installing,
                   environment, logStart, crashes>>

create_snapshotStores ==
    /\ creating.pc = "serialized"
    /\ snapshotFile' = creating.image
    /\ creating' = [creating EXCEPT !.pc = "stored"]
    /\ UNCHANGED <<status, state, recent, lastSnapshot, stateFile, installing,
                   environment, logStart, crashes>>

\* The write throws: when_done(false) and nothing else
create_snapshotFails ==
    /\ creating.pc = "serialized"
    /\ creating' = [creating EXCEPT !.pc = "idle"]
    /\ UNCHANGED <<status, state, recent, lastSnapshot, files, installing,
                   environment, logStart, crashes>>

create_snapshotPublishes ==
    /\ creating.pc = "stored"
    /\ lastSnapshot' = creating.image.index
    /\ creating' = [creating EXCEPT !.pc = "done"]
    /\ UNCHANGED <<status, state, recent, files, installing, environment,
                   logStart, crashes>>

\* FileLogStore::compact(i), as far as the state machine can tell
compact(i) == logStart' = IF i + 1 > logStart THEN i + 1 ELSE logStart

\* Mutant: the reserve is taken on the wrong side of the snapshot
when_done_wrongSide ==
    /\ creating.pc = "done"
    /\ compact(creating.image.index + Reserved)
    /\ creating' = [creating EXCEPT !.pc = "idle"]
    /\ UNCHANGED <<status, state, recent, lastSnapshot, files, installing,
                   environment, crashes>>

when_done ==
    /\ creating.pc = "done"
    /\ compact(creating.image.index - Reserved)
    /\ creating' = [creating EXCEPT !.pc = "idle"]
    /\ UNCHANGED <<status, state, recent, lastSnapshot, files, installing,
                   environment, crashes>>

-----------------------------------------------------------------------------
(* Installing a snapshot from the leader *)

\* The leader's read_logical_snp_obj: the state after some entry this node
\* has not applied, as one object
ReceiveSnapshot(i) ==
    /\ status = "up"
    /\ installing.pc = "idle"
    /\ Overlap \/ creating.pc = "idle"
    /\ state.index < i
    /\ installing' = [pc |-> "received", image |-> expected[i + 1].state]
    /\ UNCHANGED <<status, state, recent, lastSnapshot, files, creating,
                   environment, logStart, crashes>>

\* Mutant: the received object is acknowledged and not stored
save_logical_snp_obj_notStored ==
    /\ installing.pc = "received"
    /\ installing' = [installing EXCEPT !.pc = "stored"]
    /\ UNCHANGED <<status, state, recent, lastSnapshot, files, creating,
                   environment, logStart, crashes>>

save_logical_snp_obj ==
    /\ installing.pc = "received"
    /\ snapshotFile' = installing.image
    /\ installing' = [installing EXCEPT !.pc = "stored"]
    /\ UNCHANGED <<status, state, recent, lastSnapshot, stateFile, creating,
                   environment, logStart, crashes>>

save_logical_snp_objPublishes ==
    /\ installing.pc = "stored"
    /\ lastSnapshot' = installing.image.index
    /\ installing' = [installing EXCEPT !.pc = "saved"]
    /\ UNCHANGED <<status, state, recent, files, creating, environment,
                   logStart, crashes>>

\* NuRaft drops the entries the snapshot covers before it has it applied
CompactForSnapshot ==
    /\ installing.pc = "saved"
    /\ compact(installing.image.index)
    /\ installing' = [installing EXCEPT !.pc = "compacted"]
    /\ UNCHANGED <<status, state, recent, lastSnapshot, files, creating,
                   environment, crashes>>

\* apply_snapshot, given what it installs and publishes. NuRaft pauses the
\* commit thread between two entries for it.
install(image, published) ==
    /\ installing.pc = "compacted"
    /\ creating.pc = "idle"
    /\ snapshotFile.index = installing.image.index
    /\ state' = image
    /\ lastSnapshot' = published
    /\ recent' = Empty
    /\ installing' = [installing EXCEPT !.pc = "idle"]
    /\ UNCHANGED <<status, files, creating, environment, logStart, crashes>>

\* Mutants: the checkpoint is installed instead of the snapshot; last_snapshot_
\* is left to save_logical_snp_obj
apply_snapshot_fromCheckpoint == install(stateFile, snapshotFile.index)
apply_snapshot_notPublished == install(snapshotFile, lastSnapshot)

apply_snapshot == install(snapshotFile, snapshotFile.index)

-----------------------------------------------------------------------------
(* Lifecycle *)

Idle == [pc |-> "idle", image |-> InitialState]

GoDown ==
    /\ status' = "down"
    /\ state' = InitialState
    /\ recent' = Empty
    /\ lastSnapshot' = 0
    /\ creating' = Idle
    /\ installing' = Idle
    /\ UNCHANGED <<environment, logStart>>

Crash ==
    /\ status = "up"
    /\ crashes < MaxCrashes
    /\ crashes' = crashes + 1
    /\ GoDown
    /\ UNCHANGED files

\* apply_snapshot returns false and NuRaft takes the process down
apply_snapshotFails ==
    /\ installing.pc = "compacted"
    /\ creating.pc = "idle"
    /\ snapshotFile.index # installing.image.index
    /\ GoDown
    /\ UNCHANGED <<files, crashes>>

\* RaftNode::stop: NuRaft's threads are shut down first
checkpoint ==
    /\ status = "up"
    /\ creating.pc = "idle" /\ installing.pc = "idle"
    /\ crashes < MaxCrashes
    /\ crashes' = crashes + 1
    /\ stateFile' = state
    /\ GoDown
    /\ UNCHANGED snapshotFile

\* Mutant: the dedup map is not part of the image
Recovered_noDedup ==
    [(IF snapshotFile.index > stateFile.index THEN snapshotFile ELSE stateFile)
        EXCEPT !.dedup = InitialState.dedup]

\* The constructor: load_state, then load_snapshot_metadata
Recovered ==
    IF snapshotFile.index > stateFile.index THEN snapshotFile ELSE stateFile

Start ==
    /\ status = "down"
    /\ status' = "up"
    /\ state' = Recovered
    /\ lastSnapshot' = snapshotFile.index
    /\ UNCHANGED <<recent, files, creating, installing, environment,
                   logStart, crashes>>

\* The cluster commits one more entry
Replicate(c) ==
    /\ Len(log) < MaxLog
    /\ log' = Append(log, c)
    /\ expected' = Append(expected,
                      Commit(expected[Len(log) + 1].state, c, Len(log) + 1))
    /\ UNCHANGED <<status, state, recent, lastSnapshot, files, creating,
                   installing, logStart, crashes>>

Init ==
    /\ status = "down"
    /\ state = InitialState
    /\ recent = Empty
    /\ lastSnapshot = 0
    /\ stateFile = InitialState
    /\ snapshotFile = InitialState
    /\ creating = Idle
    /\ installing = Idle
    /\ log = <<>>
    /\ logStart = 1
    /\ expected = <<Answer(InitialState, Reply("ok", Absent))>>
    /\ crashes = 0

Creating ==
    \/ create_snapshotStores \/ create_snapshotFails
    \/ create_snapshotPublishes \/ when_done

Installing ==
    \/ save_logical_snp_obj \/ save_logical_snp_objPublishes
    \/ CompactForSnapshot \/ apply_snapshot \/ apply_snapshotFails

Next ==
    \/ commit \/ commit_config
    \/ \E i \in DOMAIN recent : take_result(i)
    \/ create_snapshot \/ Creating
    \/ \E i \in 1 .. Len(log) : ReceiveSnapshot(i)
    \/ Installing
    \/ Crash \/ checkpoint \/ Start
    \/ \E c \in Commands : Replicate(c)

Spec == Init /\ [][Next]_vars

\* The process is restarted when it dies, and NuRaft's threads are scheduled
Fairness ==
    /\ WF_vars(Start)
    /\ WF_vars(commit \/ commit_config)
    /\ WF_vars(Creating)
    /\ WF_vars(Installing)

FairSpec == Spec /\ Fairness

-----------------------------------------------------------------------------
(* Properties *)

\* s is what the committed log up to s.index produces
IsReplay(s) ==
    s.index <= Len(log) /\ s = expected[s.index + 1].state

\* Every copy of the state - in memory, in kv-state.bin, in latest.bin, in a
\* snapshot under way - is the result of applying the committed log, each
\* entry once and in order, up to the copy's index; whatever sequence of
\* crashes, checkpoints, snapshots and installations led to it
StateIsReplay ==
    /\ status = "up" => IsReplay(state)
    /\ IsReplay(stateFile)
    /\ IsReplay(snapshotFile)
    /\ creating.pc # "idle" => IsReplay(creating.image)
    /\ installing.pc # "idle" => IsReplay(installing.image)

\* A cached result is the one the entry at that index must give, and the
\* cache stays within kMaximumCachedResults
ResultsAreExpected ==
    /\ Cardinality(DOMAIN recent) <= CacheLimit
    /\ \A i \in DOMAIN recent :
          i <= state.index /\ recent[i] = expected[i + 1].result

Repeats(i, j) ==
    /\ is_write(log[i]) /\ is_write(log[j])
    /\ log[i].client = log[j].client
    /\ log[i].client # NoClient
    /\ log[i].request = log[j].request

\* However often a client's request is replicated, it takes effect once: after
\* an entry has performed it, another leaves every key as it was
ExactlyOnce ==
    \A i, j \in 1 .. Len(log) :
        i < j /\ Repeats(i, j) /\ expected[i + 1].fresh =>
            /\ ~expected[j + 1].fresh
            /\ expected[j + 1].state.kv = expected[j].state.kv

\* A repeat of a request that took effect is answered with the result it had,
\* unless the client has moved on to a later request
RepeatIsAnswered ==
    \A i, j \in 1 .. Len(log) :
        i < j /\ Repeats(i, j) /\ expected[i + 1].fresh =>
            expected[j + 1].result
                \in {expected[i + 1].result, Reply("stale", Absent)}

\* Whenever the process dies, the files it leaves and the local log together
\* still hold every committed entry: compaction never runs ahead of what
\* recovery starts from
ReplayPossible == logStart <= Recovered.index + 1

\* The snapshot the node advertises can be read back for a lagging peer
\* while no new one is being written
SnapshotServable ==
    status = "up" /\ creating.pc = "idle" /\ installing.pc = "idle"
        => lastSnapshot = snapshotFile.index

\* A snapshot saved for installation is the one apply_snapshot finds
SavedSnapshotApplies ==
    installing.pc \in {"stored", "saved", "compacted"}
        => snapshotFile = installing.image

\* While it serves, a node never moves back to an earlier applied index
NeverRegresses ==
    [][status = "up" /\ status' = "up" => state.index <= state'.index]_vars

\* A node keeps catching up with the committed log, through crashes and
\* snapshot installations
CatchesUp == []<>(status = "up" /\ state.index = Len(log))

=============================================================================
