---------------------------- MODULE StateManager ----------------------------
(***************************************************************************)
(* FileStateManager (src/storage/file_state_manager.cpp): the files        *)
(* state.bin (term and vote) and config.bin (the cluster configuration) of *)
(* one node, written by atomic_write_file and read back at a restart, with *)
(* the NuRaft threads that call it.  The file system is the directory they *)
(* share: a rename is visible at once and on the medium after fsync of the *)
(* directory; a file is on the medium after its own fsync.                 *)
(***************************************************************************)
EXTENDS Integers, FiniteSets

CONSTANTS
    Thread,          \* NuRaft threads that save something
    Node,            \* nodes a vote may go to
    NoVote,          \* voted_for_ = -1
    NoFile,          \* a name that does not exist
    FailStop,        \* TRUE: the process ends at its first storage error
    SyncedRestart,   \* TRUE: the process is restarted after the kernel has
                     \* written the directory back
    MaxTerm,         \* bound on terms
    MaxConfig        \* bound on configuration changes

File == {"state", "config"}
State == [term : Nat, vote : Node \cup {NoVote}]
Config == [log_idx : Nat]

\* A file as far as read_checked_record can tell: whole, or some of its bytes
\* missing. synced: its bytes are on the medium
Record(value, whole, synced) ==
    [value |-> value, whole |-> whole, synced |-> synced]

ValueOf(f) == IF f = "state" THEN State ELSE Config
Image(f) == [value : ValueOf(f), whole : BOOLEAN, synced : BOOLEAN]

ASSUME ConstantsAssumption ==
    /\ NoVote \notin Node
    /\ \A f \in File : NoFile \notin Image(f)
    /\ FailStop \in BOOLEAN
    /\ SyncedRestart \in BOOLEAN
    /\ MaxTerm \in Nat
    /\ MaxConfig \in Nat

VARIABLES
    status,   \* how far the process has come in starting
    state,    \* NuRaft's srv_state in memory
    config,   \* NuRaft's cluster_config in memory
    call,     \* the write_checked_record each thread is in
    path,     \* what each of the two names refers to
    medium,   \* what it may refer to after a power loss
    temp,     \* the same name with ".tmp"
    acted,    \* history: states that other nodes may know of
    kept      \* history: the last configuration whose saving returned

files == <<path, medium, temp>>
vars == <<status, state, config, call, files, acted, kept>>

\* The steps of atomic_write_file
Steps == {"locked", "opened", "written", "synced", "renamed"}
NoCall == [step |-> "none"]
IsCall(c) ==
    /\ c = [step |-> c.step, file |-> c.file, value |-> c.value]
    /\ c.step \in Steps
    /\ c.file \in File
    /\ c.value \in ValueOf(c.file)

TypeOK ==
    /\ status \in {"down", "config", "creating", "state", "ready", "refused"}
    /\ state \in State
    /\ config \in Config
    /\ DOMAIN call = Thread
    /\ \A t \in Thread : call[t] = NoCall \/ IsCall(call[t])
    /\ \A f \in File :
          /\ path[f] \in Image(f) \cup {NoFile}
          /\ medium[f] \subseteq Image(f) \cup {NoFile}
          /\ temp[f] \in Image(f) \cup {NoFile}
    /\ DOMAIN path = File /\ DOMAIN medium = File /\ DOMAIN temp = File
    /\ acted \subseteq State
    /\ kept \in Config

-----------------------------------------------------------------------------
(* write_checked_record, that is atomic_write_file *)

\* Mutant: no lock_guard
Locked_never(f) == FALSE

\* config_mutex_ or state_mutex_ is held
Locked(f) == \E t \in Thread : call[t] # NoCall /\ call[t].file = f

write_checked_record(t, f, value) ==
    /\ call[t] = NoCall
    /\ ~Locked(f)
    /\ call' = [call EXCEPT ![t] = [step |-> "locked", file |-> f, value |-> value]]

Step(t, from, to) ==
    /\ call[t].step = from
    /\ call' = [call EXCEPT ![t].step = to]

Same == <<status, state, config, acted, kept>>

\* O_CREAT | O_TRUNC: what a crash has left under the temporary name is gone
open(t) ==
    LET f == call[t].file
    IN  /\ Step(t, "locked", "opened")
        /\ temp' = [temp EXCEPT ![f] = Record(call[t].value, FALSE, FALSE)]
        /\ UNCHANGED <<Same, path, medium>>

write_all(t) ==
    LET f == call[t].file
    IN  /\ Step(t, "opened", "written")
        /\ temp' = [temp EXCEPT ![f] = Record(call[t].value, TRUE, FALSE)]
        /\ UNCHANGED <<Same, path, medium>>

\* Mutant: close without fsync
sync_fd_closed(t) ==
    /\ Step(t, "written", "synced")
    /\ UNCHANGED <<Same, files>>

sync_fd(t) ==
    LET f == call[t].file
    IN  /\ Step(t, "written", "synced")
        /\ temp' = [temp EXCEPT ![f] = Record(call[t].value, TRUE, TRUE)]
        /\ UNCHANGED <<Same, path, medium>>

rename(t) ==
    LET f == call[t].file
    IN  /\ Step(t, "synced", "renamed")
        /\ path' = [path EXCEPT ![f] = temp[f]]
        /\ medium' = [medium EXCEPT ![f] = @ \cup {temp[f]}]
        /\ temp' = [temp EXCEPT ![f] = NoFile]
        /\ UNCHANGED Same

\* What the caller does when the write has returned: NuRaft answers with the
\* term and the vote it has saved, or uses the configuration
Saved(t) ==
    IF call[t].file = "state"
    THEN /\ acted' = acted \cup {call[t].value}
         /\ UNCHANGED <<status, state, config, kept>>
    ELSE /\ kept' = IF status = "creating" THEN kept ELSE call[t].value
         /\ config' = call[t].value
         /\ status' = IF status = "creating" THEN "state" ELSE status
         /\ UNCHANGED <<state, acted>>

\* Mutant: the directory is not synced
sync_directory_not(t) ==
    /\ call[t].step = "renamed"
    /\ Saved(t)
    /\ call' = [call EXCEPT ![t] = NoCall]
    /\ UNCHANGED files

\* Both files are in raft_log_dir: one fsync serves them all
sync_directory(t) ==
    /\ call[t].step = "renamed"
    /\ Saved(t)
    /\ call' = [call EXCEPT ![t] = NoCall]
    /\ medium' = [f \in File |-> {path[f]}]
    /\ UNCHANGED <<path, temp>>

\* The end of the process: memory and the calls under way are gone
GoDown ==
    /\ status' = "down"
    /\ call' = [t \in Thread |-> NoCall]
    /\ UNCHANGED <<state, config, acted, kept>>

\* The exception leaves the constructor of raft_server, or NuRaft's handler
Throw(t) ==
    IF FailStop \/ status = "creating"
    THEN GoDown
    ELSE call' = [call EXCEPT ![t] = NoCall] /\ UNCHANGED Same

\* open, write, fsync or rename fails. After open the temporary file is
\* removed, but an error of that is ignored.
writeFails(t) ==
    /\ call[t].step \in Steps \ {"renamed"}
    /\ Throw(t)
    /\ \/ UNCHANGED temp
       \/ /\ call[t].step # "locked"
          /\ temp' = [temp EXCEPT ![call[t].file] = NoFile]
    /\ UNCHANGED <<path, medium>>

\* The new file stays in place although the caller is told it failed
sync_directoryFails(t) ==
    /\ call[t].step = "renamed"
    /\ Throw(t)
    /\ UNCHANGED files

-----------------------------------------------------------------------------
(* Starting: the constructor of raft_server loads the configuration, then the *)
(* state                                                                      *)

InitialConfig == [log_idx |-> 0]
InitialState == [term |-> 0, vote |-> NoVote]

MayRestart == SyncedRestart => \A f \in File : medium[f] = {path[f]}

start ==
    /\ status = "down"
    /\ MayRestart
    /\ status' = "config"
    /\ UNCHANGED <<state, config, call, files, acted, kept>>

load_config(t) ==
    /\ status = "config"
    /\ IF path["config"] = NoFile
       THEN /\ write_checked_record(t, "config", InitialConfig)
            /\ status' = "creating"
            /\ UNCHANGED <<config, kept>>
       ELSE IF path["config"].whole
            THEN /\ status' = "state"
                 /\ config' = path["config"].value
                 /\ UNCHANGED <<call, kept>>
            ELSE /\ status' = "refused"
                 /\ UNCHANGED <<config, call, kept>>
    /\ UNCHANGED <<state, files, acted>>

\* Mutant: a restarted node begins without a vote
read_state_voteLost ==
    /\ status = "state"
    /\ state' = IF path["state"] = NoFile THEN InitialState
                ELSE [path["state"].value EXCEPT !.vote = NoVote]
    /\ status' = "ready"
    /\ UNCHANGED <<config, call, files, acted, kept>>

\* A missing file is a new node; a damaged one makes the constructor throw
read_state ==
    /\ status = "state"
    /\ IF path["state"] = NoFile
       THEN state' = InitialState /\ status' = "ready"
       ELSE IF path["state"].whole
            THEN state' = path["state"].value /\ status' = "ready"
            ELSE status' = "refused" /\ UNCHANGED state
    /\ UNCHANGED <<config, call, files, acted, kept>>

-----------------------------------------------------------------------------
(* NuRaft *)

save_state(t, new) ==
    /\ status = "ready"
    /\ state' = new
    /\ write_checked_record(t, "state", new)
    /\ UNCHANGED <<status, config, files, acted, kept>>

\* A message of a later term, or an election
NewTerm(t) ==
    /\ state.term < MaxTerm
    /\ save_state(t, [term |-> state.term + 1, vote |-> NoVote])

\* A vote is given once per term, and repeated for the same candidate
GrantVote(t, n) ==
    /\ state.vote \in {NoVote, n}
    /\ save_state(t, [state EXCEPT !.vote = n])

\* Messages that do not change the state carry its term
Respond ==
    /\ status = "ready"
    /\ ~Locked("state")
    /\ acted' = acted \cup {state}
    /\ UNCHANGED <<status, state, config, call, files, kept>>

save_config(t) ==
    /\ status = "ready"
    /\ config.log_idx < MaxConfig
    /\ write_checked_record(t, "config", [log_idx |-> config.log_idx + 1])
    /\ UNCHANGED <<status, state, config, files, acted, kept>>

-----------------------------------------------------------------------------
(* The operating system *)

Kill ==
    /\ status # "down"
    /\ GoDown
    /\ UNCHANGED files

\* What is left of a file of which some bytes may not have been written
Remains(x) ==
    IF x = NoFile \/ x.synced THEN {x}
    ELSE {[x EXCEPT !.whole = w, !.synced = TRUE] : w \in {FALSE, x.whole}}

PowerLoss ==
    /\ GoDown
    /\ \E s \in UNION {Remains(x) : x \in medium["state"]},
          c \in UNION {Remains(x) : x \in medium["config"]} :
          /\ path' = [f \in File |-> IF f = "state" THEN s ELSE c]
          /\ medium' = [f \in File |-> {path'[f]}]
    /\ \E s \in Remains(temp["state"]) \cup {NoFile},
          c \in Remains(temp["config"]) \cup {NoFile} :
          temp' = [f \in File |-> IF f = "state" THEN s ELSE c]

\* The kernel writes the directory back on its own
Writeback ==
    /\ medium' = [f \in File |-> {path[f]}]
    /\ UNCHANGED <<Same, call, path, temp>>

-----------------------------------------------------------------------------

\* An empty directory
Init ==
    /\ status = "down"
    /\ state = InitialState
    /\ config = InitialConfig
    /\ call = [t \in Thread |-> NoCall]
    /\ path = [f \in File |-> NoFile]
    /\ medium = [f \in File |-> {NoFile}]
    /\ temp = [f \in File |-> NoFile]
    /\ acted = {}
    /\ kept = InitialConfig

Writing(t) ==
    \/ open(t) \/ write_all(t) \/ sync_fd(t) \/ rename(t) \/ sync_directory(t)
    \/ writeFails(t) \/ sync_directoryFails(t)

Next ==
    \/ start \/ read_state \/ Respond
    \/ \E t \in Thread :
          \/ Writing(t) \/ load_config(t) \/ NewTerm(t) \/ save_config(t)
          \/ \E n \in Node : GrantVote(t, n)
    \/ Kill \/ PowerLoss \/ Writeback

Spec == Init /\ [][Next]_vars

-----------------------------------------------------------------------------
(* Properties *)

\* However the process dies and the machine loses power, this node never gives
\* its vote to two candidates in one term
OneVotePerTerm ==
    \A a, b \in acted :
        a.term = b.term /\ NoVote \notin {a.vote, b.vote} => a.vote = b.vote

\* A running node knows every term and vote that others may have seen
StateRemembered ==
    status = "ready" =>
        \A a \in acted : \/ a.term < state.term
                         \/ a.term = state.term /\ a.vote \in {NoVote, state.vote}

\* The node never goes back behind a configuration it has saved
ConfigRemembered == status \in {"state", "ready"} => kept.log_idx <= config.log_idx

\* Neither file is ever found damaged, by whatever the previous process, or
\* the power loss that ended it, has left of a temporary file
NeverRefused == status # "refused"

=============================================================================
