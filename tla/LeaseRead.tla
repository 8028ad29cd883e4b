------------------------------ MODULE LeaseRead ------------------------------
(***************************************************************************)
(* The timing argument of the lease reads of RaftNode (has_valid_read_lease *)
(* and linearizable_get in src/raft/raft_node.cpp).  RaftNode.tla takes    *)
(* fresh answers of a quorum to mean that there is no newer leader; here   *)
(* time passes, answers travel, voters elect another leader when they have *)
(* not heard of this one for long enough, and that is what is checked.     *)
(*                                                                         *)
(* One leader, in its term; the other nodes as it sees them.  NuRaft is    *)
(* external: a voter votes for a newer leader no earlier than its election *)
(* timeout after it last heard the present one (pre-vote), and the leader  *)
(* measures the age of an answer from its arrival (last_succ_resp_us_).    *)
(***************************************************************************)
EXTENDS Integers, FiniteSets

CONSTANTS
    Node,            \* the members of the configuration
    Learner,         \* those that do not vote
    Leader,          \* this node
    Request,         \* the GETs it serves
    Lower,           \* election_timeout_lower_ms
    Heartbeat,       \* heartbeat_ms
    MaxDelay,        \* how long an answer travels at most
    Drift,           \* how much earlier than Lower a voter's clock may fire
    NoAnswer         \* nothing is under way from a peer

Voter == Node \ Learner

ASSUME TimingAssumption ==
    /\ IsFiniteSet(Node)
    /\ Learner \subseteq Node
    /\ Leader \in Node
    /\ Lower \in Nat
    /\ Heartbeat \in Nat
    /\ MaxDelay \in Nat
    /\ Drift \in Nat
    /\ NoAnswer \notin Nat

VARIABLES
    leading,   \* is_leader() of this node, in the term of its reads
    resp,      \* last_succ_resp_us_: the age of the last answer of each peer
    heard,     \* how long each voter has not heard this leader
    net,       \* the age of the answer each peer has under way
    voted,     \* voters that have voted for a newer leader
    electors,  \* the votes that have made a newer leader
    written,   \* it has acknowledged a write
    phase,     \* where each GET is
    counted,   \* the peers its present lease check has looked at
    fresh,     \* the voters that check has found fresh
    overlap,   \* GETs that read the state machine beside a newer leader
    late       \* GETs that began after a newer leader's acknowledgement

reads == <<phase, counted, fresh, overlap, late>>
cluster == <<leading, resp, heard, net, voted, electors, written>>
vars == <<cluster, reads>>

Peer == Node \ {Leader}
Phase == {"new", "first", "leased", "second", "ok", "barrier"}

TypeOK ==
    /\ leading \in BOOLEAN
    /\ resp \in [Peer -> Nat]
    /\ heard \in [Peer -> Nat]
    /\ net \in [Peer -> Nat \cup {NoAnswer}]
    /\ voted \subseteq Voter \ {Leader}
    /\ electors \subseteq voted
    /\ written \in BOOLEAN
    /\ phase \in [Request -> Phase]
    /\ counted \in [Request -> SUBSET Peer]
    /\ fresh \in [Request -> SUBSET Voter]
    /\ overlap \subseteq Request
    /\ late \subseteq Request

\* There is a newer leader
Elected == electors # {}

-----------------------------------------------------------------------------
(* has_valid_read_lease, which looks at one peer after the other while time    *)
(* goes on and answers arrive                                                  *)

quorum == Cardinality(Voter) \div 2 + 1

\* Mutant: the whole election timeout, without the margin
freshness_ms_lower == Lower

freshness_ms == IF Lower - Heartbeat > 1 THEN Lower - Heartbeat ELSE 1

\* This node itself is counted first
beginCheck(r, at) ==
    /\ phase' = [phase EXCEPT ![r] = IF leading /\ Voter # {} THEN at ELSE "barrier"]
    /\ counted' = [counted EXCEPT ![r] = {}]
    /\ fresh' = [fresh EXCEPT ![r] = Voter \cap {Leader}]

Counts(n) == n \notin Learner /\ resp[n] <= freshness_ms

countPeer(r, n) ==
    /\ phase[r] \in {"first", "second"}
    /\ n \notin counted[r]
    /\ counted' = [counted EXCEPT ![r] = @ \cup {n}]
    /\ fresh' = [fresh EXCEPT ![r] = IF Counts(n) THEN @ \cup {n} ELSE @]
    /\ UNCHANGED <<cluster, phase, overlap, late>>

checkPasses(r) ==
    /\ counted[r] = Peer
    /\ leading
    /\ Cardinality(fresh[r]) >= quorum

checkFails(r) ==
    /\ counted[r] = Peer
    /\ ~(leading /\ Cardinality(fresh[r]) >= quorum)

-----------------------------------------------------------------------------
(* linearizable_get *)

\* A GET is late when a newer leader has acknowledged a write before it begins
linearizable_get(r) ==
    /\ phase[r] = "new"
    /\ leading
    /\ beginCheck(r, "first")
    /\ late' = IF written THEN late \cup {r} ELSE late
    /\ UNCHANGED <<cluster, overlap>>

leaseHolds(r) ==
    /\ phase[r] = "first"
    /\ checkPasses(r)
    /\ phase' = [phase EXCEPT ![r] = "leased"]
    /\ UNCHANGED <<cluster, counted, fresh, overlap, late>>

\* Mutant: the first check is trusted
get_trusting(r) ==
    /\ phase[r] = "leased"
    /\ phase' = [phase EXCEPT ![r] = "ok"]
    /\ overlap' = IF Elected THEN overlap \cup {r} ELSE overlap
    /\ UNCHANGED <<cluster, counted, fresh, late>>

\* state_machine_->get, and the second check begins
get(r) ==
    /\ phase[r] = "leased"
    /\ beginCheck(r, "second")
    /\ overlap' = IF Elected THEN overlap \cup {r} ELSE overlap
    /\ UNCHANGED <<cluster, late>>

leaseStillHolds(r) ==
    /\ phase[r] = "second"
    /\ checkPasses(r)
    /\ phase' = [phase EXCEPT ![r] = "ok"]
    /\ UNCHANGED <<cluster, counted, fresh, overlap, late>>

\* The local value is discarded
fallBack(r) ==
    /\ phase[r] \in {"first", "second"}
    /\ checkFails(r)
    /\ phase' = [phase EXCEPT ![r] = "barrier"]
    /\ UNCHANGED <<cluster, counted, fresh, overlap, late>>

-----------------------------------------------------------------------------
(* NuRaft, the network and time *)

\* A node gets a message of this leader and answers it. A peer has one message
\* of the leader under way at a time.
Hear(n) ==
    /\ n \notin voted
    /\ net[n] = NoAnswer
    /\ heard' = [heard EXCEPT ![n] = 0]
    /\ net' = [net EXCEPT ![n] = 0]
    /\ UNCHANGED <<leading, resp, voted, electors, written, reads>>

Receive(n) ==
    /\ net[n] # NoAnswer
    /\ resp' = [resp EXCEPT ![n] = 0]
    /\ net' = [net EXCEPT ![n] = NoAnswer]
    /\ UNCHANGED <<leading, heard, voted, electors, written, reads>>

Lose(n) ==
    /\ net[n] # NoAnswer
    /\ net' = [net EXCEPT ![n] = NoAnswer]
    /\ UNCHANGED <<leading, resp, heard, voted, electors, written, reads>>

\* The election timeout of voter n has passed
Vote(n) ==
    /\ n \notin voted
    /\ heard[n] >= Lower - Drift
    /\ voted' = voted \cup {n}
    /\ UNCHANGED <<leading, resp, heard, net, electors, written, reads>>

BecomeLeader ==
    /\ ~Elected
    /\ Cardinality(voted) >= quorum
    /\ electors' = voted
    /\ UNCHANGED <<leading, resp, heard, net, voted, written, reads>>

AcknowledgeWrite ==
    /\ Elected
    /\ ~written
    /\ written' = TRUE
    /\ UNCHANGED <<leading, resp, heard, net, voted, electors, reads>>

\* This node learns of a newer term, or its leadership expires
BecomeFollower ==
    /\ leading
    /\ leading' = FALSE
    /\ UNCHANGED <<resp, heard, net, voted, electors, written, reads>>

\* Ages beyond the last one that matters are not told apart
Older(age, oldest) == IF age < oldest THEN age + 1 ELSE oldest

\* An answer arrives, or is lost, within MaxDelay
Tick ==
    /\ \A n \in Peer : net[n] # NoAnswer => net[n] < MaxDelay
    /\ resp' = [n \in Peer |-> Older(resp[n], freshness_ms + 1)]
    /\ heard' = [n \in Peer |-> Older(heard[n], Lower)]
    /\ net' = [n \in Peer |-> IF net[n] = NoAnswer THEN NoAnswer ELSE net[n] + 1]
    /\ UNCHANGED <<leading, voted, electors, written, reads>>

-----------------------------------------------------------------------------

\* This node has just been elected
Init ==
    /\ leading = TRUE
    /\ resp = [n \in Peer |-> freshness_ms + 1]
    /\ heard = [n \in Peer |-> 0]
    /\ net = [n \in Peer |-> NoAnswer]
    /\ voted = {}
    /\ electors = {}
    /\ written = FALSE
    /\ phase = [r \in Request |-> "new"]
    /\ counted = [r \in Request |-> {}]
    /\ fresh = [r \in Request |-> {}]
    /\ overlap = {}
    /\ late = {}

Next ==
    \/ \E r \in Request :
          \/ linearizable_get(r) \/ leaseHolds(r) \/ get(r) \/ leaseStillHolds(r)
          \/ fallBack(r)
          \/ \E n \in Peer : countPeer(r, n)
    \/ \E n \in Peer : Hear(n) \/ Receive(n) \/ Lose(n)
    \/ \E n \in Peer \cap Voter : Vote(n)
    \/ BecomeLeader \/ AcknowledgeWrite \/ BecomeFollower \/ Tick

Spec == Init /\ [][Next]_vars

-----------------------------------------------------------------------------
(* Properties *)

\* The margin of one heartbeat covers the travel of an answer and the error of
\* the clocks
MarginSuffices == MaxDelay + Drift < Heartbeat /\ Heartbeat < Lower

\* What a GET answered by the lease path has read was read before any newer
\* leader was elected, although has_valid_read_lease looks at the peers one by
\* one, after the read, with answers arriving and voters voting in between
LeaseExcludesElection == \A r \in overlap : phase[r] # "ok"

\* A GET answered by the lease path never misses a write that a newer leader had
\* acknowledged before the GET began
NoStaleRead == \A r \in late : phase[r] # "ok"

=============================================================================
