--------------------------- MODULE LeaseReadProofs ---------------------------
(***************************************************************************)
(* The lease argument, for every cluster, every timing that satisfies      *)
(* MarginSuffices and any number of GETs.                                  *)
(***************************************************************************)
EXTENDS LeaseRead, FiniteSetTheorems, TLAPS

-----------------------------------------------------------------------------
(* The inductive invariant *)

\* An answer is no younger than what its sender has last heard, on the way and,
\* up to the delay, after it has arrived
AnswerInv ==
    \A n \in Peer :
        /\ net[n] # NoAnswer => net[n] <= MaxDelay /\ heard[n] <= net[n]
        /\ resp[n] <= freshness_ms => heard[n] <= resp[n] + MaxDelay

\* Who has voted had not heard this leader for long, and does not listen to it
\* any more
VoteInv == \A n \in voted : heard[n] >= Lower - Drift

\* None of those that made a newer leader is found fresh by a check that began
\* after they did
CheckInv ==
    /\ Elected => Cardinality(electors) >= quorum
    /\ overlap # {} => Elected
    /\ \A r \in overlap : phase[r] \in {"second", "ok"} => fresh[r] \cap electors = {}

\* A GET that begins after a newer leader's write reads beside that leader
LateInv ==
    /\ written => Elected
    /\ late # {} => Elected
    /\ \A r \in late : phase[r] \in {"second", "ok"} => r \in overlap

Inv == TypeOK /\ AnswerInv /\ VoteInv /\ CheckInv /\ LateInv /\ LeaseExcludesElection

-----------------------------------------------------------------------------

LEMMA VoterFinite ==
    /\ IsFiniteSet(Voter)
    /\ Cardinality(Voter) \in Nat
    /\ quorum \in Nat
    /\ quorum + quorum > Cardinality(Voter)
<1>1. IsFiniteSet(Voter)
  BY TimingAssumption, FS_Difference DEF Voter
<1>2. Cardinality(Voter) \in Nat
  BY <1>1, FS_CardinalityType
<1> QED BY <1>1, <1>2 DEF quorum

LEMMA FreshnessType == freshness_ms \in Nat
BY TimingAssumption DEF freshness_ms

LEMMA InitInv == Init => Inv
<1> SUFFICES ASSUME Init PROVE Inv
  OBVIOUS
<1>1. TypeOK
  <2>1. freshness_ms + 1 \in Nat
    BY FreshnessType
  <2>2. /\ resp \in [Peer -> Nat] /\ heard \in [Peer -> Nat]
        /\ net \in [Peer -> Nat \cup {NoAnswer}]
    BY <2>1 DEF Init
  <2>3. /\ phase \in [Request -> Phase]
        /\ counted \in [Request -> SUBSET Peer]
        /\ fresh \in [Request -> SUBSET Voter]
    BY DEF Init, Phase
  <2> QED BY Zenon, <2>2, <2>3 DEF Init, TypeOK
<1>2. AnswerInv
  <2>1. \A n \in Peer : net[n] = NoAnswer /\ heard[n] = 0 /\ resp[n] = freshness_ms + 1
    BY DEF Init
  <2> QED BY <2>1, FreshnessType DEF AnswerInv
<1>3. VoteInv /\ CheckInv /\ LateInv /\ LeaseExcludesElection
  BY DEF Init, VoteInv, CheckInv, LateInv, LeaseExcludesElection, Elected
<1> QED BY <1>1, <1>2, <1>3 DEF Inv

\* Who is counted has not voted
LEMMA CountedNotVoted ==
    ASSUME MarginSuffices, Inv, NEW n \in Peer, Counts(n)
    PROVE  n \notin voted
<1>1. resp[n] <= freshness_ms /\ heard[n] <= resp[n] + MaxDelay
  BY DEF Counts, Inv, AnswerInv
<1>2. resp[n] \in Nat /\ heard[n] \in Nat
  BY DEF Inv, TypeOK
<1>3. freshness_ms = Lower - Heartbeat
  BY TimingAssumption DEF MarginSuffices, freshness_ms
<1> QED BY <1>1, <1>2, <1>3, TimingAssumption DEF MarginSuffices, Inv, VoteInv

\* A check that has counted a quorum did not overlap a newer leader
LEMMA PassedNotOverlapping ==
    ASSUME Inv, NEW r \in Request, phase[r] = "second", checkPasses(r)
    PROVE  r \notin overlap
<1> SUFFICES ASSUME r \in overlap PROVE FALSE
  OBVIOUS
<1>1. fresh[r] \cap electors = {} /\ Cardinality(electors) >= quorum
  BY DEF Inv, CheckInv
<1>2. fresh[r] \subseteq Voter /\ electors \subseteq Voter
  BY DEF Inv, TypeOK
<1>3. Cardinality(fresh[r]) >= quorum
  BY DEF checkPasses
<1>4. Cardinality(fresh[r]) \in Nat /\ Cardinality(electors) \in Nat
  BY <1>2, VoterFinite, FS_Subset, FS_CardinalityType
<1>5. Cardinality(fresh[r]) + Cardinality(electors) > Cardinality(Voter)
  BY <1>1, <1>3, <1>4, VoterFinite
<1> QED BY <1>1, <1>2, <1>5, VoterFinite, FS_MajoritiesIntersect
\* The steps of a GET
LEMMA ReadsInv ==
    ASSUME MarginSuffices, Inv, NEW r \in Request,
           \/ linearizable_get(r) \/ leaseHolds(r) \/ get(r) \/ leaseStillHolds(r)
           \/ fallBack(r) \/ \E n \in Peer : countPeer(r, n)
    PROVE  Inv'
<1>t. TypeOK
  BY DEF Inv
<1>c. UNCHANGED cluster
  BY DEF linearizable_get, leaseHolds, get, leaseStillHolds, fallBack, countPeer
<1>d. /\ UNCHANGED <<leading, resp, heard, net, voted, electors, written>>
      /\ UNCHANGED Elected
  BY <1>c DEF cluster, Elected
<1>1. AnswerInv' /\ VoteInv'
  BY <1>d DEF Inv, AnswerInv, VoteInv
<1>2. ASSUME phase' \in [Request -> Phase],
             counted' \in [Request -> SUBSET Peer],
             fresh' \in [Request -> SUBSET Voter],
             overlap' \subseteq Request, late' \subseteq Request,
             \A q \in Request \ {r} :
                /\ phase'[q] = phase[q] /\ fresh'[q] = fresh[q]
                /\ (q \in overlap' <=> q \in overlap) /\ (q \in late' <=> q \in late),
             r \in overlap' \/ r \in late' => Elected,
             r \in overlap' /\ phase'[r] \in {"second", "ok"} => fresh'[r] \cap electors = {},
             r \in late' /\ phase'[r] \in {"second", "ok"} => r \in overlap',
             phase'[r] = "ok" => r \notin overlap'
      PROVE  Inv'
  <2>1. TypeOK'
    BY <1>2, <1>d, <1>t DEF TypeOK
  <2>2. CheckInv'
    <3>1. Elected' => Cardinality(electors') >= quorum
      BY <1>d DEF Inv, CheckInv
    <3>2. overlap' # {} => Elected'
      BY <1>2, <1>d DEF Inv, CheckInv
    <3>3. \A q \in overlap' : phase'[q] \in {"second", "ok"} => fresh'[q] \cap electors' = {}
      BY <1>2, <1>d DEF Inv, CheckInv
    <3> QED BY <3>1, <3>2, <3>3 DEF CheckInv
  <2>3. LateInv'
    BY <1>2, <1>d DEF Inv, LateInv
  <2>4. LeaseExcludesElection'
    BY <1>2 DEF Inv, LeaseExcludesElection
  <2> QED BY <1>1, <2>1, <2>2, <2>3, <2>4 DEF Inv
<1>p. ASSUME NEW p \in Phase, phase' = [phase EXCEPT ![r] = p],
             UNCHANGED <<counted, fresh, overlap, late>>,
             p \in {"leased", "barrier"} \/ (p = "ok" /\ phase[r] = "second" /\ r \notin overlap)
      PROVE  Inv'
  <2>1. phase' \in [Request -> Phase] /\ phase'[r] = p
        /\ \A q \in Request \ {r} : phase'[q] = phase[q]
    BY <1>p, <1>t DEF TypeOK
  <2>2. r \in overlap \/ r \in late => Elected
    BY DEF Inv, CheckInv, LateInv
  <2>3. r \in late /\ p = "ok" => r \in overlap
    BY <1>p DEF Inv, LateInv
  <2>4. counted' \in [Request -> SUBSET Peer] /\ fresh' \in [Request -> SUBSET Voter]
        /\ overlap' \subseteq Request /\ late' \subseteq Request
    BY <1>p, <1>t DEF TypeOK
  <2> QED BY <1>2, <1>p, <2>1, <2>2, <2>3, <2>4
<1>3. CASE leaseHolds(r)
  BY <1>3, <1>p DEF leaseHolds, Phase
<1>4. CASE fallBack(r)
  BY <1>4, <1>p DEF fallBack, Phase
<1>5. CASE leaseStillHolds(r)
  BY <1>5, <1>p, PassedNotOverlapping DEF leaseStillHolds, Phase
<1>b. ASSUME NEW at \in {"first", "second"}, beginCheck(r, at)
      PROVE  /\ phase' \in [Request -> Phase]
             /\ counted' \in [Request -> SUBSET Peer]
             /\ fresh' \in [Request -> SUBSET Voter]
             /\ phase'[r] \in {at, "barrier"}
             /\ fresh'[r] \subseteq {Leader}
             /\ \A q \in Request \ {r} : phase'[q] = phase[q] /\ fresh'[q] = fresh[q]
  BY <1>b, <1>t DEF beginCheck, TypeOK, Phase
<1>6. CASE linearizable_get(r)
  <2>1. beginCheck(r, "first") /\ UNCHANGED overlap
        /\ late' = IF written THEN late \cup {r} ELSE late
    BY <1>6 DEF linearizable_get
  <2>2. phase'[r] \in {"first", "barrier"}
    BY <1>b, <2>1
  <2>3. r \in overlap' \/ r \in late' => Elected
    BY <2>1 DEF Inv, CheckInv, LateInv
  <2>4. overlap' \subseteq Request /\ late' \subseteq Request
    BY <1>t, <2>1 DEF TypeOK
  <2> QED BY <1>2, <1>b, <2>1, <2>2, <2>3, <2>4
<1>7. CASE get(r)
  <2>1. beginCheck(r, "second") /\ UNCHANGED late
        /\ overlap' = IF Elected THEN overlap \cup {r} ELSE overlap
    BY <1>7 DEF get
  <2>2. r \in overlap' \/ r \in late' => Elected
    BY <2>1 DEF Inv, CheckInv, LateInv
  <2>3. r \in late' => r \in overlap'
    BY <2>1, <2>2
  <2>4. phase'[r] # "ok" /\ fresh'[r] \subseteq {Leader}
    BY <1>b, <2>1
  <2>5. Leader \notin electors
    BY <1>t DEF TypeOK
  <2>6. overlap' \subseteq Request /\ late' \subseteq Request
    BY <1>t, <2>1 DEF TypeOK
  <2>7. fresh'[r] \cap electors = {}
    BY <2>4, <2>5
  <2> QED BY <1>2, <1>b, <2>1, <2>2, <2>3, <2>4, <2>6, <2>7
<1>8. ASSUME NEW n \in Peer, countPeer(r, n) PROVE Inv'
  <2>1. /\ phase[r] \in {"first", "second"}
        /\ counted' = [counted EXCEPT ![r] = @ \cup {n}]
        /\ fresh' = [fresh EXCEPT ![r] = IF Counts(n) THEN @ \cup {n} ELSE @]
        /\ UNCHANGED <<phase, overlap, late>>
    BY <1>8 DEF countPeer
  <2>2. Counts(n) => n \in Voter /\ n \notin electors
    BY <1>t, CountedNotVoted DEF Counts, Voter, Peer, TypeOK
  <2>3. /\ counted' \in [Request -> SUBSET Peer]
        /\ fresh' \in [Request -> SUBSET Voter]
        /\ \A q \in Request \ {r} : fresh'[q] = fresh[q]
        /\ fresh'[r] \cap electors = fresh[r] \cap electors
    BY <1>t, <2>1, <2>2 DEF TypeOK
  <2>4. r \in overlap /\ phase[r] = "second" => fresh[r] \cap electors = {}
    BY DEF Inv, CheckInv
  <2>5. r \in overlap \/ r \in late => Elected
    BY DEF Inv, CheckInv, LateInv
  <2>6. r \in late /\ phase[r] = "second" => r \in overlap
    BY DEF Inv, LateInv
  <2>7. phase' \in [Request -> Phase] /\ overlap' \subseteq Request /\ late' \subseteq Request
    BY <1>t, <2>1 DEF TypeOK
  <2> QED BY <1>2, <2>1, <2>3, <2>4, <2>5, <2>6, <2>7
<1> QED BY <1>3, <1>4, <1>5, <1>6, <1>7, <1>8
\* The GETs are where they were, and who has made the newer leader is the same
LEMMA ClusterInv ==
    ASSUME Inv, UNCHANGED <<reads, electors>>,
           leading' \in BOOLEAN, resp' \in [Peer -> Nat], heard' \in [Peer -> Nat],
           net' \in [Peer -> Nat \cup {NoAnswer}],
           voted' \subseteq Voter \ {Leader}, electors \subseteq voted',
           written' \in BOOLEAN, written' => Elected,
           AnswerInv', VoteInv'
    PROVE  Inv'
<1>1. UNCHANGED <<phase, counted, fresh, overlap, late>>
  BY DEF reads
<1>2. TypeOK'
  BY <1>1 DEF Inv, TypeOK
<1>3. CheckInv' /\ LateInv' /\ LeaseExcludesElection'
  BY <1>1 DEF Inv, CheckInv, LateInv, LeaseExcludesElection, Elected
<1> QED BY <1>2, <1>3 DEF Inv

LEMMA NextInv == ASSUME MarginSuffices PROVE Inv /\ [Next]_vars => Inv'
<1> SUFFICES ASSUME Inv, [Next]_vars PROVE Inv'
  OBVIOUS
<1>t. /\ leading \in BOOLEAN /\ resp \in [Peer -> Nat] /\ heard \in [Peer -> Nat]
      /\ net \in [Peer -> Nat \cup {NoAnswer}]
      /\ voted \subseteq Voter \ {Leader} /\ electors \subseteq voted
      /\ written \in BOOLEAN /\ (written => Elected)
      /\ AnswerInv /\ VoteInv
      /\ MaxDelay \in Nat /\ Lower \in Nat /\ Drift \in Nat
  BY TimingAssumption DEF Inv, TypeOK, LateInv
<1>v. voted \subseteq Peer
  BY <1>t DEF Peer, Voter
<1>1. ASSUME NEW r \in Request,
             \/ linearizable_get(r) \/ leaseHolds(r) \/ get(r) \/ leaseStillHolds(r)
             \/ fallBack(r) \/ \E n \in Peer : countPeer(r, n)
      PROVE  Inv'
  BY <1>1, ReadsInv
<1>2. ASSUME NEW n \in Peer, Hear(n) PROVE Inv'
  <2>1. /\ n \notin voted /\ heard' = [heard EXCEPT ![n] = 0] /\ net' = [net EXCEPT ![n] = 0]
        /\ UNCHANGED <<leading, resp, voted, electors, written, reads>>
    BY <1>2 DEF Hear
  <2>2. AnswerInv'
    BY <1>t, <2>1, FreshnessType DEF AnswerInv
  <2>3. VoteInv'
    BY <1>t, <1>v, <2>1 DEF VoteInv
  <2>4. heard' \in [Peer -> Nat] /\ net' \in [Peer -> Nat \cup {NoAnswer}]
    BY <1>t, <2>1
  <2> QED BY <1>t, <2>1, <2>2, <2>3, <2>4, ClusterInv
<1>3. ASSUME NEW n \in Peer, Receive(n) PROVE Inv'
  <2>1. /\ net[n] # NoAnswer /\ resp' = [resp EXCEPT ![n] = 0]
        /\ net' = [net EXCEPT ![n] = NoAnswer]
        /\ UNCHANGED <<leading, heard, voted, electors, written, reads>>
    BY <1>3 DEF Receive
  <2>2. heard[n] <= MaxDelay
    BY <1>t, <2>1 DEF AnswerInv
  <2>3. AnswerInv'
    BY <1>t, <2>1, <2>2, FreshnessType DEF AnswerInv
  <2>4. VoteInv'
    BY <1>t, <2>1 DEF VoteInv
  <2>5. resp' \in [Peer -> Nat] /\ net' \in [Peer -> Nat \cup {NoAnswer}]
    BY <1>t, <2>1
  <2> QED BY <1>t, <2>1, <2>3, <2>4, <2>5, ClusterInv
<1>4. ASSUME NEW n \in Peer, Lose(n) PROVE Inv'
  <2>1. /\ net' = [net EXCEPT ![n] = NoAnswer]
        /\ UNCHANGED <<leading, resp, heard, voted, electors, written, reads>>
    BY <1>4 DEF Lose
  <2>2. AnswerInv' /\ VoteInv'
    BY <1>t, <2>1 DEF AnswerInv, VoteInv
  <2>3. net' \in [Peer -> Nat \cup {NoAnswer}]
    BY <1>t, <2>1
  <2> QED BY <1>t, <2>1, <2>2, <2>3, ClusterInv
<1>5. ASSUME NEW n \in Peer \cap Voter, Vote(n) PROVE Inv'
  <2>1. /\ heard[n] >= Lower - Drift /\ voted' = voted \cup {n}
        /\ UNCHANGED <<leading, resp, heard, net, electors, written, reads>>
    BY <1>5 DEF Vote
  <2>2. AnswerInv' /\ VoteInv'
    BY <1>t, <2>1 DEF AnswerInv, VoteInv
  <2>3. voted' \subseteq Voter \ {Leader} /\ electors \subseteq voted'
    BY <1>t, <2>1 DEF Peer
  <2> QED BY <1>t, <2>1, <2>2, <2>3, ClusterInv
<1>6. CASE BecomeLeader
  <2>1. /\ ~Elected /\ Cardinality(voted) >= quorum /\ electors' = voted
        /\ UNCHANGED <<leading, resp, heard, net, voted, written, reads>>
    BY <1>6 DEF BecomeLeader
  <2>2. UNCHANGED <<phase, counted, fresh, overlap, late>>
    BY <2>1 DEF reads
  <2>3. overlap = {} /\ late = {} /\ ~written
    BY <2>1 DEF Inv, CheckInv, LateInv
  <2>4. TypeOK'
    BY <2>1, <2>2 DEF Inv, TypeOK
  <2>5. AnswerInv' /\ VoteInv'
    BY <1>t, <2>1 DEF AnswerInv, VoteInv
  <2>6. CheckInv' /\ LateInv' /\ LeaseExcludesElection'
    BY <2>1, <2>2, <2>3 DEF CheckInv, LateInv, LeaseExcludesElection
  <2> QED BY <2>4, <2>5, <2>6 DEF Inv
<1>7. CASE AcknowledgeWrite
  <2>1. Elected /\ written' = TRUE
        /\ UNCHANGED <<leading, resp, heard, net, voted, electors, reads>>
    BY <1>7 DEF AcknowledgeWrite
  <2>2. AnswerInv' /\ VoteInv'
    BY <1>t, <2>1 DEF AnswerInv, VoteInv
  <2> QED BY <1>t, <2>1, <2>2, ClusterInv
<1>8. CASE BecomeFollower
  <2>1. leading' = FALSE
        /\ UNCHANGED <<resp, heard, net, voted, electors, written, reads>>
    BY <1>8 DEF BecomeFollower
  <2>2. AnswerInv' /\ VoteInv'
    BY <1>t, <2>1 DEF AnswerInv, VoteInv
  <2> QED BY Zenon, <1>t, <2>1, <2>2, ClusterInv
<1>9. CASE Tick
  <2>1. /\ \A n \in Peer : net[n] # NoAnswer => net[n] < MaxDelay
        /\ resp' = [n \in Peer |-> Older(resp[n], freshness_ms + 1)]
        /\ heard' = [n \in Peer |-> Older(heard[n], Lower)]
        /\ net' = [n \in Peer |-> IF net[n] = NoAnswer THEN NoAnswer ELSE net[n] + 1]
        /\ UNCHANGED <<leading, voted, electors, written, reads>>
    BY <1>9 DEF Tick
  <2>2. ASSUME NEW n \in Peer
        PROVE  /\ resp'[n] \in Nat /\ heard'[n] \in Nat /\ net'[n] \in Nat \cup {NoAnswer}
               /\ net'[n] # NoAnswer => net'[n] <= MaxDelay /\ heard'[n] <= net'[n]
               /\ resp'[n] <= freshness_ms => heard'[n] <= resp'[n] + MaxDelay
               /\ heard'[n] >= heard[n] \/ heard'[n] = Lower
    <3>1. /\ resp[n] \in Nat /\ heard[n] \in Nat /\ net[n] \in Nat \cup {NoAnswer}
          /\ net[n] # NoAnswer => net[n] <= MaxDelay /\ heard[n] <= net[n]
          /\ resp[n] <= freshness_ms => heard[n] <= resp[n] + MaxDelay
      BY <1>t DEF AnswerInv
    <3>2. /\ resp'[n] = Older(resp[n], freshness_ms + 1)
          /\ heard'[n] = Older(heard[n], Lower)
          /\ net'[n] = IF net[n] = NoAnswer THEN NoAnswer ELSE net[n] + 1
      BY <2>1
    <3>3. net[n] # NoAnswer => net[n] < MaxDelay
      BY <2>1
    <3>4. resp'[n] \in Nat /\ (resp'[n] <= freshness_ms => resp'[n] = resp[n] + 1)
      BY <3>1, <3>2, FreshnessType DEF Older
    <3>5. heard'[n] \in Nat /\ heard'[n] <= heard[n] + 1
          /\ (heard'[n] >= heard[n] \/ heard'[n] = Lower)
      BY <1>t, <3>1, <3>2 DEF Older
    <3>6. net[n] # NoAnswer => net'[n] = net[n] + 1 /\ net[n] \in Nat
      BY <3>1, <3>2
    <3>7. net[n] = NoAnswer => net'[n] = NoAnswer
      BY <3>2
    <3> QED BY <1>t, <3>1, <3>3, <3>4, <3>5, <3>6, <3>7, FreshnessType, TimingAssumption
  <2>3. resp' \in [Peer -> Nat] /\ heard' \in [Peer -> Nat]
        /\ net' \in [Peer -> Nat \cup {NoAnswer}]
    BY <2>1, <2>2
  <2>4. AnswerInv'
    BY <2>2 DEF AnswerInv
  <2>5. VoteInv'
    BY <1>t, <1>v, <2>1, <2>2 DEF VoteInv
  <2> QED BY <1>t, <2>1, <2>3, <2>4, <2>5, ClusterInv
<1>10. CASE UNCHANGED vars
  <2>1. UNCHANGED <<leading, resp, heard, net, voted, electors, written, reads>>
    BY <1>10 DEF vars, cluster
  <2>2. AnswerInv' /\ VoteInv'
    BY <1>t, <2>1 DEF AnswerInv, VoteInv
  <2> QED BY <1>t, <2>1, <2>2, ClusterInv
<1> QED BY <1>1, <1>2, <1>3, <1>4, <1>5, <1>6, <1>7, <1>8, <1>9, <1>10 DEF Next

\* If one heartbeat exceeds the travel of an answer and the error of the clocks
\* together, no value that a GET returns by the lease path was read beside a newer
\* leader: two quorums share a voter, and one that has answered lately cannot
\* have voted
THEOREM LeaseIsExclusive ==
    ASSUME MarginSuffices
    PROVE  Spec => []LeaseExcludesElection
<1>1. Inv => LeaseExcludesElection
  BY DEF Inv
<1> QED BY <1>1, InitInv, NextInv, PTL DEF Spec

\* Under the same condition a lease read never misses a write that was
\* acknowledged before it began
THEOREM LeaseReadsAreFresh ==
    ASSUME MarginSuffices
    PROVE  Spec => []NoStaleRead
<1>1. Inv => NoStaleRead
  BY DEF Inv, LateInv, LeaseExcludesElection, NoStaleRead
<1> QED BY <1>1, InitInv, NextInv, PTL DEF Spec
=============================================================================
