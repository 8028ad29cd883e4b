--------------------------- MODULE RaftNodeProofs ---------------------------
(***************************************************************************)
(* Proofs about RaftNode: for any number of client threads, batches of any *)
(* size, and any sequence of elections, commits and losses of leadership.  *)
(***************************************************************************)
EXTENDS RaftNode, FiniteSetTheorems, TLAPS

-----------------------------------------------------------------------------
(* The inductive invariants *)

Distinct(s) == \A i, j \in DOMAIN s : s[i] = s[j] => i = j

\* A worker holds each request once, in its queue or in its batch, and a batch
\* only while it works on it
Holds(w) == Items(w.queue) \cup Items(w.batch)

WorkerInv(w) ==
    /\ Distinct(w.queue)
    /\ Distinct(w.batch)
    /\ Items(w.queue) \cap Items(w.batch) = {}
    /\ w.pc \in {"waiting", "collecting", "exited"} => w.batch = <<>>

\* Where a request is agrees with what its caller has seen of it: one that a
\* worker holds is unanswered
RequestInv ==
    /\ \A c \in Holds(proposals) \cup Holds(reads) : phase[c] = "queued"
    /\ \A c \in Request : outcome[c] # "none" => phase[c] = "done"

\* The barrier exists only while the read worker has a batch
PlaceInv ==
    /\ TypeOK
    /\ WorkerInv(proposals)
    /\ WorkerInv(reads)
    /\ RequestInv
    /\ phase[Barrier] # "new" => reads.pc = "got"
    /\ proposals.pc = "appended" =>
          DOMAIN call.indexes = DOMAIN proposals.batch

\* append_entries_ext was called in the term this node leads
Leading == is_leader /\ term = call.term

\* What is or may become the entry at i, as long as this node leads
EntryAt(i) == IF i <= Len(log) THEN log[i] ELSE inflight[i - Len(log)]

\* The index computed for the k-th request of a batch is that of its own entry:
\* among all that may still be committed while this node is the leader, and
\* afterwards among those it has seen committed
PairInv(k) ==
    LET i == call.indexes[k]
    IN  /\ i >= 1
        /\ i <= known => log[i] = proposals.batch[k]
        /\ role = "leader" =>
              /\ i <= Len(log) + Len(inflight)
              /\ EntryAt(i) = proposals.batch[k]

CallInv ==
    proposals.pc = "appended" =>
        /\ call.term <= term
        /\ Leading => \A k \in DOMAIN proposals.batch : PairInv(k)

OwnInv ==
    /\ PlaceInv
    /\ CallInv
    /\ OwnResult

\* A write is acknowledged after it is committed; what the leader has not
\* applied yet of the acknowledged writes lies before its first own entry
AckedInv ==
    /\ acked <= Len(log)
    /\ role = "leader" => acked < leaderStart \/ acked <= applied

\* What a GET must see has been applied when it reads under its lease
LeaseInv ==
    \A c \in Reader :
        /\ seen[c] <= acked
        /\ phase[c] = "leased" => seen[c] <= applied
        /\ phase[c] = "read" => seen[c] <= value[c]

\* The barrier of a batch of GETs comes behind all that they must see
BarrierInv ==
    /\ proposals.pc = "appended" /\ Leading =>
          \A k \in DOMAIN proposals.batch :
              /\ proposals.batch[k] = Barrier
              /\ role = "leader" \/ call.indexes[k] <= known
              => \A c \in Items(reads.batch) : seen[c] <= call.indexes[k]
    /\ outcome[Barrier] = "ok" =>
          \A c \in Items(reads.batch) : seen[c] <= applied

FreshInv ==
    /\ OwnInv
    /\ AckedInv
    /\ LeaseInv
    /\ BarrierInv
    /\ ReadsAreFresh

-----------------------------------------------------------------------------
(* The workers' queues *)

ProposalPcs == {"waiting", "collecting", "got", "appended", "exited"}
ReadPcs == {"waiting", "collecting", "got", "exited"}

\* What waking up, taking a batch, finishing it, and rejecting the queue do to
\* a worker: it never holds a request it did not hold before, nor one twice
WorkerKept(w, v, S, Pcs) ==
    /\ v \in Worker(S, Pcs)
    /\ WorkerInv(v)
    /\ Holds(v) \subseteq Holds(w)

LEMMA WakesFacts ==
    ASSUME NEW S, NEW Pcs \in {ProposalPcs, ReadPcs}, NEW w \in Worker(S, Pcs),
           WorkerInv(w), NEW v, Wakes(w, v)
    PROVE  /\ WorkerKept(w, v, S, Pcs)
           /\ w.pc = "waiting"
           /\ v.pc \in {"collecting", "exited"}
           /\ v.batch = w.batch
<1>1. v = [w EXCEPT !.pc = IF w.queue = <<>> THEN "exited" ELSE "collecting"]
  BY DEF Wakes
<1>2. /\ v.queue = w.queue /\ v.batch = w.batch /\ v.stopping = w.stopping
      /\ v.pc \in {"collecting", "exited"}
      /\ v \in Worker(S, Pcs)
  BY <1>1 DEF Worker, ProposalPcs, ReadPcs
<1>3. w.pc = "waiting" /\ w.batch = <<>>
  BY DEF Wakes, WorkerInv
<1> QED BY <1>2, <1>3 DEF WorkerInv, Holds, WorkerKept

LEMMA TakesFacts ==
    ASSUME NEW S, NEW Pcs \in {ProposalPcs, ReadPcs}, NEW w \in Worker(S, Pcs),
           WorkerInv(w), NEW v, Takes(w, v)
    PROVE  /\ WorkerKept(w, v, S, Pcs)
           /\ w.pc = "collecting"
           /\ v.pc = "got"
<1> DEFINE q == w.queue
           n == IF Len(q) < MaxBatch THEN Len(q) ELSE MaxBatch
<1>1. q \in Seq(S) /\ w.batch = <<>> /\ w.pc = "collecting" /\ Distinct(q)
  BY DEF Worker, Takes, WorkerInv
<1>2. n \in 0 .. Len(q) /\ Len(q) \in Nat
  BY <1>1, ConstantsAssumption
<1>3. v = [w EXCEPT !.pc = "got", !.batch = SubSeq(q, 1, n),
                    !.queue = SubSeq(q, n + 1, Len(q))]
  BY DEF Takes
<1>4. /\ v.queue = SubSeq(q, n + 1, Len(q)) /\ v.batch = SubSeq(q, 1, n)
      /\ v.stopping = w.stopping /\ v.pc = "got"
  BY Zenon, <1>3 DEF Worker
<1> HIDE DEF n, q
<1>5. /\ SubSeq(q, 1, n) \in Seq(S)
      /\ DOMAIN SubSeq(q, 1, n) = 1 .. n
      /\ \A k \in 1 .. n : SubSeq(q, 1, n)[k] = q[k]
  BY <1>1, <1>2
<1>6. /\ SubSeq(q, n + 1, Len(q)) \in Seq(S)
      /\ DOMAIN SubSeq(q, n + 1, Len(q)) = 1 .. (Len(q) - n)
      /\ \A k \in 1 .. (Len(q) - n) : SubSeq(q, n + 1, Len(q))[k] = q[n + k]
  BY <1>1, <1>2
<1>7. v \in Worker(S, Pcs)
  BY Zenon, <1>3, <1>5, <1>6 DEF Worker, ProposalPcs, ReadPcs, q
<1>8. DOMAIN q = 1 .. Len(q)
  BY <1>1
<1>9. Distinct(v.batch)
  BY <1>1, <1>2, <1>4, <1>5, <1>8 DEF Distinct
<1>10. Distinct(v.queue)
  <2>0. /\ DOMAIN v.queue = 1 .. (Len(q) - n)
        /\ \A k \in 1 .. (Len(q) - n) : v.queue[k] = q[n + k]
    BY Zenon, <1>4, <1>6
  <2> SUFFICES ASSUME NEW i \in 1 .. (Len(q) - n), NEW j \in 1 .. (Len(q) - n),
                      q[n + i] = q[n + j]
               PROVE  i = j
    BY Zenon, <2>0 DEF Distinct
  <2>1. n + i \in 1 .. Len(q) /\ n + j \in 1 .. Len(q)
    BY <1>2
  <2>2. n + i = n + j
    BY <1>1, <1>8, <2>1 DEF Distinct
  <2> QED BY <1>2, <2>2
<1>11. Items(v.batch) = {q[k] : k \in 1 .. n}
  BY Zenon, <1>4, <1>5 DEF Items
<1>12. Items(v.queue) = {q[n + k] : k \in 1 .. (Len(q) - n)}
  BY Zenon, <1>4, <1>6 DEF Items
<1>13. Items(v.queue) \cap Items(v.batch) = {}
  <2> SUFFICES ASSUME NEW i \in 1 .. (Len(q) - n), NEW k \in 1 .. n,
                      q[n + i] = q[k]
               PROVE  FALSE
    BY <1>11, <1>12
  <2>1. n + i \in 1 .. Len(q) /\ k \in 1 .. Len(q) /\ n + i # k
    BY <1>2
  <2> QED BY <1>1, <1>8, <2>1 DEF Distinct
<1>14. Holds(v) \subseteq Holds(w)
  <2>1. \A k \in 1 .. Len(q) : q[k] \in Items(w.queue)
    BY <1>8 DEF Items, q
  <2>2. \A k \in 1 .. n : k \in 1 .. Len(q)
    BY <1>2
  <2>3. \A k \in 1 .. (Len(q) - n) : n + k \in 1 .. Len(q)
    BY <1>2
  <2> QED BY <1>11, <1>12, <2>1, <2>2, <2>3 DEF Holds
<1> QED BY <1>1, <1>4, <1>7, <1>9, <1>10, <1>13, <1>14 DEF WorkerInv, WorkerKept

LEMMA IdleFacts ==
    ASSUME NEW S, NEW Pcs \in {ProposalPcs, ReadPcs}, NEW w \in Worker(S, Pcs),
           WorkerInv(w)
    PROVE  /\ WorkerKept(w, Idle(w), S, Pcs)
           /\ Holds(Idle(w)) \cap Items(w.batch) = {}
           /\ Idle(w).pc = "waiting"
           /\ Idle(w).batch = <<>>
<1>0. <<>> \in Seq(S) /\ "waiting" \in Pcs
  BY DEF ProposalPcs, ReadPcs
<1>1. /\ Idle(w).queue = w.queue /\ Idle(w).batch = <<>>
      /\ Idle(w).pc = "waiting"
      /\ Idle(w) \in Worker(S, Pcs)
  BY <1>0, Zenon DEF Idle, Worker
<1>2. Items(<<>>) = {} /\ Distinct(<<>>)
  BY DEF Items, Distinct
<1> HIDE DEF Idle
<1>3. Holds(Idle(w)) = Items(w.queue)
  BY <1>1, <1>2 DEF Holds
<1> QED BY <1>1, <1>2, <1>3 DEF WorkerInv, Holds, WorkerKept

LEMMA RejectedFacts ==
    ASSUME NEW S, NEW Pcs \in {ProposalPcs, ReadPcs}, NEW w \in Worker(S, Pcs),
           WorkerInv(w)
    PROVE  /\ WorkerKept(w, Rejected(w), S, Pcs)
           /\ Holds(Rejected(w)) \cap Items(w.queue) = {}
           /\ Rejected(w).pc = w.pc
           /\ Rejected(w).batch = w.batch
<1>0. <<>> \in Seq(S)
  OBVIOUS
<1>1. /\ Rejected(w).queue = <<>> /\ Rejected(w).batch = w.batch
      /\ Rejected(w).pc = w.pc
      /\ Rejected(w) \in Worker(S, Pcs)
  BY <1>0, Zenon DEF Rejected, Worker
<1>2. Items(<<>>) = {} /\ Distinct(<<>>)
  BY DEF Items, Distinct
<1> HIDE DEF Rejected
<1>3. Holds(Rejected(w)) = Items(w.batch)
  BY <1>1, <1>2 DEF Holds
<1> QED BY <1>1, <1>2, <1>3 DEF WorkerInv, Holds, WorkerKept

\* A request that was nowhere joins the queue
Joins(w, c, v) == v = [w EXCEPT !.queue = Append(@, c)]

LEMMA JoinFacts ==
    ASSUME NEW S, NEW Pcs \in {ProposalPcs, ReadPcs}, NEW w \in Worker(S, Pcs),
           WorkerInv(w), NEW c \in S, c \notin Holds(w),
           NEW v, Joins(w, c, v)
    PROVE  /\ v \in Worker(S, Pcs)
           /\ WorkerInv(v)
           /\ Holds(v) = Holds(w) \cup {c}
           /\ v.pc = w.pc
           /\ v.batch = w.batch
<1> DEFINE q == w.queue
           r == Append(q, c)
<1>1. q \in Seq(S) /\ Distinct(q) /\ Len(q) \in Nat /\ DOMAIN q = 1 .. Len(q)
  BY DEF Worker, WorkerInv
<1>2. /\ v.queue = r /\ v.batch = w.batch /\ v.pc = w.pc
      /\ v \in Worker(S, Pcs)
  <2>1. r \in Seq(S)
    BY <1>1
  <2> QED BY <2>1, Zenon DEF Worker, Joins
<1>3. /\ DOMAIN r = 1 .. Len(q) + 1
      /\ \A k \in 1 .. Len(q) : r[k] = q[k]
      /\ r[Len(q) + 1] = c
  BY <1>1
<1> HIDE DEF q, r
<1>4. c \notin Items(q) /\ c \notin Items(w.batch)
  BY DEF Holds, q
<1>5. Items(r) = Items(q) \cup {c}
  <2>1. \A k \in DOMAIN r : k \in 1 .. Len(q) \/ k = Len(q) + 1
    BY <1>1, <1>3
  <2>2. Len(q) + 1 \in DOMAIN r /\ \A k \in DOMAIN q : k \in DOMAIN r /\ r[k] = q[k]
    BY <1>1, <1>3
  <2> QED BY <1>1, <1>3, <2>1, <2>2 DEF Items
<1>6. Distinct(r)
  <2>1. \A k \in 1 .. Len(q) : q[k] # c
    BY <1>1, <1>4 DEF Items
  <2> QED BY <1>1, <1>3, <2>1 DEF Distinct
<1>7. WorkerInv(v)
  BY <1>2, <1>4, <1>5, <1>6 DEF WorkerInv, q
<1>8. Holds(v) = Holds(w) \cup {c}
  BY <1>2, <1>5 DEF Holds, q
<1> QED BY <1>2, <1>7, <1>8

-----------------------------------------------------------------------------
(* Requests and their answers *)

Phases == {"new", "checked", "leased", "read", "queued", "done"}
Outcomes == {"none", "ok", "not_leader", "timeout", "unavailable", "rejected"}

\* Proposals and reads are different requests
LEMMA HeldTypes ==
    ASSUME TypeOK
    PROVE  /\ Holds(proposals) \subseteq Writer \cup {Barrier}
           /\ Holds(reads) \subseteq Reader
           /\ (Writer \cup {Barrier}) \cap Reader = {}
           /\ Writer \cup {Barrier} \subseteq Request
           /\ Reader \subseteq Request
           /\ Barrier \in Request /\ Barrier \notin Caller
<1>1. /\ proposals.queue \in Seq(Writer \cup {Barrier})
      /\ proposals.batch \in Seq(Writer \cup {Barrier})
      /\ reads.queue \in Seq(Reader)
      /\ reads.batch \in Seq(Reader)
  BY DEF TypeOK, Worker
<1>2. ASSUME NEW S, NEW s \in Seq(S) PROVE Items(s) \subseteq S
  BY DEF Items
<1> QED BY <1>1, <1>2, ConstantsAssumption DEF Holds, Request, Caller

\* Only the requests in S are answered, and each of them is
Answered(S) ==
    /\ outcome' \in [Request -> Outcomes]
    /\ phase' \in [Request -> Phases]
    /\ \A c \in S : phase'[c] = "done" /\ outcome'[c] # "none"
    /\ \A c \in Request \ S : phase'[c] = phase[c] /\ outcome'[c] = outcome[c]

LEMMA AnswerFacts ==
    ASSUME TypeOK, NEW S \in SUBSET Request, NEW result \in Outcomes \ {"none"},
           Answer(S, result)
    PROVE  Answered(S) /\ \A c \in S : outcome'[c] = result
<1>1. /\ outcome' = [c \in Request |-> IF c \in S THEN result ELSE outcome[c]]
      /\ phase' = [c \in Request |-> IF c \in S THEN "done" ELSE phase[c]]
  BY DEF Answer
<1>2. outcome \in [Request -> Outcomes] /\ phase \in [Request -> Phases]
  BY DEF TypeOK, Outcomes, Phases
<1>3. outcome' \in [Request -> Outcomes] /\ phase' \in [Request -> Phases]
  BY <1>1, <1>2 DEF Phases
<1>4. result # "none"
  OBVIOUS
<1> QED BY <1>1, <1>3, <1>4 DEF Answered

\* The answers the code gives are answers
LEMMA AnswerTypes ==
    /\ Refusal \in Outcomes \ {"none"}
    /\ \A code \in Failures : map_status(code) \in Outcomes \ {"none"}
    /\ {"ok", "unavailable", "not_leader"} \subseteq Outcomes \ {"none"}
<1>1. Refusal \in Outcomes \ {"none"}
  BY DEF Refusal, Outcomes
<1>2. ASSUME NEW code \in Failures
      PROVE  map_status(code) \in Outcomes \ {"none"}
  BY ConstantsAssumption DEF map_status, Outcomes
<1>3. {"ok", "unavailable", "not_leader"} \subseteq Outcomes \ {"none"}
  BY DEF Outcomes
<1> QED BY <1>1, <1>2, <1>3

\* The greatest of a bounded set of log indexes exists
LEMMA GreatestIndex ==
    ASSUME NEW n \in Nat, NEW S, S \subseteq 0 .. n, S # {}
    PROVE  \E i \in S : \A j \in S : j <= i
<1> DEFINE R == {ss \in Nat \X Nat : ss[1] < ss[2]}
           T == {n - j : j \in S}
<1>1. IsWellFoundedOn(R, Nat)
  BY NatLessThanWellFounded DEF OpToRel
<1>2. T \subseteq Nat /\ T # {}
  <2>1. \A j \in S : n - j \in Nat
    OBVIOUS
  <2> QED BY Zenon, <2>1
<1>3. PICK x \in T : \A y \in T : ~(<<y, x>> \in R)
  <2> HIDE DEF R, T
  <2> QED BY Zenon, <1>1, <1>2, WFMin
<1>4. \A y \in T : ~(y < x)
  BY Zenon, <1>2, <1>3
<1>5. PICK i \in S : x = n - i
  OBVIOUS
<1>6. ASSUME NEW j \in S PROVE j <= i
  <2>1. n - j \in T
    OBVIOUS
  <2>2. ~(n - j < n - i)
    BY <1>4, <1>5, <2>1
  <2> QED BY <2>2
<1> QED BY <1>6

\* What appendReturns does to the requests of its batch and to the history of
\* acknowledged writes
ReturnsRelation ==
    /\ Answered(Items(proposals.batch))
    /\ value' \in [Request -> Nat]
    /\ \A c \in Request \ Items(proposals.batch) : value'[c] = value[c]
    /\ \A k \in DOMAIN proposals.batch :
          outcome'[proposals.batch[k]] = "ok" =>
              /\ call.indexes[k] \in cached
              /\ value'[proposals.batch[k]] = call.indexes[k]
    /\ acked' \in Nat
    /\ acked <= acked'
    /\ acked' = acked \/ acked' \in cached

LEMMA ReturnsFacts ==
    ASSUME PlaceInv, appendReturns
    PROVE  ReturnsRelation
<1> DEFINE batch == proposals.batch
           taken == {k \in DOMAIN batch : call.indexes[k] \in cached}
           ok == {batch[k] : k \in taken}
           indexOf(c) == call.indexes[CHOOSE k \in DOMAIN batch : batch[k] = c]
           new == {indexOf(c) : c \in ok \ {Barrier}}
<1>1. /\ outcome' = [c \in Request |->
                        IF c \in ok THEN "ok"
                        ELSE IF c \in Items(batch) THEN "unavailable"
                        ELSE outcome[c]]
      /\ phase' = [c \in Request |->
                      IF c \in Items(batch) THEN "done" ELSE phase[c]]
      /\ value' = [c \in Request |-> IF c \in ok THEN indexOf(c) ELSE value[c]]
      /\ acked' = CHOOSE i \in new \cup {acked} : \A j \in new \cup {acked} : j <= i
      /\ proposals.pc = "appended"
  BY DEF appendReturns
<1>2. /\ outcome \in [Request -> Outcomes] /\ phase \in [Request -> Phases]
      /\ value \in [Request -> Nat]
      /\ acked \in Nat /\ applied \in Nat
      /\ cached \subseteq 1 .. applied
      /\ call.indexes \in Seq(Nat)
      /\ batch \in Seq(Writer \cup {Barrier})
  BY DEF PlaceInv, TypeOK, Outcomes, Phases, Worker
<1>3. DOMAIN call.indexes = DOMAIN batch /\ Distinct(batch)
  BY <1>1 DEF PlaceInv, WorkerInv
<1>4. Items(batch) \subseteq Request
  BY HeldTypes DEF PlaceInv, Holds
<1>5. \A k \in DOMAIN batch : batch[k] \in Items(batch)
  BY DEF Items
<1>6. \A k \in DOMAIN batch : indexOf(batch[k]) = call.indexes[k]
  <2> SUFFICES ASSUME NEW k \in DOMAIN batch
               PROVE  (CHOOSE m \in DOMAIN batch : batch[m] = batch[k]) = k
    BY Zenon
  <2>1. \A m \in DOMAIN batch : batch[m] = batch[k] => m = k
    BY <1>3 DEF Distinct
  <2> HIDE DEF batch
  <2> QED BY Zenon, <2>1
<1>7. \A k \in DOMAIN batch : call.indexes[k] \in Nat
  BY <1>2, <1>3
<1> HIDE DEF indexOf, batch
<1>8. \A c \in ok : c \in Items(batch) /\ indexOf(c) \in cached /\ indexOf(c) \in Nat
  BY <1>5, <1>6, <1>7
<1>9. \A k \in DOMAIN batch : batch[k] \in ok => k \in taken
  BY <1>3 DEF Distinct
<1> HIDE DEF ok, taken
<1>10. Answered(Items(batch))
  <2>1. outcome' \in [Request -> Outcomes] /\ phase' \in [Request -> Phases]
    BY <1>1, <1>2 DEF Outcomes, Phases
  <2>2. \A c \in Items(batch) : phase'[c] = "done" /\ outcome'[c] # "none"
    BY <1>1, <1>4
  <2>3. \A c \in Request \ Items(batch) :
            phase'[c] = phase[c] /\ outcome'[c] = outcome[c]
    BY <1>1, <1>8
  <2> QED BY <2>1, <2>2, <2>3 DEF Answered
<1>11. value' \in [Request -> Nat]
  BY <1>1, <1>2, <1>8
<1>12. \A c \in Request \ Items(batch) : value'[c] = value[c]
  BY <1>1, <1>8
<1>13. ASSUME NEW k \in DOMAIN batch, outcome'[batch[k]] = "ok"
       PROVE  call.indexes[k] \in cached /\ value'[batch[k]] = call.indexes[k]
  <2>1. batch[k] \in Request /\ batch[k] \in Items(batch)
    BY <1>4, <1>5
  <2>2. batch[k] \in ok
    BY <1>1, <1>13, <2>1
  <2>3. call.indexes[k] \in cached
    BY <1>9, <2>2 DEF taken
  <2> QED BY <1>1, <1>6, <2>1, <2>2, <2>3
<1>14. new \subseteq cached
  BY <1>8
<1> HIDE DEF new
<1>15. acked' \in new \cup {acked} /\ \A j \in new \cup {acked} : j <= acked'
  <2> DEFINE n == applied + acked
             S == new \cup {acked}
  <2>1. n \in Nat /\ S # {}
    BY <1>2
  <2>2. S \subseteq 0 .. n
    BY <1>2, <1>14
  <2> HIDE DEF n
  <2>3. \E i \in S : \A j \in S : j <= i
    <3> HIDE DEF S
    <3> QED BY Zenon, <2>1, <2>2, GreatestIndex
  <2> QED BY <1>1, <2>3
<1>16. /\ acked' \in Nat /\ acked <= acked'
       /\ acked' = acked \/ acked' \in cached
  <2>1. acked \in Nat /\ \A j \in cached : j \in Nat
    BY <1>2
  <2> QED BY <1>14, <1>15, <2>1
<1> QED BY <1>10, <1>11, <1>12, <1>13, <1>16 DEF ReturnsRelation, batch

-----------------------------------------------------------------------------
(* Every request is in one place *)

\* What NuRaft does leaves requests and workers alone
LEMMA NuRaftType ==
    ASSUME TypeOK, NuRaft
    PROVE  /\ TypeOK'
           /\ UNCHANGED <<running, stopping, proposals, reads, call, phase,
                          outcome, value, leaseTerm, seen>>
<1>1. UNCHANGED <<running, stopping, proposals, reads, call, phase, outcome,
                  value, leaseTerm, seen>>
  BY DEF NuRaft, BecomeLeader, CommitEntry, Depose, StepDown, InheritEntry,
         ForeignCommit, LearnCommit, ApplyEntry, Rest, clients
<1>2. /\ log \in Seq(LogEntry) /\ inflight \in Seq(LogEntry)
      /\ Len(log) \in Nat /\ known \in 0 .. Len(log) /\ applied \in 0 .. known
      /\ cached \subseteq 1 .. applied
      /\ term \in Nat /\ leaderStart \in Nat /\ acked \in Nat
      /\ role \in {"leader", "stale", "follower"}
  BY DEF TypeOK
<1>3. /\ log' \in Seq(LogEntry) /\ inflight' \in Seq(LogEntry)
      /\ known' \in 0 .. Len(log') /\ applied' \in 0 .. known'
      /\ cached' \subseteq 1 .. applied'
      /\ term' \in Nat /\ leaderStart' \in Nat /\ acked' \in Nat
      /\ role' \in {"leader", "stale", "follower"}
  <2>1. CASE BecomeLeader
    <3>1. <<Config>> \in Seq(LogEntry)
      BY DEF LogEntry
    <3> QED BY <1>2, <2>1, <3>1 DEF BecomeLeader, Rest, clients
  <2>2. CASE CommitEntry \/ InheritEntry
    <3>1. /\ inflight # <<>>
          /\ log' = Append(log, Head(inflight)) /\ inflight' = Tail(inflight)
          /\ known' = known \/ known' = Len(log) + 1
          /\ UNCHANGED <<role, term, leaderStart, applied, cached, acked>>
      BY <2>2 DEF CommitEntry, InheritEntry, Rest, clients
    <3>2. Head(inflight) \in LogEntry /\ Tail(inflight) \in Seq(LogEntry)
      BY <1>2, <3>1
    <3>3. log' \in Seq(LogEntry) /\ Len(log') = Len(log) + 1
      BY <1>2, <3>1, <3>2
    <3>4. known' \in 0 .. Len(log') /\ applied \in 0 .. known'
      BY <1>2, <3>1, <3>3
    <3> QED BY <1>2, <3>1, <3>2, <3>3, <3>4
  <2>3. CASE Depose \/ StepDown
    BY Zenon, <1>2, <2>3 DEF Depose, StepDown, Rest, clients
  <2>4. CASE ForeignCommit
    <3>1. /\ log' = Append(log, Foreign) /\ inflight' = <<>>
          /\ acked' = Len(log) + 1
          /\ UNCHANGED <<role, term, leaderStart, known, applied, cached>>
      BY <2>4 DEF ForeignCommit
    <3>2. log' \in Seq(LogEntry) /\ Len(log') = Len(log) + 1 /\ <<>> \in Seq(LogEntry)
      BY <1>2, <3>1 DEF LogEntry
    <3> QED BY <1>2, <3>1, <3>2
  <2>5. CASE LearnCommit
    BY <1>2, <2>5 DEF LearnCommit, Rest, clients
  <2>6. CASE ApplyEntry
    <3>1. /\ applied < known /\ applied' = applied + 1
          /\ cached' \subseteq cached \cup {applied + 1}
          /\ UNCHANGED <<role, term, leaderStart, log, inflight, known, acked>>
      BY <2>6 DEF ApplyEntry, Rest, clients
    <3>2. applied' \in 0 .. known /\ cached' \subseteq 1 .. applied'
      BY <1>2, <3>1
    <3> QED BY <1>2, <3>1, <3>2
  <2> QED BY <2>1, <2>2, <2>3, <2>4, <2>5, <2>6 DEF NuRaft
<1> QED BY <1>1, <1>3 DEF TypeOK

\* The types of what callers, workers and stop() change, when NuRaft does
\* nothing
LEMMA LocalType ==
    ASSUME TypeOK, UNCHANGED <<role, term, leaderStart, log, known, applied>>,
           inflight' \in Seq(LogEntry),
           cached' \subseteq cached,
           running' \in BOOLEAN,
           stopping' \in {StopSteps[i] : i \in DOMAIN StopSteps},
           proposals' \in Worker(Writer \cup {Barrier}, ProposalPcs),
           reads' \in Worker(Reader, ReadPcs),
           call' \in [term : Nat, indexes : Seq(Nat)],
           phase' \in [Request -> Phases],
           outcome' \in [Request -> Outcomes],
           value' \in [Request -> Nat],
           leaseTerm' \in [Reader -> Nat],
           seen' \in [Reader -> Nat],
           acked' \in Nat
    PROVE  TypeOK'
BY DEF TypeOK, ProposalPcs, ReadPcs, Phases, Outcomes

\* A step that no promise set before it notices
AnswersKept ==
    \A c \in Caller : outcome[c] # "none" => outcome'[c] = outcome[c]

\* Requests that are given up by the workers, or were with their callers, are
\* answered
LEMMA AnswerStep ==
    ASSUME PlaceInv, NEW S \in SUBSET Request, Answered(S),
           \A c \in S : phase[c] # "done",
           Holds(proposals') \subseteq Holds(proposals),
           Holds(reads') \subseteq Holds(reads),
           S \cap (Holds(proposals') \cup Holds(reads')) = {}
    PROVE  RequestInv' /\ AnswersKept
<1>1. \A c \in Holds(proposals) \cup Holds(reads) : c \in Request
  BY HeldTypes DEF PlaceInv
<1>2. \A c \in Request : outcome[c] # "none" => phase[c] = "done"
  BY DEF PlaceInv, RequestInv
<1>3. \A c \in Holds(proposals') \cup Holds(reads') : phase'[c] = "queued"
  BY <1>1 DEF PlaceInv, RequestInv, Answered
<1>4. \A c \in Request : outcome'[c] # "none" => phase'[c] = "done"
  BY <1>2 DEF Answered
<1>5. AnswersKept
  BY <1>2 DEF AnswersKept, Answered, Request
<1> QED BY <1>3, <1>4, <1>5 DEF RequestInv

\* A request goes on without an answer, perhaps into a queue
LEMMA AdvanceStep ==
    ASSUME PlaceInv, NEW c \in Request, NEW p \in Phases,
           phase[c] \notin {"queued", "done"},
           phase' = [phase EXCEPT ![c] = p], outcome' = outcome,
           Holds(proposals') \cup Holds(reads') \subseteq
               Holds(proposals) \cup Holds(reads)
                   \cup (IF p = "queued" THEN {c} ELSE {})
    PROVE  /\ phase' \in [Request -> Phases]
           /\ RequestInv'
           /\ AnswersKept
<1>1. \A d \in Holds(proposals) \cup Holds(reads) : d \in Request
  BY HeldTypes DEF PlaceInv
<1>2. phase \in [Request -> Phases]
  BY DEF PlaceInv, TypeOK, Phases
<1>3. \A d \in Request : phase'[d] = IF d = c THEN p ELSE phase[d]
  BY <1>2
<1>4. \A d \in Holds(proposals') \cup Holds(reads') : phase'[d] = "queued"
  BY <1>1, <1>3 DEF PlaceInv, RequestInv
<1>5. \A d \in Request : outcome'[d] # "none" => phase'[d] = "done"
  BY <1>3 DEF PlaceInv, RequestInv
<1>6. phase' \in [Request -> Phases]
  BY <1>2
<1> QED BY <1>4, <1>5, <1>6 DEF RequestInv, AnswersKept

\* A step that touches neither requests nor their answers
LEMMA QuietStep ==
    ASSUME PlaceInv, UNCHANGED <<phase, outcome>>,
           Holds(proposals') \subseteq Holds(proposals),
           Holds(reads') \subseteq Holds(reads)
    PROVE  RequestInv' /\ AnswersKept
BY DEF PlaceInv, RequestInv, AnswersKept

LEMMA PlaceTypes ==
    ASSUME PlaceInv
    PROVE  /\ running \in BOOLEAN
           /\ stopping \in {StopSteps[i] : i \in DOMAIN StopSteps}
           /\ proposals \in Worker(Writer \cup {Barrier}, ProposalPcs)
           /\ reads \in Worker(Reader, ReadPcs)
           /\ call \in [term : Nat, indexes : Seq(Nat)]
           /\ phase \in [Request -> Phases]
           /\ outcome \in [Request -> Outcomes]
           /\ value \in [Request -> Nat]
           /\ leaseTerm \in [Reader -> Nat]
           /\ seen \in [Reader -> Nat]
           /\ acked \in Nat
           /\ term \in Nat /\ applied \in Nat
           /\ inflight \in Seq(LogEntry)
BY DEF PlaceInv, TypeOK, ProposalPcs, ReadPcs, Phases, Outcomes

\* A request that its caller still holds is answered there and then
LEMMA CallerAnswered ==
    ASSUME PlaceInv, NEW c \in Request, phase[c] \notin {"queued", "done"},
           NEW result \in Outcomes \ {"none"}, Answer({c}, result),
           UNCHANGED <<proposals, reads>>
    PROVE  /\ outcome' \in [Request -> Outcomes]
           /\ phase' \in [Request -> Phases]
           /\ \A d \in Request \ {c} : phase'[d] = phase[d]
           /\ RequestInv'
           /\ AnswersKept
<1>1. Answered({c})
  BY AnswerFacts DEF PlaceInv
<1>2. c \notin Holds(proposals) \cup Holds(reads)
  BY DEF PlaceInv, RequestInv
<1>3. RequestInv' /\ AnswersKept
  BY <1>1, <1>2, AnswerStep
<1> QED BY <1>1, <1>3 DEF Answered

LEMMA ChecksFacts ==
    ASSUME PlaceInv, NEW c \in Request, phase[c] = "new", submitChecks(c),
           UNCHANGED <<proposals, reads>>
    PROVE  /\ outcome' \in [Request -> Outcomes]
           /\ phase' \in [Request -> Phases]
           /\ \A d \in Request \ {c} : phase'[d] = phase[d]
           /\ RequestInv'
           /\ AnswersKept
<1>1. CASE Answer({c}, Refusal)
  BY Zenon, <1>1, CallerAnswered, AnswerTypes
<1>2. CASE phase' = [phase EXCEPT ![c] = "checked"] /\ outcome' = outcome
  <2>1. "checked" \in Phases
    BY DEF Phases
  <2> QED BY Zenon, <1>2, <2>1, AdvanceStep, PlaceTypes
<1> QED BY <1>1, <1>2 DEF submitChecks

LEMMA SubmitPlace ==
    ASSUME PlaceInv, NEW c \in Writer \cup {Barrier},
           c = Barrier => reads.pc = "got",
           submit(c) \/ submitQueues(c)
    PROVE  PlaceInv' /\ AnswersKept
<1>1. /\ UNCHANGED <<running, stopping, reads, call, value, leaseTerm, seen,
                     acked, role, term, leaderStart, log, inflight, known,
                     applied, cached>>
      /\ phase[c] \in {"new", "checked"}
  BY DEF submit, submitQueues, raft
<1>2. c \in Request
  BY HeldTypes DEF PlaceInv
<1>3. /\ proposals' \in Worker(Writer \cup {Barrier}, ProposalPcs)
      /\ WorkerInv(proposals')
      /\ proposals'.pc = proposals.pc /\ proposals'.batch = proposals.batch
      /\ outcome' \in [Request -> Outcomes]
      /\ phase' \in [Request -> Phases]
      /\ \A d \in Request \ {c} : phase'[d] = phase[d]
      /\ RequestInv'
      /\ AnswersKept
  <2>0. WorkerInv(proposals)
    BY DEF PlaceInv
  <2>1. CASE submit(c)
    BY <1>1, <1>2, <2>0, <2>1, ChecksFacts, PlaceTypes DEF submit
  <2>2. CASE submitQueues(c) /\ Answer({c}, "unavailable") /\ proposals' = proposals
    BY Zenon, <1>1, <1>2, <2>0, <2>2, CallerAnswered, AnswerTypes, PlaceTypes
  <2>3. CASE /\ proposals' = [proposals EXCEPT !.queue = Append(@, c)]
             /\ phase' = [phase EXCEPT ![c] = "queued"]
             /\ outcome' = outcome
    <3>1. c \notin Holds(proposals)
      BY <1>1 DEF PlaceInv, RequestInv
    <3>2. /\ proposals' \in Worker(Writer \cup {Barrier}, ProposalPcs)
          /\ WorkerInv(proposals')
          /\ Holds(proposals') = Holds(proposals) \cup {c}
          /\ proposals'.pc = proposals.pc /\ proposals'.batch = proposals.batch
    <4>1. Joins(proposals, c, proposals')
        BY <2>3 DEF Joins
      <4>2. proposals \in Worker(Writer \cup {Barrier}, ProposalPcs)
        BY PlaceTypes
      <4> QED BY <2>0, <3>1, <4>1, <4>2, JoinFacts
    <3>3. "queued" \in Phases
      BY DEF Phases
    <3>4. /\ phase' \in [Request -> Phases]
          /\ RequestInv'
          /\ AnswersKept
      BY Zenon, <1>1, <1>2, <2>3, <3>2, <3>3, AdvanceStep
    <3> QED BY <2>3, <3>2, <3>4, PlaceTypes
  <2> QED BY <2>1, <2>2, <2>3 DEF submitQueues, submitEnqueues
<1>4. TypeOK'
  BY Zenon, <1>1, <1>3, LocalType, PlaceTypes DEF PlaceInv
<1>5. phase'[Barrier] # "new" => reads'.pc = "got"
  <2>1. Barrier \in Request
    BY HeldTypes DEF PlaceInv
  <2> QED BY Zenon, <1>1, <1>3, <2>1 DEF PlaceInv
<1> QED BY Zenon, <1>1, <1>3, <1>4, <1>5 DEF PlaceInv

LEMMA ReaderPlace ==
    ASSUME PlaceInv, NEW c \in Reader, ReaderStep(c)
    PROVE  PlaceInv' /\ AnswersKept
<1>1. /\ UNCHANGED <<running, stopping, proposals, call, acked, role, term,
                     leaderStart, log, inflight, known, applied, cached>>
      /\ value' \in [Request -> Nat]
      /\ leaseTerm' \in [Reader -> Nat] /\ seen' \in [Reader -> Nat]
  BY Zenon, PlaceTypes DEF ReaderStep, linearizable_get, leaseHolds, get, leaseStillHolds,
         queueRead, raft
<1>2. /\ c \in Request /\ c # Barrier /\ Barrier \in Request
      /\ phase[c] \notin {"queued", "done"}
  BY HeldTypes, ConstantsAssumption
     DEF PlaceInv, ReaderStep, linearizable_get, leaseHolds, get, leaseStillHolds,
         queueRead, Caller
<1>3. WorkerInv(reads)
  BY DEF PlaceInv
<1>4. {"checked", "leased", "read", "queued"} \subseteq Phases
  BY DEF Phases
<1>5. /\ reads' \in Worker(Reader, ReadPcs)
      /\ WorkerInv(reads')
      /\ reads'.pc = reads.pc
      /\ outcome' \in [Request -> Outcomes]
      /\ phase' \in [Request -> Phases]
      /\ \A d \in Request \ {c} : phase'[d] = phase[d]
      /\ RequestInv'
      /\ AnswersKept
  <2>1. CASE linearizable_get(c)
    BY <1>1, <1>2, <1>3, <2>1, ChecksFacts, PlaceTypes DEF linearizable_get
  <2>2. ASSUME NEW p \in {"leased", "read"},
               phase' = [phase EXCEPT ![c] = p], outcome' = outcome, reads' = reads
        PROVE  <1>5!1 /\ <1>5!2 /\ <1>5!3 /\ <1>5!4 /\ <1>5!5 /\ <1>5!6 /\ <1>5!7 /\ <1>5!8
    BY Zenon, <1>1, <1>2, <1>3, <1>4, <2>2, AdvanceStep, PlaceTypes
  <2>3. CASE leaseHolds(c) \/ get(c)
    BY <2>2, <2>3 DEF leaseHolds, get
  <2>4. ASSUME NEW result \in {"ok", "unavailable"}, Answer({c}, result), reads' = reads
        PROVE  <1>5!1 /\ <1>5!2 /\ <1>5!3 /\ <1>5!4 /\ <1>5!5 /\ <1>5!6 /\ <1>5!7 /\ <1>5!8
    BY Zenon, <1>1, <1>2, <1>3, <2>4, CallerAnswered, AnswerTypes, PlaceTypes
  <2>5. CASE leaseStillHolds(c)
    BY <2>4, <2>5 DEF leaseStillHolds
  <2>6. CASE /\ reads' = [reads EXCEPT !.queue = Append(@, c)]
             /\ phase' = [phase EXCEPT ![c] = "queued"]
             /\ outcome' = outcome
    <3>1. c \notin Holds(reads)
      BY <1>2 DEF PlaceInv, RequestInv
    <3>2. /\ reads' \in Worker(Reader, ReadPcs)
          /\ WorkerInv(reads')
          /\ Holds(reads') = Holds(reads) \cup {c}
          /\ reads'.pc = reads.pc
    <4>1. Joins(reads, c, reads')
        BY <2>6 DEF Joins
      <4>2. reads \in Worker(Reader, ReadPcs)
        BY PlaceTypes
      <4> QED BY <1>3, <3>1, <4>1, <4>2, JoinFacts
    <3>3. /\ phase' \in [Request -> Phases]
          /\ RequestInv'
          /\ AnswersKept
      BY Zenon, <1>1, <1>2, <1>4, <2>6, <3>2, AdvanceStep
    <3> QED BY <2>6, <3>2, <3>3, PlaceTypes
  <2>7. CASE queueRead(c)
    BY <2>4, <2>6, <2>7 DEF queueRead
  <2> QED BY Zenon, <2>1, <2>3, <2>5, <2>7 DEF ReaderStep
<1>6. TypeOK'
  BY Zenon, <1>1, <1>5, LocalType, PlaceTypes DEF PlaceInv
<1> QED BY <1>1, <1>2, <1>5, <1>6 DEF PlaceInv

\* A batch is answered and the worker waits again
LEMMA ProposalsAnswered ==
    ASSUME PlaceInv, Answered(Items(proposals.batch)), proposals' = Idle(proposals),
           reads' = reads
    PROVE  /\ proposals' \in Worker(Writer \cup {Barrier}, ProposalPcs)
           /\ WorkerInv(proposals')
           /\ proposals'.pc = "waiting"
           /\ RequestInv'
           /\ AnswersKept
<1>1. proposals \in Worker(Writer \cup {Barrier}, ProposalPcs) /\ WorkerInv(proposals)
  BY PlaceTypes DEF PlaceInv
<1>2. /\ WorkerKept(proposals, proposals', Writer \cup {Barrier}, ProposalPcs)
      /\ Holds(proposals') \cap Items(proposals.batch) = {}
      /\ proposals'.pc = "waiting"
  BY <1>1, IdleFacts
<1>3. /\ Holds(proposals') \subseteq Holds(proposals)
      /\ Items(proposals.batch) \subseteq Holds(proposals)
      /\ Items(proposals.batch) \subseteq Writer \cup {Barrier}
      /\ Items(proposals.batch) \in SUBSET Request
      /\ Holds(reads') = Holds(reads)
      /\ Items(proposals.batch) \cap Holds(reads) = {}
  BY <1>2, HeldTypes DEF WorkerKept, Holds, PlaceInv
<1>4. \A c \in Items(proposals.batch) : phase[c] # "done"
  BY <1>3 DEF PlaceInv, RequestInv
<1>5. RequestInv' /\ AnswersKept
  <2>1. Items(proposals.batch) \cap (Holds(proposals') \cup Holds(reads')) = {}
    BY <1>2, <1>3
  <2> QED BY <1>3, <1>4, <2>1, AnswerStep
<1> QED BY <1>2, <1>5 DEF WorkerKept

\* The barrier's phase moves only with the read worker at its batch, or to
\* "done" with the barrier's answer
LEMMA BarrierPlace ==
    ASSUME PlaceInv, NEW S \in SUBSET (Holds(proposals) \cup Holds(reads)),
           Answered(S), reads' = reads \/ reads'.pc = reads.pc
    PROVE  phase'[Barrier] # "new" => reads'.pc = "got"
<1>1. Barrier \in Request
  BY HeldTypes DEF PlaceInv
<1>2. \A c \in S : phase[c] = "queued"
  BY DEF PlaceInv, RequestInv
<1>3. phase[Barrier] # "new" => reads.pc = "got"
  BY DEF PlaceInv
<1>4. CASE Barrier \in S
  BY <1>2, <1>3, <1>4
<1>5. CASE Barrier \notin S
  BY <1>1, <1>3, <1>5 DEF Answered
<1> QED BY <1>4, <1>5

LEMMA BatchAnswers ==
    ASSUME PlaceInv, NEW result \in Outcomes \ {"none"},
           Answer(Items(proposals.batch), result)
    PROVE  Answered(Items(proposals.batch))
<1>1. Items(proposals.batch) \in SUBSET Request
  BY HeldTypes DEF PlaceInv, Holds
<1> QED BY <1>1, AnswerFacts DEF PlaceInv

LEMMA NoCallType == NoCall \in [term : Nat, indexes : Seq(Nat)]
<1>1. <<>> \in Seq(Nat) /\ 0 \in Nat
  OBVIOUS
<1> QED BY Zenon, <1>1 DEF NoCall

\* What append_entries_ext is called with
LEMMA AppendFacts ==
    ASSUME PlaceInv, process_proposal_batch
    PROVE  /\ proposals.pc = "got"
           /\ proposals' \in Worker(Writer \cup {Barrier}, ProposalPcs)
           /\ proposals'.pc = "appended"
           /\ proposals'.queue = proposals.queue
           /\ proposals'.batch = proposals.batch
           /\ call' \in [term : Nat, indexes : Seq(Nat)]
           /\ call'.term = term
           /\ DOMAIN call'.indexes = DOMAIN proposals.batch
           /\ \A k \in DOMAIN proposals.batch : call'.indexes[k] = LastIndex + k
           /\ inflight' \in Seq(LogEntry)
           /\ LastIndex \in Nat
<1>1. /\ proposals.pc = "got"
      /\ call' = [term |-> term,
                  indexes |-> [k \in DOMAIN proposals.batch |-> LastIndex + k]]
      /\ inflight' = IF role = "leader" THEN inflight \o proposals.batch ELSE inflight
      /\ proposals' = [proposals EXCEPT !.pc = "appended"]
  BY DEF process_proposal_batch, appendBehind
<1>2. proposals \in Worker(Writer \cup {Barrier}, ProposalPcs) /\ term \in Nat
  BY PlaceTypes
<1>3. /\ proposals' \in Worker(Writer \cup {Barrier}, ProposalPcs)
      /\ proposals'.pc = "appended"
      /\ proposals'.queue = proposals.queue
      /\ proposals'.batch = proposals.batch
  <2>1. "appended" \in ProposalPcs
    BY DEF ProposalPcs
  <2> QED BY Zenon, <1>1, <1>2, <2>1 DEF Worker
<1>4. /\ proposals.batch \in Seq(Writer \cup {Barrier})
      /\ proposals.batch \in Seq(LogEntry)
  BY <1>2 DEF Worker, LogEntry
<1>5. LastIndex \in Nat
  BY DEF PlaceInv, TypeOK, LastIndex
<1>6. inflight' \in Seq(LogEntry)
  BY <1>1, <1>4 DEF PlaceInv, TypeOK
<1> DEFINE f == [k \in DOMAIN proposals.batch |-> LastIndex + k]
<1>7. f \in Seq(Nat)
  <2> DEFINE n == Len(proposals.batch)
  <2>1. n \in Nat /\ DOMAIN proposals.batch = 1 .. n
    BY <1>4
  <2> HIDE DEF n
  <2>2. \A k \in 1 .. n : LastIndex + k \in Nat
    BY <1>5
  <2>3. f \in [1 .. n -> Nat]
    BY <2>1, <2>2
  <2> HIDE DEF f
  <2> QED BY <2>1, <2>3
<1>8. /\ call'.term = term /\ call'.indexes = f
      /\ call' \in [term : Nat, indexes : Seq(Nat)]
  <2>1. call' = [term |-> term, indexes |-> f]
    BY <1>1
  <2> HIDE DEF f
  <2> QED BY Zenon, <1>2, <1>7, <2>1
<1> QED BY <1>1, <1>3, <1>5, <1>6, <1>8

LEMMA ProposalPlace ==
    ASSUME PlaceInv, ProposalStep
    PROVE  PlaceInv' /\ AnswersKept
<1>1. /\ UNCHANGED <<running, stopping, reads, leaseTerm, seen, role, term,
                     leaderStart, log, known, applied>>
      /\ cached' \subseteq cached
  BY DEF ProposalStep, proposal_worker, process_proposal_batchFails,
         process_proposal_batch, appendBehind, appendReturns, appendFails,
         clients, raft
<1>2. /\ proposals \in Worker(Writer \cup {Barrier}, ProposalPcs)
      /\ WorkerInv(proposals) /\ WorkerInv(reads)
  BY PlaceTypes DEF PlaceInv
<1>3. Items(proposals.batch) \in SUBSET (Holds(proposals) \cup Holds(reads))
  BY DEF Holds
<1>4. CASE proposal_worker
  <2>1. UNCHANGED <<call, phase, outcome, value, acked, inflight>>
    BY <1>4 DEF proposal_worker, clients, raft
  <2>2. /\ WorkerKept(proposals, proposals', Writer \cup {Barrier}, ProposalPcs)
        /\ proposals'.pc # "appended"
    <3>1. CASE Wakes(proposals, proposals')
      BY <1>2, <3>1, WakesFacts
    <3>2. CASE Takes(proposals, proposals')
      BY <1>2, <3>2, TakesFacts
    <3> QED BY <1>4, <3>1, <3>2 DEF proposal_worker
  <2>3. RequestInv' /\ AnswersKept
    BY <1>1, <2>1, <2>2, QuietStep DEF WorkerKept
  <2>4. TypeOK'
    BY <1>1, <2>1, <2>2, LocalType, PlaceTypes DEF PlaceInv, WorkerKept
  <2> QED BY <1>1, <1>2, <2>1, <2>2, <2>3, <2>4 DEF PlaceInv, WorkerKept
<1>5. CASE process_proposal_batch
  <2>1. UNCHANGED <<phase, outcome, value, acked>>
    BY <1>5 DEF process_proposal_batch, appendBehind, clients
  <2>2. /\ proposals' \in Worker(Writer \cup {Barrier}, ProposalPcs)
        /\ proposals'.pc = "appended"
        /\ proposals'.queue = proposals.queue
        /\ proposals'.batch = proposals.batch
        /\ call' \in [term : Nat, indexes : Seq(Nat)]
        /\ DOMAIN call'.indexes = DOMAIN proposals.batch
        /\ inflight' \in Seq(LogEntry)
    BY <1>5, AppendFacts
  <2>3. WorkerInv(proposals') /\ Holds(proposals') = Holds(proposals)
    BY <1>2, <2>2 DEF WorkerInv, Holds
  <2>4. RequestInv' /\ AnswersKept
    BY <1>1, <2>1, <2>3, QuietStep
  <2>5. TypeOK'
    BY <1>1, <2>1, <2>2, LocalType, PlaceTypes DEF PlaceInv
  <2> QED BY <1>1, <1>2, <2>1, <2>2, <2>3, <2>4, <2>5 DEF PlaceInv
<1>6. ASSUME Answered(Items(proposals.batch)), proposals' = Idle(proposals),
             value' \in [Request -> Nat], acked' \in Nat, inflight' = inflight,
             call' = call \/ call' = NoCall
      PROVE  PlaceInv' /\ AnswersKept
  <2>1. /\ proposals' \in Worker(Writer \cup {Barrier}, ProposalPcs)
        /\ WorkerInv(proposals')
        /\ proposals'.pc = "waiting"
        /\ RequestInv'
        /\ AnswersKept
    BY <1>1, <1>6, ProposalsAnswered
  <2>2. phase'[Barrier] # "new" => reads'.pc = "got"
    BY <1>1, <1>3, <1>6, BarrierPlace
  <2>3. /\ call' \in [term : Nat, indexes : Seq(Nat)]
        /\ phase' \in [Request -> Phases] /\ outcome' \in [Request -> Outcomes]
    BY <1>6, NoCallType, PlaceTypes DEF Answered
  <2>4. TypeOK'
    BY Zenon, <1>1, <1>6, <2>1, <2>3, LocalType, PlaceTypes DEF PlaceInv
  <2> QED BY Zenon, <1>1, <1>2, <2>1, <2>2, <2>4 DEF PlaceInv
<1>7. CASE process_proposal_batchFails
  <2>1. Answered(Items(proposals.batch))
    BY <1>7, BatchAnswers, AnswerTypes DEF process_proposal_batchFails
  <2> QED BY Zenon, <1>6, <1>7, <2>1, PlaceTypes DEF process_proposal_batchFails, raft
<1>8. CASE appendFails
  <2>1. Answered(Items(proposals.batch))
    BY <1>8, BatchAnswers, AnswerTypes DEF appendFails
  <2> QED BY <1>6, <1>8, <2>1, PlaceTypes DEF appendFails, raft
<1>9. CASE appendReturns
  <2>1. /\ Answered(Items(proposals.batch))
        /\ value' \in [Request -> Nat] /\ acked' \in Nat
    BY <1>9, ReturnsFacts DEF ReturnsRelation
  <2> QED BY Zenon, <1>6, <1>9, <2>1 DEF appendReturns
<1> QED BY <1>4, <1>5, <1>7, <1>8, <1>9 DEF ProposalStep

LEMMA ReadPlace ==
    ASSUME PlaceInv, ReadStep
    PROVE  PlaceInv' /\ AnswersKept
<1>1. reads \in Worker(Reader, ReadPcs) /\ WorkerInv(reads) /\ WorkerInv(proposals)
  BY PlaceTypes DEF PlaceInv
<1>2. CASE readBarrier
  BY <1>2, SubmitPlace DEF readBarrier
<1>3. CASE read_worker
  <2>1. UNCHANGED <<running, stopping, proposals, call, phase, outcome, value,
                    leaseTerm, seen, acked, role, term, leaderStart, log,
                    inflight, known, applied, cached>>
    BY <1>3 DEF read_worker, clients, raft
  <2>2. /\ WorkerKept(reads, reads', Reader, ReadPcs)
        /\ reads.pc # "got"
    <3>1. CASE Wakes(reads, reads')
      BY <1>1, <3>1, WakesFacts
    <3>2. CASE Takes(reads, reads')
      BY <1>1, <3>2, TakesFacts
    <3> QED BY <1>3, <3>1, <3>2 DEF read_worker
  <2>3. RequestInv' /\ AnswersKept
    BY <2>1, <2>2, QuietStep DEF WorkerKept
  <2>4. TypeOK'
    BY Zenon, <2>1, <2>2, LocalType, PlaceTypes DEF PlaceInv, WorkerKept
  <2> QED BY <1>1, <2>1, <2>2, <2>3, <2>4 DEF PlaceInv, WorkerKept
<1>4. CASE answerReads
  <2> DEFINE batch == Items(reads.batch)
  <2>1. /\ UNCHANGED <<running, stopping, proposals, call, leaseTerm, seen,
                       acked, role, term, leaderStart, log, inflight, known,
                       applied, cached>>
        /\ phase[Barrier] = "done"
        /\ reads' = Idle(reads)
        /\ outcome' = [c \in Request |->
                          IF c \in batch THEN outcome[Barrier]
                          ELSE IF c = Barrier THEN "none" ELSE outcome[c]]
        /\ phase' = [c \in Request |->
                        IF c \in batch THEN "done"
                        ELSE IF c = Barrier THEN "new" ELSE phase[c]]
        /\ value' = [c \in Request |->
                        IF c \in batch /\ outcome[Barrier] = "ok"
                        THEN applied ELSE value[c]]
    BY Zenon, <1>4 DEF answerReads, raft
  <2>2. /\ WorkerKept(reads, reads', Reader, ReadPcs)
        /\ Holds(reads') \cap batch = {}
    BY Zenon, <1>1, <2>1, IdleFacts
  <2>3. /\ Barrier \in Request /\ Barrier \notin Caller
        /\ batch \subseteq Reader /\ batch \subseteq Holds(reads)
        /\ Holds(proposals) \cap batch = {}
        /\ Holds(proposals) \cup Holds(reads) \subseteq Request
        /\ Barrier \notin Holds(proposals) \cup Holds(reads)
    BY Zenon, <2>1, HeldTypes DEF PlaceInv, RequestInv, Holds
  <2> HIDE DEF batch
  <2>4. /\ outcome' \in [Request -> Outcomes] /\ phase' \in [Request -> Phases]
        /\ value' \in [Request -> Nat]
    BY Zenon, <2>1, <2>3, PlaceTypes DEF Outcomes, Phases
  <2>5. Barrier \notin batch
    BY <2>3 DEF Caller
  <2>6. /\ phase'[Barrier] = "new" /\ outcome'[Barrier] = "none"
        /\ \A c \in batch : phase'[c] = "done"
        /\ \A c \in Request \ (batch \cup {Barrier}) :
              phase'[c] = phase[c] /\ outcome'[c] = outcome[c]
    BY Zenon, <2>1, <2>3, <2>5
  <2>7. RequestInv'
    <3>1. \A c \in Holds(proposals') \cup Holds(reads') : phase'[c] = "queued"
      BY Zenon, <2>1, <2>2, <2>3, <2>6 DEF WorkerKept, PlaceInv, RequestInv
    <3>2. \A c \in Request : outcome'[c] # "none" => phase'[c] = "done"
      BY <2>6 DEF PlaceInv, RequestInv
    <3> QED BY <3>1, <3>2 DEF RequestInv
  <2>8. AnswersKept
    <3>1. \A c \in batch : outcome[c] = "none"
      BY <2>3 DEF PlaceInv, RequestInv
    <3> QED BY <2>3, <2>6, <3>1 DEF AnswersKept, Request
  <2>9. TypeOK'
    BY <2>1, <2>2, <2>4, LocalType, PlaceTypes DEF PlaceInv, WorkerKept
  <2> QED BY Zenon, <1>1, <2>1, <2>2, <2>6, <2>7, <2>8, <2>9 DEF PlaceInv, WorkerKept
<1> QED BY <1>2, <1>3, <1>4 DEF ReadStep

LEMMA StopPlace ==
    ASSUME PlaceInv, stop \/ StopStep
    PROVE  PlaceInv' /\ AnswersKept
<1>1. /\ UNCHANGED <<call, value, leaseTerm, seen, acked, role, term,
                     leaderStart, log, inflight, known, applied, cached>>
      /\ running' \in BOOLEAN
  BY Zenon, PlaceTypes DEF stop, StopStep, stop_workersReads, stop_workersProposals,
         stop_workersJoins, clients, raft
<1>2. stopping' \in {StopSteps[i] : i \in DOMAIN StopSteps}
  <2>1. /\ 2 \in DOMAIN StopSteps /\ StopSteps[2] = "flagged"
        /\ 3 \in DOMAIN StopSteps /\ StopSteps[3] = "reads"
        /\ 4 \in DOMAIN StopSteps /\ StopSteps[4] = "proposals"
        /\ 5 \in DOMAIN StopSteps /\ StopSteps[5] = "stopped"
    BY DEF StopSteps
  <2>2. stopping' \in {"flagged", "reads", "proposals", "stopped"}
    BY DEF stop, StopStep, stop_workersReads, stop_workersProposals,
           stop_workersJoins
  <2> HIDE DEF StopSteps
  <2> QED BY <2>1, <2>2
<1>3. /\ proposals \in Worker(Writer \cup {Barrier}, ProposalPcs)
      /\ reads \in Worker(Reader, ReadPcs)
      /\ WorkerInv(proposals) /\ WorkerInv(reads)
  BY Zenon, PlaceTypes DEF PlaceInv
<1>4. CASE stop \/ stop_workersJoins
  <2>1. UNCHANGED <<proposals, reads, phase, outcome>>
    BY <1>4 DEF stop, stop_workersJoins, clients
  <2>2. RequestInv' /\ AnswersKept
    BY <2>1, QuietStep
  <2>3. TypeOK'
    BY Zenon, <1>1, <1>2, <2>1, LocalType, PlaceTypes DEF PlaceInv
  <2> QED BY Zenon, <1>1, <1>3, <2>1, <2>2, <2>3 DEF PlaceInv
<1>5. ASSUME NEW S \in SUBSET (Holds(proposals) \cup Holds(reads)), Answered(S),
             WorkerKept(proposals, proposals', Writer \cup {Barrier}, ProposalPcs),
             WorkerKept(reads, reads', Reader, ReadPcs),
             S \cap (Holds(proposals') \cup Holds(reads')) = {},
             proposals'.pc = proposals.pc, proposals'.batch = proposals.batch,
             reads'.pc = reads.pc
      PROVE  PlaceInv' /\ AnswersKept
  <2>1. S \in SUBSET Request /\ \A c \in S : phase[c] # "done"
    BY Zenon, HeldTypes DEF PlaceInv, RequestInv
  <2>2. RequestInv' /\ AnswersKept
    BY <1>5, <2>1, AnswerStep DEF WorkerKept
  <2>3. phase'[Barrier] # "new" => reads'.pc = "got"
    BY Zenon, <1>5, BarrierPlace
  <2>4. TypeOK'
    BY Zenon, <1>1, <1>2, <1>5, LocalType, PlaceTypes DEF PlaceInv, WorkerKept, Answered
  <2> QED BY Zenon, <1>1, <1>5, <2>2, <2>3, <2>4 DEF PlaceInv, WorkerKept
<1>6. \A S : S \subseteq Holds(proposals) \cup Holds(reads) => S \in SUBSET Request
  BY Zenon, HeldTypes DEF PlaceInv
<1>7. /\ WorkerKept(proposals, proposals, Writer \cup {Barrier}, ProposalPcs)
      /\ WorkerKept(reads, reads, Reader, ReadPcs)
  BY <1>3 DEF WorkerKept
<1>8. Holds(proposals) \cap Holds(reads) = {}
  BY HeldTypes DEF PlaceInv
<1>9. CASE stop_workersReads
  <2>1. /\ Answer(Items(reads.queue), "unavailable")
        /\ reads' = Rejected(reads) /\ proposals' = proposals
    BY <1>9 DEF stop_workersReads
  <2>2. Items(reads.queue) \in SUBSET (Holds(proposals) \cup Holds(reads))
        /\ Items(reads.queue) \cap Holds(proposals) = {}
    BY <1>8 DEF Holds
  <2>3. Answered(Items(reads.queue))
    BY Zenon, <1>6, <2>1, <2>2, AnswerFacts, AnswerTypes DEF PlaceInv
  <2>4. /\ WorkerKept(reads, reads', Reader, ReadPcs)
        /\ Holds(reads') \cap Items(reads.queue) = {}
        /\ reads'.pc = reads.pc
    BY Zenon, <1>3, <2>1, RejectedFacts
  <2> QED BY <1>5, <1>7, <2>1, <2>2, <2>3, <2>4
<1>10. CASE stop_workersProposals
  <2>1. /\ Answer(Items(proposals.queue), "unavailable")
        /\ proposals' = Rejected(proposals) /\ reads' = reads
    BY <1>10 DEF stop_workersProposals
  <2>2. Items(proposals.queue) \in SUBSET (Holds(proposals) \cup Holds(reads))
        /\ Items(proposals.queue) \cap Holds(reads) = {}
    BY <1>8 DEF Holds
  <2>3. Answered(Items(proposals.queue))
    BY <1>6, <2>1, <2>2, AnswerFacts, AnswerTypes DEF PlaceInv
  <2>4. /\ WorkerKept(proposals, proposals', Writer \cup {Barrier}, ProposalPcs)
        /\ Holds(proposals') \cap Items(proposals.queue) = {}
        /\ proposals'.pc = proposals.pc /\ proposals'.batch = proposals.batch
    BY Zenon, <1>3, <2>1, RejectedFacts
  <2> QED BY <1>5, <1>7, <2>1, <2>2, <2>3, <2>4
<1> QED BY <1>4, <1>9, <1>10 DEF StopStep

LEMMA PlaceStep ==
    ASSUME PlaceInv, Next
    PROVE  PlaceInv' /\ AnswersKept
<1>1. ASSUME NEW c \in Writer, WriterStep(c) PROVE PlaceInv' /\ AnswersKept
  <2>1. c # Barrier
    BY ConstantsAssumption DEF Caller
  <2> QED BY <1>1, <2>1, SubmitPlace DEF WriterStep
<1>2. CASE NuRaft
  <2>1. /\ TypeOK'
        /\ UNCHANGED <<proposals, reads, call, phase, outcome>>
    BY <1>2, NuRaftType DEF PlaceInv
  <2>2. RequestInv' /\ AnswersKept
    BY <2>1, QuietStep
  <2> QED BY <2>1, <2>2 DEF PlaceInv
<1> QED BY <1>1, <1>2, ReaderPlace, ProposalPlace, ReadPlace, StopPlace DEF Next

LEMMA PlaceInit ==
    ASSUME Init
    PROVE  PlaceInv
<1>1. Items(<<>>) = {} /\ Distinct(<<>>)
  BY DEF Items, Distinct
<1>2. NewWorker.queue = <<>> /\ NewWorker.batch = <<>> /\ NewWorker.pc = "waiting"
  BY DEF NewWorker
<1>3. WorkerInv(NewWorker) /\ Holds(NewWorker) = {}
  BY <1>1, <1>2 DEF WorkerInv, Holds
<1>4. /\ proposals = NewWorker /\ reads = NewWorker
      /\ phase = [c \in Request |-> "new"] /\ outcome = [c \in Request |-> "none"]
  BY DEF Init
<1>5. TypeOK
  <2>1. ASSUME NEW S, NEW Pcs, "waiting" \in Pcs
        PROVE  NewWorker \in Worker(S, Pcs)
    <3>1. <<>> \in Seq(S)
      OBVIOUS
    <3> QED BY Zenon, <2>1, <3>1 DEF NewWorker, Worker
  <2>2. "none" \in {StopSteps[i] : i \in DOMAIN StopSteps}
    BY DEF StopSteps
  <2>3. /\ <<>> \in Seq(LogEntry) /\ 0 \in 0 .. Len(<<>>)
        /\ {} \subseteq 1 .. 0
    OBVIOUS
  <2>4. /\ running \in BOOLEAN
        /\ stopping \in {StopSteps[i] : i \in DOMAIN StopSteps}
        /\ log \in Seq(LogEntry) /\ inflight \in Seq(LogEntry)
        /\ known \in 0 .. Len(log) /\ applied \in 0 .. known
        /\ cached \subseteq 1 .. applied
        /\ role \in {"leader", "stale", "follower"}
        /\ term \in Nat /\ leaderStart \in Nat /\ acked \in Nat
    BY <2>2, <2>3 DEF Init
  <2>5. /\ phase \in [Request -> {"new", "checked", "leased", "read", "queued", "done"}]
        /\ outcome \in [Request -> {"none", "ok", "not_leader", "timeout",
                                    "unavailable", "rejected"}]
        /\ value \in [Request -> Nat]
        /\ leaseTerm \in [Reader -> Nat] /\ seen \in [Reader -> Nat]
    BY DEF Init
  <2>6. call \in [term : Nat, indexes : Seq(Nat)]
    BY Zenon, NoCallType DEF Init
  <2> QED BY <1>4, <2>1, <2>4, <2>5, <2>6 DEF TypeOK
<1>6. Barrier \in Request
  BY DEF Request
<1> QED BY <1>2, <1>3, <1>4, <1>5, <1>6 DEF PlaceInv, RequestInv

LEMMA PlaceStutter ==
    ASSUME PlaceInv, UNCHANGED vars
    PROVE  PlaceInv'
BY Zenon DEF vars, clients, raft, PlaceInv, RequestInv, TypeOK

LEMMA PlaceInvariant == Spec => []PlaceInv
BY PlaceInit, PlaceStep, PlaceStutter, PTL DEF Spec

\* Every variable of the node keeps its type
THEOREM TypeCorrect == Spec => []TypeOK
BY PlaceInvariant, PTL DEF PlaceInv

\* Each promise of submit and linearizable_get is set at most once, whoever
\* sets it: the caller's own early return, a worker, fail_all, or stop()
\* rejecting what is queued
THEOREM AnsweredAtMostOnce == Spec => AnsweredOnce
<1>1. PlaceInv /\ [Next]_vars =>
          [\A c \in Caller : outcome[c] # "none" => outcome'[c] = outcome[c]]_vars
  BY PlaceStep DEF AnswersKept
<1> QED BY <1>1, PlaceInvariant, PTL DEF Spec, AnsweredOnce

-----------------------------------------------------------------------------
(* Where an OK comes from *)

LEMMA LocalRaft ==
    ASSUME Next, ~NuRaft
    PROVE  /\ UNCHANGED <<role, term, leaderStart, log, known, applied>>
           /\ cached' \subseteq cached
           /\ process_proposal_batch \/ inflight' = inflight
<1>1. CASE \E c \in Writer : WriterStep(c)
  BY <1>1 DEF WriterStep, submit, submitQueues, raft
<1>2. CASE \E c \in Reader : ReaderStep(c)
  BY <1>2 DEF ReaderStep, linearizable_get, leaseHolds, get, leaseStillHolds,
              queueRead, raft
<1>3. CASE ProposalStep
  BY <1>3 DEF ProposalStep, proposal_worker, process_proposal_batchFails,
              process_proposal_batch, appendBehind, appendReturns, appendFails, raft
<1>4. CASE ReadStep
  BY <1>4 DEF ReadStep, read_worker, readBarrier, answerReads, submit,
              submitQueues, raft
<1>5. CASE stop \/ StopStep
  BY <1>5 DEF stop, StopStep, stop_workersReads, stop_workersProposals,
              stop_workersJoins, raft
<1> QED BY <1>1, <1>2, <1>3, <1>4, <1>5 DEF Next

\* What is committed stays, and is neither forgotten nor unapplied
LogGrows ==
    /\ Len(log) \in Nat /\ Len(log') \in Nat /\ Len(log) <= Len(log')
    /\ \A i \in 1 .. Len(log) : log'[i] = log[i]
    /\ known \in Nat /\ known' \in Nat /\ known <= Len(log) /\ known <= known'
    /\ applied \in Nat /\ applied' \in Nat /\ applied <= known
    /\ applied <= applied'

LEMMA LogGrowth ==
    ASSUME TypeOK, Next
    PROVE  LogGrows
<1>1. /\ log \in Seq(LogEntry) /\ inflight \in Seq(LogEntry) /\ Len(log) \in Nat
      /\ known \in 0 .. Len(log) /\ applied \in 0 .. known
  <2>1. /\ log \in Seq(LogEntry) /\ inflight \in Seq(LogEntry)
        /\ known \in 0 .. Len(log) /\ applied \in 0 .. known
    BY Zenon DEF TypeOK
  <2> QED BY <2>1
<1>2. CASE ~NuRaft
  <2>1. log' = log /\ known' = known /\ applied' = applied
    BY Zenon, <1>2, LocalRaft
  <2> QED BY <1>1, <2>1 DEF LogGrows
<1>3. CASE BecomeLeader \/ Depose \/ StepDown \/ LearnCommit \/ ApplyEntry
  <2>1. /\ log' = log
        /\ known' = known \/ known' = Len(log)
        /\ applied' = applied \/ applied' = applied + 1
    BY <1>3 DEF BecomeLeader, Depose, StepDown, LearnCommit, ApplyEntry
  <2> QED BY <1>1, <2>1 DEF LogGrows
<1>4. CASE CommitEntry \/ InheritEntry \/ ForeignCommit
  <2>1. PICK e \in LogEntry : log' = Append(log, e)
    <3>1. CASE CommitEntry \/ InheritEntry
      <4>1. inflight # <<>> /\ log' = Append(log, Head(inflight))
        BY <3>1 DEF CommitEntry, InheritEntry
      <4>2. Head(inflight) \in LogEntry
        BY <1>1, <4>1
      <4> QED BY <4>1, <4>2
    <3>2. CASE ForeignCommit
      BY <3>2 DEF ForeignCommit, LogEntry
    <3> QED BY <1>4, <3>1, <3>2
  <2>2. (known' = known \/ known' = Len(log) + 1) /\ applied' = applied
    BY <1>4 DEF CommitEntry, InheritEntry, ForeignCommit
  <2>3. Len(log') = Len(log) + 1 /\ \A i \in 1 .. Len(log) : log'[i] = log[i]
    BY <1>1, <2>1
  <2> QED BY <1>1, <2>2, <2>3 DEF LogGrows
<1> QED BY <1>2, <1>3, <1>4 DEF NuRaft

\* An OK stands, or is given by the second lease check, by the read worker
\* passing on the barrier's OK, or by the proposal worker
OkSource(c) ==
    \/ outcome[c] = "ok" /\ value'[c] = value[c]
    \/ c \in Reader /\ leaseStillHolds(c)
    \/ answerReads /\ c \in Items(reads.batch) /\ outcome[Barrier] = "ok"
    \/ appendReturns /\ c \in Items(proposals.batch)

\* Every other answer is a failure
LEMMA FailingAnswer ==
    ASSUME NEW S, NEW result, result # "ok", Answer(S, result)
    PROVE  \A c \in Request : outcome'[c] = "ok" => outcome[c] = "ok"
BY DEF Answer

LEMMA OkSources ==
    ASSUME PlaceInv, Next
    PROVE  \A c \in Request : outcome'[c] = "ok" => OkSource(c)
<1> SUFFICES ASSUME NEW c \in Request, outcome'[c] = "ok"
             PROVE  OkSource(c)
  OBVIOUS
<1>1. Refusal # "ok" /\ \A code \in Failures : map_status(code) # "ok"
  <2>1. ASSUME NEW code \in Failures PROVE map_status(code) # "ok"
    BY ConstantsAssumption DEF map_status
  <2> QED BY <2>1 DEF Refusal
<1>2. ASSUME NEW d, submit(d) \/ submitQueues(d) PROVE OkSource(c)
  <2>1. outcome[c] = "ok"
    BY <1>1, <1>2, FailingAnswer DEF submit, submitQueues, submitChecks, submitEnqueues
  <2> QED BY <1>2, <2>1 DEF OkSource, submit, submitQueues
<1>3. CASE \E d \in Reader : ReaderStep(d)
  <2>1. PICK d \in Reader : ReaderStep(d)
    BY <1>3
  <2>2. CASE linearizable_get(d) \/ queueRead(d) \/ leaseHolds(d)
    <3>1. outcome[c] = "ok"
      BY <1>1, <2>2, FailingAnswer DEF linearizable_get, queueRead, leaseHolds, submitChecks
    <3> QED BY <2>2, <3>1 DEF OkSource, linearizable_get, queueRead, leaseHolds
  <2>3. CASE get(d)
    <3>1. outcome[c] = "ok" /\ phase[d] = "leased" /\ d \in Request
      BY Zenon, <2>3, HeldTypes DEF get, PlaceInv
    <3>2. c # d
      BY Zenon, <3>1 DEF PlaceInv, RequestInv
    <3> QED BY Zenon, <2>3, <3>1, <3>2, PlaceTypes DEF OkSource, get
  <2>4. CASE leaseStillHolds(d)
    <3>1. CASE c = d
      BY <2>1, <2>4, <3>1 DEF OkSource
    <3>2. CASE c # d
      BY Zenon, <2>4, <3>2 DEF OkSource, leaseStillHolds, Answer
    <3> QED BY <3>1, <3>2
  <2> QED BY <2>1, <2>2, <2>3, <2>4 DEF ReaderStep
<1>4. CASE proposal_worker \/ process_proposal_batch \/ read_worker \/ stop
           \/ stop_workersJoins
  BY <1>4 DEF OkSource, proposal_worker, process_proposal_batch, appendBehind,
              read_worker, stop, stop_workersJoins, clients
<1>5. CASE process_proposal_batchFails \/ appendFails \/ stop_workersReads
           \/ stop_workersProposals
  <2>1. outcome[c] = "ok"
    BY Zenon, <1>1, <1>5, FailingAnswer DEF process_proposal_batchFails, appendFails,
              stop_workersReads, stop_workersProposals
  <2> QED BY Zenon, <1>5, <2>1 DEF OkSource, process_proposal_batchFails, appendFails,
              stop_workersReads, stop_workersProposals
<1>6. CASE appendReturns
  <2>1. CASE c \in Items(proposals.batch)
    BY <1>6, <2>1 DEF OkSource
  <2>2. CASE c \notin Items(proposals.batch)
    BY Zenon, <1>6, <2>2, ReturnsFacts DEF OkSource, ReturnsRelation, Answered
  <2> QED BY <2>1, <2>2
<1>7. CASE answerReads
  <2>1. CASE c \in Items(reads.batch)
    BY Zenon, <1>7, <2>1 DEF OkSource, answerReads
  <2>2. CASE c \notin Items(reads.batch)
    BY Zenon, <1>7, <2>2 DEF OkSource, answerReads
  <2> QED BY <2>1, <2>2
<1>8. CASE NuRaft
  BY Zenon, <1>8, NuRaftType DEF OkSource, PlaceInv
<1> QED BY <1>2, <1>3, <1>4, <1>5, <1>6, <1>7, <1>8
        DEF Next, WriterStep, ProposalStep, ReadStep, readBarrier, StopStep

-----------------------------------------------------------------------------
(* The indexes of a batch *)

\* Only the proposal worker starts and ends a call
LEMMA CallFrame ==
    ASSUME PlaceInv, Next, ~ProposalStep
    PROVE  call' = call /\ proposals'.pc = proposals.pc
           /\ proposals'.batch = proposals.batch
<1>0. proposals \in Worker(Writer \cup {Barrier}, ProposalPcs)
      /\ WorkerInv(proposals)
  BY Zenon, PlaceTypes DEF PlaceInv
<1>1. ASSUME NEW c, submit(c) \/ submitQueues(c)
      PROVE  /\ call' = call
             /\ proposals'.pc = proposals.pc
             /\ proposals'.batch = proposals.batch
  BY <1>0, <1>1 DEF submit, submitQueues, submitEnqueues, Worker
<1>2. CASE \E c \in Reader : ReaderStep(c)
  BY <1>2 DEF ReaderStep, linearizable_get, leaseHolds, get, leaseStillHolds, queueRead
<1>3. CASE read_worker \/ answerReads
  BY Zenon, <1>3 DEF read_worker, answerReads
<1>4. CASE stop \/ stop_workersReads \/ stop_workersJoins
  BY <1>4 DEF stop, stop_workersReads, stop_workersJoins
<1>5. CASE stop_workersProposals
  BY Zenon, <1>0, <1>5, RejectedFacts DEF stop_workersProposals
<1>6. CASE NuRaft
  BY <1>6, NuRaftType DEF PlaceInv
<1> QED BY Zenon, <1>1, <1>2, <1>3, <1>4, <1>5, <1>6
        DEF Next, WriterStep, ReadStep, readBarrier, StopStep

\* The proposal worker is in a call afterwards only if it starts one
LEMMA CallEnds ==
    ASSUME PlaceInv, ProposalStep, ~process_proposal_batch
    PROVE  proposals'.pc # "appended"
<1>0. proposals \in Worker(Writer \cup {Barrier}, ProposalPcs)
      /\ WorkerInv(proposals)
  BY Zenon, PlaceTypes DEF PlaceInv
<1>1. CASE Wakes(proposals, proposals')
  BY <1>0, <1>1, WakesFacts
<1>2. CASE Takes(proposals, proposals')
  BY <1>0, <1>2, TakesFacts
<1>3. CASE proposals' = Idle(proposals)
  BY Zenon, <1>0, <1>3, IdleFacts
<1> QED BY Zenon, <1>1, <1>2, <1>3
        DEF ProposalStep, proposal_worker, process_proposal_batchFails,
            appendReturns, appendFails

\* A batch is given the indexes behind everything its leader has appended; a
\* deposed leader's are behind everything it has seen committed
LEMMA CallStarts ==
    ASSUME PlaceInv, process_proposal_batch
    PROVE  CallInv'
<1>1. /\ proposals'.pc = "appended" /\ proposals'.batch = proposals.batch
      /\ call'.term = term
      /\ \A k \in DOMAIN proposals.batch : call'.indexes[k] = LastIndex + k
  BY AppendFacts
<1>2. /\ UNCHANGED <<role, term, log, known>>
      /\ inflight' = IF role = "leader" THEN inflight \o proposals.batch ELSE inflight
  BY DEF process_proposal_batch, appendBehind
<1> DEFINE batch == proposals.batch
<1>3. /\ batch \in Seq(LogEntry) /\ inflight \in Seq(LogEntry)
      /\ Len(log) \in Nat /\ known \in 0 .. Len(log) /\ term \in Nat
  <2>1. proposals.batch \in Seq(Writer \cup {Barrier})
    BY DEF PlaceInv, TypeOK, Worker
  <2>2. proposals.batch \in Seq(LogEntry)
    BY <2>1 DEF LogEntry
  <2> QED BY <2>2 DEF PlaceInv, TypeOK
<1>4. ASSUME NEW k \in DOMAIN batch PROVE PairInv(k)'
  <2> DEFINE i == call'.indexes[k]
             m == Len(inflight)
  <2>1. i = LastIndex + k /\ k \in 1 .. Len(batch) /\ Len(batch) \in Nat
    BY <1>1, <1>3
  <2>2. CASE role = "leader"
    <3>1. m \in Nat /\ i = Len(log) + m + k
      BY <1>3, <2>1, <2>2 DEF LastIndex
    <3>2. inflight' = inflight \o batch
      BY <1>2, <2>2
    <3>3. Len(inflight') = m + Len(batch) /\ inflight'[m + k] = batch[k]
      BY <1>3, <2>1, <3>2
    <3>4. ~(i <= Len(log)) /\ i - Len(log) = m + k /\ ~(i <= known) /\ i >= 1
          /\ i <= Len(log) + (m + Len(batch))
      BY <1>3, <2>1, <3>1
    <3>5. inflight'[i - Len(log)] = batch[k]
      BY <3>3, <3>4
    <3> QED BY <1>1, <1>2, <3>3, <3>4, <3>5 DEF PairInv, EntryAt
  <2>3. CASE role # "leader"
    <3>1. i = known + k
      BY <2>1, <2>3 DEF LastIndex
    <3>2. ~(i <= known) /\ i >= 1
      BY <1>3, <2>1, <3>1
    <3> QED BY <1>1, <1>2, <2>3, <3>2 DEF PairInv
  <2> QED BY <2>2, <2>3
<1>5. call'.term <= term'
  BY <1>1, <1>2, <1>3
<1> QED BY Zenon, <1>1, <1>4, <1>5 DEF CallInv

\* Elections and commits keep the pairing as long as it is of use
LEMMA CallGoesOn ==
    ASSUME PlaceInv, CallInv, NuRaft
    PROVE  CallInv'
<1>1. UNCHANGED <<proposals, call>>
  BY NuRaftType DEF PlaceInv
<1> SUFFICES ASSUME proposals.pc = "appended"
             PROVE  /\ call.term <= term'
                    /\ Leading' => \A k \in DOMAIN proposals.batch : PairInv(k)'
  BY <1>1 DEF CallInv
<1>2. /\ log \in Seq(LogEntry) /\ inflight \in Seq(LogEntry) /\ Len(log) \in Nat
      /\ known \in 0 .. Len(log) /\ term \in Nat /\ call.term \in Nat
      /\ call.indexes \in Seq(Nat)
      /\ DOMAIN call.indexes = DOMAIN proposals.batch
  BY DEF PlaceInv, TypeOK
<1>3. \A k \in DOMAIN proposals.batch : call.indexes[k] \in Nat
  BY <1>2
<1>4. /\ call.term <= term
      /\ Leading => \A k \in DOMAIN proposals.batch : PairInv(k)
  BY DEF CallInv
<1>5. CASE BecomeLeader
  BY <1>1, <1>2, <1>4, <1>5 DEF BecomeLeader, Leading
<1>6. CASE CommitEntry
  <2>1. /\ role = "leader" /\ role' = role /\ term' = term
        /\ inflight # <<>> /\ inflight' = Tail(inflight)
        /\ log' = Append(log, Head(inflight)) /\ known' = Len(log) + 1
    BY <1>6 DEF CommitEntry
  <2>2. /\ Len(log') = Len(log) + 1 /\ Len(inflight') = Len(inflight) - 1
        /\ Len(inflight) \in Nat
        /\ \A i \in 1 .. Len(log) : log'[i] = log[i]
        /\ log'[Len(log) + 1] = inflight[1]
        /\ \A i \in 1 .. Len(inflight) - 1 : inflight'[i] = inflight[i + 1]
    BY <1>2, <2>1
  <2>3. ASSUME NEW k \in DOMAIN proposals.batch, Leading PROVE PairInv(k)'
    <3>0. PICK i \in Nat : i = call.indexes[k]
      BY <1>3
    <3>1. /\ i >= 1 /\ i <= Len(log) + Len(inflight)
          /\ EntryAt(i) = proposals.batch[k]
      BY <1>4, <2>1, <2>3, <3>0 DEF PairInv
    <3>2. CASE i <= Len(log)
      <4>1. log'[i] = log[i] /\ EntryAt(i) = log[i] /\ EntryAt(i)' = log'[i]
        BY <1>2, <2>2, <3>1, <3>2 DEF EntryAt
      <4> QED BY <1>1, <1>2, <2>1, <2>2, <3>0, <3>1, <4>1 DEF PairInv
    <3>3. CASE i = Len(log) + 1
      <4>1. log'[i] = inflight[1] /\ EntryAt(i) = inflight[1] /\ EntryAt(i)' = log'[i]
        BY <1>2, <2>2, <3>1, <3>3 DEF EntryAt
      <4> QED BY <1>1, <1>2, <2>1, <2>2, <3>0, <3>1, <4>1 DEF PairInv
    <3>4. CASE i > Len(log) + 1
      <4>1. EntryAt(i) = inflight[i - Len(log)] /\ ~(i <= known')
        BY <1>2, <2>1, <3>1, <3>4 DEF EntryAt
      <4>2. EntryAt(i)' = inflight'[i - (Len(log) + 1)]
        BY <1>2, <2>2, <3>1, <3>4 DEF EntryAt
      <4>3. i - (Len(log) + 1) \in 1 .. Len(inflight) - 1
            /\ (i - (Len(log) + 1)) + 1 = i - Len(log)
        BY <1>2, <2>2, <3>1, <3>4
      <4>4. EntryAt(i)' = EntryAt(i)
        BY <2>2, <4>1, <4>2, <4>3
      <4>5. i <= Len(log') + Len(inflight')
        BY <1>2, <2>2, <3>1
      <4> QED BY <1>1, <2>1, <3>0, <3>1, <4>1, <4>4, <4>5 DEF PairInv
    <3>5. i <= Len(log) \/ i = Len(log) + 1 \/ i > Len(log) + 1
      BY <1>2
    <3> QED BY Zenon, <3>2, <3>3, <3>4, <3>5
  <2> QED BY <1>1, <1>4, <2>1, <2>3 DEF Leading, is_leader
<1>7. CASE Depose \/ ApplyEntry
  <2>1. /\ UNCHANGED <<term, log, inflight, known>>
        /\ role' = role \/ (role = "leader" /\ role' = "stale")
    BY <1>7 DEF Depose, ApplyEntry
  <2> QED BY Zenon, <1>1, <1>4, <2>1 DEF Leading, is_leader, PairInv, EntryAt
<1>8. CASE StepDown \/ LearnCommit
  BY <1>1, <1>4, <1>8 DEF StepDown, LearnCommit, Leading, is_leader
<1>9. CASE InheritEntry \/ ForeignCommit
  <2>1. /\ UNCHANGED <<role, term, known>> /\ role # "leader"
    BY <1>9 DEF InheritEntry, ForeignCommit
  <2>2. \A i \in 1 .. Len(log) : log'[i] = log[i]
    <3>1. Next
      BY DEF Next
    <3> QED BY <3>1, LogGrowth DEF LogGrows, PlaceInv
  <2>3. ASSUME NEW k \in DOMAIN proposals.batch, Leading PROVE PairInv(k)'
    <3>1. /\ call.indexes[k] \in Nat /\ call.indexes[k] >= 1
          /\ call.indexes[k] <= known => log[call.indexes[k]] = proposals.batch[k]
      BY <1>3, <1>4, <2>3 DEF PairInv
    <3>2. call.indexes[k] <= known => call.indexes[k] \in 1 .. Len(log)
      BY <1>2, <3>1
    <3> QED BY <1>1, <2>1, <2>2, <3>1, <3>2 DEF PairInv
  <2> QED BY <1>1, <1>4, <2>1, <2>3 DEF Leading, is_leader
<1> QED BY <1>5, <1>6, <1>7, <1>8, <1>9 DEF NuRaft

LEMMA CallStep ==
    ASSUME PlaceInv, CallInv, Next
    PROVE  CallInv'
<1>1. CASE NuRaft
  BY <1>1, CallGoesOn
<1>2. CASE process_proposal_batch
  BY <1>2, CallStarts
<1>3. CASE ProposalStep /\ ~process_proposal_batch
  BY <1>3, CallEnds DEF CallInv
<1>4. CASE ~NuRaft /\ ~ProposalStep
  <2>1. UNCHANGED <<role, term, log, known, inflight>>
    BY <1>4, LocalRaft DEF ProposalStep
  <2>2. /\ call' = call /\ proposals'.pc = proposals.pc
        /\ proposals'.batch = proposals.batch
    BY <1>4, CallFrame
  <2> QED BY <2>1, <2>2 DEF CallInv, PairInv, Leading, is_leader, EntryAt
<1> QED BY <1>1, <1>2, <1>3, <1>4

\* When append_entries_ext returns OK this node leads in the term of the call
LEMMA ReturnedPairs ==
    ASSUME PlaceInv, CallInv, appendReturns, NEW k \in DOMAIN proposals.batch,
           call.indexes[k] \in cached
    PROVE  /\ call.indexes[k] \in 1 .. applied
           /\ call.indexes[k] \in 1 .. known
           /\ log[call.indexes[k]] = proposals.batch[k]
<1>1. PairInv(k)
  BY Zenon DEF appendReturns, CallInv, Leading
<1>2. cached \subseteq 1 .. applied /\ applied \in 0 .. known /\ known \in Nat
  BY DEF PlaceInv, TypeOK
<1>3. \A i \in cached : i \in 1 .. applied /\ i \in 1 .. known /\ i <= known
  BY <1>2
<1> QED BY <1>1, <1>3 DEF PairInv

LEMMA OwnStep ==
    ASSUME OwnInv, Next
    PROVE  OwnInv'
<1>1. PlaceInv' /\ CallInv'
  BY PlaceStep, CallStep DEF OwnInv
<1>2. LogGrows
  BY LogGrowth DEF OwnInv, PlaceInv
<1>3. ASSUME NEW c \in Writer, outcome'[c] = "ok"
      PROVE  value'[c] \in 1 .. Len(log') /\ log'[value'[c]] = c
  <2>1. c \in Request /\ c \notin Reader /\ OkSource(c)
    BY Zenon, <1>3, OkSources, HeldTypes DEF OwnInv, PlaceInv
  <2>2. Items(reads.batch) \subseteq Reader
    BY Zenon, HeldTypes DEF OwnInv, PlaceInv, Holds
  <2>3. value'[c] \in 1 .. Len(log) /\ log[value'[c]] = c
    <3>1. CASE outcome[c] = "ok" /\ value'[c] = value[c]
      BY Zenon, <3>1 DEF OwnInv, OwnResult
    <3>2. CASE appendReturns /\ c \in Items(proposals.batch)
      <4>1. PICK k \in DOMAIN proposals.batch : c = proposals.batch[k]
        BY <3>2 DEF Items
      <4>2. call.indexes[k] \in cached /\ value'[c] = call.indexes[k]
        BY <1>3, <3>2, <4>1, ReturnsFacts DEF OwnInv, ReturnsRelation
      <4>3. call.indexes[k] \in 1 .. known /\ log[call.indexes[k]] = c
        BY Zenon, <3>2, <4>1, <4>2, ReturnedPairs DEF OwnInv
      <4> QED BY <1>2, <4>2, <4>3 DEF LogGrows
    <3> QED BY Zenon, <2>1, <2>2, <3>1, <3>2 DEF OkSource
  <2> QED BY <1>2, <2>3 DEF LogGrows
<1> QED BY Zenon, <1>1, <1>3 DEF OwnInv, OwnResult

LEMMA OwnInit ==
    ASSUME Init
    PROVE  OwnInv
<1>1. \A c \in Writer : c \in Request
  BY DEF Request, Caller
<1> QED BY <1>1, PlaceInit DEF OwnInv, CallInv, OwnResult, Init, NewWorker

LEMMA OwnStutter ==
    ASSUME OwnInv, UNCHANGED vars
    PROVE  OwnInv'
<1>1. PlaceInv' /\ CallInv /\ OwnResult
  BY PlaceStutter DEF OwnInv
<1>2. CallInv'
  BY Zenon, <1>1 DEF vars, raft, CallInv, PairInv, Leading, is_leader, EntryAt
<1>3. OwnResult'
  BY Zenon, <1>1 DEF vars, clients, raft, OwnResult
<1> QED BY <1>1, <1>2, <1>3 DEF OwnInv

LEMMA OwnInvariant == Spec => []OwnInv
BY OwnInit, OwnStep, OwnStutter, PTL DEF Spec

\* A write answered OK got the result of its own, committed log entry: the
\* index that process_proposal_batch computed for it is where the entry went,
\* also when leadership is lost and regained while append_entries_ext runs
THEOREM OwnResultCorrect == Spec => []OwnResult
BY OwnInvariant, PTL DEF OwnInv

-----------------------------------------------------------------------------
(* What a GET must see *)

\* Fixed when linearizable_get is called
LEMMA SeenFacts ==
    ASSUME PlaceInv, Next, NEW c \in Reader
    PROVE  \/ seen'[c] = seen[c]
           \/ /\ phase[c] = "new" /\ seen'[c] = acked /\ acked' = acked
              /\ phase'[c] \in {"done", "checked"}
<1>1. CASE \E d \in Reader : linearizable_get(d)
  <2>1. PICK d \in Reader : linearizable_get(d)
    BY <1>1
  <2>2. CASE c = d
    <3>1. phase[c] = "new" /\ seen'[c] = acked /\ acked' = acked
      BY Zenon, <2>1, <2>2, PlaceTypes DEF linearizable_get
    <3>2. c \in Request /\ submitChecks(c)
      BY Zenon, <2>1, <2>2, HeldTypes DEF PlaceInv, linearizable_get
    <3>3. phase'[c] \in {"done", "checked"}
      BY <3>2, PlaceTypes DEF submitChecks, Answer
    <3> QED BY <3>1, <3>3
  <2>3. CASE c # d
    BY Zenon, <2>1, <2>3, PlaceTypes DEF linearizable_get
  <2> QED BY Zenon, <2>2, <2>3
<1>2. CASE \E d \in Reader : leaseHolds(d) \/ get(d) \/ leaseStillHolds(d) \/ queueRead(d)
  BY <1>2 DEF leaseHolds, get, leaseStillHolds, queueRead
<1>3. CASE \E d \in Writer : WriterStep(d)
  BY Zenon, <1>3 DEF WriterStep, submit, submitQueues
<1>4. CASE ProposalStep
  BY <1>4 DEF ProposalStep, proposal_worker, process_proposal_batchFails,
              process_proposal_batch, appendBehind, appendReturns, appendFails, clients
<1>5. CASE ReadStep
  BY <1>5 DEF ReadStep, read_worker, readBarrier, answerReads, submit,
              submitQueues, clients
<1>6. CASE stop \/ StopStep
  BY Zenon, <1>6 DEF stop, StopStep, stop_workersReads, stop_workersProposals,
              stop_workersJoins, clients
<1>7. CASE NuRaft
  BY Zenon, <1>7, NuRaftType DEF PlaceInv
<1> QED BY Zenon, <1>1, <1>2, <1>3, <1>4, <1>5, <1>6, <1>7 DEF Next, ReaderStep

LEMMA AckedFacts ==
    ASSUME Next
    PROVE  acked' = acked \/ appendReturns \/ ForeignCommit
<1>1. CASE \E d \in Reader : ReaderStep(d)
  BY <1>1 DEF ReaderStep, linearizable_get, leaseHolds, get, leaseStillHolds, queueRead
<1>2. CASE \E d \in Writer : WriterStep(d)
  BY <1>2 DEF WriterStep, submit, submitQueues
<1>3. CASE ProposalStep
  BY <1>3 DEF ProposalStep, proposal_worker, process_proposal_batchFails,
              process_proposal_batch, appendBehind, appendFails, clients
<1>4. CASE ReadStep
  BY Zenon, <1>4 DEF ReadStep, read_worker, readBarrier, answerReads, submit,
              submitQueues, clients
<1>5. CASE stop \/ StopStep
  BY <1>5 DEF stop, StopStep, stop_workersReads, stop_workersProposals,
              stop_workersJoins, clients
<1>6. CASE NuRaft
  BY Zenon, <1>6 DEF NuRaft, BecomeLeader, CommitEntry, Depose, StepDown, InheritEntry,
              LearnCommit, ApplyEntry, Rest, clients
<1> QED BY <1>1, <1>2, <1>3, <1>4, <1>5, <1>6 DEF Next

\* Only the read worker changes its batch
LEMMA ReadsFrame ==
    ASSUME PlaceInv, Next
    PROVE  \/ reads'.batch = reads.batch
           \/ reads.pc # "got"
           \/ answerReads /\ reads'.batch = <<>>
<1>0. reads \in Worker(Reader, ReadPcs) /\ WorkerInv(reads)
  BY Zenon, PlaceTypes DEF PlaceInv
<1>1. CASE \E c \in Reader : ReaderStep(c)
  BY <1>0, <1>1 DEF ReaderStep, linearizable_get, leaseHolds, get,
                    leaseStillHolds, queueRead, Worker
<1>2. CASE \E c \in Writer : WriterStep(c)
  BY <1>2 DEF WriterStep, submit, submitQueues
<1>3. CASE ProposalStep
  BY <1>3 DEF ProposalStep, proposal_worker, process_proposal_batchFails,
              process_proposal_batch, appendBehind, appendReturns, appendFails
<1>4. CASE read_worker
  BY Zenon, <1>0, <1>4, WakesFacts, TakesFacts DEF read_worker
<1>5. CASE readBarrier
  BY <1>5 DEF readBarrier, submit, submitQueues
<1>6. CASE answerReads
  BY Zenon, <1>0, <1>6, IdleFacts DEF answerReads
<1>7. CASE stop_workersReads
  BY Zenon, <1>0, <1>7, RejectedFacts DEF stop_workersReads
<1>8. CASE stop \/ stop_workersProposals \/ stop_workersJoins
  BY <1>8 DEF stop, stop_workersProposals, stop_workersJoins
<1>9. CASE NuRaft
  BY <1>9, NuRaftType DEF PlaceInv
<1> QED BY Zenon, <1>1, <1>2, <1>3, <1>4, <1>5, <1>6, <1>7, <1>8, <1>9
        DEF Next, ReadStep, StopStep

\* How a GET comes to read under its lease
LEMMA LeaseSources ==
    ASSUME PlaceInv, Next, NEW c \in Reader, phase'[c] \in {"leased", "read"}
    PROVE  leaseHolds(c) \/ get(c) \/ (phase[c] = phase'[c] /\ value'[c] = value[c])
<1>0. /\ c \in Request /\ c \notin Writer /\ c # Barrier
      /\ Items(proposals.batch) \subseteq Writer \cup {Barrier}
      /\ phase \in [Request -> Phases] /\ value \in [Request -> Nat]
  BY Zenon, HeldTypes, PlaceTypes DEF PlaceInv, Holds
<1>1. ASSUME NEW S, NEW r, Answer(S, r) PROVE phase'[c] = phase[c]
  BY <1>0, <1>1 DEF Answer
<1>2. ASSUME NEW d \in Writer \cup {Barrier}, submit(d) \/ submitQueues(d)
      PROVE  phase'[c] = phase[c] /\ value' = value
  BY <1>0, <1>1, <1>2 DEF submit, submitQueues, submitChecks, submitEnqueues
<1>3. CASE \E d \in Reader : ReaderStep(d)
  <2>1. PICK d \in Reader : ReaderStep(d)
    BY <1>3
  <2>2. CASE linearizable_get(d) \/ queueRead(d) \/ leaseStillHolds(d)
    <3>1. value' = value
      BY <2>2 DEF linearizable_get, queueRead, leaseStillHolds
    <3>2. phase'[c] = phase[c]
      BY <1>0, <1>1, <2>2 DEF linearizable_get, queueRead, leaseStillHolds, submitChecks
    <3> QED BY <3>1, <3>2
  <2>3. CASE (leaseHolds(d) \/ get(d)) /\ c # d
    BY Zenon, <1>0, <2>3 DEF leaseHolds, get
  <2> QED BY Zenon, <2>1, <2>2, <2>3 DEF ReaderStep
<1>4. CASE proposal_worker \/ process_proposal_batch \/ read_worker \/ stop
           \/ stop_workersJoins
  BY <1>4 DEF proposal_worker, process_proposal_batch, appendBehind,
              read_worker, stop, stop_workersJoins, clients
<1>5. CASE process_proposal_batchFails \/ appendFails \/ stop_workersReads
           \/ stop_workersProposals
  BY Zenon, <1>1, <1>5 DEF process_proposal_batchFails, appendFails,
              stop_workersReads, stop_workersProposals
<1>6. CASE appendReturns
  BY Zenon, <1>0, <1>6, ReturnsFacts DEF ReturnsRelation, Answered
<1>7. CASE answerReads
  BY Zenon, <1>0, <1>7 DEF answerReads
<1>8. CASE NuRaft
  BY <1>8, NuRaftType DEF PlaceInv
<1> QED BY Zenon, <1>2, <1>3, <1>4, <1>5, <1>6, <1>7, <1>8
        DEF Next, WriterStep, ProposalStep, ReadStep, readBarrier, StopStep

\* The types of what the invariants compare
LEMMA FreshTypes ==
    ASSUME PlaceInv
    PROVE  /\ acked \in Nat /\ applied \in Nat /\ known \in Nat
           /\ leaderStart \in Nat /\ Len(log) \in Nat /\ term \in Nat
           /\ seen \in [Reader -> Nat] /\ value \in [Request -> Nat]
           /\ Reader \subseteq Request
           /\ applied <= known /\ known <= Len(log)
           /\ cached \subseteq 1 .. applied
BY DEF PlaceInv, TypeOK, Request, Caller

LEMMA AckedStep ==
    ASSUME PlaceInv, AckedInv, Next
    PROVE  AckedInv' /\ acked <= acked'
<1>1. /\ acked \in Nat /\ applied \in Nat /\ known \in Nat
      /\ leaderStart \in Nat /\ Len(log) \in Nat
      /\ applied <= known /\ known <= Len(log)
      /\ cached \subseteq 1 .. applied
      /\ acked <= Len(log)
      /\ role = "leader" => acked < leaderStart \/ acked <= applied
  BY FreshTypes DEF AckedInv
<1>2. /\ Len(log') \in Nat /\ Len(log) <= Len(log')
      /\ applied' \in Nat /\ applied <= applied'
  BY LogGrowth DEF LogGrows, PlaceInv
<1>3. CASE appendReturns
  <2>1. /\ UNCHANGED <<role, leaderStart, log, applied>>
        /\ acked' \in Nat /\ acked <= acked'
        /\ acked' = acked \/ acked' \in cached
    BY Zenon, <1>3, ReturnsFacts DEF ReturnsRelation, appendReturns
  <2> QED BY <1>1, <2>1 DEF AckedInv
<1>4. CASE ForeignCommit
  <2>1. role' # "leader" /\ acked' = Len(log) + 1 /\ Len(log') = Len(log) + 1
    BY <1>4 DEF ForeignCommit, PlaceInv, TypeOK
  <2> QED BY <1>1, <2>1 DEF AckedInv
<1>5. CASE BecomeLeader
  <2>1. leaderStart' = Len(log) + 1 /\ acked' = acked /\ Len(log') = Len(log)
    BY <1>5 DEF BecomeLeader, Rest, clients
  <2> QED BY <1>1, <2>1 DEF AckedInv
<1>6. CASE acked' = acked /\ ~BecomeLeader
  <2>1. role' = "leader" => role = "leader" /\ leaderStart' = leaderStart
    <3>1. CASE NuRaft
      BY Zenon, <1>6, <3>1 DEF NuRaft, CommitEntry, Depose, StepDown, InheritEntry,
             ForeignCommit, LearnCommit, ApplyEntry
    <3>2. CASE ~NuRaft
      BY <3>2, LocalRaft
    <3> QED BY <3>1, <3>2
  <2> QED BY <1>1, <1>2, <1>6, <2>1 DEF AckedInv
<1> QED BY <1>3, <1>4, <1>5, <1>6, AckedFacts

LEMMA LeaseStep ==
    ASSUME PlaceInv, AckedInv, LeaseInv, Next
    PROVE  LeaseInv'
<1> SUFFICES ASSUME NEW c \in Reader
             PROVE  /\ seen'[c] <= acked'
                    /\ phase'[c] = "leased" => seen'[c] <= applied'
                    /\ phase'[c] = "read" => seen'[c] <= value'[c]
  BY DEF LeaseInv
<1>1. /\ seen[c] \in Nat /\ acked \in Nat /\ applied \in Nat /\ leaderStart \in Nat
      /\ value[c] \in Nat
      /\ seen[c] <= acked
  BY FreshTypes DEF LeaseInv
<1>2. /\ acked <= acked' /\ acked' \in Nat
      /\ applied <= applied' /\ applied' \in Nat
  <2>1. PlaceInv'
    BY PlaceStep
  <2>2. acked' \in Nat
    BY Zenon, <2>1 DEF PlaceInv, TypeOK
  <2> QED BY <2>2, AckedStep, LogGrowth DEF LogGrows, PlaceInv
<1>3. \/ seen'[c] = seen[c]
      \/ /\ phase[c] = "new" /\ seen'[c] = acked
         /\ phase'[c] \in {"done", "checked"}
  BY SeenFacts
<1>4. seen'[c] <= acked'
  BY <1>1, <1>2, <1>3
<1>5. ASSUME phase'[c] \in {"leased", "read"}
      PROVE  /\ phase'[c] = "leased" => seen'[c] <= applied'
             /\ phase'[c] = "read" => seen'[c] <= value'[c]
  <2>1. seen'[c] = seen[c]
    BY <1>3, <1>5
  <2>2. CASE leaseHolds(c)
    <3>1. role = "leader" /\ leaderStart <= applied /\ phase'[c] = "leased"
      BY Zenon, <2>2, FreshTypes, PlaceTypes DEF leaseHolds, has_valid_read_lease
    <3>2. acked < leaderStart \/ acked <= applied
      BY <3>1 DEF AckedInv
    <3>3. seen[c] <= applied
      BY <1>1, <3>1, <3>2
    <3> QED BY <1>1, <1>2, <2>1, <3>1, <3>3
  <2>3. CASE get(c)
    <3>1. phase[c] = "leased" /\ value'[c] = applied /\ phase'[c] = "read"
      BY Zenon, <2>3, FreshTypes, PlaceTypes DEF get
    <3>2. seen[c] <= applied
      BY <3>1 DEF LeaseInv
    <3> QED BY <2>1, <3>1, <3>2
  <2>4. CASE phase[c] = phase'[c] /\ value'[c] = value[c]
    BY <1>1, <1>2, <2>1, <2>4 DEF LeaseInv
  <2> QED BY Zenon, <1>5, <2>2, <2>3, <2>4, LeaseSources
<1> QED BY <1>4, <1>5

\* A GET is in the read worker's batch until it is answered, and then the
\* barrier is gone
LEMMA BatchSeen ==
    ASSUME PlaceInv, Next, NEW c \in Items(reads'.batch), phase[Barrier] # "new"
    PROVE  c \in Items(reads.batch) /\ c \in Reader /\ seen'[c] = seen[c]
<1>1. Items(<<>>) = {}
  BY DEF Items
<1>2. c \in Items(reads.batch)
  BY <1>1, ReadsFrame DEF PlaceInv
<1>3. c \in Reader /\ phase[c] = "queued"
  BY <1>2, HeldTypes DEF PlaceInv, RequestInv, Holds
<1> QED BY <1>2, <1>3, SeenFacts

LEMMA BarrierOrdered ==
    ASSUME OwnInv, AckedInv, LeaseInv, BarrierInv, Next,
           proposals'.pc = "appended", Leading',
           NEW k \in DOMAIN proposals'.batch, proposals'.batch[k] = Barrier,
           role' = "leader" \/ call'.indexes[k] <= known',
           NEW c \in Items(reads'.batch)
    PROVE  seen'[c] <= call'.indexes[k]
<1>1. PlaceInv /\ CallInv
  BY DEF OwnInv
<1>2. ASSUME proposals'.batch = proposals.batch
      PROVE  phase[Barrier] # "new"
  <2>1. Barrier \in Holds(proposals)
    BY <1>2 DEF Holds, Items
  <2> QED BY <1>1, <2>1 DEF PlaceInv, RequestInv
<1>3. CASE process_proposal_batch
  <2>1. /\ proposals'.batch = proposals.batch /\ LastIndex \in Nat
        /\ call'.indexes[k] = LastIndex + k
        /\ role' = role /\ known' = known
    <3>1. proposals'.batch = proposals.batch /\ LastIndex \in Nat
      BY <1>1, <1>3, AppendFacts
    <3>2. call'.indexes[k] = LastIndex + k
      BY <1>1, <1>3, <3>1, AppendFacts
    <3> QED BY <1>3, <3>1, <3>2 DEF process_proposal_batch, appendBehind
  <2>2. c \in Reader /\ seen'[c] = seen[c]
    BY Zenon, <1>1, <1>2, <2>1, BatchSeen
  <2>3. k \in Nat /\ k >= 1
    <3>1. proposals.batch \in Seq(Writer \cup {Barrier})
      BY <1>1 DEF PlaceInv, TypeOK, Worker
    <3> QED BY <2>1, <3>1
  <2>4. /\ known \in Nat /\ Len(log) \in Nat /\ Len(inflight) \in Nat
        /\ seen[c] \in Nat /\ acked \in Nat
        /\ seen[c] <= acked /\ acked <= Len(log)
    BY <1>1, <2>2, FreshTypes, PlaceTypes DEF LeaseInv, AckedInv
  <2>5. role = "leader"
    <3>1. CASE role # "leader"
      <4>1. LastIndex = known
        BY <3>1 DEF LastIndex
      <4> QED BY <2>1, <2>3, <2>4, <3>1, <4>1
    <3> QED BY <3>1
  <2>6. LastIndex = Len(log) + Len(inflight)
    BY <2>5 DEF LastIndex
  <2> QED BY <2>1, <2>2, <2>3, <2>4, <2>6
<1>4. CASE ~ProposalStep
  <2>1. /\ call' = call /\ proposals.pc = "appended"
        /\ proposals'.batch = proposals.batch
    BY <1>1, <1>4, CallFrame
  <2>2. c \in Items(reads.batch) /\ seen'[c] = seen[c]
    BY <1>1, <1>2, <2>1, BatchSeen
  <2>3. Leading /\ (role = "leader" \/ call.indexes[k] <= known)
    <3>1. CASE ~NuRaft
      BY <2>1, <3>1, LocalRaft DEF Leading, is_leader
    <3>2. CASE BecomeLeader
      <4>1. term' = term + 1 /\ call.term <= term /\ term \in Nat /\ call.term \in Nat
        BY Zenon, <1>1, <2>1, <3>2, PlaceTypes DEF BecomeLeader, CallInv
      <4>2. term' = call.term
        BY <2>1 DEF Leading
      <4> QED BY <4>1, <4>2
    <3>3. CASE CommitEntry \/ Depose
      <4>1. role = "leader" /\ term' = term
        BY Zenon, <3>3 DEF CommitEntry, Depose
      <4> QED BY <2>1, <4>1 DEF Leading, is_leader
    <3>4. CASE StepDown \/ LearnCommit
      BY <3>4 DEF StepDown, LearnCommit, Leading, is_leader
    <3>5. CASE InheritEntry \/ ForeignCommit \/ ApplyEntry
      <4>1. role' = role /\ term' = term /\ known' = known
        BY Zenon, <3>5 DEF InheritEntry, ForeignCommit, ApplyEntry
      <4> QED BY <2>1, <4>1 DEF Leading, is_leader
    <3> QED BY <3>1, <3>2, <3>3, <3>4, <3>5 DEF NuRaft
  <2> QED BY Zenon, <2>1, <2>2, <2>3 DEF BarrierInv
<1> QED BY <1>1, <1>3, <1>4, CallEnds

LEMMA BarrierAnswered ==
    ASSUME OwnInv, BarrierInv, Next, outcome'[Barrier] = "ok",
           NEW c \in Items(reads'.batch)
    PROVE  seen'[c] <= applied'
<1>1. PlaceInv /\ CallInv
  BY DEF OwnInv
<1>2. /\ Barrier \in Request /\ Barrier \notin Reader
      /\ Items(reads.batch) \subseteq Reader
      /\ OkSource(Barrier)
  BY Zenon, <1>1, HeldTypes, OkSources DEF PlaceInv, Holds, Caller
<1>3. applied \in Nat /\ applied' \in Nat /\ applied <= applied'
      /\ seen \in [Reader -> Nat]
  BY Zenon, <1>1, LogGrowth, FreshTypes DEF LogGrows, PlaceInv
<1>4. CASE outcome[Barrier] = "ok"
  <2>1. phase[Barrier] # "new"
    BY <1>1, <1>2, <1>4 DEF PlaceInv, RequestInv
  <2>2. c \in Items(reads.batch) /\ c \in Reader /\ seen'[c] = seen[c]
    BY <1>1, <2>1, BatchSeen
  <2>3. seen[c] <= applied
    BY <1>4, <2>2 DEF BarrierInv
  <2> QED BY <1>3, <2>2, <2>3
<1>5. CASE appendReturns /\ Barrier \in Items(proposals.batch)
  <2>1. PICK k \in DOMAIN proposals.batch : proposals.batch[k] = Barrier
    BY <1>5 DEF Items
  <2>2. phase[Barrier] # "new"
    BY <1>1, <1>5 DEF PlaceInv, RequestInv, Holds
  <2>3. c \in Items(reads.batch) /\ c \in Reader /\ seen'[c] = seen[c]
    BY <1>1, <2>2, BatchSeen
  <2>4. call.indexes[k] \in cached
    BY <1>1, <1>5, <2>1, ReturnsFacts DEF ReturnsRelation
  <2>5. call.indexes[k] \in 1 .. applied /\ call.indexes[k] \in 1 .. known
    BY Zenon, <1>1, <1>5, <2>4, ReturnedPairs
  <2>6. /\ call.indexes[k] \in Nat /\ call.indexes[k] <= applied
        /\ call.indexes[k] <= known
    <3>1. applied \in Nat /\ known \in Nat
      BY Zenon, <1>1, FreshTypes
    <3> QED BY <2>5, <3>1
  <2>7. seen[c] <= call.indexes[k]
    BY Zenon, <1>5, <2>1, <2>3, <2>6 DEF BarrierInv, appendReturns, Leading
  <2>8. seen[c] \in Nat
    BY <1>3, <2>3
  <2> QED BY <1>3, <2>3, <2>6, <2>7, <2>8
<1> QED BY Zenon, <1>2, <1>4, <1>5 DEF OkSource

LEMMA FreshStep ==
    ASSUME FreshInv, Next
    PROVE  FreshInv'
<1>1. PlaceInv /\ OwnInv /\ AckedInv /\ LeaseInv /\ BarrierInv
  BY DEF FreshInv, OwnInv
<1>2. OwnInv' /\ AckedInv' /\ LeaseInv'
  BY <1>1, OwnStep, AckedStep, LeaseStep
<1>3. BarrierInv'
  BY Zenon, <1>1, BarrierOrdered, BarrierAnswered DEF BarrierInv
<1>4. ASSUME NEW c \in Reader, outcome'[c] = "ok"
      PROVE  seen'[c] <= value'[c]
  <2>1. /\ c \in Request /\ OkSource(c)
        /\ Items(proposals.batch) \subseteq Writer \cup {Barrier}
        /\ c \notin Writer \cup {Barrier}
    BY Zenon, <1>1, <1>4, OkSources, HeldTypes DEF PlaceInv, Holds
  <2>2. phase[c] # "new" => seen'[c] = seen[c]
    BY <1>1, SeenFacts
  <2>3. CASE outcome[c] = "ok" /\ value'[c] = value[c]
    BY Zenon, <1>1, <2>1, <2>2, <2>3 DEF FreshInv, ReadsAreFresh, PlaceInv, RequestInv
  <2>4. CASE leaseStillHolds(c)
    <3>1. phase[c] = "read" /\ value' = value
      BY <2>4 DEF leaseStillHolds
    <3> QED BY <1>1, <2>2, <3>1 DEF LeaseInv
  <2>5. CASE answerReads /\ c \in Items(reads.batch) /\ outcome[Barrier] = "ok"
    <3>1. value'[c] = applied
      BY Zenon, <2>1, <2>5 DEF answerReads
    <3>2. seen[c] <= applied
      BY <1>1, <2>5 DEF BarrierInv
    <3>3. seen'[c] = seen[c]
      BY Zenon, <2>5 DEF answerReads
    <3> QED BY <3>1, <3>2, <3>3
  <2> QED BY Zenon, <2>1, <2>3, <2>4, <2>5 DEF OkSource
<1> QED BY <1>2, <1>3, <1>4 DEF FreshInv, ReadsAreFresh

LEMMA FreshInit ==
    ASSUME Init
    PROVE  FreshInv
<1>1. OwnInv
  BY OwnInit
<1>2. Reader \subseteq Request /\ Barrier \in Request
  BY DEF Request, Caller
<1>3. /\ proposals.pc # "appended" /\ outcome[Barrier] # "ok"
      /\ \A c \in Reader : outcome[c] = "none" /\ phase[c] = "new" /\ seen[c] = 0
      /\ acked = 0 /\ role = "follower" /\ Len(log) = 0
  BY <1>2 DEF Init, NewWorker
<1>4. AckedInv
  BY <1>3 DEF AckedInv
<1>5. LeaseInv
  BY <1>3 DEF LeaseInv
<1>6. BarrierInv /\ ReadsAreFresh
  BY Zenon, <1>3 DEF BarrierInv, ReadsAreFresh
<1> QED BY <1>1, <1>4, <1>5, <1>6 DEF FreshInv

LEMMA FreshStutter ==
    ASSUME FreshInv, UNCHANGED vars
    PROVE  FreshInv'
<1>1. OwnInv' /\ AckedInv /\ LeaseInv /\ BarrierInv /\ ReadsAreFresh
  BY OwnStutter DEF FreshInv
<1>2. AckedInv' /\ LeaseInv' /\ ReadsAreFresh'
  BY Zenon, <1>1 DEF vars, clients, raft, AckedInv, LeaseInv, ReadsAreFresh
<1>3. BarrierInv'
  BY Zenon, <1>1 DEF vars, clients, raft, BarrierInv, Leading, is_leader
<1> QED BY <1>1, <1>2, <1>3 DEF FreshInv

LEMMA FreshInvariant == Spec => []FreshInv
BY FreshInit, FreshStep, FreshStutter, PTL DEF Spec

\* A GET answered OK reflects every write acknowledged by any node before it
\* began: under the lease because the leader has applied all that earlier
\* leaders committed, by the barrier because it is committed behind them
THEOREM ReadsFresh == Spec => []ReadsAreFresh
BY FreshInvariant, PTL DEF FreshInv

=============================================================================
