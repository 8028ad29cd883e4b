------------------------ MODULE KvStateMachineProofs ------------------------
(***************************************************************************)
(* Proofs about KvStateMachine: for every set of commands, every log and   *)
(* every number of crashes.                                                *)
(***************************************************************************)
EXTENDS KvStateMachine, FiniteSetTheorems, TLAPS

-----------------------------------------------------------------------------
(* What one command computes *)

Outcome == [state : StateData, result : Result, fresh : BOOLEAN]

Kv == [Key -> Value \cup {Absent}]

\* apply_new_request's INCR and DECR stay within int64, and answer with a
\* well-formed result
LEMMA StepType ==
    ASSUME NEW kv \in Kv, NEW k \in Key, NEW delta \in {1, -1},
           NEW limit, limit = IF delta = 1 THEN MaxInt ELSE MinInt
    PROVE  step(kv, k, delta, limit) \in [kv : Kv, result : Result]
<1> DEFINE current == IF kv[k] = Absent THEN 0 ELSE parse_int64(kv[k])
<1>1. CASE kv[k] # Absent /\ ~parses(kv[k])
  <2>1. step(kv, k, delta, limit)
            = [kv |-> kv, result |-> Reply("not_integer", Absent)]
    BY <1>1 DEF step
  <2> QED BY <2>1 DEF Reply, Result, Code
<1>2. CASE (kv[k] = Absent \/ parses(kv[k])) /\ current = limit
  <2>1. step(kv, k, delta, limit)
            = [kv |-> kv, result |-> Reply("overflow", Absent)]
    BY <1>2 DEF step
  <2> QED BY <2>1 DEF Reply, Result, Code
<1>3. CASE (kv[k] = Absent \/ parses(kv[k])) /\ current # limit
  <2>1. step(kv, k, delta, limit)
            = [kv |-> [kv EXCEPT ![k] = current + delta],
               result |-> Reply("integer", current + delta)]
    BY <1>3 DEF step
  <2>2. current \in MinInt .. MaxInt
    BY <1>3, CommandsAssumption DEF parses, parse_int64
  <2>3. current + delta \in MinInt .. MaxInt
    BY <1>3, <2>2, CommandsAssumption
  <2>4. current + delta \in Value \cup {Absent}
    BY <2>3 DEF Value
  <2> HIDE DEF current
  <2> QED BY <2>1, <2>4 DEF Reply, Result, Code, Kv
<1> QED BY <1>1, <1>2, <1>3

\* apply_new_request returns a well-formed table and result
LEMMA ApplyType ==
    ASSUME NEW kv \in Kv, NEW c \in Commands, is_write(c)
    PROVE  apply_new_request(kv, c) \in [kv : Kv, result : Result]
<1>1. c \in Command /\ (c.type = "SET" => c.value \in Value)
  BY ConstantsAssumption
<1>2. c.key \in Key
  BY <1>1 DEF Command
<1>3. CASE c.type = "SET"
  BY <1>1, <1>2, <1>3 DEF apply_new_request, Reply, Result, Code, Kv
<1>4. CASE c.type = "DEL"
  <2>1. 0 \in Value /\ 1 \in Value
    BY CommandsAssumption DEF Value
  <2>2. apply_new_request(kv, c) =
            [kv |-> [kv EXCEPT ![c.key] = Absent],
             result |-> Reply("integer", IF kv[c.key] = Absent THEN 0 ELSE 1)]
    BY <1>4 DEF apply_new_request
  <2> QED BY <1>2, <2>1, <2>2 DEF Reply, Result, Code, Kv
<1>5. CASE c.type = "INCR"
  BY <1>2, <1>5, StepType DEF apply_new_request
<1>6. CASE c.type = "DECR"
  BY <1>2, <1>6, StepType DEF apply_new_request
<1> QED BY <1>3, <1>4, <1>5, <1>6 DEF is_write

\* A numbered write
Numbered(c) == is_write(c) /\ c.client # NoClient

\* Perform: the outcome is well formed, and the client's record is the request
\* with its result
LEMMA PerformFacts ==
    ASSUME NEW s \in StateData, NEW c \in Commands, is_write(c)
    PROVE  /\ Perform(s, c) \in Outcome
           /\ Perform(s, c).fresh = TRUE
           /\ c.client = NoClient => Perform(s, c).state.dedup = s.dedup
           /\ c.client # NoClient =>
                 Perform(s, c).state.dedup =
                    [s.dedup EXCEPT ![c.client] =
                        [request |-> c.request, result |-> Perform(s, c).result]]
<1> DEFINE done == apply_new_request(s.kv, c)
           dedup == IF c.client = NoClient THEN s.dedup
                    ELSE [s.dedup EXCEPT ![c.client] =
                            [request |-> c.request, result |-> done.result]]
<1>1. Perform(s, c) = [state |-> [s EXCEPT !.kv = done.kv, !.dedup = dedup],
                       result |-> done.result, fresh |-> TRUE]
  BY DEF Perform
<1>2. s.kv \in Kv /\ s.dedup \in [Client -> [request : Nat, result : Result]]
  BY DEF StateData, Kv
<1>3. done \in [kv : Kv, result : Result]
  BY <1>2, ApplyType
<1>4. c.client \in Client \cup {NoClient} /\ c.request \in Nat
  BY ConstantsAssumption DEF Command
<1> HIDE DEF done
<1>5. dedup \in [Client -> [request : Nat, result : Result]]
  BY <1>2, <1>3, <1>4
<1> DEFINE after == [s EXCEPT !.kv = done.kv, !.dedup = dedup]
<1>6. after \in StateData /\ after.dedup = dedup
  <2> HIDE DEF dedup
  <2> QED BY Zenon, <1>3, <1>5 DEF StateData, Kv
<1>7. done.result \in Result
  BY <1>3
<1>8. Perform(s, c) = [state |-> after, result |-> done.result, fresh |-> TRUE]
  BY <1>1
<1> HIDE DEF after, dedup
<1>9. /\ Perform(s, c) \in Outcome
      /\ Perform(s, c).fresh = TRUE
      /\ Perform(s, c).state.dedup = dedup
      /\ Perform(s, c).result = done.result
  BY <1>6, <1>7, <1>8 DEF Outcome
<1> QED BY <1>9 DEF dedup

\* Deduplicate: a repeated or overtaken request leaves the state alone, a new
\* one is performed
LEMMA DeduplicateFacts ==
    ASSUME NEW s \in StateData, NEW c \in Commands, Numbered(c)
    PROVE  LET record == s.dedup[c.client]
           IN  /\ c.request > record.request =>
                     Deduplicate(s, c) = Perform(s, c)
               /\ c.request <= record.request =>
                     \E r \in Result : Deduplicate(s, c) = Answer(s, r)
               /\ c.request # 0 /\ c.request = record.request =>
                     Deduplicate(s, c) = Answer(s, record.result)
               /\ c.request # 0 /\ c.request < record.request =>
                     Deduplicate(s, c) = Answer(s, Reply("stale", Absent))
<1> DEFINE record == s.dedup[c.client]
<1>1. c.client \in Client /\ c.request \in Nat
  BY ConstantsAssumption DEF Command, Numbered
<1>2. record \in [request : Nat, result : Result]
  BY <1>1 DEF StateData
<1>3. record.request \in Nat /\ record.result \in Result
  BY <1>2
<1>4. /\ Reply("bad", Absent) \in Result
      /\ Reply("stale", Absent) \in Result
  BY DEF Reply, Result, Code
<1> HIDE DEF record
<1>5. CASE c.request = 0
  <2>1. ~(c.request > record.request)
    BY <1>1, <1>3, <1>5
  <2>2. Deduplicate(s, c) = Answer(s, Reply("bad", Absent))
    BY <1>5, <2>1 DEF Deduplicate, record
  <2> QED BY <1>4, <1>5, <2>1, <2>2 DEF record
<1>6. CASE c.request # 0 /\ c.request = record.request
  <2>1. ~(c.request > record.request) /\ ~(c.request < record.request)
    BY <1>1, <1>3, <1>6
  <2>2. Deduplicate(s, c) = Answer(s, record.result)
    BY <1>6, <2>1 DEF Deduplicate, record
  <2> QED BY <1>3, <1>6, <2>1, <2>2 DEF record
<1>7. CASE c.request # 0 /\ c.request < record.request
  <2>1. ~(c.request > record.request) /\ c.request # record.request
    BY <1>1, <1>3, <1>7
  <2>2. Deduplicate(s, c) = Answer(s, Reply("stale", Absent))
    BY <1>7, <2>1 DEF Deduplicate, record
  <2> QED BY <1>4, <1>7, <2>1, <2>2 DEF record
<1>8. CASE c.request > record.request
  <2>1. /\ c.request # 0
        /\ c.request # record.request
        /\ ~(c.request < record.request)
        /\ ~(c.request <= record.request)
    BY <1>1, <1>3, <1>8
  <2>2. Deduplicate(s, c) = Perform(s, c)
    BY <1>8, <2>1 DEF Deduplicate, record
  <2> QED BY <1>8, <2>1, <2>2 DEF record
<1>9. \/ c.request = 0
      \/ c.request # 0 /\ c.request = record.request
      \/ c.request # 0 /\ c.request < record.request
      \/ c.request > record.request
  BY <1>1, <1>3
<1> QED BY <1>5, <1>6, <1>7, <1>8, <1>9

\* commit: the new state carries the entry's index; an entry that has no effect
\* leaves table and dedup map alone; one that has is newer than the client's
\* record and becomes it; a configuration entry moves the index only
CommitRelation(s, c, i, done) ==
    /\ done \in Outcome
    /\ done.state.index = i
    /\ ~done.fresh => done.state.kv = s.kv /\ done.state.dedup = s.dedup
    /\ ~Numbered(c) => done.state.dedup = s.dedup
    /\ Numbered(c) /\ done.fresh =>
          /\ c.request > s.dedup[c.client].request
          /\ done.state.dedup =
                [s.dedup EXCEPT ![c.client] =
                    [request |-> c.request, result |-> done.result]]
    /\ Numbered(c) /\ c.request # 0 /\ c.request = s.dedup[c.client].request =>
          done.result = s.dedup[c.client].result
    /\ Numbered(c) /\ c.request # 0 /\ c.request < s.dedup[c.client].request =>
          done.result = Reply("stale", Absent)
    /\ c.type = "config" => done.state = [s EXCEPT !.index = i]

LEMMA CommitFacts ==
    ASSUME NEW s \in StateData, NEW c \in Commands, NEW i \in Nat
    PROVE  CommitRelation(s, c, i, Commit(s, c, i))
<1> DEFINE base == IF c.type = "garbage" THEN Answer(s, Reply("bad", Absent))
                   ELSE apply_locked(s, c)
           done == Commit(s, c, i)
<1>1. done = [base EXCEPT !.state.index = i]
  BY DEF Commit
<1>2. /\ Reply("bad", Absent) \in Result
      /\ Reply("ok", Absent) \in Result
      /\ Reply("stale", Absent) \in Result
  BY DEF Reply, Result, Code
<1>3. ASSUME NEW r \in Result, base = Answer(s, r)
      PROVE  /\ done \in Outcome
             /\ done.state = [s EXCEPT !.index = i]
             /\ done.state.index = i
             /\ done.state.kv = s.kv
             /\ done.state.dedup = s.dedup
             /\ done.fresh = FALSE
             /\ done.result = r
  <2> HIDE DEF base, done
  <2>1. done = [state |-> [s EXCEPT !.index = i], result |-> r, fresh |-> FALSE]
    BY Zenon, <1>1, <1>3 DEF Answer
  <2>2. [s EXCEPT !.index = i] \in StateData
    BY DEF StateData
  <2>3. /\ [s EXCEPT !.index = i].index = i
        /\ [s EXCEPT !.index = i].kv = s.kv
        /\ [s EXCEPT !.index = i].dedup = s.dedup
    BY DEF StateData
  <2> QED BY Zenon, <2>1, <2>2, <2>3 DEF Outcome
<1>4. ASSUME is_write(c), base = Perform(s, c)
      PROVE  /\ done \in Outcome
             /\ done.state.index = i
             /\ done.state.dedup = Perform(s, c).state.dedup
             /\ done.fresh = TRUE
             /\ done.result = Perform(s, c).result
  <2> DEFINE p == Perform(s, c)
  <2>1. p \in Outcome /\ p.fresh = TRUE
    BY Zenon, <1>4, PerformFacts
  <2>2. done = [p EXCEPT !.state.index = i]
    BY <1>1, <1>4
  <2> HIDE DEF p, done
  <2>3. p.state \in StateData /\ p.result \in Result
    BY <2>1 DEF Outcome
  <2>4. done = [state |-> [p.state EXCEPT !.index = i], result |-> p.result,
                fresh |-> TRUE]
    BY Zenon, <2>1, <2>2 DEF Outcome
  <2>5. /\ [p.state EXCEPT !.index = i] \in StateData
        /\ [p.state EXCEPT !.index = i].index = i
        /\ [p.state EXCEPT !.index = i].dedup = p.state.dedup
    BY <2>3 DEF StateData
  <2>6. /\ done \in Outcome
        /\ done.state.index = i
        /\ done.state.dedup = p.state.dedup
        /\ done.fresh = TRUE
        /\ done.result = p.result
    BY Zenon, <2>3, <2>4, <2>5 DEF Outcome
  <2> QED BY <2>6 DEF p
<1>5. CASE ~is_write(c)
  <2>1. \E r \in Result : base = Answer(s, r)
    BY <1>2, <1>5 DEF apply_locked
  <2> HIDE DEF base, done
  <2>2. ~Numbered(c)
    BY <1>5 DEF Numbered
  <2> QED BY Zenon, <1>3, <2>1, <2>2 DEF done, CommitRelation
<1>6. CASE is_write(c) /\ c.client = NoClient
  <2>1. base = Perform(s, c)
    BY <1>6 DEF apply_locked, is_write
  <2>2. ~Numbered(c) /\ c.type # "config"
    BY <1>6 DEF Numbered, is_write
  <2>3. Perform(s, c).state.dedup = s.dedup
    BY Zenon, <1>6, PerformFacts
  <2> HIDE DEF base, done
  <2> QED BY Zenon, <1>4, <1>6, <2>1, <2>2, <2>3 DEF done, CommitRelation
<1>7. CASE Numbered(c)
  <2>1. base = Deduplicate(s, c)
    BY <1>7 DEF apply_locked, is_write, Numbered
  <2>2. is_write(c) /\ c.type # "config" /\ c.client # NoClient
    BY <1>7 DEF Numbered, is_write
  <2>3. c.request \in Nat /\ s.dedup[c.client].request \in Nat
    <3>1. c.client \in Client /\ c.request \in Nat
      BY <1>7, ConstantsAssumption DEF Command, Numbered
    <3> QED BY <3>1 DEF StateData
  <2>4. CASE c.request > s.dedup[c.client].request
    <3>1. base = Perform(s, c)
      BY <1>7, <2>1, <2>4, DeduplicateFacts
    <3>2. /\ ~(c.request < s.dedup[c.client].request)
          /\ c.request # s.dedup[c.client].request
      BY <2>3, <2>4
    <3>3. Perform(s, c).state.dedup =
              [s.dedup EXCEPT ![c.client] =
                  [request |-> c.request, result |-> Perform(s, c).result]]
      BY Zenon, <2>2, PerformFacts
    <3> HIDE DEF base, done
    <3> QED BY Zenon, <1>4, <1>7, <2>2, <2>4, <3>1, <3>2, <3>3 DEF done, CommitRelation
  <2>5. CASE c.request <= s.dedup[c.client].request
    <3>1. \E r \in Result : base = Answer(s, r)
      BY <1>7, <2>1, <2>5, DeduplicateFacts
    <3>2. ~(c.request > s.dedup[c.client].request)
      BY <2>3, <2>5
    <3>3. c.request # 0 /\ c.request = s.dedup[c.client].request =>
              done.result = s.dedup[c.client].result
      <4>1. SUFFICES ASSUME c.request # 0, c.request = s.dedup[c.client].request
                     PROVE  done.result = s.dedup[c.client].result
        OBVIOUS
      <4>2. base = Answer(s, s.dedup[c.client].result)
        BY <1>7, <2>1, <4>1, DeduplicateFacts
      <4>3. s.dedup[c.client].result \in Result
        <5>1. c.client \in Client
          BY <1>7, ConstantsAssumption DEF Command, Numbered
        <5> QED BY <5>1 DEF StateData
      <4> HIDE DEF base, done
      <4> QED BY Zenon, <1>3, <4>2, <4>3
    <3>4. c.request # 0 /\ c.request < s.dedup[c.client].request =>
              done.result = Reply("stale", Absent)
      <4>1. SUFFICES ASSUME c.request # 0, c.request < s.dedup[c.client].request
                     PROVE  done.result = Reply("stale", Absent)
        OBVIOUS
      <4>2. base = Answer(s, Reply("stale", Absent))
        BY <1>7, <2>1, <4>1, DeduplicateFacts
      <4> HIDE DEF base, done
      <4> QED BY Zenon, <1>2, <1>3, <4>2
    <3> HIDE DEF base, done
    <3> QED BY Zenon, <1>3, <2>2, <3>1, <3>2, <3>3, <3>4 DEF done, CommitRelation
  <2> QED BY <2>3, <2>4, <2>5
<1> QED BY <1>5, <1>6, <1>7 DEF Numbered

\* The two of these facts that the induction over the log needs
LEMMA CommitIndex ==
    ASSUME NEW s \in StateData, NEW c \in Commands, NEW i \in Nat
    PROVE  Commit(s, c, i).state.index = i
<1>1. CommitRelation(s, c, i, Commit(s, c, i))
  BY CommitFacts
<1> QED BY <1>1, Zenon DEF CommitRelation

LEMMA CommitConfig ==
    ASSUME NEW s \in StateData, NEW c \in Commands, NEW i \in Nat,
           c.type = "config"
    PROVE  Commit(s, c, i).state = [s EXCEPT !.index = i]
<1>1. CommitRelation(s, c, i, Commit(s, c, i))
  BY CommitFacts
<1> QED BY <1>1, Zenon DEF CommitRelation

-----------------------------------------------------------------------------
(* Type correctness *)

\* The history has one outcome per committed entry, and one for the start
OutcomePerEntry == Len(expected) = Len(log) + 1

TypeInv == TypeOK /\ OutcomePerEntry

LEMMA InitialStateType == InitialState \in StateData
<1>1. NoRecord \in [request : Nat, result : Result]
  BY DEF NoRecord, Result, Code
<1> QED BY <1>1 DEF InitialState, StateData

LEMMA IdleType == Idle \in [pc : Steps, image : StateData]
BY InitialStateType DEF Idle, Steps

\* std::map operations keep the type of recent_results_
LEMMA PartialMaps ==
    ASSUME NEW S, NEW f, IsPartial(f, S)
    PROVE  /\ IsPartial(Empty, S)
           /\ \A i \in Nat, v \in S : IsPartial(Put(f, i, v), S)
           /\ \A i : IsPartial(Above(f, i), S)
           /\ \A i : IsPartial([j \in DOMAIN f \ {i} |-> f[j]], S)
<1>1. IsPartial(Empty, S)
  BY DEF IsPartial, Empty
<1>2. ASSUME NEW i \in Nat, NEW v \in S PROVE IsPartial(Put(f, i, v), S)
  BY DEF IsPartial, Put
<1>3. ASSUME NEW i PROVE IsPartial(Above(f, i), S)
  BY DEF IsPartial, Above
<1>4. ASSUME NEW i PROVE IsPartial([j \in DOMAIN f \ {i} |-> f[j]], S)
  BY DEF IsPartial
<1> QED BY Zenon, <1>1, <1>2, <1>3, <1>4

\* The last outcome exists, and every committed entry has its outcome
LEMMA OutcomeType ==
    ASSUME TypeInv
    PROVE  \A n \in 0 .. Len(log) :
              /\ expected[n + 1] \in Outcome
              /\ expected[n + 1].state \in StateData
<1> SUFFICES ASSUME NEW n \in 0 .. Len(log)
             PROVE  /\ expected[n + 1] \in Outcome
                    /\ expected[n + 1].state \in StateData
  OBVIOUS
<1>1. Len(log) \in Nat /\ expected \in Seq(Outcome)
  BY DEF TypeInv, TypeOK, Outcome
<1>2. n + 1 \in 1 .. Len(expected)
  BY <1>1 DEF TypeInv, OutcomePerEntry
<1>3. expected[n + 1] \in Outcome
  BY <1>1, <1>2
<1> QED BY <1>3 DEF Outcome

LEMMA TypeInit == Init => TypeInv
<1> SUFFICES ASSUME Init PROVE TypeInv
  OBVIOUS
<1>1. Answer(InitialState, Reply("ok", Absent)) \in Outcome
  BY InitialStateType DEF Answer, Reply, Outcome, Result, Code
<1>2. IsPartial(Empty, Result)
  BY DEF IsPartial, Empty
<1>3. /\ log \in Seq(Commands)
      /\ expected \in Seq(Outcome)
      /\ Len(expected) = Len(log) + 1
  BY <1>1 DEF Init
<1> QED BY <1>2, <1>3, InitialStateType, IdleType
        DEF Init, TypeInv, TypeOK, OutcomePerEntry, Outcome

\* A step of an action that replicates nothing keeps the history as it is
LEMMA TypeStep ==
    ASSUME TypeInv, Next
    PROVE  TypeInv'
<1> USE DEF TypeInv
<1>0. /\ state.index \in Nat
      /\ stateFile.index \in Nat
      /\ snapshotFile.index \in Nat
      /\ creating.image \in StateData /\ creating.image.index \in Nat
      /\ installing.image \in StateData /\ installing.image.index \in Nat
      /\ Reserved \in Nat
  BY ConstantsAssumption DEF TypeOK, StateData
<1>1. CASE commit
  <2> DEFINE i == state.index + 1
             done == Commit(state, log[i], i)
  <2>1. i \in 1 .. Len(log) /\ i \in Nat
    BY <1>0, <1>1 DEF commit, HasNext, TypeOK
  <2>2. log[i] \in Commands
    BY <2>1 DEF TypeOK
  <2>3. done \in Outcome
    BY Zenon, <2>1, <2>2, CommitFacts DEF TypeOK, CommitRelation
  <2> HIDE DEF done
  <2>4. done.state \in StateData /\ done.result \in Result
    BY <2>3 DEF Outcome
  <2>5. IsPartial(Put(recent, i, done.result), Result)
    BY <2>1, <2>4, PartialMaps DEF TypeOK
  <2>6. IsPartial(Cap(Put(recent, i, done.result)), Result)
    BY <2>5, PartialMaps DEF Cap
  <2>7. state' = done.state /\ recent' = Cap(Put(recent, i, done.result))
    BY <1>1 DEF commit, done
  <2> HIDE DEF i
  <2> QED BY <1>1, <2>4, <2>6, <2>7
          DEF commit, TypeOK, OutcomePerEntry, files, environment
<1>2. CASE commit_config
  <2>1. state \in StateData /\ state' = [state EXCEPT !.index = state.index + 1]
    BY <1>2 DEF commit_config, TypeOK
  <2>2. state' \in StateData
    BY <1>0, <2>1 DEF StateData
  <2> QED BY <1>2, <2>2
          DEF commit_config, TypeOK, OutcomePerEntry, files, environment
<1>3. CASE \E i \in DOMAIN recent : take_result(i)
  <2>1. PICK i \in DOMAIN recent : recent' = [j \in DOMAIN recent \ {i} |-> recent[j]]
    BY <1>3 DEF take_result
  <2>2. IsPartial(recent, Result)
    BY DEF TypeOK
  <2>3. IsPartial(recent', Result)
    BY <2>1, <2>2, PartialMaps
  <2> QED BY <1>3, <2>3
          DEF take_result, TypeOK, OutcomePerEntry, files, environment
<1>4. CASE create_snapshot
  BY <1>4 DEF create_snapshot, TypeOK, OutcomePerEntry, files, environment, Steps
<1>5. CASE Creating
  <2>1. compact(creating.image.index - Reserved) => logStart' \in Nat
    BY <1>0 DEF compact, TypeOK
  <2> QED BY <1>0, <1>5, <2>1
          DEF Creating, create_snapshotStores, create_snapshotFails,
              create_snapshotPublishes, when_done,
              TypeOK, OutcomePerEntry, files, environment, Steps
<1>6. CASE \E i \in 1 .. Len(log) : ReceiveSnapshot(i)
  <2>1. PICK i \in 1 .. Len(log) : ReceiveSnapshot(i)
    BY <1>6
  <2>2. expected[i + 1].state \in StateData
    BY OutcomeType DEF TypeOK
  <2> QED BY <2>1, <2>2
          DEF ReceiveSnapshot, TypeOK, OutcomePerEntry, files, environment, Steps
<1>7. CASE Installing /\ ~apply_snapshotFails
  <2>1. compact(installing.image.index) => logStart' \in Nat
    BY <1>0 DEF compact, TypeOK
  <2>2. IsPartial(Empty, Result)
    BY PartialMaps DEF TypeOK
  <2> QED BY <1>0, <1>7, <2>1, <2>2
          DEF Installing, save_logical_snp_obj, save_logical_snp_objPublishes,
              CompactForSnapshot, apply_snapshot, install,
              TypeOK, OutcomePerEntry, files, environment, Steps
<1>8. CASE Crash \/ checkpoint \/ apply_snapshotFails
  <2>1. IsPartial(Empty, Result)
    BY PartialMaps DEF TypeOK
  <2> QED BY <1>8, <2>1, InitialStateType, IdleType
          DEF Crash, checkpoint, apply_snapshotFails, GoDown,
              TypeOK, OutcomePerEntry, files, environment
<1>9. CASE Start
  BY <1>0, <1>9 DEF Start, Recovered, TypeOK, OutcomePerEntry, files, environment
<1>10. CASE \E c \in Commands : Replicate(c)
  <2>1. PICK c \in Commands : Replicate(c)
    BY <1>10
  <2> DEFINE done == Commit(expected[Len(log) + 1].state, c, Len(log) + 1)
  <2>2. Len(log) \in Nat /\ Len(log) + 1 \in Nat
    BY DEF TypeOK
  <2>3. expected[Len(log) + 1].state \in StateData
    BY <2>2, OutcomeType
  <2>4. done \in Outcome
    <3>1. CommitRelation(expected[Len(log) + 1].state, c, Len(log) + 1, done)
      BY <2>2, <2>3, CommitFacts
    <3> QED BY <3>1, Zenon DEF CommitRelation
  <2>5. expected' = Append(expected, done) /\ log' = Append(log, c)
    BY <2>1 DEF Replicate
  <2> HIDE DEF done
  <2>6. expected' \in Seq(Outcome) /\ log' \in Seq(Commands) /\ OutcomePerEntry'
    BY <2>2, <2>4, <2>5 DEF TypeOK, Outcome, OutcomePerEntry
  <2> QED BY <2>1, <2>6 DEF Replicate, TypeOK, files, Outcome
<1> QED
  BY <1>1, <1>2, <1>3, <1>4, <1>5, <1>6, <1>7, <1>8, <1>9, <1>10
  DEF Next, Installing

\* Memory, files, snapshots under way and histories always have their types: in
\* particular INCR and DECR never leave the int64 range
THEOREM TypeCorrect == Spec => []TypeOK
<1>1. Init => TypeInv
  BY TypeInit
<1>2. TypeInv /\ [Next]_vars => TypeInv'
  <2> SUFFICES ASSUME TypeInv, [Next]_vars PROVE TypeInv'
    OBVIOUS
  <2>1. CASE Next
    BY <2>1, TypeStep
  <2>2. CASE UNCHANGED vars
    BY <2>2 DEF vars, files, environment, TypeInv, TypeOK, OutcomePerEntry
  <2> QED BY <2>1, <2>2
<1>3. TypeInv => TypeOK
  BY DEF TypeInv
<1> QED BY <1>1, <1>2, <1>3, PTL DEF Spec

-----------------------------------------------------------------------------
(* Every copy of the state is a replay of the log *)

\* The history is the fold of Commit over the log
History ==
    /\ expected[1] = Answer(InitialState, Reply("ok", Absent))
    /\ \A i \in 1 .. Len(log) :
          expected[i + 1] = Commit(expected[i].state, log[i], i)

ReplayInv ==
    /\ TypeInv
    /\ History
    /\ IsReplay(state)
    /\ StateIsReplay

LEMMA HistoryIndex ==
    ASSUME TypeInv, History
    PROVE  \A n \in 0 .. Len(log) : expected[n + 1].state.index = n
<1> SUFFICES ASSUME NEW n \in 0 .. Len(log)
             PROVE  expected[n + 1].state.index = n
  OBVIOUS
<1>0. Len(log) \in Nat /\ log \in Seq(Commands)
  BY DEF TypeInv, TypeOK
<1>1. CASE n = 0
  BY <1>1 DEF History, Answer, InitialState
<1>2. CASE n # 0
  <2>1. n \in 1 .. Len(log) /\ n \in Nat /\ n - 1 \in 0 .. Len(log) /\ (n - 1) + 1 = n
    BY <1>0, <1>2
  <2>2. expected[(n - 1) + 1].state \in StateData
    BY <2>1, OutcomeType
  <2>3. log[n] \in Commands /\ expected[n].state \in StateData
    BY <1>0, <2>1, <2>2
  <2>4. expected[n + 1] = Commit(expected[n].state, log[n], n)
    BY <2>1 DEF History
  <2>5. n \in Nat
    BY <2>1
  <2>6. Commit(expected[n].state, log[n], n).state.index = n
    BY <2>3, <2>5, CommitIndex
  <2> QED BY <2>4, <2>6
<1> QED BY <1>1, <1>2

LEMMA InitialStateReplays ==
    ASSUME TypeInv, History
    PROVE  IsReplay(InitialState)
<1>1. InitialState.index = 0 /\ expected[1].state = InitialState
  BY DEF History, Answer, InitialState
<1>2. Len(log) \in Nat
  BY DEF TypeInv, TypeOK
<1> QED BY <1>1, <1>2 DEF IsReplay

\* Applying the next entry to a replay gives the next replay
LEMMA CommitReplays ==
    ASSUME TypeInv, History, IsReplay(state), state.index < Len(log)
    PROVE  LET i == state.index + 1
           IN  /\ i \in 1 .. Len(log)
               /\ log[i] \in Commands
               /\ Commit(state, log[i], i) = expected[i + 1]
               /\ expected[i + 1].state.index = i
               /\ IsReplay(Commit(state, log[i], i).state)
<1> DEFINE i == state.index + 1
<1>1. state.index \in Nat /\ Len(log) \in Nat /\ log \in Seq(Commands)
  BY DEF TypeInv, TypeOK, StateData
<1>2. i \in 1 .. Len(log)
  BY <1>1
<1>3. state = expected[i].state
  BY DEF IsReplay
<1>4. Commit(state, log[i], i) = expected[i + 1]
  BY <1>2, <1>3 DEF History
<1>5. expected[i + 1].state.index = i
  BY <1>1, <1>2, HistoryIndex
<1>6. log[i] \in Commands
  BY <1>1, <1>2
<1> HIDE DEF i
<1>7. IsReplay(expected[i + 1].state)
  BY <1>1, <1>2, <1>5 DEF IsReplay
<1> QED BY <1>2, <1>4, <1>5, <1>6, <1>7 DEF i

LEMMA ReplayInit == Init => ReplayInv
<1> SUFFICES ASSUME Init PROVE ReplayInv
  OBVIOUS
<1>1. TypeInv
  BY TypeInit
<1>2. History
  BY DEF Init, History
<1>3. IsReplay(InitialState)
  BY <1>1, <1>2, InitialStateReplays
<1> QED BY <1>1, <1>2, <1>3 DEF Init, ReplayInv, StateIsReplay, Idle

LEMMA ReplayStep ==
    ASSUME ReplayInv, Next
    PROVE  ReplayInv'
<1>1. TypeInv /\ TypeInv'
  BY TypeStep DEF ReplayInv
<1> USE DEF ReplayInv, StateIsReplay
<1>2. IsReplay(InitialState)
  BY InitialStateReplays
<1>3. CASE commit \/ commit_config
  <2> DEFINE i == state.index + 1
  <2>1. state.index < Len(log) /\ UNCHANGED <<log, expected>>
    BY <1>3 DEF commit, commit_config, HasNext, environment
  <2>2. /\ i \in 1 .. Len(log)
        /\ log[i] \in Commands
        /\ IsReplay(Commit(state, log[i], i).state)
    BY <1>1, <2>1, CommitReplays
  <2>3. state' = Commit(state, log[i], i).state
    <3>1. CASE commit
      BY Zenon, <3>1 DEF commit
    <3>2. CASE commit_config
      <4>1. state \in StateData /\ i \in Nat
        BY <1>1, <2>2 DEF TypeInv, TypeOK
      <4>2. log[i].type = "config"
        BY <3>2 DEF commit_config
      <4> HIDE DEF i
      <4>3. Commit(state, log[i], i).state = [state EXCEPT !.index = i]
        BY <2>2, <4>1, <4>2, CommitConfig
      <4> QED BY <3>2, <4>3 DEF commit_config, i
    <3> QED BY <1>3, <3>1, <3>2
  <2>4. IsReplay(state')
    BY <2>2, <2>3
  <2> HIDE DEF i
  <2> QED BY <1>1, <1>3, <2>1, <2>4
          DEF commit, commit_config, files, History, IsReplay
<1>4. CASE \E i \in DOMAIN recent : take_result(i)
  BY <1>1, <1>4 DEF take_result, files, environment, History, IsReplay
<1>5. CASE create_snapshot
  BY <1>1, <1>5 DEF create_snapshot, files, environment, History, IsReplay
<1>6. CASE Creating
  BY Zenon, <1>1, <1>6
  DEF Creating, create_snapshotStores, create_snapshotFails,
      create_snapshotPublishes, when_done, files, environment, History, IsReplay,
      TypeInv, TypeOK
<1>7. CASE \E i \in 1 .. Len(log) : ReceiveSnapshot(i)
  <2>1. PICK i \in 1 .. Len(log) : ReceiveSnapshot(i)
    BY <1>7
  <2>2. i \in 0 .. Len(log) /\ i <= Len(log)
    BY <1>1 DEF TypeInv, TypeOK
  <2>3. IsReplay(expected[i + 1].state)
    BY <1>1, <2>2, HistoryIndex DEF IsReplay
  <2>4. installing' = [pc |-> "received", image |-> expected[i + 1].state]
    BY <2>1 DEF ReceiveSnapshot
  <2>5. IsReplay(installing'.image)
    BY <2>3, <2>4
  <2> QED BY <1>1, <2>1, <2>5
          DEF ReceiveSnapshot, files, environment, History, IsReplay
<1>8. CASE Installing /\ ~apply_snapshotFails
  BY Zenon, <1>1, <1>8
  DEF Installing, save_logical_snp_obj, save_logical_snp_objPublishes,
      CompactForSnapshot, apply_snapshot, install, files, environment, History,
      IsReplay, TypeInv, TypeOK
<1>9. CASE Crash \/ checkpoint \/ apply_snapshotFails
  BY <1>1, <1>2, <1>9
  DEF Crash, checkpoint, apply_snapshotFails, GoDown, files, environment,
      History, IsReplay, Idle
<1>10. CASE Start
  BY Zenon, <1>1, <1>10 DEF Start, Recovered, files, environment, History, IsReplay
<1>11. CASE \E c \in Commands : Replicate(c)
  <2>1. PICK c \in Commands : Replicate(c)
    BY <1>11
  <2> DEFINE done == Commit(expected[Len(log) + 1].state, c, Len(log) + 1)
  <2>2. log' = Append(log, c) /\ expected' = Append(expected, done)
    BY <2>1 DEF Replicate
  <2>3. Len(log) \in Nat /\ log \in Seq(Commands) /\ expected \in Seq(Outcome)
    BY <1>1 DEF TypeInv, TypeOK, Outcome
  <2>4. Len(expected) = Len(log) + 1
    BY <1>1 DEF TypeInv, OutcomePerEntry
  <2> HIDE DEF done
  <2>5. Len(log') = Len(log) + 1 /\ log'[Len(log) + 1] = c
    BY <2>2, <2>3
  <2>6. expected'[Len(log) + 2] = done
    BY <2>2, <2>3, <2>4
  <2>7. \A n \in 1 .. Len(log) + 1 : expected'[n] = expected[n]
    BY <2>2, <2>3, <2>4
  <2>8. \A n \in 1 .. Len(log) : log'[n] = log[n]
    BY <2>2, <2>3
  <2>9. History'
    <3>1. expected'[1] = Answer(InitialState, Reply("ok", Absent))
      BY <2>3, <2>7 DEF History
    <3>2. ASSUME NEW i \in 1 .. Len(log')
          PROVE  expected'[i + 1] = Commit(expected'[i].state, log'[i], i)
      <4>1. CASE i \in 1 .. Len(log)
        <5>1. i \in 1 .. Len(log) + 1 /\ i + 1 \in 1 .. Len(log) + 1
          BY <2>3, <4>1
        <5> QED BY <2>7, <2>8, <4>1, <5>1 DEF History
      <4>2. CASE i = Len(log) + 1
        <5>1. i \in 1 .. Len(log) + 1 /\ i + 1 = Len(log) + 2
          BY <2>3, <4>2
        <5> QED BY <2>5, <2>6, <2>7, <4>2, <5>1 DEF done
      <4> QED BY <2>3, <2>5, <4>1, <4>2
    <3> QED BY <3>1, <3>2 DEF History
  <2>10. ASSUME NEW s, s.index \in Nat, IsReplay(s)
         PROVE  s.index <= Len(log') /\ s = expected'[s.index + 1].state
    <3>1. s.index <= Len(log') /\ s.index + 1 \in 1 .. Len(log) + 1
      BY <2>3, <2>5, <2>10 DEF IsReplay
    <3> QED BY <2>7, <2>10, <3>1 DEF IsReplay
  <2>11. /\ state.index \in Nat
         /\ stateFile.index \in Nat
         /\ snapshotFile.index \in Nat
         /\ creating.image.index \in Nat
         /\ installing.image.index \in Nat
    BY <1>1 DEF TypeInv, TypeOK, StateData
  <2>12. UNCHANGED <<status, state, files, creating, installing>>
    BY <2>1 DEF Replicate
  <2>13. IsReplay(state)' /\ IsReplay(stateFile)' /\ IsReplay(snapshotFile)'
    BY Zenon, <2>10, <2>11, <2>12 DEF IsReplay, files
  <2>14. /\ (creating.pc # "idle" => IsReplay(creating.image))'
         /\ (installing.pc # "idle" => IsReplay(installing.image))'
    BY Zenon, <2>10, <2>11, <2>12 DEF IsReplay
  <2> QED BY <1>1, <2>9, <2>13, <2>14
<1> QED
  BY <1>3, <1>4, <1>5, <1>6, <1>7, <1>8, <1>9, <1>10, <1>11 DEF Next, Installing

LEMMA ReplayInductive == ReplayInv /\ [Next]_vars => ReplayInv'
<1> SUFFICES ASSUME ReplayInv, [Next]_vars PROVE ReplayInv'
  OBVIOUS
<1>1. CASE Next
  BY <1>1, ReplayStep
<1>2. CASE UNCHANGED vars
  BY Zenon, <1>2 DEF vars, files, environment, ReplayInv, History, StateIsReplay,
              IsReplay, TypeInv, TypeOK, OutcomePerEntry
<1> QED BY <1>1, <1>2

\* Through any sequence of commits, crashes, checkpoints, snapshot creations and
\* installations, overlapping or not, every copy of the key-value state is what
\* the committed log gives, each entry applied once and in order
THEOREM ReplayCorrect == Spec => []StateIsReplay
<1>1. Init => ReplayInv
  BY ReplayInit
<1>2. ReplayInv => StateIsReplay
  BY DEF ReplayInv
<1> QED BY <1>1, <1>2, ReplayInductive, PTL DEF Spec

-----------------------------------------------------------------------------
(* Exactly once *)

\* The client's record is this request with its result, or a later request
Recorded(s, client, request, result) ==
    /\ request <= s.dedup[client].request
    /\ request = s.dedup[client].request => s.dedup[client].result = result

\* Once a numbered request has taken effect it is recorded, for the rest of the
\* log
DedupInv ==
    /\ ReplayInv
    /\ \A i \in 1 .. Len(log) : \A n \in i .. Len(log) :
          Numbered(log[i]) /\ expected[i + 1].fresh =>
              Recorded(expected[n + 1].state, log[i].client, log[i].request,
                       expected[i + 1].result)

\* The step of the induction over the log: one more entry keeps every record
LEMMA RecordedStep ==
    ASSUME NEW s \in StateData, NEW c \in Commands, NEW i \in Nat,
           NEW client \in Client, NEW request \in Nat, NEW result,
           Recorded(s, client, request, result)
    PROVE  Recorded(Commit(s, c, i).state, client, request, result)
<1> USE DEF Recorded
<1> DEFINE done == Commit(s, c, i)
<1>1. CommitRelation(s, c, i, done)
  BY CommitFacts
<1> HIDE DEF done
<1>2. s.dedup \in [Client -> [request : Nat, result : Result]]
  BY DEF StateData
<1>3. CASE done.state.dedup = s.dedup
  BY <1>3 DEF done
<1>4. CASE Numbered(c) /\ done.fresh
  <2>1. /\ c.request > s.dedup[c.client].request
        /\ done.state.dedup = [s.dedup EXCEPT ![c.client] =
                                  [request |-> c.request, result |-> done.result]]
    BY <1>1, <1>4 DEF CommitRelation
  <2>2. c.client \in Client /\ c.request \in Nat
    BY <1>4, ConstantsAssumption DEF Command, Numbered
  <2>3. CASE client = c.client
    <3>1. done.state.dedup[client] =
              [request |-> c.request, result |-> done.result]
      BY <1>2, <2>1, <2>2, <2>3
    <3>2. s.dedup[client].request \in Nat
      BY <1>2
    <3>3. request < c.request
      BY <2>1, <2>2, <2>3, <3>2
    <3> QED BY <2>2, <3>1, <3>3 DEF done
  <2>4. CASE client # c.client
    <3>1. done.state.dedup[client] = s.dedup[client]
      BY <1>2, <2>1, <2>2, <2>4
    <3> QED BY <3>1 DEF done
  <2> QED BY <2>3, <2>4
<1> QED BY <1>1, <1>3, <1>4 DEF CommitRelation

\* Only the cluster's commits change the log and its history
LEMMA EnvironmentStep ==
    ASSUME Next, ~\E c \in Commands : Replicate(c)
    PROVE  UNCHANGED <<log, expected>>
BY Zenon DEF Next, commit, commit_config, take_result, create_snapshot, Creating,
       create_snapshotStores, create_snapshotFails, create_snapshotPublishes,
       when_done, ReceiveSnapshot, Installing, save_logical_snp_obj,
       save_logical_snp_objPublishes, CompactForSnapshot, apply_snapshot, install,
       apply_snapshotFails, Crash, checkpoint, GoDown, Start, environment

\* A numbered command has a client and a request number
LEMMA NumberedType ==
    ASSUME NEW c \in Commands, Numbered(c)
    PROVE  c.client \in Client /\ c.request \in Nat
BY ConstantsAssumption DEF Command, Numbered

LEMMA DedupStep ==
    ASSUME DedupInv, Next
    PROVE  DedupInv'
<1>1. ReplayInv /\ ReplayInv'
  BY ReplayStep DEF DedupInv
<1>2. CASE ~\E c \in Commands : Replicate(c)
  <2>1. UNCHANGED <<log, expected>>
    BY <1>2, EnvironmentStep
  <2> QED BY <1>1, <2>1 DEF DedupInv
<1>3. CASE \E c \in Commands : Replicate(c)
  <2>1. PICK c \in Commands : Replicate(c)
    BY <1>3
  <2> DEFINE m == Len(log)
             before == expected[m + 1].state
             done == Commit(before, c, m + 1)
  <2>2. log' = Append(log, c) /\ expected' = Append(expected, done)
    BY <2>1 DEF Replicate
  <2>3. /\ m \in Nat /\ log \in Seq(Commands) /\ expected \in Seq(Outcome)
        /\ Len(expected) = m + 1
    BY <1>1 DEF ReplayInv, TypeInv, TypeOK, Outcome, OutcomePerEntry
  <2>4. before \in StateData
    BY <1>1, <2>3, OutcomeType DEF ReplayInv
  <2> HIDE DEF done, before
  <2>5. /\ Len(log') = m + 1 /\ log'[m + 1] = c
        /\ expected'[m + 2] = done
        /\ \A n \in 1 .. m + 1 : expected'[n] = expected[n]
        /\ \A n \in 1 .. m : log'[n] = log[n]
    BY <2>2, <2>3
  <2> SUFFICES ASSUME NEW i \in 1 .. m + 1, NEW n \in i .. m + 1,
                      Numbered(log'[i]), expected'[i + 1].fresh
               PROVE  Recorded(expected'[n + 1].state, log'[i].client,
                               log'[i].request, expected'[i + 1].result)
    BY <1>1, <2>5 DEF DedupInv
  <2>6. CASE n <= m
    <3>1. /\ i \in 1 .. m /\ n \in i .. m
          /\ i + 1 \in 1 .. m + 1 /\ n + 1 \in 1 .. m + 1
      BY <2>3, <2>6
    <3>2. /\ log'[i] = log[i]
          /\ expected'[i + 1] = expected[i + 1]
          /\ expected'[n + 1] = expected[n + 1]
      BY <2>5, <3>1
    <3> QED BY <3>1, <3>2 DEF DedupInv
  <2>7. CASE n = m + 1 /\ i <= m
    <3>1. /\ i \in 1 .. m /\ m \in i .. m /\ i + 1 \in 1 .. m + 1
          /\ n + 1 = m + 2
      BY <2>3, <2>7
    <3>2. /\ log'[i] = log[i] /\ log[i] \in Commands
          /\ expected'[i + 1] = expected[i + 1]
          /\ expected'[n + 1] = done
      BY <2>3, <2>5, <3>1
    <3>3. Recorded(before, log[i].client, log[i].request, expected[i + 1].result)
      BY <3>1, <3>2 DEF DedupInv, before
    <3>4. log[i].client \in Client /\ log[i].request \in Nat /\ m + 1 \in Nat
      BY <2>3, <3>2, NumberedType
    <3>5. Recorded(done.state, log[i].client, log[i].request,
                   expected[i + 1].result)
      BY <2>4, <3>3, <3>4, RecordedStep DEF done
    <3> QED BY <3>2, <3>5
  <2>8. CASE n = m + 1 /\ i = m + 1
    <3>1. n + 1 = m + 2 /\ i + 1 = m + 2 /\ m + 1 \in Nat
      BY <2>3, <2>8
    <3>2. log'[i] = c /\ expected'[i + 1] = done /\ expected'[n + 1] = done
      BY <2>5, <2>8, <3>1
    <3>3. CommitRelation(before, c, m + 1, done)
      BY <2>4, <3>1, CommitFacts DEF done
    <3>4. c.client \in Client /\ c.request \in Nat
      BY <3>2, NumberedType
    <3>5. done.state.dedup = [before.dedup EXCEPT ![c.client] =
                                [request |-> c.request, result |-> done.result]]
      BY <3>2, <3>3 DEF CommitRelation
    <3>6. before.dedup \in [Client -> [request : Nat, result : Result]]
      BY <2>4 DEF StateData
    <3>7. done.state.dedup[c.client] =
              [request |-> c.request, result |-> done.result]
      BY <3>4, <3>5, <3>6
    <3> QED BY <3>2, <3>4, <3>7 DEF Recorded
  <2> QED BY <2>3, <2>6, <2>7, <2>8
<1> QED BY <1>2, <1>3

LEMMA DedupInductive ==
    /\ Init => DedupInv
    /\ DedupInv /\ [Next]_vars => DedupInv'
<1>1. ASSUME Init PROVE DedupInv
  <2>1. ReplayInv /\ Len(log) = 0
    BY <1>1, ReplayInit DEF Init
  <2> QED BY <2>1 DEF DedupInv
<1>2. ASSUME DedupInv, [Next]_vars PROVE DedupInv'
  <2>1. CASE UNCHANGED vars
    <3>1. ReplayInv'
      BY <1>2, ReplayInductive DEF DedupInv
    <3> QED BY <1>2, <2>1, <3>1 DEF DedupInv, vars, environment
  <2> QED BY <1>2, <2>1, DedupStep
<1> QED BY <1>1, <1>2

\* What the records say of a repeat: it has no effect, and its result is the
\* first one's or "stale"
LEMMA RepeatFacts ==
    ASSUME DedupInv, NEW i \in 1 .. Len(log), NEW j \in 1 .. Len(log),
           i < j, Repeats(i, j), expected[i + 1].fresh
    PROVE  /\ ~expected[j + 1].fresh
           /\ expected[j + 1].state.kv = expected[j].state.kv
           /\ expected[j + 1].result
                 \in {expected[i + 1].result, Reply("stale", Absent)}
<1> DEFINE before == expected[j].state
           done == expected[j + 1]
           c == log[j]
<1>1. ReplayInv /\ TypeInv /\ History
  BY DEF DedupInv, ReplayInv
<1>2. Len(log) \in Nat /\ log \in Seq(Commands)
  BY <1>1 DEF TypeInv, TypeOK
<1>3. /\ j - 1 \in 0 .. Len(log) /\ j - 1 \in i .. Len(log) /\ (j - 1) + 1 = j
      /\ i - 1 \in 0 .. Len(log) /\ (i - 1) + 1 = i
      /\ i \in Nat /\ j \in Nat
  BY <1>2
<1>4. c \in Commands /\ log[i] \in Commands
  BY <1>2
<1>5. before \in StateData /\ expected[i].state \in StateData
  <2>1. /\ expected[(j - 1) + 1].state \in StateData
        /\ expected[(i - 1) + 1].state \in StateData
    BY Zenon, <1>1, <1>3, OutcomeType
  <2> QED BY <1>3, <2>1
<1>6. CommitRelation(before, c, j, done)
  BY <1>1, <1>3, <1>4, <1>5, CommitFacts DEF History
<1>7. /\ Numbered(c) /\ Numbered(log[i])
      /\ log[i].client = c.client /\ log[i].request = c.request
  BY DEF Repeats, Numbered
<1>8. c.client \in Client /\ c.request \in Nat
  BY <1>4, <1>7, NumberedType
<1>9. Recorded(before, c.client, c.request, expected[i + 1].result)
  <2>1. Recorded(expected[(j - 1) + 1].state, log[i].client, log[i].request,
                 expected[i + 1].result)
    BY Zenon, <1>3, <1>7 DEF DedupInv
  <2> QED BY <1>3, <1>7, <2>1
<1>10. before.dedup[c.client].request \in Nat
  BY <1>5, <1>8 DEF StateData
<1>11. c.request # 0
  <2>1. CommitRelation(expected[i].state, log[i], i, expected[i + 1])
    BY <1>1, <1>3, <1>4, <1>5, CommitFacts DEF History
  <2>2. log[i].request > expected[i].state.dedup[log[i].client].request
    BY Zenon, <1>7, <2>1 DEF CommitRelation
  <2>3. expected[i].state.dedup[log[i].client].request \in Nat
    BY <1>5, <1>7, <1>8 DEF StateData
  <2> QED BY <1>7, <1>8, <2>2, <2>3
<1> HIDE DEF before, done, c
<1>12. ~done.fresh /\ done.state.kv = before.kv
  <2>1. ~(c.request > before.dedup[c.client].request)
    BY <1>8, <1>9, <1>10 DEF Recorded
  <2> QED BY <1>6, <1>7, <2>1 DEF CommitRelation
<1>13. done.result \in {expected[i + 1].result, Reply("stale", Absent)}
  <2>1. CASE c.request = before.dedup[c.client].request
    <3>1. done.result = before.dedup[c.client].result
      BY <1>6, <1>7, <1>11, <2>1 DEF CommitRelation
    <3> QED BY <1>9, <2>1, <3>1 DEF Recorded
  <2>2. CASE c.request < before.dedup[c.client].request
    <3>1. done.result = Reply("stale", Absent)
      BY <1>6, <1>7, <1>11, <2>2 DEF CommitRelation
    <3> QED BY <3>1
  <2> QED BY <1>8, <1>9, <1>10, <2>1, <2>2 DEF Recorded
<1> QED BY <1>12, <1>13 DEF before, done

\* However often a client's numbered write is committed, apply_locked lets it
\* take effect once
THEOREM ExactlyOnceCorrect == Spec => []ExactlyOnce
<1>1. DedupInv => ExactlyOnce
  BY RepeatFacts DEF ExactlyOnce
<1> QED BY <1>1, DedupInductive, PTL DEF Spec

\* A committed repeat of a write that took effect gets the result of that write,
\* unless the client has moved on
THEOREM RepeatCorrect == Spec => []RepeatIsAnswered
<1>1. DedupInv => RepeatIsAnswered
  BY RepeatFacts DEF RepeatIsAnswered
<1> QED BY <1>1, DedupInductive, PTL DEF Spec

-----------------------------------------------------------------------------
(* The order of applied indexes *)

\* A snapshot being installed is ahead of the applied state; a dead process
\* has none under way
AheadInv ==
    /\ ReplayInv
    /\ status = "down" => creating.pc = "idle" /\ installing.pc = "idle"
    /\ installing.pc # "idle" => state.index < installing.image.index

\* A received snapshot has the index it was sent for
LEMMA ReceivedIndex ==
    ASSUME ReplayInv, NEW i \in 1 .. Len(log), ReceiveSnapshot(i)
    PROVE  /\ state.index < i
           /\ installing'.pc = "received"
           /\ installing'.image.index = i
<1>1. i \in 0 .. Len(log)
  BY DEF ReplayInv, TypeInv, TypeOK
<1>2. expected[i + 1].state.index = i
  BY <1>1, HistoryIndex DEF ReplayInv
<1> QED BY <1>2 DEF ReceiveSnapshot

\* commit and commit_config apply exactly the next entry
LEMMA CommitMoves ==
    ASSUME ReplayInv, commit \/ commit_config
    PROVE  /\ state.index \in Nat
           /\ state'.index = state.index + 1
<1>1. state \in StateData /\ state.index \in Nat
  BY DEF ReplayInv, TypeInv, TypeOK, StateData
<1>2. CASE commit
  <2> DEFINE i == state.index + 1
  <2>1. state.index < Len(log) /\ state' = Commit(state, log[i], i).state
    BY Zenon, <1>2 DEF commit, HasNext
  <2>2. /\ Commit(state, log[i], i) = expected[i + 1]
        /\ expected[i + 1].state.index = i
    BY <2>1, CommitReplays DEF ReplayInv
  <2> HIDE DEF i
  <2>3. state'.index = i
    BY <2>1, <2>2
  <2> QED BY <1>1, <2>3 DEF i
<1>3. CASE commit_config
  BY <1>1, <1>3 DEF commit_config, StateData
<1> QED BY <1>1, <1>2, <1>3

LEMMA AheadStep ==
    ASSUME AheadInv, [Next]_vars
    PROVE  /\ AheadInv'
           /\ status = "up" /\ status' = "up" => state.index <= state'.index
<1>0. ReplayInv /\ ReplayInv'
  BY ReplayInductive DEF AheadInv
<1>1. /\ state.index \in Nat /\ installing.image.index \in Nat
      /\ installing \in [pc : Steps, image : StateData]
      /\ creating \in [pc : Steps, image : StateData]
      /\ status \in {"up", "down"}
  BY Zenon, <1>0 DEF ReplayInv, TypeInv, TypeOK, StateData
<1> USE DEF AheadInv
<1>2. CASE commit \/ commit_config
  <2>1. /\ state'.index = state.index + 1
        /\ installing' = installing /\ creating' = creating
        /\ status' = status
        /\ installing.pc = "idle" \/ state.index + 1 < installing.image.index
    BY <1>0, <1>2, CommitMoves DEF commit, commit_config, HasNext
  <2> QED BY <1>0, <1>1, <2>1
<1>3. CASE \E i \in DOMAIN recent : take_result(i)
  BY <1>0, <1>1, <1>3 DEF take_result
<1>4. CASE create_snapshot
  BY <1>0, <1>1, <1>4 DEF create_snapshot
<1>5. CASE Creating
  BY <1>0, <1>1, <1>5 DEF Creating, create_snapshotStores, create_snapshotFails,
                          create_snapshotPublishes, when_done
<1>6. CASE \E i \in 1 .. Len(log) : ReceiveSnapshot(i)
  <2>1. PICK i \in 1 .. Len(log) : ReceiveSnapshot(i)
    BY <1>6
  <2>2. state.index < i /\ installing'.image.index = i
    BY <1>0, <2>1, ReceivedIndex
  <2>3. state' = state /\ status' = "up"
    BY <2>1 DEF ReceiveSnapshot
  <2> QED BY <1>0, <1>1, <2>2, <2>3
<1>7. CASE Installing /\ ~apply_snapshot
  BY <1>0, <1>1, <1>7
  DEF Installing, save_logical_snp_obj, save_logical_snp_objPublishes,
      CompactForSnapshot, apply_snapshotFails, GoDown, Idle
<1>8. CASE apply_snapshot
  <2>1. /\ installing.pc = "compacted"
        /\ snapshotFile.index = installing.image.index
        /\ state' = snapshotFile
        /\ installing'.pc = "idle"
        /\ UNCHANGED <<status, creating>>
    BY <1>1, <1>8 DEF apply_snapshot, install
  <2> QED BY <1>0, <1>1, <2>1
<1>9. CASE Crash \/ checkpoint
  BY <1>0, <1>9 DEF Crash, checkpoint, GoDown, Idle
<1>10. CASE Start
  BY <1>0, <1>10 DEF Start
<1>11. CASE \E c \in Commands : Replicate(c)
  BY <1>0, <1>1, <1>11 DEF Replicate
<1>12. CASE UNCHANGED vars
  BY <1>0, <1>1, <1>12 DEF vars
<1> QED
  BY <1>2, <1>3, <1>4, <1>5, <1>6, <1>7, <1>8, <1>9, <1>10, <1>11, <1>12 DEF Next

LEMMA AheadInit == Init => AheadInv
BY ReplayInit DEF Init, AheadInv, Idle

\* While the process runs, neither commits nor a snapshot installed by
\* apply_snapshot ever move last_commit_index back
THEOREM RegressionFree == Spec => NeverRegresses
<1>1. AheadInv /\ [Next]_vars => AheadInv'
  BY AheadStep
<1>2. AheadInv /\ [Next]_vars =>
        [status = "up" /\ status' = "up" => state.index <= state'.index]_vars
  BY AheadStep
<1> QED BY <1>1, <1>2, AheadInit, PTL DEF Spec, NeverRegresses

-----------------------------------------------------------------------------
(* The results kept for the callers *)

\* The least of a set of log indexes exists
LEMMA LeastIndex ==
    ASSUME NEW S, S \subseteq Nat, S # {}
    PROVE  \E i \in S : \A j \in S : i <= j
<1> DEFINE R == {ss \in Nat \X Nat : ss[1] < ss[2]}
<1>1. IsWellFoundedOn(R, Nat)
  BY NatLessThanWellFounded DEF OpToRel
<1>2. PICK x \in S : \A y \in S : ~(<<y, x>> \in R)
  <2> HIDE DEF R
  <2> QED BY Zenon, <1>1, WFMin
<1>3. \A y \in S : ~(y < x)
  BY Zenon, <1>2
<1>4. \A y \in S : x <= y
  BY <1>3
<1> QED BY <1>4

\* recent_results_ after commit has put one more result into it: within the
\* limit again, and each result either the new one or one that was there
CappedFrom(f, i, v, g) ==
    /\ IsFiniteSet(DOMAIN g)
    /\ Cardinality(DOMAIN g) <= CacheLimit
    /\ \A j \in DOMAIN g : j = i \/ j \in DOMAIN f
    /\ \A j \in DOMAIN g : g[j] = IF j = i THEN v ELSE f[j]

LEMMA CapFacts ==
    ASSUME NEW f, DOMAIN f \subseteq Nat, IsFiniteSet(DOMAIN f),
           Cardinality(DOMAIN f) <= CacheLimit,
           NEW i \in Nat, NEW v
    PROVE  CappedFrom(f, i, v, Cap(Put(f, i, v)))
<1> DEFINE p == Put(f, i, v)
           D == DOMAIN f \cup {i}
           least == First(p)
<1>1. DOMAIN p = D /\ \A j \in D : p[j] = IF j = i THEN v ELSE f[j]
  BY DEF Put
<1>2. IsFiniteSet(D) /\ Cardinality(D) <= Cardinality(DOMAIN f) + 1
  <2>1. Cardinality(DOMAIN f) \in Nat
    BY FS_CardinalityType
  <2> QED BY <2>1, FS_AddElement
<1>3. Cardinality(D) \in Nat /\ CacheLimit \in Nat /\ Cardinality(DOMAIN f) \in Nat
  BY <1>2, FS_CardinalityType, ConstantsAssumption
<1>4. CASE Cardinality(D) <= CacheLimit
  <2>1. Cap(p) = p
    BY <1>1, <1>3, <1>4 DEF Cap
  <2> HIDE DEF p
  <2> QED BY <1>1, <1>2, <1>4, <2>1 DEF p, CappedFrom
<1>5. CASE Cardinality(D) > CacheLimit
  <2>1. Cap(p) = Above(p, least)
    BY <1>1, <1>5 DEF Cap
  <2>2. D \subseteq Nat /\ D # {}
    OBVIOUS
  <2>3. \E k \in D : \A j \in D : k <= j
    <3> HIDE DEF D
    <3> QED BY Zenon, <2>2, LeastIndex
  <2>4. least \in D
    <3> HIDE DEF p, D
    <3> QED BY <1>1, <2>3 DEF First
  <2> HIDE DEF p, D, least
  <2> DEFINE A == {k \in D : k > least}
  <2>5. DOMAIN Cap(p) = A /\ \A j \in A : Cap(p)[j] = p[j]
    BY <1>1, <2>1 DEF Above
  <2>6. A \in SUBSET (D \ {least})
    BY <2>2, <2>4
  <2>7. /\ IsFiniteSet(D \ {least})
        /\ Cardinality(D \ {least}) = Cardinality(D) - 1
    BY <1>2, <2>4, FS_RemoveElement
  <2>8. IsFiniteSet(A) /\ Cardinality(A) <= Cardinality(D) - 1
    <3> HIDE DEF A
    <3> QED BY <2>6, <2>7, FS_Subset
  <2>9. Cardinality(A) \in Nat
    BY <2>8, FS_CardinalityType
  <2>10. Cardinality(A) <= CacheLimit
    BY <1>2, <1>3, <2>8, <2>9
  <2>11. \A j \in A : j \in D
    OBVIOUS
  <2> HIDE DEF A
  <2>12. \A j \in A : j = i \/ j \in DOMAIN f
    BY <2>11 DEF D
  <2>13. \A j \in A : Cap(p)[j] = IF j = i THEN v ELSE f[j]
    BY <1>1, <2>5, <2>11
  <2> QED BY <2>5, <2>8, <2>10, <2>12, <2>13 DEF p, CappedFrom
<1>6. Cardinality(D) <= CacheLimit \/ Cardinality(D) > CacheLimit
  <2> HIDE DEF D
  <2> QED BY <1>3
<1> QED BY Zenon, <1>4, <1>5, <1>6

\* A cached result belongs to an applied entry and is the one the log gives; a
\* dead process has none
CacheInv ==
    /\ ReplayInv
    /\ IsFiniteSet(DOMAIN recent)
    /\ Cardinality(DOMAIN recent) <= CacheLimit
    /\ \A i \in DOMAIN recent :
          i \in 1 .. state.index /\ recent[i] = expected[i + 1].result
    /\ status = "down" => recent = Empty

LEMMA EmptyCache ==
    /\ DOMAIN Empty = {}
    /\ IsFiniteSet(DOMAIN Empty)
    /\ Cardinality(DOMAIN Empty) <= CacheLimit
<1>1. DOMAIN Empty = {}
  BY DEF Empty
<1> QED BY <1>1, FS_EmptySet, ConstantsAssumption

LEMMA CacheStep ==
    ASSUME CacheInv, [Next]_vars
    PROVE  CacheInv'
<1>0. ReplayInv /\ ReplayInv'
  BY ReplayInductive DEF CacheInv
<1>1. /\ state.index \in Nat /\ Len(log) \in Nat
      /\ DOMAIN recent \subseteq Nat
      /\ state.index <= Len(log)
  <2>1. /\ state \in StateData
        /\ log \in Seq(Commands)
        /\ IsPartial(recent, Result)
        /\ IsReplay(state)
    BY <1>0 DEF ReplayInv, TypeInv, TypeOK
  <2>2. state.index <= Len(log)
    BY <2>1 DEF IsReplay
  <2>3. DOMAIN recent \subseteq Nat
    BY <2>1 DEF IsPartial
  <2> QED BY <2>1, <2>2, <2>3 DEF StateData
<1> USE DEF CacheInv
<1>2. CASE commit
  <2> DEFINE i == state.index + 1
             done == Commit(state, log[i], i)
  <2>1. /\ state.index < Len(log)
        /\ recent' = Cap(Put(recent, i, done.result))
        /\ UNCHANGED <<status, expected>>
        /\ status = "up"
    BY Zenon, <1>2 DEF commit, HasNext, environment
  <2>2. done = expected[i + 1]
    BY Zenon, <1>0, <2>1, CommitReplays DEF ReplayInv
  <2>3. state'.index = i
    BY <1>0, <1>2, CommitMoves
  <2> HIDE DEF done
  <2>4. i \in Nat /\ \A j \in 1 .. state.index : j \in 1 .. i /\ j # i
    BY <1>1
  <2> HIDE DEF i
  <2>5. /\ IsFiniteSet(DOMAIN recent')
        /\ Cardinality(DOMAIN recent') <= CacheLimit
        /\ \A j \in DOMAIN recent' : j = i \/ j \in DOMAIN recent
        /\ \A j \in DOMAIN recent' :
              recent'[j] = IF j = i THEN done.result ELSE recent[j]
    <3>1. CappedFrom(recent, i, done.result, recent')
      BY Zenon, <1>1, <2>1, <2>4, CapFacts
    <3> QED BY Zenon, <3>1 DEF CappedFrom
  <2>6. i \in 1 .. i
    BY <1>1 DEF i
  <2> QED BY Zenon, <1>0, <2>1, <2>2, <2>3, <2>4, <2>5, <2>6
<1>3. CASE commit_config
  <2>1. state'.index = state.index + 1 /\ UNCHANGED <<status, recent, expected>>
    BY <1>0, <1>3, CommitMoves DEF commit_config, environment
  <2>2. \A j \in 1 .. state.index : j \in 1 .. state'.index
    BY <1>1, <2>1
  <2> QED BY Zenon, <1>0, <2>1, <2>2
<1>4. CASE \E i \in DOMAIN recent : take_result(i)
  <2>1. PICK i \in DOMAIN recent : take_result(i)
    BY <1>4
  <2>2. /\ DOMAIN recent' = DOMAIN recent \ {i}
        /\ \A j \in DOMAIN recent' : recent'[j] = recent[j]
        /\ UNCHANGED <<status, state, expected>>
        /\ status = "up"
    BY Zenon, <2>1 DEF take_result, environment
  <2>3. /\ IsFiniteSet(DOMAIN recent')
        /\ Cardinality(DOMAIN recent') <= Cardinality(DOMAIN recent)
    BY <2>2, FS_Subset
  <2>4. /\ Cardinality(DOMAIN recent) \in Nat
        /\ Cardinality(DOMAIN recent') \in Nat
        /\ CacheLimit \in Nat
    BY <2>3, FS_CardinalityType, ConstantsAssumption
  <2>5. Cardinality(DOMAIN recent') <= CacheLimit
    BY <2>3, <2>4
  <2> QED BY <1>0, <2>2, <2>3, <2>5
<1>5. CASE create_snapshot \/ Creating \/ (Installing /\ ~apply_snapshot
                                              /\ ~apply_snapshotFails)
  <2>1. UNCHANGED <<status, state, recent, expected>>
    BY Zenon, <1>5
    DEF create_snapshot, Creating, create_snapshotStores, create_snapshotFails,
        create_snapshotPublishes, when_done, Installing, save_logical_snp_obj,
        save_logical_snp_objPublishes, CompactForSnapshot, environment
  <2> QED BY <1>0, <2>1
<1>6. CASE \E i \in 1 .. Len(log) : ReceiveSnapshot(i)
  BY <1>0, <1>6 DEF ReceiveSnapshot, environment
<1>7. CASE apply_snapshot \/ Crash \/ checkpoint \/ apply_snapshotFails
  <2>1. recent' = Empty
    BY <1>7 DEF apply_snapshot, install, Crash, checkpoint, apply_snapshotFails, GoDown
  <2> QED BY <1>0, <2>1, EmptyCache
<1>8. CASE Start
  BY <1>0, <1>8, EmptyCache DEF Start, environment
<1>9. CASE \E c \in Commands : Replicate(c)
  <2>1. PICK c \in Commands : Replicate(c)
    BY <1>9
  <2>2. /\ UNCHANGED <<status, state, recent>>
        /\ \E done : expected' = Append(expected, done)
    BY <2>1 DEF Replicate
  <2>3. expected \in Seq(Outcome) /\ Len(expected) = Len(log) + 1
    BY Zenon, <1>0 DEF ReplayInv, TypeInv, TypeOK, Outcome, OutcomePerEntry
  <2>4. \A n \in 1 .. Len(log) + 1 : expected'[n] = expected[n]
    BY <1>1, <2>2, <2>3
  <2>5. \A i \in 1 .. state.index : i + 1 \in 1 .. Len(log) + 1
    BY <1>1
  <2> QED BY Zenon, <1>0, <2>2, <2>4, <2>5
<1>10. CASE UNCHANGED vars
  BY <1>0, <1>10 DEF vars, environment
<1> QED
  BY Zenon, <1>2, <1>3, <1>4, <1>5, <1>6, <1>7, <1>8, <1>9, <1>10 DEF Next, Installing

\* Whatever a caller collects with take_result is the result the entry at that
\* index has in the committed log, and commit keeps the cache within its limit,
\* through crashes and installed snapshots
THEOREM ResultsCorrect == Spec => []ResultsAreExpected
<1>1. Init => CacheInv
  BY Zenon, ReplayInit, EmptyCache DEF Init, CacheInv
<1>2. CacheInv /\ [Next]_vars => CacheInv'
  BY CacheStep
<1>3. CacheInv => ResultsAreExpected
  <2> SUFFICES ASSUME CacheInv PROVE ResultsAreExpected
    OBVIOUS
  <2>1. state.index \in Nat
    BY Zenon DEF CacheInv, ReplayInv, TypeInv, TypeOK, StateData
  <2> QED BY <2>1 DEF CacheInv, ResultsAreExpected
<1> QED BY <1>1, <1>2, <1>3, PTL DEF Spec

-----------------------------------------------------------------------------
(* Files, snapshots and compaction, when NuRaft does not overlap the        *)
(* creation of a snapshot with the installation of another                  *)

\* One snapshot procedure at a time; the one under way has put its image into
\* latest.bin once it says so; the files are not ahead of the memory, except
\* for a snapshot that is still to be applied; and the log starts no later than
\* right behind what recovery would load
SnapshotInv ==
    /\ AheadInv
    /\ creating.pc \in {"idle", "serialized", "stored", "done"}
    /\ installing.pc \in {"idle", "received", "stored", "saved", "compacted"}
    /\ creating.pc = "idle" \/ installing.pc = "idle"
    /\ creating.pc # "idle" => creating.image = state
    /\ creating.pc \in {"stored", "done"} => snapshotFile = creating.image
    /\ SavedSnapshotApplies
    /\ status = "up" =>
          /\ stateFile.index <= state.index
          /\ installing.pc \in {"idle", "received"} =>
                snapshotFile.index <= state.index
          /\ creating.pc # "stored" /\ installing.pc # "stored" =>
                lastSnapshot = snapshotFile.index
    /\ ReplayPossible

LEMMA SnapshotInit == Init => SnapshotInv
<1> SUFFICES ASSUME Init PROVE SnapshotInv
  OBVIOUS
<1>1. InitialState.index = 0
  BY DEF InitialState
<1> QED BY <1>1, AheadInit
        DEF Init, SnapshotInv, SavedSnapshotApplies, ReplayPossible, Recovered, Idle

LEMMA SnapshotStep ==
    ASSUME SnapshotInv, ~Overlap, [Next]_vars
    PROVE  SnapshotInv'
<1>0. AheadInv /\ AheadInv' /\ ReplayInv
  BY AheadStep DEF SnapshotInv, AheadInv
<1>1. /\ state.index \in Nat /\ stateFile.index \in Nat
      /\ snapshotFile.index \in Nat
      /\ creating.image.index \in Nat /\ installing.image.index \in Nat
      /\ installing \in [pc : Steps, image : StateData]
      /\ creating \in [pc : Steps, image : StateData]
      /\ status \in {"up", "down"}
      /\ logStart \in Nat /\ lastSnapshot \in Nat /\ Reserved \in Nat
  BY <1>0, ConstantsAssumption DEF ReplayInv, TypeInv, TypeOK, StateData
<1>2. /\ status = "down" => creating.pc = "idle" /\ installing.pc = "idle"
      /\ installing.pc # "idle" => state.index < installing.image.index
  BY <1>0 DEF AheadInv
<1> USE DEF SnapshotInv, SavedSnapshotApplies, ReplayPossible, Recovered
<1>3. CASE commit \/ commit_config
  <2>1. /\ state'.index = state.index + 1
        /\ creating.pc = "idle"
        /\ UNCHANGED <<status, lastSnapshot, stateFile, snapshotFile, creating,
                       installing, logStart>>
    BY <1>0, <1>3, CommitMoves DEF commit, commit_config, HasNext, files
  <2> QED BY <1>0, <1>1, <1>2, <2>1
<1>4. CASE \E i \in DOMAIN recent : take_result(i)
  BY Zenon, <1>0, <1>4 DEF take_result, files
<1>5. CASE create_snapshot
  BY <1>0, <1>5 DEF create_snapshot, files
<1>6. CASE create_snapshotStores
  BY <1>0, <1>1, <1>2, <1>6 DEF create_snapshotStores
<1>7. CASE create_snapshotFails
  BY <1>0, <1>1, <1>2, <1>7 DEF create_snapshotFails, files
<1>8. CASE create_snapshotPublishes
  BY <1>0, <1>1, <1>2, <1>8 DEF create_snapshotPublishes, files
<1>9. CASE when_done
  BY <1>0, <1>1, <1>2, <1>9 DEF when_done, compact, files
<1>10. CASE \E i \in 1 .. Len(log) : ReceiveSnapshot(i)
  BY <1>0, <1>1, <1>2, <1>10 DEF ReceiveSnapshot, files
<1>11. CASE save_logical_snp_obj
  BY <1>0, <1>1, <1>2, <1>11 DEF save_logical_snp_obj
<1>12. CASE save_logical_snp_objPublishes
  BY <1>0, <1>1, <1>2, <1>12 DEF save_logical_snp_objPublishes, files
<1>13. CASE CompactForSnapshot
  BY <1>0, <1>1, <1>2, <1>13 DEF CompactForSnapshot, compact, files
<1>14. CASE apply_snapshot
  BY <1>0, <1>1, <1>2, <1>14 DEF apply_snapshot, install, files
<1>15. CASE Crash \/ apply_snapshotFails
  BY <1>0, <1>1, <1>2, <1>15 DEF Crash, apply_snapshotFails, GoDown, Idle, files
<1>16. CASE checkpoint
  BY <1>0, <1>1, <1>2, <1>16 DEF checkpoint, GoDown, Idle
<1>17. CASE Start
  BY <1>0, <1>1, <1>2, <1>17 DEF Start, files
<1>18. CASE \E c \in Commands : Replicate(c)
  BY <1>0, <1>18 DEF Replicate, files
<1>19. CASE UNCHANGED vars
  BY <1>0, <1>19 DEF vars, files
<1> QED
  BY Zenon, <1>3, <1>4, <1>5, <1>6, <1>7, <1>8, <1>9, <1>10, <1>11, <1>12, <1>13, <1>14,
     <1>15, <1>16, <1>17, <1>18, <1>19
  DEF Next, Creating, Installing

\* Compaction never runs ahead of recovery: whenever the process dies, the
\* checkpoint or snapshot it restarts from and the local log still hold every
\* committed entry
THEOREM RecoveryCorrect ==
    ASSUME ~Overlap
    PROVE  Spec => []ReplayPossible
<1>1. SnapshotInv /\ [Next]_vars => SnapshotInv'
  BY SnapshotStep
<1>2. SnapshotInv => ReplayPossible
  BY DEF SnapshotInv
<1> QED BY <1>1, <1>2, SnapshotInit, PTL DEF Spec

\* The snapshot that last_snapshot() advertises is the one in latest.bin
THEOREM AdvertisedCorrect ==
    ASSUME ~Overlap
    PROVE  Spec => []SnapshotServable
<1>1. SnapshotInv /\ [Next]_vars => SnapshotInv'
  BY SnapshotStep
<1>2. SnapshotInv => SnapshotServable
  BY DEF SnapshotInv, SnapshotServable
<1> QED BY <1>1, <1>2, SnapshotInit, PTL DEF Spec

\* apply_snapshot finds the snapshot that save_logical_snp_obj stored, so NuRaft
\* never has to take the process down for it
THEOREM InstallCorrect ==
    ASSUME ~Overlap
    PROVE  Spec => []SavedSnapshotApplies
<1>1. SnapshotInv /\ [Next]_vars => SnapshotInv'
  BY SnapshotStep
<1>2. SnapshotInv => SavedSnapshotApplies
  BY DEF SnapshotInv
<1> QED BY <1>1, <1>2, SnapshotInit, PTL DEF Spec

=============================================================================
