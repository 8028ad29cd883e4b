------------------------- MODULE ClientRetryProofs -------------------------
(***************************************************************************)
(* Proofs about ClientRetry: for any number of attempts and calls, and     *)
(* whatever is lost, repeated, or committed late.                          *)
(***************************************************************************)
EXTENDS ClientRetry, FiniteSetTheorems, TLAPS

-----------------------------------------------------------------------------
(* The inductive invariant *)

\* The last request of the client that took effect, 0 for none
Recorded == state.dedup[TheClient].request

\* The calls up to r that took effect
Effective(r) == {q \in 1 .. r : executions[q] = 1}
Count(r) == Cardinality(Effective(r))

\* The client is in a call, and only attempts of calls it has made are under
\* way: the replicated record is never ahead of the client
ClientInv ==
    /\ TypeOK
    /\ pc # "idle" => request \in Call /\ attempt \in 1 .. Attempts
    /\ \A a \in Attempt : stage[a] # "unsent" => a[1] <= request
    /\ Recorded <= request

\* Nothing past the record has taken effect, nothing has twice, and what the
\* record names has
RecordInv ==
    /\ \A r \in Call : executions[r] \in {0, 1}
    /\ \A r \in Call : executions[r] = 1 => r <= Recorded
    /\ Recorded > 0 => executions[Recorded] = 1

\* The counter is the number of calls that took effect, and the record keeps
\* what the last of them was answered
CounterInv ==
    IF Recorded = 0
    THEN state.kv[TheKey] = Absent
    ELSE /\ state.kv[TheKey] = Count(Recorded)
         /\ state.dedup[TheClient].result = Reply("integer", Count(Recorded))

OwnReply(r, response) ==
    /\ r <= Recorded
    /\ executions[r] = 1
    /\ response = Reply("integer", Count(r))

\* A result is that of the call's own execution, or "stale" for an attempt
\* that a later call has overtaken
ReplyOwn(a) ==
    reply[a].code \in Code =>
        \/ OwnReply(a[1], reply[a])
        \/ a[1] < Recorded /\ reply[a] = Reply("stale", Absent)

ReturnOwn(r) == returned[r].code \in Code => OwnReply(r, returned[r])

ReplyInv == \A a \in Attempt : ReplyOwn(a)

ReturnedInv == \A r \in Call : ReturnOwn(r)

RetryInv ==
    /\ ClientInv
    /\ RecordInv
    /\ CounterInv
    /\ ReplyInv
    /\ ReturnedInv

-----------------------------------------------------------------------------
(* An INCR of the client, applied *)

LEMMA CountFacts ==
    ASSUME NEW r \in Nat
    PROVE  /\ IsFiniteSet(Effective(r))
           /\ Count(r) \in Nat
           /\ Count(r) <= r
<1> DEFINE I == 1 .. r
<1>1. IsFiniteSet(I) /\ Cardinality(I) = r
  <2>1. IsFiniteSet(I) /\ Cardinality(I) = IF 1 > r THEN 0 ELSE r - 1 + 1
    BY FS_Interval
  <2> HIDE DEF I
  <2> QED BY <2>1
<1>2. Effective(r) \in SUBSET I
  BY DEF Effective
<1> HIDE DEF I
<1>3. IsFiniteSet(Effective(r)) /\ Cardinality(Effective(r)) <= r
  BY <1>1, <1>2, FS_Subset
<1> QED BY <1>3, FS_CardinalityType DEF Count

\* The command that an attempt of call n carries
Incr(n) ==
    [type |-> "INCR", key |-> TheKey, value |-> Absent, client |-> TheClient,
     request |-> n]

LEMMA IncrFields ==
    ASSUME NEW n
    PROVE  /\ Incr(n).type = "INCR" /\ Incr(n).key = TheKey
           /\ Incr(n).client = TheClient /\ Incr(n).request = n
           /\ is_write(Incr(n))
           /\ TheClient \in Client /\ TheClient # NoClient /\ TheKey \in Key
BY CommandsAssumption, ClientAssumption, Zenon DEF Incr, is_write

LEMMA StateFields ==
    ASSUME NEW s \in StateData
    PROVE  /\ s.index \in Nat
           /\ s.kv \in [Key -> Value \cup {Absent}]
           /\ s.dedup \in [Client -> [request : Nat, result : Result]]
           /\ s.dedup[TheClient].request \in Nat
           /\ s.dedup[TheClient].result \in Result
<1>1. /\ s.index \in Nat
      /\ s.kv \in [Key -> Value \cup {Absent}]
      /\ s.dedup \in [Client -> [request : Nat, result : Result]]
  BY DEF StateData
<1>2. s.dedup[TheClient] \in [request : Nat, result : Result]
  BY <1>1, ClientAssumption
<1> QED BY <1>1, <1>2

\* Which of Deduplicate's cases applies
LEMMA Deduplicated ==
    ASSUME NEW s \in StateData, NEW n \in Nat \ {0}
    PROVE  LET R == s.dedup[TheClient].request
               done == apply_locked(s, Incr(n))
           IN  /\ n = R => done = Answer(s, s.dedup[TheClient].result)
               /\ n < R => done = Answer(s, Reply("stale", Absent))
               /\ n > R => done = Perform(s, Incr(n))
<1> DEFINE R == s.dedup[TheClient].request
           c == Incr(n)
<1>1. apply_locked(s, c) = Deduplicate(s, c)
  <2>1. is_write(c) /\ c.client # NoClient
    BY IncrFields
  <2> HIDE DEF c
  <2> QED BY <2>1, Zenon DEF apply_locked
<1>2. R \in Nat /\ n \in Nat /\ n # 0
  BY StateFields
<1>3. c.request = n /\ s.dedup[c.client].request = R
      /\ s.dedup[c.client] = s.dedup[TheClient]
  BY IncrFields
<1> HIDE DEF R, c
<1>4. CASE n = R
  <2>1. ~(n < R) /\ ~(n > R)
    BY <1>2, <1>4
  <2>2. Deduplicate(s, c) = Answer(s, s.dedup[TheClient].result)
    BY <1>2, <1>3, <1>4, <2>1, Zenon DEF Deduplicate
  <2> QED BY <1>1, <1>2, <1>4, <2>1, <2>2 DEF R, c
<1>5. CASE n < R
  <2>1. n # R /\ ~(n > R)
    BY <1>2, <1>5
  <2>2. Deduplicate(s, c) = Answer(s, Reply("stale", Absent))
    BY <1>2, <1>3, <1>5, <2>1, Zenon DEF Deduplicate
  <2> QED BY <1>1, <1>2, <1>5, <2>1, <2>2 DEF R, c
<1>6. CASE n > R
  <2>1. n # R /\ ~(n < R)
    BY <1>2, <1>6
  <2>2. Deduplicate(s, c) = Perform(s, c)
    BY <1>2, <1>3, <1>6, <2>1, Zenon DEF Deduplicate
  <2> QED BY <1>1, <1>2, <1>6, <2>1, <2>2 DEF R, c
<1>7. n = R \/ n < R \/ n > R
  BY <1>2
<1> QED BY Zenon, <1>4, <1>5, <1>6, <1>7

\* The counter is a number below the limit, or there is none yet
LEMMA StepFacts ==
    ASSUME NEW kv \in [Key -> Value \cup {Absent}], NEW n,
           NEW m \in Nat, m < MaxInt,
           kv[TheKey] = m \/ (kv[TheKey] = Absent /\ m = 0)
    PROVE  apply_new_request(kv, Incr(n)) =
               [kv     |-> [kv EXCEPT ![TheKey] = m + 1],
                result |-> Reply("integer", m + 1)]
<1>1. m \in MinInt .. MaxInt /\ m # MaxInt /\ MaxInt \in Int
  BY CommandsAssumption
<1>2. m # Absent /\ parses(m) /\ parse_int64(m) = m
  BY <1>1, CommandsAssumption, Zenon DEF parses, parse_int64, Value
<1>3. (IF kv[TheKey] = Absent THEN 0 ELSE parse_int64(kv[TheKey])) = m
  BY <1>2, Zenon
<1>4. kv[TheKey] # Absent => parses(kv[TheKey])
  BY <1>2, Zenon
<1>5. step(kv, TheKey, 1, MaxInt) =
          [kv     |-> [kv EXCEPT ![TheKey] = m + 1],
           result |-> Reply("integer", m + 1)]
  BY <1>1, <1>3, <1>4, Zenon DEF step
<1> DEFINE c == Incr(n)
<1>6. c.type = "INCR" /\ c.key = TheKey
  BY IncrFields
<1> HIDE DEF c
<1>7. apply_new_request(kv, c) = step(kv, TheKey, 1, MaxInt)
  BY <1>6, Zenon DEF apply_new_request
<1> QED BY <1>5, <1>7 DEF c

\* A new request adds one, and is recorded with its result
Added(s, n, m, done) ==
    /\ done.fresh
    /\ done.result = Reply("integer", m + 1)
    /\ done.state \in StateData
    /\ done.state.kv[TheKey] = m + 1
    /\ done.state.dedup[TheClient].request = n
    /\ done.state.dedup[TheClient].result = Reply("integer", m + 1)

LEMMA PerformFacts ==
    ASSUME NEW s \in StateData, NEW n \in Nat, NEW m \in Nat, m < MaxInt,
           s.kv[TheKey] = m \/ (s.kv[TheKey] = Absent /\ m = 0)
    PROVE  Added(s, n, m, Perform(s, Incr(n)))
<1> DEFINE c == Incr(n)
           kv2 == [s.kv EXCEPT ![TheKey] = m + 1]
           result == Reply("integer", m + 1)
           record == [request |-> n, result |-> result]
           dedup2 == [s.dedup EXCEPT ![TheClient] = record]
           done == apply_new_request(s.kv, c)
<1>1. /\ s.kv \in [Key -> Value \cup {Absent}]
      /\ s.dedup \in [Client -> [request : Nat, result : Result]]
      /\ s.index \in Nat
  BY StateFields
<1>2. done = [kv |-> kv2, result |-> result]
  BY <1>1, StepFacts
<1>3. done.kv = kv2 /\ done.result = result
  BY <1>2
<1>4. c.client = TheClient /\ c.client # NoClient /\ c.request = n
      /\ TheClient \in Client /\ TheKey \in Key
  BY IncrFields
<1>5. m + 1 \in Value
  BY CommandsAssumption DEF Value
<1>6. result \in Result /\ record \in [request : Nat, result : Result]
  <2>1. result \in Result
    BY <1>5 DEF Reply, Result, Code
  <2> HIDE DEF result
  <2> QED BY <2>1
<1> HIDE DEF done, c
<1>7. Perform(s, c) =
          [state  |-> [s EXCEPT !.kv = kv2, !.dedup = dedup2],
           result |-> result, fresh |-> TRUE]
  <2>1. (IF c.client = NoClient THEN s.dedup
         ELSE [s.dedup EXCEPT ![c.client] =
                  [request |-> c.request, result |-> done.result]]) = dedup2
    BY <1>3, <1>4, Zenon
  <2>2. Perform(s, c) =
            [state  |-> [s EXCEPT !.kv = done.kv,
                           !.dedup = IF c.client = NoClient THEN s.dedup
                                     ELSE [s.dedup EXCEPT ![c.client] =
                                             [request |-> c.request,
                                              result  |-> done.result]]],
             result |-> done.result, fresh |-> TRUE]
    BY Zenon DEF Perform, done
  <2> QED BY <1>3, <2>1, <2>2, Zenon
<1>8. kv2 \in [Key -> Value \cup {Absent}] /\ kv2[TheKey] = m + 1
  BY <1>1, <1>4, <1>5
<1> HIDE DEF record
<1>9. dedup2 \in [Client -> [request : Nat, result : Result]]
      /\ dedup2[TheClient] = record
  BY <1>1, <1>4, <1>6
<1> HIDE DEF kv2, dedup2, result
<1> DEFINE p == Perform(s, c)
           s2 == [s EXCEPT !.kv = kv2, !.dedup = dedup2]
<1>10. s2.kv = kv2 /\ s2.dedup = dedup2 /\ s2 \in StateData
  BY Zenon, <1>8, <1>9 DEF StateData
<1>11. p.fresh /\ p.result = result /\ p.state = s2
  BY <1>7
<1>12. record.request = n /\ record.result = result
  BY DEF record
<1> HIDE DEF p, s2
<1> QED BY <1>8, <1>9, <1>10, <1>11, <1>12 DEF Added, p, c, result

-----------------------------------------------------------------------------
(* What commit does *)

Repeated(n, result) ==
    /\ n = Recorded
    /\ state' = state /\ executions' = executions
    /\ result = Reply("integer", Count(n))

Overtaken(n, result) ==
    /\ n < Recorded
    /\ state' = state /\ executions' = executions
    /\ result = Reply("stale", Absent)

Executed(n, result) ==
    /\ n > Recorded
    /\ state' \in StateData
    /\ executions' = [executions EXCEPT ![n] = @ + 1]
    /\ result = Reply("integer", Count(Recorded) + 1)
    /\ state'.kv[TheKey] = Count(Recorded) + 1
    /\ state'.dedup[TheClient].request = n
    /\ state'.dedup[TheClient].result = result

CommitRelation(a, result) ==
    /\ stage' = [stage EXCEPT ![a] = "committed"]
    /\ reply' = IF reply[a] = Nothing THEN [reply EXCEPT ![a] = result] ELSE reply
    /\ UNCHANGED <<pc, request, attempt, connected, returned>>
    /\ Repeated(a[1], result) \/ Overtaken(a[1], result) \/ Executed(a[1], result)

LEMMA Basics ==
    ASSUME RetryInv
    PROVE  /\ Recorded \in Nat /\ request \in Nat /\ request <= MaxCalls
           /\ Recorded <= request
           /\ MaxCalls \in Nat /\ MaxInt \in Int /\ MaxCalls <= MaxInt
           /\ \A a \in Attempt : a[1] \in Call
           /\ \A r \in Call : r \in Nat /\ r # 0 /\ r <= MaxCalls
           /\ state \in StateData
           /\ executions \in [Call -> Nat]
           /\ Count(Recorded) \in Nat /\ Count(Recorded) <= Recorded
<1>1. /\ state \in StateData /\ request \in 0 .. MaxCalls
      /\ executions \in [Call -> Nat] /\ Recorded <= request
  BY DEF RetryInv, ClientInv, TypeOK
<1>2. MaxCalls \in Nat /\ MaxInt \in Int /\ MaxCalls <= MaxInt
  BY ClientAssumption, CommandsAssumption
<1>3. Recorded \in Nat
  BY <1>1, StateFields DEF Recorded
<1>4. Count(Recorded) \in Nat /\ Count(Recorded) <= Recorded
  BY <1>3, CountFacts
<1>5. \A a \in Attempt : a[1] \in Call
  BY DEF Attempt
<1>6. \A r \in Call : r \in Nat /\ r # 0 /\ r <= MaxCalls
  BY <1>2 DEF Call
<1>7. request \in Nat /\ request <= MaxCalls
  BY <1>1, <1>2
<1> QED BY <1>1, <1>2, <1>3, <1>4, <1>5, <1>6, <1>7

LEMMA CommitFacts ==
    ASSUME RetryInv, NEW a \in Attempt, commit(a)
    PROVE  \E result \in Result : CommitRelation(a, result)
<1> DEFINE n == a[1]
           done == apply_locked(state, Incr(n))
<1>1. /\ stage' = [stage EXCEPT ![a] = "committed"]
      /\ state' = done.state
      /\ executions' = IF done.fresh THEN [executions EXCEPT ![a[1]] = @ + 1]
                       ELSE executions
      /\ reply' = IF reply[a] = Nothing THEN [reply EXCEPT ![a] = done.result]
                  ELSE reply
      /\ UNCHANGED <<pc, request, attempt, connected, returned>>
  BY Zenon DEF commit, NumberOf, Incr
<1>2. n \in Nat \ {0} /\ n \in Nat /\ n <= MaxCalls /\ Recorded \in Nat
  BY Basics
<1>3. /\ n = Recorded => done = Answer(state, state.dedup[TheClient].result)
      /\ n < Recorded => done = Answer(state, Reply("stale", Absent))
      /\ n > Recorded => done = Perform(state, Incr(n))
  BY <1>2, Basics, Deduplicated, Zenon DEF Recorded
<1> SUFFICES /\ done.result \in Result
             /\ \/ Repeated(n, done.result) \/ Overtaken(n, done.result)
                \/ Executed(n, done.result)
  <2> HIDE DEF done
  <2> QED BY Zenon, <1>1 DEF CommitRelation
<1> HIDE DEF done
<1>4. CASE n = Recorded
  <2>1. /\ done.state = state /\ done.fresh = FALSE
        /\ done.result = state.dedup[TheClient].result
    <3>1. done = Answer(state, state.dedup[TheClient].result)
      BY <1>3, <1>4
    <3> QED BY <3>1 DEF Answer
  <2>2. Recorded # 0
    BY <1>2, <1>4
  <2>3. done.result = Reply("integer", Count(n))
    BY Zenon, <1>4, <2>1, <2>2 DEF RetryInv, CounterInv
  <2>4. done.result \in Result
    BY <2>1, Basics, StateFields
  <2> QED BY Zenon, <1>1, <1>4, <2>1, <2>3, <2>4 DEF Repeated
<1>5. CASE n < Recorded
  <2>1. /\ done.state = state /\ done.fresh = FALSE
        /\ done.result = Reply("stale", Absent)
    <3>1. done = Answer(state, Reply("stale", Absent))
      BY <1>3, <1>5
    <3> QED BY <3>1 DEF Answer
  <2>2. done.result \in Result
    BY <2>1 DEF Reply, Result, Code
  <2> QED BY Zenon, <1>1, <1>5, <2>1, <2>2 DEF Overtaken
<1>6. CASE n > Recorded
  <2> DEFINE m == Count(Recorded)
  <2>1. m \in Nat /\ m < MaxInt
    <3>1. /\ m \in Nat /\ m <= Recorded /\ MaxCalls \in Nat /\ MaxInt \in Int
          /\ MaxCalls <= MaxInt
      BY Zenon, Basics
    <3> HIDE DEF m
    <3> QED BY <1>2, <1>6, <3>1
  <2>2. state.kv[TheKey] = m \/ (state.kv[TheKey] = Absent /\ m = 0)
    <3>1. CASE Recorded = 0
      <4>1. m <= 0 /\ m \in Nat
        BY <3>1, Basics
      <4>2. m = 0
        <5> HIDE DEF m
        <5> QED BY <4>1
      <4> QED BY Zenon, <3>1, <4>2 DEF RetryInv, CounterInv
    <3>2. CASE Recorded # 0
      BY Zenon, <3>2 DEF RetryInv, CounterInv
    <3> QED BY <3>1, <3>2
  <2>3. state \in StateData
    BY Basics
  <2> HIDE DEF m, n
  <2>4. Added(state, n, m, done)
    BY Zenon, <1>2, <1>3, <1>6, <2>1, <2>2, <2>3, PerformFacts
  <2>5. done.result \in Result
    <3>1. state' \in StateData /\ state'.dedup[TheClient].result = done.result
      BY Zenon, <1>1, <2>4 DEF Added
    <3> QED BY <3>1, StateFields
  <2> QED BY Zenon, <1>1, <1>6, <2>4, <2>5 DEF Added, Executed, m, n
<1>7. n = Recorded \/ n < Recorded \/ n > Recorded
  BY <1>2
<1> QED BY Zenon, <1>4, <1>5, <1>6, <1>7

-----------------------------------------------------------------------------
(* The counter and its record *)

LEMMA CountKept ==
    ASSUME NEW r \in Nat, \A q \in 1 .. r : executions'[q] = executions[q]
    PROVE  Count(r)' = Count(r)
<1>1. Effective(r)' = Effective(r)
  BY DEF Effective
<1> QED BY Zenon, <1>1 DEF Count

\* What had taken effect stays as it was
Kept ==
    /\ Recorded' \in Nat /\ Recorded <= Recorded'
    /\ \A q \in Call : q <= Recorded => executions'[q] = executions[q]

LEMMA OwnReplyKept ==
    ASSUME RetryInv, Kept, NEW r \in Call, NEW x, OwnReply(r, x)
    PROVE  OwnReply(r, x)'
<1>1. r \in Nat /\ r <= Recorded /\ Recorded \in Nat /\ r <= MaxCalls
  BY Basics DEF OwnReply
<1>2. r <= Recorded'
  BY <1>1 DEF Kept
<1>3. \A q \in 1 .. r : q \in Call /\ q <= Recorded
  BY <1>1, Basics DEF Call
<1>4. \A q \in 1 .. r : executions'[q] = executions[q]
  BY Zenon, <1>3 DEF Kept
<1>5. Count(r)' = Count(r)
  BY <1>1, <1>4, CountKept
<1>6. executions'[r] = executions[r]
  BY <1>1 DEF Kept
<1> QED BY Zenon, <1>2, <1>5, <1>6 DEF OwnReply

LEMMA SameKept ==
    ASSUME RetryInv, UNCHANGED <<state, executions>>
    PROVE  /\ Kept /\ Recorded' = Recorded
           /\ RecordInv' /\ CounterInv'
<1>1. state' = state /\ executions' = executions
  OBVIOUS
<1>2. Recorded' = Recorded
  BY Zenon, <1>1 DEF Recorded
<1>3. Kept
  BY <1>1, <1>2, Basics DEF Kept
<1>4. Effective(Recorded)' = Effective(Recorded)
  BY Zenon, <1>1, <1>2 DEF Effective
<1>5. Count(Recorded)' = Count(Recorded)
  BY Zenon, <1>4 DEF Count
<1>6. RecordInv'
  BY Zenon, <1>1, <1>2 DEF RecordInv, RetryInv
<1>7. CounterInv'
  BY Zenon, <1>1, <1>2, <1>5 DEF CounterInv, RetryInv
<1> QED BY <1>2, <1>3, <1>6, <1>7

LEMMA ExecutedFacts ==
    ASSUME RetryInv, NEW n \in Call, NEW result, Executed(n, result)
    PROVE  /\ Kept /\ Recorded' = n
           /\ executions' \in [Call -> Nat] /\ executions'[n] = 1
           /\ \A q \in Call : q # n => executions'[q] = executions[q]
           /\ Count(n)' = Count(Recorded) + 1
<1>1. Recorded' = n
  BY DEF Executed, Recorded
<1>2. n \in Nat /\ Recorded \in Nat /\ n > Recorded /\ n <= MaxCalls
      /\ executions \in [Call -> Nat]
  BY Basics DEF Executed
<1>3. executions[n] = 0
  <2>1. executions[n] \in {0, 1} /\ (executions[n] = 1 => n <= Recorded)
    BY DEF RetryInv, RecordInv
  <2> QED BY <1>2, <2>1
<1>4. /\ executions' \in [Call -> Nat] /\ executions'[n] = 1
      /\ \A q \in Call : q # n => executions'[q] = executions[q]
  BY <1>2, <1>3 DEF Executed
<1>5. \A q \in Call : q <= Recorded => q # n
  BY <1>2, Basics
<1>6. Kept
  BY <1>1, <1>2, <1>4, <1>5 DEF Kept
<1>7. Effective(n)' = Effective(Recorded) \cup {n}
  <2>1. ASSUME NEW q
        PROVE  q \in Effective(n)' <=> q \in Effective(Recorded) \cup {n}
    <3>1. q \in Effective(n)' <=> q \in 1 .. n /\ executions'[q] = 1
      BY DEF Effective
    <3>2. q \in Effective(Recorded) <=> q \in 1 .. Recorded /\ executions[q] = 1
      BY DEF Effective
    <3>3. CASE q = n
      BY <1>2, <1>4, <3>1, <3>3, Basics
    <3>4. CASE q # n
      <4>1. q \in 1 .. n => q \in Call
        BY <1>2, ClientAssumption DEF Call
      <4>2. q \in Call /\ executions[q] = 1 => q <= Recorded
        BY DEF RetryInv, RecordInv
      <4>3. q \in 1 .. Recorded => q \in 1 .. n
        BY <1>2
      <4>4. q \in 1 .. n /\ q <= Recorded => q \in 1 .. Recorded
        BY <1>2
      <4> QED BY Zenon, <1>4, <3>1, <3>2, <3>4, <4>1, <4>2, <4>3, <4>4
    <3> QED BY <3>3, <3>4
  <2> QED BY <2>1
<1>8. n \notin Effective(Recorded)
  <2>1. n \notin 1 .. Recorded
    BY <1>2
  <2> QED BY <2>1 DEF Effective
<1>9. Count(n)' = Count(Recorded) + 1
  <2>1. IsFiniteSet(Effective(Recorded))
    BY <1>2, CountFacts
  <2>2. Cardinality(Effective(Recorded) \cup {n}) = Cardinality(Effective(Recorded)) + 1
    BY <1>8, <2>1, FS_AddElement
  <2> QED BY Zenon, <1>7, <2>2 DEF Count
<1> QED BY <1>1, <1>4, <1>6, <1>9

\* A commit leaves the record and the counter in step
LEMMA CommitRecord ==
    ASSUME RetryInv, NEW a \in Attempt, NEW result \in Result,
           CommitRelation(a, result)
    PROVE  Kept /\ RecordInv' /\ CounterInv'
<1>1. CASE Repeated(a[1], result) \/ Overtaken(a[1], result)
  <2>1. UNCHANGED <<state, executions>>
    BY <1>1 DEF Repeated, Overtaken
  <2> QED BY <2>1, SameKept
<1>2. CASE Executed(a[1], result)
  <2> DEFINE n == a[1]
  <2>1. n \in Call /\ Executed(n, result)
    BY <1>2, Basics
  <2> HIDE DEF n
  <2>2. /\ Kept /\ Recorded' = n
        /\ executions' \in [Call -> Nat] /\ executions'[n] = 1
        /\ \A q \in Call : q # n => executions'[q] = executions[q]
        /\ Count(n)' = Count(Recorded) + 1
    BY <2>1, ExecutedFacts
  <2>3. n \in Nat /\ n > 0 /\ Recorded < n /\ Recorded \in Nat
    BY <2>1, Basics DEF Executed
  <2>4. RecordInv'
    <3>1. \A r \in Call : executions'[r] \in {0, 1}
      BY Zenon, <2>2 DEF RetryInv, RecordInv
    <3>2. ASSUME NEW r \in Call, executions'[r] = 1
          PROVE  r <= Recorded'
      <4>1. CASE r = n
        BY <2>2, <2>3, <4>1
      <4>2. CASE r # n
        <5>1. r <= Recorded
          BY Zenon, <2>2, <3>2, <4>2 DEF RetryInv, RecordInv
        <5> QED BY <2>2, <2>3, <5>1, Basics
      <4> QED BY <4>1, <4>2
    <3>3. executions'[Recorded'] = 1
      BY <2>2
    <3> QED BY Zenon, <3>1, <3>2, <3>3 DEF RecordInv
  <2>5. CounterInv'
    <3>1. Recorded' # 0 /\ Count(Recorded)' = Count(Recorded) + 1
      <4>1. Effective(Recorded)' = Effective(n)'
        BY Zenon, <2>2 DEF Effective
      <4>2. Count(Recorded)' = Count(n)'
        BY Zenon, <4>1 DEF Count
      <4> QED BY <2>2, <2>3, <4>2
    <3>2. /\ state'.kv[TheKey] = Count(Recorded) + 1
          /\ state'.dedup[TheClient].result = Reply("integer", Count(Recorded) + 1)
      BY Zenon, <2>1 DEF Executed
    <3> QED BY Zenon, <3>1, <3>2 DEF CounterInv
  <2> QED BY <2>2, <2>4, <2>5
<1> QED BY <1>1, <1>2 DEF CommitRelation

-----------------------------------------------------------------------------
(* The inductive invariant *)

\* Only results have the code of one
LEMMA Responses ==
    /\ Nothing \in Response /\ Nothing.code \notin Code
    /\ Reply("unreachable", Absent) \in Response
    /\ Reply("unreachable", Absent).code \notin Code
    /\ \A f \in Failure : /\ Reply(f, Absent) \in Response
                          /\ Reply(f, Absent).code \notin Code
    /\ \A x \in Result : x \in Response
BY DEF Nothing, Reply, Response, Code, Failure, Result

LEMMA RetryInit ==
    ASSUME Init
    PROVE  RetryInv
<1>1. InitialState \in StateData /\ InitialState.kv[TheKey] = Absent
      /\ InitialState.dedup[TheClient].request = 0
  <2>1. NoRecord \in [request : Nat, result : Result] /\ NoRecord.request = 0
    BY DEF NoRecord, Result, Code
  <2> QED BY <2>1, ClientAssumption DEF InitialState, StateData
<1>3. Recorded = 0 /\ state.kv[TheKey] = Absent /\ state \in StateData
  BY <1>1 DEF Init, Recorded
<1>4. TypeOK
  <2>1. Nothing \in Response
    BY Responses
  <2>2. request \in 0 .. MaxCalls /\ attempt \in 0 .. Attempts
    BY ClientAssumption DEF Init
  <2>3. executions \in [Call -> Nat]
    BY DEF Init
  <2> QED BY Zenon, <1>3, <2>1, <2>2, <2>3 DEF Init, TypeOK
<1>5. ClientInv
  BY <1>3, <1>4 DEF Init, ClientInv
<1>6. RecordInv
  BY <1>3 DEF Init, RecordInv
<1>7. CounterInv
  BY <1>3 DEF CounterInv
<1>8. ReplyInv /\ ReturnedInv
  BY Zenon, Responses DEF Init, ReplyInv, ReturnedInv,
                               ReplyOwn, ReturnOwn
<1> QED BY <1>5, <1>6, <1>7, <1>8 DEF RetryInv

\* A retry, the end of a failed call included
LEMMA RetryFacts ==
    ASSUME RetryInv, pc # "idle", Retry
    PROVE  /\ pc' \in {"idle", "connecting"} /\ request' = request
           /\ attempt' \in 1 .. Attempts
           /\ connected' \in BOOLEAN
           /\ returned' \in [Call -> Response]
           /\ \A r \in Call : returned'[r] = returned[r] \/ returned'[r].code \notin Code
<1>1. request \in Call /\ attempt \in 1 .. Attempts
      /\ returned \in [Call -> Response] /\ Attempts \in Nat
  BY ClientAssumption DEF RetryInv, ClientInv, TypeOK
<1>2. CASE attempt < Attempts
  <2>1. /\ connected' = FALSE /\ attempt' = attempt + 1 /\ pc' = "connecting"
        /\ request' = request /\ returned' = returned
    BY <1>2 DEF Retry
  <2>2. attempt' \in 1 .. Attempts
    BY <1>1, <1>2, <2>1
  <2> QED BY Zenon, <1>1, <2>1, <2>2
<1>3. CASE ~(attempt < Attempts)
  <2>1. /\ returned' = [returned EXCEPT ![request] = Reply("unreachable", Absent)]
        /\ pc' = "idle" /\ request' = request /\ attempt' = attempt
        /\ connected' = FALSE
    BY <1>3 DEF Retry, Return
  <2>2. /\ returned' \in [Call -> Response]
        /\ \A r \in Call : returned'[r] = returned[r]
                           \/ returned'[r] = Reply("unreachable", Absent)
    BY <1>1, <2>1, Responses
  <2> QED BY Zenon, <1>1, <2>1, <2>2, Responses
<1> QED BY <1>2, <1>3

LEMMA CurrentAttempt ==
    ASSUME RetryInv, pc # "idle"
    PROVE  current \in Attempt /\ current[1] = request /\ request \in Call
BY DEF RetryInv, ClientInv, current, Attempt

LEMMA CommitTyped ==
    ASSUME RetryInv, NEW a \in Attempt, commit(a),
           NEW result \in Result, CommitRelation(a, result)
    PROVE  /\ state' \in StateData /\ executions' \in [Call -> Nat]
           /\ Recorded' <= request
<1>1. state \in StateData /\ executions \in [Call -> Nat] /\ Recorded <= request
      /\ a[1] \in Call /\ a[1] <= request
  <2>1. stage[a] # "unsent"
    BY DEF commit
  <2> QED BY <2>1, Basics DEF RetryInv, ClientInv
<1>2. CASE Repeated(a[1], result) \/ Overtaken(a[1], result)
  <2>1. state' = state /\ executions' = executions
    BY <1>2 DEF Repeated, Overtaken
  <2> QED BY Zenon, <1>1, <2>1 DEF Recorded
<1>3. CASE Executed(a[1], result)
  <2>1. state' \in StateData
    BY <1>3 DEF Executed
  <2>2. Recorded' = a[1] /\ executions' \in [Call -> Nat]
    <3> DEFINE n == a[1]
    <3>1. n \in Call /\ Executed(n, result)
      BY <1>1, <1>3
    <3> HIDE DEF n
    <3>2. Recorded' = n /\ executions' \in [Call -> Nat]
      BY <3>1, ExecutedFacts
    <3> QED BY <3>2 DEF n
  <2> QED BY <1>1, <2>1, <2>2
<1> QED BY <1>2, <1>3 DEF CommitRelation

LEMMA ReplyKept ==
    ASSUME RetryInv, Kept, NEW a \in Attempt, reply'[a] = reply[a]
    PROVE  ReplyOwn(a)'
<1>1. ASSUME reply[a].code \in Code
      PROVE  \/ OwnReply(a[1], reply[a])'
             \/ a[1] < Recorded' /\ reply[a] = Reply("stale", Absent)
  <2>1. PICK x : x = reply[a]
    OBVIOUS
  <2>2. a[1] \in Call /\ a[1] \in Nat /\ Recorded \in Nat /\ Recorded' \in Nat
        /\ Recorded <= Recorded'
    BY Basics DEF Kept
  <2>3. OwnReply(a[1], x) \/ (a[1] < Recorded /\ reply[a] = Reply("stale", Absent))
    BY Zenon, <1>1, <2>1 DEF RetryInv, ReplyInv, ReplyOwn
  <2>4. CASE OwnReply(a[1], x)
    <3>1. OwnReply(a[1], x)'
      BY <2>2, <2>4, OwnReplyKept
    <3> QED BY Zenon, <2>1, <3>1 DEF OwnReply
  <2>5. CASE a[1] < Recorded /\ reply[a] = Reply("stale", Absent)
    BY <2>2, <2>5
  <2> QED BY <2>3, <2>4, <2>5
<1> QED BY Zenon, <1>1 DEF ReplyOwn, OwnReply

LEMMA ReturnKept ==
    ASSUME RetryInv, Kept, NEW r \in Call,
           returned'[r] = returned[r] \/ returned'[r].code \notin Code
    PROVE  ReturnOwn(r)'
<1>1. CASE returned'[r].code \notin Code
  BY <1>1 DEF ReturnOwn
<1>2. CASE returned'[r] = returned[r] /\ returned[r].code \in Code
  <2>1. PICK x : x = returned[r]
    OBVIOUS
  <2>2. OwnReply(r, x)
    BY Zenon, <1>2, <2>1 DEF RetryInv, ReturnedInv, ReturnOwn
  <2>3. OwnReply(r, x)'
    BY <2>2, OwnReplyKept
  <2> QED BY Zenon, <1>2, <2>1, <2>3 DEF ReturnOwn, OwnReply
<1> QED BY Zenon, <1>1, <1>2 DEF ReturnOwn

LEMMA AllKept ==
    ASSUME RetryInv, Kept
    PROVE  /\ reply' = reply => ReplyInv'
           /\ returned' = returned => ReturnedInv'
<1>1. ASSUME reply' = reply
      PROVE  ReplyInv'
  BY Zenon, <1>1, ReplyKept DEF ReplyInv
<1>2. ASSUME returned' = returned
      PROVE  ReturnedInv'
  BY Zenon, <1>2, ReturnKept DEF ReturnedInv
<1> QED BY <1>1, <1>2

\* A step of the client that goes on to another attempt, or gives up
LEMMA RetryKeeps ==
    ASSUME RetryInv, pc # "idle", Retry, UNCHANGED <<stage, reply, state, executions>>
    PROVE  RetryInv'
<1>1. /\ pc' \in {"idle", "connecting"} /\ request' = request
      /\ attempt' \in 1 .. Attempts
      /\ connected' \in BOOLEAN
      /\ returned' \in [Call -> Response]
      /\ \A r \in Call : returned'[r] = returned[r] \/ returned'[r].code \notin Code
  BY RetryFacts
<1>2. Kept /\ Recorded' = Recorded /\ RecordInv' /\ CounterInv'
  BY SameKept
<1>3. request \in Call
  BY CurrentAttempt
<1>4. attempt' \in 0 .. Attempts
  BY <1>1, ClientAssumption
<1>5. TypeOK'
  BY Zenon, <1>1, <1>4 DEF RetryInv, ClientInv, TypeOK, Call, Attempt
<1>6. ClientInv'
  BY Zenon, <1>1, <1>2, <1>3, <1>5 DEF RetryInv, ClientInv
<1>7. ReplyInv'
  BY <1>2, AllKept
<1>8. ReturnedInv'
  BY Zenon, <1>1, <1>2, ReturnKept DEF ReturnedInv
<1> QED BY Zenon, <1>2, <1>6, <1>7, <1>8 DEF RetryInv

\* responded: the call cannot have been overtaken, for no later one was made
LEMMA RespondedOwn ==
    ASSUME RetryInv, responded
    PROVE  /\ returned' \in [Call -> Response]
           /\ \A r \in Call : r # request => returned'[r] = returned[r]
           /\ returned'[request] = reply[current]
           /\ reply[current].code \in Code => OwnReply(request, reply[current])
<1>1. current \in Attempt /\ current[1] = request /\ request \in Call
  BY CurrentAttempt DEF responded
<1>2. /\ returned' = [returned EXCEPT ![request] = reply[current]]
      /\ returned \in [Call -> Response] /\ reply[current] \in Response
  BY <1>1 DEF responded, Return, RetryInv, ClientInv, TypeOK
<1>3. /\ returned' \in [Call -> Response]
      /\ \A r \in Call : r # request => returned'[r] = returned[r]
      /\ returned'[request] = reply[current]
  BY <1>1, <1>2
<1>4. ~(request < Recorded)
  BY Basics
<1>5. ReplyOwn(current)
  BY <1>1 DEF RetryInv, ReplyInv
<1> QED BY Zenon, <1>1, <1>3, <1>4, <1>5 DEF ReplyOwn

LEMMA RespondedKeeps ==
    ASSUME RetryInv, responded
    PROVE  RetryInv'
<1>1. /\ pc' = "idle"
      /\ UNCHANGED <<request, attempt, connected, stage, reply, state, executions>>
  BY DEF responded, Return
<1>2. Kept /\ Recorded' = Recorded /\ RecordInv' /\ CounterInv'
  BY <1>1, SameKept
<1>3. /\ returned' \in [Call -> Response]
      /\ \A r \in Call : r # request => returned'[r] = returned[r]
      /\ returned'[request] = reply[current]
      /\ reply[current].code \in Code => OwnReply(request, reply[current])
  BY RespondedOwn
<1>4. TypeOK'
  BY Zenon, <1>1, <1>3 DEF RetryInv, ClientInv, TypeOK, Call, Attempt
<1>5. ClientInv'
  BY Zenon, <1>1, <1>2, <1>4 DEF RetryInv, ClientInv
<1>6. ASSUME NEW r \in Call
      PROVE  ReturnOwn(r)'
  <2>1. CASE r # request
    BY <1>2, <1>3, <2>1, ReturnKept
  <2>2. CASE r = request
    <3>1. PICK x : x = reply[current]
      OBVIOUS
    <3>2. ASSUME returned'[r].code \in Code
          PROVE  OwnReply(r, x)'
      <4>1. OwnReply(r, x)
        BY Zenon, <1>3, <2>2, <3>1, <3>2
      <4> QED BY <1>2, <4>1, OwnReplyKept
    <3> QED BY Zenon, <1>3, <2>2, <3>1, <3>2 DEF ReturnOwn, OwnReply
  <2> QED BY <2>1, <2>2
<1>7. ReturnedInv'
  BY Zenon, <1>6 DEF ReturnedInv
<1>8. ReplyInv'
  BY <1>1, <1>2, AllKept
<1> QED BY Zenon, <1>2, <1>5, <1>7, <1>8 DEF RetryInv

\* The new result is that of the call, or says that it was overtaken
LEMMA CommitReply ==
    ASSUME RetryInv, NEW a \in Attempt, NEW result \in Result,
           CommitRelation(a, result), reply[a] = Nothing
    PROVE  \/ OwnReply(a[1], result)'
           \/ a[1] < Recorded' /\ result = Reply("stale", Absent)
<1>1. a[1] \in Call /\ a[1] \in Nat /\ a[1] # 0 /\ Recorded \in Nat
  BY Basics
<1>2. Kept
  BY CommitRecord
<1>3. CASE Repeated(a[1], result)
  <2>1. OwnReply(a[1], result)
    <3>1. Recorded > 0 /\ a[1] = Recorded /\ a[1] <= Recorded
      BY <1>1, <1>3 DEF Repeated
    <3>2. executions[a[1]] = 1
      BY Zenon, <3>1 DEF RetryInv, RecordInv
    <3> QED BY Zenon, <1>3, <3>1, <3>2 DEF Repeated, OwnReply
  <2> QED BY <1>1, <1>2, <2>1, OwnReplyKept
<1>4. CASE Overtaken(a[1], result)
  <2>1. Recorded' = Recorded
    BY Zenon, <1>4 DEF Overtaken, Recorded
  <2> QED BY Zenon, <1>4, <2>1 DEF Overtaken
<1>5. CASE Executed(a[1], result)
  <2> DEFINE n == a[1]
  <2>1. n \in Call /\ Executed(n, result) /\ n \in Nat
    BY <1>1, <1>5
  <2> HIDE DEF n
  <2>2. Recorded' = n /\ executions'[n] = 1 /\ Count(n)' = Count(Recorded) + 1
    BY <2>1, ExecutedFacts
  <2>3. n <= Recorded'
    BY <2>1, <2>2
  <2>4. result = Reply("integer", Count(n)')
    BY Zenon, <2>1, <2>2 DEF Executed
  <2>5. OwnReply(n, result)'
    BY Zenon, <2>2, <2>3, <2>4 DEF OwnReply
  <2> QED BY Zenon, <2>5 DEF n
<1> QED BY <1>3, <1>4, <1>5 DEF CommitRelation

LEMMA CommitKeeps ==
    ASSUME RetryInv, NEW a \in Attempt, commit(a)
    PROVE  RetryInv'
<1>1. PICK result \in Result : CommitRelation(a, result)
  BY CommitFacts
<1>2. Kept /\ RecordInv' /\ CounterInv'
  BY <1>1, CommitRecord
<1>3. state' \in StateData /\ executions' \in [Call -> Nat] /\ Recorded' <= request
  BY <1>1, CommitTyped
<1>4. /\ stage' = [stage EXCEPT ![a] = "committed"]
      /\ reply' = IF reply[a] = Nothing THEN [reply EXCEPT ![a] = result] ELSE reply
      /\ UNCHANGED <<pc, request, attempt, connected, returned>>
      /\ stage[a] = "submitted"
  BY Zenon, <1>1 DEF CommitRelation, commit
<1>5. /\ stage \in [Attempt -> {"unsent", "received", "submitted", "committed"}]
      /\ reply \in [Attempt -> Response] /\ result \in Response
  BY Responses DEF RetryInv, ClientInv, TypeOK
<1>6. /\ stage' \in [Attempt -> {"unsent", "received", "submitted", "committed"}]
      /\ reply' \in [Attempt -> Response]
      /\ \A b \in Attempt : stage'[b] # "unsent" => stage[b] # "unsent"
  BY <1>4, <1>5
<1>7. TypeOK'
  BY Zenon, <1>3, <1>4, <1>6 DEF RetryInv, ClientInv, TypeOK, Call, Attempt
<1>8. ClientInv'
  BY Zenon, <1>3, <1>4, <1>6, <1>7 DEF RetryInv, ClientInv
<1>9. ASSUME NEW b \in Attempt
      PROVE  ReplyOwn(b)'
  <2>1. CASE reply'[b] = reply[b]
    BY <1>2, <2>1, ReplyKept
  <2>2. CASE reply'[b] # reply[b]
    <3>1. b = a /\ reply[a] = Nothing /\ reply'[a] = result
      BY <1>4, <1>5, <2>2
    <3>2. \/ OwnReply(a[1], result)'
          \/ a[1] < Recorded' /\ result = Reply("stale", Absent)
      BY <1>1, <3>1, CommitReply
    <3> QED BY Zenon, <3>1, <3>2 DEF ReplyOwn, OwnReply
  <2> QED BY <2>1, <2>2
<1>10. ReplyInv'
  BY Zenon, <1>9 DEF ReplyInv
<1>11. ReturnedInv'
  BY <1>2, <1>4, AllKept
<1> QED BY Zenon, <1>2, <1>8, <1>10, <1>11 DEF RetryInv

\* The steps that leave the replicated state and the calls' values alone
LEMMA QuietKeeps ==
    ASSUME RetryInv, ClientInv', ReplyInv',
           UNCHANGED <<returned, state, executions>>
    PROVE  RetryInv'
<1>1. Kept /\ RecordInv' /\ CounterInv'
  BY SameKept
<1>2. ReturnedInv'
  BY <1>1, AllKept
<1> QED BY Zenon, <1>1, <1>2 DEF RetryInv

LEMMA RetryStep ==
    ASSUME RetryInv, [Next]_vars
    PROVE  RetryInv'
<1> USE DEF RetryInv
<1>1. CASE command
  <2>1. /\ request' = request + 1 /\ attempt' = 1 /\ pc' = "connecting"
        /\ request < MaxCalls
        /\ UNCHANGED <<connected, stage, reply, returned, state, executions>>
    BY <1>1 DEF command
  <2>2. /\ request \in Nat /\ request <= MaxCalls /\ Recorded <= request
        /\ MaxCalls \in Nat /\ Recorded \in Nat /\ Attempts \in Nat \ {0}
    BY Basics, ClientAssumption
  <2>3. Kept /\ Recorded' = Recorded
    BY <2>1, SameKept
  <2>4. /\ request' \in 0 .. MaxCalls /\ request' \in Call
        /\ attempt' \in 0 .. Attempts /\ attempt' \in 1 .. Attempts
        /\ Recorded' <= request'
    BY <2>1, <2>2, <2>3 DEF Call
  <2>5. \A b \in Attempt : b[1] <= request => b[1] <= request'
    BY <2>1, <2>2, Basics
  <2>6. TypeOK'
    BY Zenon, <2>1, <2>4 DEF ClientInv, TypeOK, Call, Attempt
  <2>7. ClientInv'
    BY Zenon, <2>1, <2>4, <2>5, <2>6 DEF ClientInv
  <2>8. ReplyInv'
    BY <2>1, <2>3, AllKept
  <2> QED BY <2>1, <2>7, <2>8, QuietKeeps
<1>2. CASE connect
  <2>1. /\ connected' = TRUE
        /\ UNCHANGED <<pc, request, attempt, stage, reply, returned, state,
                       executions>>
    BY <1>2 DEF connect
  <2>2. Kept /\ Recorded' = Recorded
    BY <2>1, SameKept
  <2>3. ClientInv'
    BY Zenon, <2>1, <2>2 DEF ClientInv, TypeOK, Call, Attempt
  <2>4. ReplyInv'
    BY <2>1, <2>2, AllKept
  <2> QED BY <2>1, <2>3, <2>4, QuietKeeps
<1>3. CASE connectFails \/ connectionLost \/ redirected
  <2>1. pc # "idle" /\ Retry /\ UNCHANGED <<stage, reply, state, executions>>
    BY <1>3 DEF connectFails, connectionLost, redirected
  <2> QED BY <2>1, RetryKeeps
<1>4. ASSUME NEW arrives \in BOOLEAN, request_once(arrives)
      PROVE  RetryInv'
  <2>1. /\ pc = "connecting" /\ pc' = "waiting"
        /\ stage' = IF arrives THEN [stage EXCEPT ![current] = "received"] ELSE stage
        /\ UNCHANGED <<request, attempt, connected, reply, returned, state,
                       executions>>
    BY <1>4 DEF request_once
  <2>2. current \in Attempt /\ current[1] = request /\ request \in Nat
    BY <2>1, CurrentAttempt, Basics
  <2>3. stage \in [Attempt -> {"unsent", "received", "submitted", "committed"}]
    BY DEF ClientInv, TypeOK
  <2>4. /\ stage' \in [Attempt -> {"unsent", "received", "submitted", "committed"}]
        /\ \A b \in Attempt : stage'[b] = stage[b] \/ b = current
    BY <2>1, <2>2, <2>3
  <2>5. Kept /\ Recorded' = Recorded
    BY <2>1, SameKept
  <2>6. \A b \in Attempt : stage'[b] # "unsent" => b[1] <= request
    <3>1. current[1] <= request
      BY <2>2
    <3> QED BY Zenon, <2>4, <3>1 DEF ClientInv
  <2>7. ClientInv'
    <3>1. pc # "idle" /\ pc' \in {"idle", "connecting", "waiting"}
      BY <2>1
    <3> QED BY Zenon, <2>1, <2>4, <2>5, <2>6, <3>1
            DEF ClientInv, TypeOK, Call, Attempt
  <2>8. ReplyInv'
    BY <2>1, <2>5, AllKept
  <2> QED BY <2>1, <2>7, <2>8, QuietKeeps
<1>5. CASE responded
  BY <1>5, RespondedKeeps
<1>6. ASSUME NEW a \in Attempt, execute_write(a)
      PROVE  RetryInv'
  <2>1. /\ stage[a] = "received" /\ stage' = [stage EXCEPT ![a] = "submitted"]
        /\ UNCHANGED <<pc, request, attempt, connected, reply, returned, state,
                       executions>>
    BY <1>6 DEF execute_write
  <2>2. stage \in [Attempt -> {"unsent", "received", "submitted", "committed"}]
    BY DEF ClientInv, TypeOK
  <2>3. /\ stage' \in [Attempt -> {"unsent", "received", "submitted", "committed"}]
        /\ \A b \in Attempt : stage'[b] # "unsent" => stage[b] # "unsent"
    BY <2>1, <2>2
  <2>4. Kept /\ Recorded' = Recorded
    BY <2>1, SameKept
  <2>5. ClientInv'
    BY Zenon, <2>1, <2>3, <2>4 DEF ClientInv, TypeOK, Call, Attempt
  <2>6. ReplyInv'
    BY <2>1, <2>4, AllKept
  <2> QED BY <2>1, <2>5, <2>6, QuietKeeps
<1>7. ASSUME NEW a \in Attempt, submitFails(a)
      PROVE  RetryInv'
  <2>1. PICK f \in Failure : reply' = [reply EXCEPT ![a] = Reply(f, Absent)]
    BY Zenon, <1>7 DEF submitFails
  <2>2. UNCHANGED <<pc, request, attempt, connected, stage, returned, state,
                    executions>>
    BY <1>7 DEF submitFails
  <2>3. Reply(f, Absent) \in Response /\ Reply(f, Absent).code \notin Code
        /\ reply \in [Attempt -> Response]
    BY Zenon, Responses DEF ClientInv, TypeOK
  <2>4. /\ reply' \in [Attempt -> Response]
        /\ \A b \in Attempt : reply'[b] = reply[b] \/ reply'[b] = Reply(f, Absent)
    BY <2>1, <2>3
  <2>5. Kept /\ Recorded' = Recorded
    BY <2>2, SameKept
  <2>6. ClientInv'
    BY Zenon, <2>2, <2>4, <2>5 DEF ClientInv, TypeOK, Call, Attempt
  <2>7. ASSUME NEW b \in Attempt
        PROVE  ReplyOwn(b)'
    <3>1. CASE reply'[b] = reply[b]
      BY <2>5, <3>1, ReplyKept
    <3>2. CASE reply'[b] = Reply(f, Absent)
      BY Zenon, <2>3, <3>2 DEF ReplyOwn
    <3> QED BY <2>4, <3>1, <3>2
  <2>8. ReplyInv'
    BY Zenon, <2>7 DEF ReplyInv
  <2> QED BY <2>2, <2>6, <2>8, QuietKeeps
<1>8. ASSUME NEW a \in Attempt, commit(a)
      PROVE  RetryInv'
  BY <1>8, CommitKeeps
<1>9. CASE UNCHANGED vars
  <2>1. UNCHANGED <<pc, request, attempt, connected, stage, reply, returned,
                    state, executions>>
    BY <1>9 DEF vars
  <2>2. Kept /\ Recorded' = Recorded
    BY <2>1, SameKept
  <2>3. ClientInv'
    BY Zenon, <2>1, <2>2 DEF ClientInv, TypeOK, Call, Attempt
  <2>4. ReplyInv'
    BY <2>1, <2>2, AllKept
  <2> QED BY <2>1, <2>3, <2>4, QuietKeeps
<1> QED BY Zenon, <1>1, <1>2, <1>3, <1>4, <1>5, <1>6, <1>7, <1>8, <1>9
        DEF Next, Requesting, Serving

\* RetryInv holds in every reachable state of ClientRetry
THEOREM RetryInvariant == Spec => []RetryInv
<1>1. Init => RetryInv
  BY RetryInit
<1>2. RetryInv /\ [Next]_vars => RetryInv'
  BY RetryStep
<1> QED BY <1>1, <1>2, PTL DEF Spec

\* However often Client::command sends a write and whatever becomes of the
\* attempts, apply_locked lets it take effect at most once
THEOREM AtMostOnceCorrect == Spec => []AtMostOnce
<1>1. RetryInv => AtMostOnce
  <2> SUFFICES ASSUME RetryInv, NEW r \in Call
               PROVE  executions[r] <= 1
    BY DEF AtMostOnce
  <2>1. executions[r] \in {0, 1}
    BY DEF RetryInv, RecordInv
  <2> QED BY <2>1
<1> QED BY <1>1, RetryInvariant, PTL

\* What Client::command returns as a result is that of the call's own, single
\* execution: never "stale", and later calls get later values
THEOREM ResultIsOwnCorrect == Spec => []ResultIsOwn
<1>1. RetryInv => ResultIsOwn
  <2> SUFFICES ASSUME RetryInv, NEW r \in Call, Succeeded(r)
               PROVE  /\ executions[r] = 1
                      /\ returned[r].code = "integer"
                      /\ returned[r].value = Count(r)
    BY Zenon DEF ResultIsOwn, Count, Effective
  <2>1. executions[r] = 1 /\ returned[r] = Reply("integer", Count(r))
    BY Zenon DEF RetryInv, ReturnedInv, ReturnOwn, OwnReply, Succeeded
  <2> QED BY <2>1 DEF Reply
<1> QED BY <1>1, RetryInvariant, PTL

=============================================================================
