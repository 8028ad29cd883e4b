----------------------------- MODULE KvCommands -----------------------------
(***************************************************************************)
(* What one replicated command does to the key-value state: the pure part  *)
(* of src/state_machine/kv_state_machine.cpp, with the types of            *)
(* src/state_machine/command.h.                                            *)
(*                                                                         *)
(* Numbers are int64 in the code; MinInt and MaxInt stand for the limits.  *)
(***************************************************************************)
EXTENDS Integers

CONSTANTS
    Key,
    Text,           \* values that do not parse as an int64
    MinInt, MaxInt,
    Spelling,       \* other texts that do ("+1", "007"), with what they parse to
    Absent,         \* no value: a missing key, a result without payload
    Client,         \* non-zero client ids
    NoClient        \* client_id = 0

\* A number in this set stands for its canonical text, as to_string writes it
Value == Text \cup DOMAIN Spelling \cup MinInt .. MaxInt
Code == {"ok", "integer", "not_integer", "overflow", "stale", "bad"}
Result == [code : Code, value : Value \cup {Absent}]

\* Requests are numbered from 1; a dedup record with request 0 is no record
StateData ==
    [index : Nat,
     kv    : [Key -> Value \cup {Absent}],
     dedup : [Client -> [request : Nat, result : Result]]]

Command ==
    [type    : {"SET", "DEL", "INCR", "DECR", "BARRIER", "config", "garbage"},
     key     : Key,
     value   : Value \cup {Absent},
     client  : Client \cup {NoClient},
     request : Nat]

ASSUME CommandsAssumption ==
    /\ MinInt \in Int /\ MaxInt \in Int
    /\ MinInt <= 0 /\ 1 <= MaxInt
    /\ Spelling \in [DOMAIN Spelling -> MinInt .. MaxInt]
    /\ Text \cap (DOMAIN Spelling \cup MinInt .. MaxInt) = {}
    /\ DOMAIN Spelling \cap MinInt .. MaxInt = {}
    /\ Absent \notin Value
    /\ NoClient \notin Client

NoRecord == [request |-> 0, result |-> [code |-> "ok", value |-> Absent]]

InitialState ==
    [index |-> 0,
     kv    |-> [k \in Key |-> Absent],
     dedup |-> [c \in Client |-> NoRecord]]

-----------------------------------------------------------------------------

Reply(code, value) == [code |-> code, value |-> value]

\* parse_int64: what a text stands for, if it stands for an int64
parses(v) == v \in DOMAIN Spelling \cup MinInt .. MaxInt
parse_int64(v) == IF v \in DOMAIN Spelling THEN Spelling[v] ELSE v

\* Mutant: no check against the int64 limits
step_unchecked(kv, k, delta, limit) ==
    LET current == IF kv[k] = Absent THEN 0 ELSE parse_int64(kv[k])
    IN  IF kv[k] # Absent /\ ~parses(kv[k])
        THEN [kv |-> kv, result |-> Reply("not_integer", Absent)]
        ELSE [kv |-> [kv EXCEPT ![k] = current + delta],
              result |-> Reply("integer", current + delta)]

\* INCR and DECR: add delta, unless the number is at its limit
step(kv, k, delta, limit) ==
    LET current == IF kv[k] = Absent THEN 0 ELSE parse_int64(kv[k])
    IN  CASE kv[k] # Absent /\ ~parses(kv[k]) ->
                [kv |-> kv, result |-> Reply("not_integer", Absent)]
          [] (kv[k] = Absent \/ parses(kv[k])) /\ current = limit ->
                [kv |-> kv, result |-> Reply("overflow", Absent)]
          [] OTHER ->
                [kv |-> [kv EXCEPT ![k] = current + delta],
                 result |-> Reply("integer", current + delta)]

apply_new_request(kv, c) ==
    CASE c.type = "SET" ->
            [kv |-> [kv EXCEPT ![c.key] = c.value],
             result |-> Reply("ok", Absent)]
      [] c.type = "DEL" ->
            [kv |-> [kv EXCEPT ![c.key] = Absent],
             result |-> Reply("integer", IF kv[c.key] = Absent THEN 0 ELSE 1)]
      [] c.type = "INCR" -> step(kv, c.key, 1, MaxInt)
      [] c.type = "DECR" -> step(kv, c.key, -1, MinInt)

is_write(c) == c.type \in {"SET", "DEL", "INCR", "DECR"}

\* An answer that leaves the state alone
Answer(s, result) == [state |-> s, result |-> result, fresh |-> FALSE]

\* Mutant: the request is recorded without its result
Perform_resultLost(s, c) ==
    LET done == apply_new_request(s.kv, c)
    IN  [state  |-> [s EXCEPT !.kv = done.kv,
                       !.dedup = IF c.client = NoClient THEN s.dedup
                                 ELSE [s.dedup EXCEPT
                                         ![c.client].request = c.request]],
         result |-> done.result,
         fresh  |-> TRUE]

\* An answer that comes with an effect, recorded for the client if it has an id
Perform(s, c) ==
    LET done == apply_new_request(s.kv, c)
    IN  [state  |-> [s EXCEPT !.kv = done.kv,
                       !.dedup = IF c.client = NoClient THEN s.dedup
                                 ELSE [s.dedup EXCEPT ![c.client] =
                                         [request |-> c.request,
                                          result  |-> done.result]]],
         result |-> done.result,
         fresh  |-> TRUE]

\* Mutant: only older requests are recognised
Deduplicate_olderOnly(s, c) ==
    CASE c.request = 0 -> Answer(s, Reply("bad", Absent))
      [] c.request # 0 /\ c.request < s.dedup[c.client].request ->
            Answer(s, Reply("stale", Absent))
      [] c.request # 0 /\ c.request >= s.dedup[c.client].request ->
            Perform(s, c)

\* A numbered request: repeated, overtaken by a later one, or new
Deduplicate(s, c) ==
    LET record == s.dedup[c.client]
    IN  CASE c.request = 0 -> Answer(s, Reply("bad", Absent))
          [] c.request # 0 /\ c.request = record.request ->
                Answer(s, record.result)
          [] c.request # 0 /\ c.request < record.request ->
                Answer(s, Reply("stale", Absent))
          [] c.request > record.request -> Perform(s, c)

apply_locked(s, c) ==
    CASE ~is_write(c) -> Answer(s, Reply("ok", Absent))
      [] is_write(c) /\ c.client = NoClient -> Perform(s, c)
      [] is_write(c) /\ c.client # NoClient -> Deduplicate(s, c)

\* commit, for an entry that does not decode too, and commit_config
Commit(s, c, i) ==
    LET done == IF c.type = "garbage" THEN Answer(s, Reply("bad", Absent))
                ELSE apply_locked(s, c)
    IN  [done EXCEPT !.state.index = i]

=============================================================================
