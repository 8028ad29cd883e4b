--------------------------- MODULE ClientSession ---------------------------
(***************************************************************************)
(* One connection to the server: TcpServer::session_loop, the RESP parser  *)
(* it feeds, and CommandService, which answers each request.  The peer     *)
(* sends the frames of a script; they arrive in pieces of any size.  The   *)
(* answers of RaftNode are free here: RaftNode models them.                *)
(***************************************************************************)
EXTENDS CommandCodec

CONSTANTS
    Script,           \* the sequences of frames a peer may send
    Chunk,            \* the numbers of characters one read_some may return
    MaxResponseSize,  \* kMaximumResponseSize of the client library
    Requirepass,      \* requirepass
    Value,            \* the texts GET may find
    Endpoint          \* the leader's client endpoints, as host and port

ASSUME SessionAssumption == MaxResponseSize >= MaxRequestSize

VARIABLES
    script,           \* the frames of this peer
    unread,           \* what is still under way
    buffer,           \* buffer_ of the parser
    phase,            \* where session_loop is
    authenticated,    \* session.authenticated
    served,           \* the values next() has returned
    answers,          \* how many responses have been written
    answer,           \* the response written last, until the next read or request
    reached,          \* the positions in served of the requests that reached raft_
    leader,           \* the endpoint the last NOT_LEADER is to name
    logged            \* the command submitted last and the result, likewise

vars == <<script, unread, buffer, phase, authenticated, served, answers, answer,
          reached, leader, logged>>

None == [tag |-> "none"]
Some(x) == [tag |-> "some", value |-> x]

\* A frame is the encoding of a value, or raw characters that are no valid encoding
Frame(value) == [raw |-> FALSE, value |-> value, chars |-> encode_resp(value)]
Raw(chars) == [raw |-> TRUE, value |-> null_bulk, chars |-> chars]

Chars(frames) == FlattenSeq([i \in DOMAIN frames |-> frames[i].chars])

Init ==
    /\ script \in Script
    /\ unread = Chars(script)
    /\ buffer = <<>>
    /\ phase = "reading"
    /\ authenticated = FALSE
    /\ served = <<>>
    /\ answers = 0
    /\ answer = None
    /\ reached = {}
    /\ leader = None
    /\ logged = None

-----------------------------------------------------------------------------
(* session_loop *)

\* read_some returns and feed accepts what arrived
feed(n) ==
    /\ phase = "reading"
    /\ n <= Len(unread)
    /\ n <= MaxRequestSize - Len(buffer)
    /\ buffer' = buffer \o SubSeq(unread, 1, n)
    /\ unread' = SubSeq(unread, n + 1, Len(unread))
    /\ phase' = "parsing"
    /\ answer' = None
    /\ logged' = None
    /\ UNCHANGED <<script, authenticated, served, answers, reached, leader>>

\* A ProtocolError ends the session: the error is written, then the socket is closed.
\* The write may fail, which changes nothing else.
Refuse(phase_) ==
    /\ phase' = phase_
    /\ \/ /\ answers' = answers + 1
          /\ answer' = Some(error(<<"ERR", " ", "Protocol error">>))
       \/ answer' = None /\ UNCHANGED answers
    /\ leader' = None
    /\ UNCHANGED <<script, buffer, authenticated, served, reached, logged>>

\* Mutant: a buffer just filled is refused
feedThrows_early(n) ==
    /\ phase = "reading"
    /\ n <= Len(unread)
    /\ n >= MaxRequestSize - Len(buffer)
    /\ unread' = SubSeq(unread, n + 1, Len(unread))
    /\ Refuse("overflow")

\* feed throws: the buffer would exceed the limit
feedThrows(n) ==
    /\ phase = "reading"
    /\ n <= Len(unread)
    /\ n > MaxRequestSize - Len(buffer)
    /\ unread' = SubSeq(unread, n + 1, Len(unread))
    /\ Refuse("overflow")

\* read_some fails: the peer or stop() has closed the socket
readFails ==
    /\ phase = "reading"
    /\ phase' = "closed"
    /\ UNCHANGED <<script, unread, buffer, authenticated, served, answers, answer,
                   reached, leader, logged>>

\* next() returns nothing: back to the read
nextEmpty ==
    /\ phase = "parsing"
    /\ buffer = <<>> \/ next_value(buffer) = More
    /\ phase' = "reading"
    /\ UNCHANGED <<script, unread, buffer, authenticated, served, answers, answer,
                   reached, leader, logged>>

\* next() throws
nextThrows ==
    /\ phase = "parsing"
    /\ buffer # <<>>
    /\ next_value(buffer) = Malformed
    /\ Refuse("malformed")
    /\ UNCHANGED unread

\* next() returns a value and erases it from the buffer
next ==
    /\ phase = "parsing"
    /\ buffer # <<>>
    /\ LET parsed == next_value(buffer)
       IN  /\ parsed.tag = "parsed"
           /\ buffer' = SubSeq(buffer, parsed.next, Len(buffer))
           /\ served' = Append(served, parsed.value)
    /\ phase' = "executing"
    /\ answer' = None
    /\ logged' = None
    /\ UNCHANGED <<script, unread, authenticated, answers, reached, leader>>

\* The value next() returned, and its texts, the arguments of the command
Request == Last(served)
Arguments == [i \in DOMAIN Request.array |-> Request.array[i].text]

\* command_arguments does not throw
IsCommand ==
    /\ Request.type = "array"
    /\ Request.array # <<>>
    /\ \A i \in DOMAIN Request.array : Request.array[i].type \in {"bulk", "simple"}

Executing == phase = "executing" /\ UNCHANGED <<script, unread, buffer, served>>

\* Mutant: one request for each read
WriteFrom_once(endpoint, value) ==
    /\ leader' = endpoint
    /\ \/ /\ Encodable(value)
          /\ answers' = answers + 1
          /\ answer' = Some(value)
          /\ phase' = "reading"
       \/ /\ phase' = "closed"
          /\ answer' = None
          /\ UNCHANGED answers

\* The response is encoded and written. encode_error may throw, which closes the
\* session without a response, and so does a write that fails.
WriteFrom(endpoint, value) ==
    /\ leader' = endpoint
    /\ \/ /\ Encodable(value)
          /\ answers' = answers + 1
          /\ answer' = Some(value)
          /\ phase' = "parsing"
       \/ /\ phase' = "closed"
          /\ answer' = None
          /\ UNCHANGED answers

Write(value) == WriteFrom(None, value)

\* An answer given without RaftNode
Answer(value) == Write(value) /\ UNCHANGED <<reached, logged>>

\* A value that is no command is answered, and the session goes on
argumentsThrow ==
    /\ Executing
    /\ ~IsCommand
    /\ Answer(error(<<"ERR", " ", "Protocol error">>))
    /\ UNCHANGED authenticated

-----------------------------------------------------------------------------
(* CommandService::execute *)

Lower == <<"ping", "auth", "get", "set", "del", "incr", "decr", "info", "role",
           "client", "request">>
Upper == <<"PING", "AUTH", "GET", "SET", "DEL", "INCR", "DECR", "INFO", "ROLE",
           "CLIENT", "REQUEST">>

uppercase_ascii(text) ==
    [i \in DOMAIN text |->
        IF Contains(Lower, text[i]) THEN Upper[Position(Lower, text[i])] ELSE text[i]]

\* The name of the command
Named(name) == uppercase_ascii(Arguments[1]) = <<name>>

ERR(what) == error(<<"ERR", " ", what>>)

ping ==
    /\ Executing
    /\ IsCommand
    /\ Named("PING")
    /\ Answer(CASE Len(Arguments) = 1 -> simple(<<"PONG">>)
               [] Len(Arguments) = 2 -> bulk(Arguments[2])
               [] OTHER -> ERR("wrong number"))
    /\ UNCHANGED authenticated

\* Mutant: a wrong password leaves the session as it was
auth_sticky ==
    /\ Executing
    /\ IsCommand
    /\ Named("AUTH")
    /\ IF Len(Arguments) # 2
       THEN Answer(ERR("wrong number")) /\ UNCHANGED authenticated
       ELSE /\ authenticated' = (authenticated \/ Arguments[2] = Requirepass)
            /\ Answer(IF authenticated' THEN simple(<<"OK">>) ELSE error(<<"WRONGPASS">>))

auth ==
    /\ Executing
    /\ IsCommand
    /\ Named("AUTH")
    /\ IF Len(Arguments) # 2
       THEN Answer(ERR("wrong number")) /\ UNCHANGED authenticated
       ELSE /\ authenticated' = (Arguments[2] = Requirepass)
            /\ Answer(IF authenticated' THEN simple(<<"OK">>) ELSE error(<<"WRONGPASS">>))

\* Any other command
Other == Executing /\ IsCommand /\ ~Named("PING") /\ ~Named("AUTH")

noauth ==
    /\ Other
    /\ ~authenticated
    /\ Answer(error(<<"NOAUTH">>))
    /\ UNCHANGED authenticated

Authenticated == Other /\ authenticated /\ UNCHANGED authenticated

-----------------------------------------------------------------------------
(* execute_authenticated *)

client_endpoint(e) == e.host \o <<":">> \o e.port

\* The parts of an endpoint before and after its last colon
Split(text) ==
    LET separator == Max({i \in DOMAIN text : text[i] = ":"})
    IN  [host |-> SubSeq(text, 1, separator - 1),
         port |-> SubSeq(text, separator + 1, Len(text))]

\* The answer to a request RaftNode did not carry out: not_leader_error, with the
\* leader's endpoint where it is known, or raft_failure_error
not_leader_error(endpoint) ==
    IF endpoint = None THEN error(<<"NOT_LEADER">>)
    ELSE LET e == Split(client_endpoint(endpoint.value))
         IN  error(<<"NOT_LEADER", " ">> \o e.host \o <<" ">> \o e.port)

NotLeader ==
    \E endpoint \in {None} \cup {Some(e) : e \in Endpoint} :
        WriteFrom(Some(endpoint), not_leader_error(endpoint))

raft_failure_error(status, detail) ==
    error(IF detail = <<>> THEN <<status>> ELSE <<status, " ">> \o detail)

Failure ==
    \E status \in {"TIMEOUT", "UNAVAILABLE", "REJECTED"}, detail \in {<<>>, <<"detail">>} :
        Write(raft_failure_error(status, detail))

Reach == reached' = reached \cup {Len(served)}

linearizable_get ==
    /\ Reach
    /\ UNCHANGED logged
    /\ \/ NotLeader
       \/ Failure
       \/ \E found \in {null_bulk} \cup {bulk(v) : v \in Value} : Write(found)

get_command ==
    /\ Authenticated
    /\ Named("GET")
    /\ IF Len(Arguments) = 2
       THEN linearizable_get
       ELSE Answer(ERR("wrong number"))

\* INFO answers a text of several lines, ROLE an array
info_response ==
    /\ Authenticated
    /\ Named("INFO")
    /\ Answer(IF Len(Arguments) = 1 THEN bulk(<<"fields", "CR", "LF">>) ELSE ERR("wrong number"))

role_response ==
    /\ Authenticated
    /\ Named("ROLE")
    /\ IF Len(Arguments) = 1
       THEN \E items \in {<<bulk(<<"leader">>)>>} \cup {<<bulk(<<"follower">>), bulk(<<>>)>>}
                     \cup {<<bulk(<<"follower">>), bulk(client_endpoint(e))>> : e \in Endpoint} :
                Answer(array_value(items))
       ELSE Answer(ERR("wrong number"))

unknown ==
    /\ Authenticated
    /\ \A name \in {"GET", "INFO", "ROLE", "SET", "DEL", "INCR", "DECR"} : ~Named(name)
    /\ Answer(error(<<"ERR", " ", "unknown command">> \o Arguments[1]))

-----------------------------------------------------------------------------
(* execute_write *)

\* Mutant: a number that overflows is taken modulo the width
parse_request_number_wraps(text) ==
    IF text = <<>> \/ \E i \in DOMAIN text : ~IsDigit(text[i]) THEN NaN
    ELSE FoldLeft(LAMBDA n, c : (n * 10 + Number(c)) % (MaxUInt64 + 1), 0, text)

parse_request_number(text) == Digits(text, MaxUInt64)

BaseSize == IF Named("SET") THEN 3 ELSE 2

\* The arguments after the base are CLIENT <id> REQUEST <id>
WithIdentity == Len(Arguments) = BaseSize + 4

GoodKeywords ==
    /\ uppercase_ascii(Arguments[BaseSize + 1]) = <<"CLIENT">>
    /\ uppercase_ascii(Arguments[BaseSize + 3]) = <<"REQUEST">>

Identity(i) == parse_request_number(Arguments[BaseSize + i])

GoodArguments ==
    \/ Len(Arguments) = BaseSize
    \/ WithIdentity /\ GoodKeywords /\ Identity(2) \notin {NaN, 0} /\ Identity(4) \notin {NaN, 0}

command_of ==
    [type |-> Head(uppercase_ascii(Arguments[1])),
     key |-> Arguments[2],
     value |-> IF Named("SET") THEN Arguments[3] ELSE <<>>,
     client_id |-> IF WithIdentity THEN Identity(2) ELSE 0,
     request_id |-> IF WithIdentity THEN Identity(4) ELSE 0]

\* What KvStateMachine may return, a repeated request of another kind included
Result(code, kind, integer, text) ==
    [code |-> code, kind |-> kind, integer |-> integer, value |-> text]

ApplyResults ==
    {Result("OK", "none", 0, <<>>), Result("OK", "integer", 1, <<>>),
     Result("OK", "integer", -MaxInt64 - 1, <<>>)}
    \cup {Result(code, "string", 0, <<"message">>) :
              code \in {"NOT_INTEGER", "OVERFLOW", "STALE_REQUEST", "BAD_COMMAND"}}

apply_error(result) ==
    CASE result.code = "NOT_FOUND" -> null_bulk
      [] result.code = "NOT_INTEGER" -> ERR("not an integer")
      [] result.code = "OVERFLOW" -> ERR("would overflow")
      [] result.code = "BAD_COMMAND" -> error(<<"ERR", " ">> \o result.value)
      [] OTHER -> error(<<result.code, " ">> \o result.value)

write_response(result) ==
    IF result.code # "OK" THEN apply_error(result)
    ELSE IF Named("SET") THEN simple(<<"OK">>)
    ELSE IF result.kind # "integer" THEN ERR("wrong result type")
    ELSE integer_value(result.integer)

submit(command) ==
    /\ Reach
    /\ \/ (NotLeader \/ Failure) /\ UNCHANGED logged
       \/ \E result \in ApplyResults :
              /\ logged' = Some([command |-> command, result |-> result])
              /\ Write(write_response(result))

execute_write ==
    /\ Authenticated
    /\ \E name \in {"SET", "DEL", "INCR", "DECR"} : Named(name)
    /\ IF GoodArguments
       THEN submit(command_of)
       ELSE Answer(ERR("wrong arguments"))

-----------------------------------------------------------------------------

Next ==
    \/ \E n \in Chunk : feed(n) \/ feedThrows(n)
    \/ readFails
    \/ nextEmpty
    \/ nextThrows
    \/ next
    \/ argumentsThrow
    \/ ping
    \/ auth
    \/ noauth
    \/ get_command
    \/ info_response
    \/ role_response
    \/ unknown
    \/ execute_write

Spec == Init /\ [][Next]_vars

-----------------------------------------------------------------------------
(* The client's side of an answer *)

ClientParser == INSTANCE RespParser WITH MaxRequestSize <- MaxResponseSize

parse_endpoint(text) ==
    LET e == Split(text)
        port == Digits(e.port, MaxUInt64)
    IN  IF e.host # <<>> /\ port \in 1 .. 65535 THEN Some(e) ELSE Malformed

\* Nothing for another answer, Some(None) where no endpoint is named
redirect_from_error(value) ==
    LET spaces == {i \in DOMAIN value.text : value.text[i] = " "}
        second == Max(spaces)
        host == SubSeq(value.text, 3, second - 1)
        port == SubSeq(value.text, second + 1, Len(value.text))
    IN  IF value.type # "error" THEN None
        ELSE IF Head(value.text) # "NOT_LEADER" THEN None
        ELSE IF spaces = {} THEN Some(None)
        ELSE Some(parse_endpoint(host \o <<":">> \o port))

-----------------------------------------------------------------------------
(* Properties *)

\* How much of the script has arrived, and the length of its first n frames
Arrived == Len(Chars(script)) - Len(unread)
LengthOf(n) == Len(Chars(SubSeq(script, 1, n)))

\* However the bytes of a pipeline are cut into pieces, the parser returns exactly the
\* values the peer encoded, in order, and nothing that begins at or after a malformed
\* frame (RespParser::next).
ServedInOrder ==
    /\ Len(served) <= Len(script)
    /\ \A i \in DOMAIN served : ~script[i].raw /\ served[i] = script[i].value

\* The parser never holds more than max_request_size, and a session is refused for a
\* protocol error only where the next frame is malformed, or where more than
\* max_request_size has arrived and is not served: never because a frame has not
\* arrived yet to its end (RespParser::parse_value, feed).
RefusedForCause ==
    /\ Len(buffer) <= MaxRequestSize
    /\ phase = "malformed" => Len(served) < Len(script) /\ script[Len(served) + 1].raw
    /\ phase = "overflow" => Arrived - LengthOf(Len(served)) > MaxRequestSize

\* When the session waits for the peer, every request that has arrived to its end has
\* been answered, once, and no malformed frame is left unnoticed: nobody waits for an
\* answer while the server waits for bytes (TcpServer::session_loop).
NothingLeftWaiting ==
    phase = "reading" =>
        /\ answers = Len(served)
        /\ \A n \in DOMAIN script : LengthOf(n) <= Arrived => n <= Len(served)

\* A request reaches RaftNode only after an AUTH with the password, and with no AUTH
\* with another password since (CommandService::execute).
AuthAttempt(value) ==
    /\ value.type = "array"
    /\ Len(value.array) = 2
    /\ value.array[1].type \in {"bulk", "simple"}
    /\ uppercase_ascii(value.array[1].text) = <<"AUTH">>

OnlyAuthenticated ==
    \A i \in reached :
        \E j \in 1 .. i - 1 :
            /\ AuthAttempt(served[j])
            /\ served[j].array[2].text = Requirepass
            /\ \A k \in j + 1 .. i - 1 :
                   AuthAttempt(served[k]) => served[k].array[2].text = Requirepass

\* The client library reads each response back as what the server meant: the same
\* value, no value and no error from any part of it, and the leader's endpoint from a
\* NOT_LEADER that names one (encode_resp, RespParser, redirect_from_error).
AnswerUnderstood ==
    answer # None =>
        LET chars == encode_resp(answer.value)
        IN  /\ ClientParser!next_value(chars) = Parsed(answer.value, Len(chars) + 1)
            /\ \A n \in 1 .. Len(chars) - 1 :
                   ClientParser!next_value(SubSeq(chars, 1, n)) = More
            /\ redirect_from_error(answer.value) = leader

\* What the log holds of a request is what the peer wrote, identity included, for as
\* long as the record is whole: every strict part of it, and anything appended to it,
\* is rejected. The result survives a snapshot in the same way
\* (CommandService::execute_write, encode_command_bytes, decode_command_bytes).
LoggedAsWritten ==
    logged # None =>
        LET bytes == encode_command_bytes(logged.value.command)
            command == decode_command_bytes(bytes, MaxRequestSize).value
            base == IF command.type = "SET" THEN <<command.key, command.value>>
                                            ELSE <<command.key>>
            result == encode_result_bytes(logged.value.result)
        IN  /\ Tail(Arguments) = base \o
                  (IF Len(Arguments) = Len(base) + 1 THEN <<>>
                   ELSE <<Arguments[Len(base) + 2], to_string(command.client_id),
                          Arguments[Len(base) + 4], to_string(command.request_id)>>)
            /\ Len(Arguments) = Len(base) + 1 => command.client_id = 0 /\ command.request_id = 0
            /\ \A n \in 0 .. Len(bytes) - 1 :
                   decode_command_bytes(SubSeq(bytes, 1, n), MaxRequestSize) = Malformed
            /\ decode_command_bytes(Append(bytes, "0"), MaxRequestSize) = Malformed
            /\ decode_result_bytes(result, MaxRequestSize).value = logged.value.result

=============================================================================
