---------------------------- MODULE CommandCodec ----------------------------
(***************************************************************************)
(* The binary form of a command in the log and of a result in a snapshot   *)
(* (src/state_machine/command.cpp, src/common/binary_codec.cpp).  A byte   *)
(* is a character, see RespParser.                                         *)
(***************************************************************************)
EXTENDS RespParser

kCommandMagic == <<"S", "K", "V", "C">>
kResultMagic == <<"S", "K", "V", "R">>
Version == 1

CommandType == <<"SET", "DEL", "INCR", "DECR", "ReadBarrier">>
ResultCode == <<"OK", "NOT_FOUND", "NOT_INTEGER", "OVERFLOW", "STALE_REQUEST",
                "BAD_COMMAND", "STORAGE_ERROR">>
ResultKind == <<"none", "string", "integer">>

\* put_u8, put_u16, put_u32 and put_u64: the most significant byte first
put(width, n) == [i \in 1 .. width |-> Digit[((n \div Base^(width - i)) % Base) + 1]]

\* The conversion to uint64_t wraps
put_i64(n) == put(8, n % Base^8)

put_string(text) == put(4, Len(text)) \o text

\* get_u8 ... get_u64 at a position
get(bytes, pos, width) ==
    FoldLeft(LAMBDA n, c : n * Base + Number(c), 0, SubSeq(bytes, pos, pos + width - 1))

get_i64(bytes, pos) ==
    LET n == get(bytes, pos, 8) IN IF n > MaxInt64 THEN n - Base^8 ELSE n

\* get_string: Malformed stands for a DecodeError
get_string(bytes, pos, max_size) ==
    LET length == get(bytes, pos, 4)
    IN  IF Len(bytes) < pos + 3 THEN Malformed
        ELSE IF length > max_size \/ Len(bytes) < pos + 3 + length THEN Malformed
        ELSE Parsed(SubSeq(bytes, pos + 4, pos + 3 + length), pos + 4 + length)

encode_command_bytes(command) ==
    kCommandMagic \o put(2, Version) \o put(1, Position(CommandType, command.type))
    \o put(1, 0) \o put(8, command.client_id) \o put(8, command.request_id)
    \o put_string(command.key) \o put_string(command.value)

decode_command_bytes(bytes, max_field_size) ==
    LET key == get_string(bytes, 25, max_field_size)
        value == get_string(bytes, key.next, max_field_size)
    IN  IF /\ Len(bytes) >= 24
           /\ SubSeq(bytes, 1, 4) = kCommandMagic
           /\ get(bytes, 5, 2) = Version
           /\ get(bytes, 7, 1) \in DOMAIN CommandType
           /\ get(bytes, 8, 1) = 0
           /\ key # Malformed
           /\ value # Malformed
           /\ value.next = Len(bytes) + 1
        THEN [tag |-> "parsed",
              value |-> [type |-> CommandType[get(bytes, 7, 1)],
                         key |-> key.value, value |-> value.value,
                         client_id |-> get(bytes, 9, 8), request_id |-> get(bytes, 17, 8)]]
        ELSE Malformed

encode_result_bytes(result) ==
    kResultMagic \o put(2, Version) \o put(1, Position(ResultCode, result.code) - 1)
    \o put(1, Position(ResultKind, result.kind) - 1)
    \o put_i64(result.integer) \o put_string(result.value)

decode_result_bytes(bytes, max_field_size) ==
    LET value == get_string(bytes, 17, max_field_size)
        kind == ResultKind[get(bytes, 8, 1) + 1]
    IN  IF /\ Len(bytes) >= 16
           /\ SubSeq(bytes, 1, 4) = kResultMagic
           /\ get(bytes, 5, 2) = Version
           /\ get(bytes, 7, 1) + 1 \in DOMAIN ResultCode
           /\ get(bytes, 8, 1) + 1 \in DOMAIN ResultKind
           /\ value # Malformed
           /\ value.next = Len(bytes) + 1
           /\ kind = "none" => value.value = <<>>
        THEN [tag |-> "parsed",
              value |-> [code |-> ResultCode[get(bytes, 7, 1) + 1], kind |-> kind,
                         integer |-> get_i64(bytes, 9), value |-> value.value]]
        ELSE Malformed

=============================================================================
