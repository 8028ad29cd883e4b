----------------------------- MODULE RespParser -----------------------------
(***************************************************************************)
(* The RESP codec (src/protocol/resp.cpp): encode_resp and the incremental *)
(* RespParser, as functions on sequences of characters.  A character is a  *)
(* string; a command name or another word counts as one character, as the  *)
(* code does not look into it.                                             *)
(***************************************************************************)
EXTENDS Integers, Sequences, FiniteSetsExt, SequencesExt

CONSTANTS
    MaxRequestSize,   \* max_request_size_
    MaxDepth          \* max_depth_

\* The constructor's test
ASSUME ParserAssumption ==
    /\ MaxRequestSize \in Nat /\ MaxRequestSize >= 16
    /\ MaxDepth \in Nat \ {0}

\* A byte of a number takes 10 values instead of 256, so that the digits serve as
\* bytes too; an integer of 8 bytes is the code's 64-bit integer.
Base == 10
MaxUInt64 == Base^8 - 1
MaxInt64 == Base^8 \div 2 - 1

Digit == <<"0", "1", "2", "3", "4", "5", "6", "7", "8", "9">>
IsDigit(c) == Contains(Digit, c)
Position(seq, x) == CHOOSE i \in DOMAIN seq : seq[i] = x
Number(c) == Position(Digit, c) - 1

CRLF == <<"CR", "LF">>

\* RespValue
simple(text) == [type |-> "simple", text |-> text]
error(text) == [type |-> "error", text |-> text]
integer_value(n) == [type |-> "integer", integer |-> n]
bulk(text) == [type |-> "bulk", text |-> text]
null_bulk == [type |-> "null"]
array_value(values) == [type |-> "array", array |-> values]

-----------------------------------------------------------------------------
(* Encoding *)

RECURSIVE Decimal(_)
Decimal(n) ==
    IF n < 10 THEN <<Digit[n + 1]>> ELSE Append(Decimal(n \div 10), Digit[(n % 10) + 1])

to_string(n) == IF n < 0 THEN <<"-">> \o Decimal(-n) ELSE Decimal(n)

HasNewline(text) == \E i \in DOMAIN text : text[i] \in {"CR", "LF"}

\* Mutant: nothing is checked
Encodable_always(value) == TRUE

\* encode_simple_string and encode_error throw invalid_argument
Encodable(value) == value.type \in {"simple", "error"} => ~HasNewline(value.text)

encode_bulk_string(text) == <<"$">> \o to_string(Len(text)) \o CRLF \o text \o CRLF

RECURSIVE encode_resp(_)
encode_resp(value) ==
    CASE value.type = "simple"  -> <<"+">> \o value.text \o CRLF
      [] value.type = "error"   -> <<"-">> \o value.text \o CRLF
      [] value.type = "integer" -> <<":">> \o to_string(value.integer) \o CRLF
      [] value.type = "bulk"    -> encode_bulk_string(value.text)
      [] value.type = "null"    -> <<"$", "-", "1">> \o CRLF
      [] value.type = "array"   ->
           <<"*">> \o to_string(Len(value.array)) \o CRLF
           \o FlattenSeq([i \in DOMAIN value.array |-> encode_resp(value.array[i])])

-----------------------------------------------------------------------------
(* Parsing. A result is a value (or a line) with the offset after it, More when *)
(* the buffer ends too early (nullopt), or Malformed (ProtocolError).           *)

More == [tag |-> "more"]
Malformed == [tag |-> "malformed"]
Parsed(value, next) == [tag |-> "parsed", value |-> value, next |-> next]

read_line(buffer, offset) ==
    LET ends == {i \in offset .. Len(buffer) - 1 : SubSeq(buffer, i, i + 1) = CRLF}
        newlines == {i \in offset .. Len(buffer) : buffer[i] = "LF"}
    IN  IF newlines # {} /\ (ends = {} \/ Min(newlines) < Min(ends) + 1) THEN Malformed
        ELSE IF ends = {} THEN More
        ELSE Parsed(SubSeq(buffer, offset, Min(ends) - 1), Min(ends) + 2)

\* Decimal digits read one by one; NaN stands for an exception
NaN == -1

Accumulate(value, c, limit) ==
    IF value = NaN \/ ~IsDigit(c) THEN NaN
    ELSE IF value > (limit - Number(c)) \div 10 THEN NaN
    ELSE value * 10 + Number(c)

Digits(text, limit) ==
    IF text = <<>> THEN NaN
    ELSE FoldLeft(LAMBDA value, c : Accumulate(value, c, limit), 0, text)

parse_number(text) ==
    LET negative == text # <<>> /\ Head(text) = "-"
        value == IF negative THEN Digits(Tail(text), MaxInt64 + 1) ELSE Digits(text, MaxInt64)
    IN  IF value = NaN THEN Malformed
        ELSE [tag |-> "parsed", value |-> IF negative THEN -value ELSE value]

\* A line holding a number: the length of a bulk string or an array, or an integer
read_number(buffer, offset) ==
    LET line == read_line(buffer, offset)
        number == parse_number(line.value)
    IN  IF line.tag # "parsed" THEN line
        ELSE IF number = Malformed THEN Malformed
        ELSE Parsed(number.value, line.next)

\* Mutant: the two characters after the data are skipped unseen
parse_bulk_trusting(buffer, offset) ==
    LET length == read_number(buffer, offset)
        data_end == length.next + length.value
    IN  IF length.tag # "parsed" THEN length
        ELSE IF length.value = -1 THEN Parsed(null_bulk, length.next)
        ELSE IF length.value < 0 \/ length.value > MaxRequestSize THEN Malformed
        ELSE IF Len(buffer) < data_end + 1 THEN More
        ELSE Parsed(bulk(SubSeq(buffer, length.next, data_end - 1)), data_end + 2)

parse_bulk(buffer, offset) ==
    LET length == read_number(buffer, offset)
        data_end == length.next + length.value
    IN  IF length.tag # "parsed" THEN length
        ELSE IF length.value = -1 THEN Parsed(null_bulk, length.next)
        ELSE IF length.value < 0 \/ length.value > MaxRequestSize THEN Malformed
        ELSE IF Len(buffer) < data_end + 1 THEN More
        ELSE IF SubSeq(buffer, data_end, data_end + 1) # CRLF THEN Malformed
        ELSE Parsed(bulk(SubSeq(buffer, length.next, data_end - 1)), data_end + 2)

RECURSIVE parse_value(_, _, _)
RECURSIVE parse_items(_, _, _, _, _)

\* The loop over the children of an array
parse_items(buffer, offset, depth, count, values) ==
    LET child == parse_value(buffer, offset, depth + 1)
    IN  IF count = 0 THEN Parsed(array_value(values), offset)
        ELSE IF child.tag # "parsed" THEN child
        ELSE parse_items(buffer, child.next, depth, count - 1, Append(values, child.value))

parse_array(buffer, offset, depth) ==
    LET count == read_number(buffer, offset)
    IN  IF count.tag # "parsed" THEN count
        ELSE IF count.value < 0 \/ count.value > MaxRequestSize \div 3 THEN Malformed
        ELSE parse_items(buffer, count.next, depth, count.value, <<>>)

parse_value(buffer, offset, depth) ==
    LET line == read_line(buffer, offset + 1)
        number == read_number(buffer, offset + 1)
    IN  IF depth > MaxDepth THEN Malformed
        ELSE IF offset > Len(buffer) THEN More
        ELSE CASE buffer[offset] = "+" ->
                    IF line.tag = "parsed" THEN Parsed(simple(line.value), line.next) ELSE line
               [] buffer[offset] = "-" ->
                    IF line.tag = "parsed" THEN Parsed(error(line.value), line.next) ELSE line
               [] buffer[offset] = ":" ->
                    IF number.tag = "parsed" THEN Parsed(integer_value(number.value), number.next)
                    ELSE number
               [] buffer[offset] = "$" -> parse_bulk(buffer, offset + 1)
               [] buffer[offset] = "*" -> parse_array(buffer, offset + 1, depth)
               [] OTHER -> Malformed

\* What next() finds at the front of the buffer
next_value(buffer) == parse_value(buffer, 1, 0)

=============================================================================
