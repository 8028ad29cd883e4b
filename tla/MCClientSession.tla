-------------------------- MODULE MCClientSession --------------------------
EXTENDS ClientSession

Command(arguments) == Frame(array_value([i \in DOMAIN arguments |-> bulk(arguments[i])]))

Word(w) == <<w>>
Ids(client, request) == <<<<"CLIENT">>, client, <<"request">>, request>>

\* How a session begins
First ==
    {Command(<<<<"auth">>, <<"secret">>>>), Command(<<<<"AUTH">>, <<"wrong">>>>),
     Command(<<<<"PING">>>>)}

\* What comes second
Second ==
    {Command(<<<<"AUTH">>, <<"wrong">>>>), Command(<<<<"AUTH">>>>),
     Command(<<<<"PING">>, <<"CR", "LF">>>>), Command(<<<<"GET">>, <<"k">>>>),
     Command(<<<<"set">>, <<"k">>, <<"LF", "v">>>>),
     Command(<<<<"INCR">>, <<"k">>>> \o Ids(<<"1">>, Decimal(MaxUInt64))),
     Frame(integer_value(-12)), Raw(<<"?">>)}

\* The commands that may come last
Requests ==
    {Command(<<<<"GET">>, <<>>>>), Command(<<<<"GET">>>>),
     Command(<<<<"SET">>, <<"k">>, <<>>>>), Command(<<<<"SET">>, <<"k">>>>),
     Command(<<<<"SET">>, <<"k">>, <<"v">>>> \o Ids(<<"7">>, <<"2", "0">>)),
     Command(<<<<"DEL">>, <<"k">>>> \o Ids(Decimal(MaxUInt64 + 2), <<"1">>)),
     Command(<<<<"DEL">>, <<"k">>>> \o Ids(<<"1">>, <<"0">>)),
     Command(<<<<"DECR">>, <<"k">>, <<"CLIENT">>, <<"1">>, <<"k">>, <<"1">>>>),
     Command(<<<<"INFO">>>>), Command(<<<<"INFO">>, <<>>>>),
     Command(<<<<"ROLE">>>>), Command(<<<<"role">>, <<>>>>),
     Command(<<<<"PING">>, <<>>, <<>>>>),
     Command(<<<<"FLUSH">>>>), Command(<<<<"FLUSH", "LF">>>>)}

\* Values that are no commands, a command of simple strings, and two frames as long as
\* max_request_size and one character longer
Values ==
    {Frame(array_value(<<>>)), Frame(array_value(<<bulk(<<"GET">>), null_bulk>>)),
     Frame(array_value(<<array_value(<<integer_value(MaxInt64)>>)>>)),
     Frame(error(<<"ERR">>)),
     Frame(array_value(<<simple(<<"GET">>), simple(<<"k">>)>>)),
     Frame(bulk([i \in 1 .. MaxRequestSize - 7 |-> "x"])),
     Frame(bulk([i \in 1 .. MaxRequestSize - 6 |-> "x"]))}

\* What is no RESP: lengths at and past their limits, lines ended wrongly, nesting
Malformations ==
    {Raw(<<"*", "-", "1">> \o CRLF),
     Raw(<<"*">> \o Decimal(MaxRequestSize \div 3 + 1) \o CRLF),
     Raw(<<"$">> \o Decimal(MaxRequestSize + 1) \o CRLF),
     Raw(<<"$", "-", "2">> \o CRLF), Raw(<<"$", "+", "1">> \o CRLF),
     Raw(<<"$">> \o CRLF), Raw(<<"$", "-">> \o CRLF), Raw(<<"$", "1", "x">> \o CRLF),
     Raw(<<":">> \o Decimal(MaxInt64 + 1) \o CRLF),
     Raw(<<":", "-">> \o Decimal(MaxInt64 + 2) \o CRLF),
     Raw(<<"$", "1", "LF">>), Raw(<<"+", "k", "LF">> \o CRLF),
     Raw(<<"$", "1">> \o CRLF \o <<"k", "k", "LF">>),
     Raw(<<"$", "1">> \o CRLF \o <<"k", "CR", "CR">>),
     Raw(FlattenSeq([i \in 1 .. MaxDepth + 1 |-> <<"*", "1">> \o CRLF]))}

MCScript ==
    {<<first, second, last>> : first \in First, second \in Second,
                               last \in Requests \cup Values \cup Malformations}

MCEndpoint == {[host |-> <<"h">>, port |-> <<"8", "0">>],
               [host |-> <<"a", ":", "b">>, port |-> <<"6", "5", "5", "3", "5">>]}
MCValue == {<<>>, <<"v">>, <<"CR", "LF", "$">>}
MCRequirepass == <<"secret">>

=============================================================================
