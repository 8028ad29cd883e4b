-------------------------- MODULE MCKvStateMachine --------------------------
(* Small instances of KvStateMachine *)
EXTENDS KvStateMachine

CONSTANTS k1, abc, plus1, c1

MCMinInt == -1

MCSpelling == [v \in {plus1} |-> 1]

Write(type, value, client, request) ==
    [type |-> type, key |-> k1, value |-> value, client |-> client,
     request |-> request]

\* One client's numbered increments, which may be repeated
MCCommands ==
    {Write("INCR", Absent, c1, 1), Write("INCR", Absent, c1, 2),
     Write("config", Absent, NoClient, 0), Write("SET", plus1, NoClient, 0)}

\* Every kind of command, for the values they compute
MCAllCommands ==
    MCCommands \cup
    {Write("SET", abc, c1, 1), Write("DEL", Absent, NoClient, 0),
     Write("DECR", Absent, NoClient, 0), Write("INCR", Absent, NoClient, 0),
     Write("BARRIER", Absent, NoClient, 0), Write("garbage", Absent, NoClient, 0),
     Write("DEL", Absent, c1, 0)}

=============================================================================
