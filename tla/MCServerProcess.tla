-------------------------- MODULE MCServerProcess --------------------------
(* A small instance of ServerProcess: a file that is valid, and what one change *)
(* of a line makes of it.                                                       *)
EXTENDS ServerProcess, TLC

SectionLine(name) == [kind |-> "section", key |-> name]
FieldLine(key, value) == [kind |-> "field", key |-> key, value |-> value]

NodeLines(id, host) ==
    <<[kind |-> "item", key |-> "id", value |-> Numeral(id)],
      FieldLine("host", Text(host)),
      FieldLine("raft_port", Numeral(5001)),
      FieldLine("client_port", Numeral(6001))>>

ValidFile ==
    <<SectionLine("node"), FieldLine("id", Numeral(1)),
      SectionLine("cluster"), [kind |-> "nodes"]>>
    \o NodeLines(1, "h1") \o NodeLines(2, "h2") \o NodeLines(3, "h3") \o
    <<SectionLine("network"), FieldLine("client_port", Numeral(6001)),
      FieldLine("raft_port", Numeral(5001)),
      SectionLine("security"), FieldLine("requirepass", Text("${SET}")),
      SectionLine("storage"), FieldLine("data_dir", Text("d")),
      FieldLine("raft_log_dir", Text("r")), FieldLine("snapshot_dir", Text("s")),
      SectionLine("raft"), FieldLine("heartbeat_ms", Numeral(100)),
      FieldLine("reserved_log_items", Numeral(0)),
      SectionLine("logging"), FieldLine("path", Text("p"))>>

\* Values at and past the limits of some field
Changes ==
    {Numeral(0), Numeral(1), Numeral(299), Numeral(300), Numeral(999999), Numeral(1000000),
     Text(""), Text("h1"), Text("${UNSET}"), Text("false")}

\* Lines that no file needs, or no file may have
Extras ==
    {[kind |-> "blank"], [kind |-> "broken"], SectionLine("cluster"), SectionLine("extra"),
     FieldLine("enable_lease_reads", Text("false")), FieldLine("enable_lease_reads", Text("no")),
     FieldLine("max_request_size", Numeral(63)), FieldLine("max_request_size", Numeral(64)),
     FieldLine("max_connections", Numeral(0)), FieldLine("election_timeout_upper_ms", Numeral(300)),
     FieldLine("level", Text("loud"))}

Without(i) == SubSeq(ValidFile, 1, i - 1) \o SubSeq(ValidFile, i + 1, Len(ValidFile))
With(i, line) == SubSeq(ValidFile, 1, i) \o <<line>> \o SubSeq(ValidFile, i + 1, Len(ValidFile))
Changed(i, value) == [ValidFile EXCEPT ![i].value = value]

Lines == DOMAIN ValidFile

MCFile ==
    {ValidFile} \cup {Without(i) : i \in Lines}
    \cup {Changed(i, value) : i \in {j \in Lines : ValidFile[j].kind \in {"field", "item"}},
                              value \in Changes}
    \cup {With(i, line) : i \in Lines,
                          line \in Extras \cup {ValidFile[j] : j \in Lines}}

MCEnvironment == "${SET}" :> "secret"

=============================================================================
