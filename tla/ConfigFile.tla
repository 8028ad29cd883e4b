----------------------------- MODULE ConfigFile -----------------------------
(***************************************************************************)
(* Config::load and Config::validate (src/config/config.cpp): the file is  *)
(* read line by line into a configuration, which is then validated.  A     *)
(* line is what trimming, comments, quotes and the split at the colon make *)
(* of it.                                                                  *)
(***************************************************************************)
EXTENDS Integers, Sequences, FiniteSets

CONSTANTS
    File,          \* the files, as sequences of lines
    Environment    \* the text each set environment variable stands for, by reference

ASSUME FileAssumption == \A file \in File : file \in Seq({file[i] : i \in DOMAIN file})

VARIABLES
    lines,         \* the lines of the file
    at,            \* line_number
    section,       \* section
    cluster_nodes, \* cluster_nodes, the flag
    nodes,         \* config.cluster_nodes; current_node is the last of them or null
    current,       \* current_node is not null
    config,        \* every other field of config
    loading        \* "reading", "accepted", "thrown", or "done"

loadVars == <<lines, at, section, cluster_nodes, nodes, current, config, loading>>

\* A value has a text and, if that is a number, a number
NaN == -1
Text(text) == [text |-> text, number |-> NaN]
Numeral(n) == [text |-> "", number |-> n]

Int32Max == 2147483647
Bounded(min, max, default) == [range |-> min .. max, default |-> Numeral(default)]

\* The fields parse_bounded reads, by section, with the limits and the members' initial
\* values
Numeric ==
    [node    |-> [id |-> Bounded(1, Int32Max, 0)],
     network |-> [client_port |-> Bounded(1, 65535, 0),
                  raft_port   |-> Bounded(1, 65535, 0)],
     raft    |-> [heartbeat_ms              |-> Bounded(10, 60000, 100),
                  election_timeout_lower_ms |-> Bounded(20, 120000, 300),
                  election_timeout_upper_ms |-> Bounded(20, 120000, 600),
                  client_request_timeout_ms |-> Bounded(100, 300000, 5000),
                  snapshot_distance         |-> Bounded(1, Int32Max, 1000000),
                  reserved_log_items        |-> Bounded(0, Int32Max, 100000)],
     server  |-> [max_connections  |-> Bounded(1, 1000000, 10000),
                  max_request_size |-> Bounded(64, 1073741824, 1048576)]]

\* The other fields, with the members' initial values
Textual ==
    [network  |-> [bind |-> Text("0.0.0.0")],
     security |-> [requirepass |-> Text("")],
     storage  |-> [data_dir |-> Text(""), raft_log_dir |-> Text(""),
                   snapshot_dir |-> Text("")],
     raft     |-> [enable_lease_reads |-> Text("true")],
     logging  |-> [level |-> Text("info"), path |-> Text("")]]

LeaseReads == <<"raft", "enable_lease_reads">>
Password == <<"security", "requirepass">>

Fields(table) ==
    UNION {{<<name, key>> : key \in DOMAIN table[name]} : name \in DOMAIN table}

ConfigDefault ==
    [field \in Fields(Numeric) \cup Fields(Textual) |->
        IF field \in Fields(Numeric) THEN Numeric[field[1]][field[2]].default
        ELSE Textual[field[1]][field[2]]]

\* The same for a ClusterNode
Port == 1 .. 65535
NodeNumeric == [id |-> 1 .. Int32Max, raft_port |-> Port, client_port |-> Port]
NodeDefault == [id |-> Numeral(0), host |-> Text(""), raft_port |-> Numeral(0),
                client_port |-> Numeral(0)]

Section == {"node", "network", "cluster", "security", "storage", "raft", "server", "logging"}

-----------------------------------------------------------------------------
(* One line *)

\* References ${NAME} are looked up; one to a variable that is not set, or empty, throws
IsReference(text) == text \in {"${SET}", "${UNSET}"}
Resolvable(text) == IsReference(text) => text \in DOMAIN Environment
resolve_environment_reference(text) == IF IsReference(text) THEN Environment[text] ELSE text

\* The assignment of a value to a field does not throw
Assignable(field, value) ==
    \/ /\ field \in Fields(Numeric)
       /\ value.number \in Numeric[field[1]][field[2]].range
    \/ /\ field \in Fields(Textual)
       /\ field = LeaseReads => value.text \in {"true", "false"}
       /\ field = Password => Resolvable(value.text)

Assigned(field, value) ==
    IF field = Password THEN Text(resolve_environment_reference(value.text)) ELSE value

NodeAssignable(key, value) ==
    \/ key \in DOMAIN NodeNumeric /\ value.number \in NodeNumeric[key]
    \/ key = "host"

Line == lines[at]

\* getline
nextLine ==
    /\ loading = "reading"
    /\ at <= Len(lines)
    /\ at' = at + 1
    /\ UNCHANGED <<lines, loading>>

\* Blank, or only a comment
blankLine ==
    /\ nextLine
    /\ Line.kind = "blank"
    /\ UNCHANGED <<section, cluster_nodes, nodes, current, config>>

\* Mutant: the nodes go on in the next section
sectionLine_open ==
    /\ nextLine
    /\ Line.kind = "section"
    /\ Line.key \in Section
    /\ section' = Line.key
    /\ UNCHANGED <<cluster_nodes, nodes, current, config>>

\* Not indented, ends in a colon
sectionLine ==
    /\ nextLine
    /\ Line.kind = "section"
    /\ Line.key \in Section
    /\ section' = Line.key
    /\ cluster_nodes' = FALSE
    /\ current' = FALSE
    /\ UNCHANGED <<nodes, config>>

\* "nodes:"
nodesLine ==
    /\ nextLine
    /\ Line.kind = "nodes"
    /\ section = "cluster"
    /\ cluster_nodes' = TRUE
    /\ current' = FALSE
    /\ UNCHANGED <<section, nodes, config>>

\* "- key: value" begins a node, "key: value" goes on with it
itemLine ==
    /\ nextLine
    /\ Line.kind = "item"
    /\ section = "cluster"
    /\ cluster_nodes
    /\ NodeAssignable(Line.key, Line.value)
    /\ nodes' = Append(nodes, [NodeDefault EXCEPT ![Line.key] = Line.value])
    /\ current' = TRUE
    /\ UNCHANGED <<section, cluster_nodes, config>>

nodeLine ==
    /\ nextLine
    /\ Line.kind = "field"
    /\ section = "cluster"
    /\ cluster_nodes
    /\ current
    /\ NodeAssignable(Line.key, Line.value)
    /\ nodes' = [nodes EXCEPT ![Len(nodes)][Line.key] = Line.value]
    /\ UNCHANGED <<section, cluster_nodes, current, config>>

fieldLine ==
    /\ nextLine
    /\ Line.kind = "field"
    /\ Assignable(<<section, Line.key>>, Line.value)
    /\ config' = [config EXCEPT ![<<section, Line.key>>] =
                                    Assigned(<<section, Line.key>>, Line.value)]
    /\ UNCHANGED <<section, cluster_nodes, nodes, current>>

\* Anything else throws
Readable ==
    CASE Line.kind = "blank" -> TRUE
      [] Line.kind = "section" -> Line.key \in Section
      [] Line.kind = "nodes" -> section = "cluster"
      [] Line.kind = "item" ->
            section = "cluster" /\ cluster_nodes /\ NodeAssignable(Line.key, Line.value)
      [] Line.kind = "field" ->
            IF section = "cluster"
            THEN cluster_nodes /\ current /\ NodeAssignable(Line.key, Line.value)
            ELSE Assignable(<<section, Line.key>>, Line.value)
      [] OTHER -> FALSE

lineThrows ==
    /\ loading = "reading"
    /\ at <= Len(lines)
    /\ ~Readable
    /\ loading' = "thrown"
    /\ UNCHANGED <<lines, at, section, cluster_nodes, nodes, current, config>>

-----------------------------------------------------------------------------
(* validate *)

Number(field) == config[field].number

Complete(node) ==
    /\ node.id.number > 0
    /\ node.host # Text("")
    /\ node.raft_port.number # 0
    /\ node.client_port.number # 0

raft_endpoint(node) == <<node.host, node.raft_port>>
client_endpoint(node) == <<node.host, node.client_port>>

\* find_node: the first with the id
find_node(id) ==
    nodes[CHOOSE i \in DOMAIN nodes :
             nodes[i].id = id /\ \A j \in 1 .. i - 1 : nodes[j].id # id]

\* No two nodes have the same value, given by node
Distinct(value) == \A i, j \in DOMAIN nodes : value[i] = value[j] => i = j

Ids == [i \in DOMAIN nodes |-> nodes[i].id]
RaftEndpoints == [i \in DOMAIN nodes |-> raft_endpoint(nodes[i])]
ClientEndpoints == [i \in DOMAIN nodes |-> client_endpoint(nodes[i])]

\* Mutant: the nodes' ids are not compared
NodesValid_anyId ==
    /\ Len(nodes) >= 3
    /\ \A i \in DOMAIN nodes : Complete(nodes[i])
    /\ Distinct(RaftEndpoints)
    /\ Distinct(ClientEndpoints)

NodesValid ==
    /\ Len(nodes) >= 3
    /\ \A i \in DOMAIN nodes : Complete(nodes[i])
    /\ Distinct(Ids)
    /\ Distinct(RaftEndpoints)
    /\ Distinct(ClientEndpoints)

LocalNodeValid ==
    LET id == config[<<"node", "id">>]
    IN  /\ \E i \in DOMAIN nodes : nodes[i].id = id
        /\ find_node(id).raft_port = config[<<"network", "raft_port">>]
        /\ find_node(id).client_port = config[<<"network", "client_port">>]

validate ==
    /\ Number(<<"node", "id">>) > 0
    /\ config[<<"network", "bind">>] # Text("")
    /\ Number(<<"network", "client_port">>) # 0
    /\ Number(<<"network", "raft_port">>) # 0
    /\ NodesValid
    /\ LocalNodeValid
    /\ config[Password] # Text("")
    /\ \A dir \in {"data_dir", "raft_log_dir", "snapshot_dir"} : config[<<"storage", dir>>] # Text("")
    /\ Number(<<"raft", "heartbeat_ms">>) < Number(<<"raft", "election_timeout_lower_ms">>)
    /\ Number(<<"raft", "election_timeout_lower_ms">>)
         < Number(<<"raft", "election_timeout_upper_ms">>)
    /\ Number(<<"raft", "snapshot_distance">>) > Number(<<"raft", "reserved_log_items">>)
    /\ config[<<"logging", "level">>].text \in {"debug", "info", "warn", "error"}
    /\ config[<<"logging", "path">>] # Text("")

endOfFile ==
    /\ loading = "reading"
    /\ at > Len(lines)
    /\ loading' = IF validate THEN "accepted" ELSE "thrown"
    /\ UNCHANGED <<lines, at, section, cluster_nodes, nodes, current, config>>

-----------------------------------------------------------------------------

LoadInit ==
    /\ lines \in File
    /\ at = 1
    /\ section = ""
    /\ cluster_nodes = FALSE
    /\ nodes = <<>>
    /\ current = FALSE
    /\ config = ConfigDefault
    /\ loading = "reading"

\* The file cannot be opened
openFails ==
    /\ loading = "reading"
    /\ at = 1
    /\ loading' = "thrown"
    /\ UNCHANGED <<lines, at, section, cluster_nodes, nodes, current, config>>

load ==
    \/ openFails \/ blankLine \/ sectionLine \/ nodesLine \/ itemLine \/ nodeLine \/ fieldLine
    \/ lineThrows \/ endOfFile

-----------------------------------------------------------------------------
(* Properties *)

Highest(S) == CHOOSE i \in S : \A j \in S : j <= i

\* The section a line is in, and the n-th line that begins a node
SectionLines(i) == {j \in 1 .. i : lines[j].kind = "section"}
SectionAt(i) == IF SectionLines(i) = {} THEN "" ELSE lines[Highest(SectionLines(i))].key

Items == {i \in DOMAIN lines : lines[i].kind = "item"}
Item(n) == CHOOSE i \in Items : Cardinality({j \in Items : j <= i}) = n

\* The lines that say something of a field, and of a field of the n-th node
Says(field) ==
    {i \in DOMAIN lines : /\ lines[i].kind = "field"
                         /\ SectionAt(i) = field[1]
                         /\ lines[i].key = field[2]}

SaysOf(n, key) ==
    {i \in Item(n) .. Len(lines) :
        /\ lines[i].kind \in {"item", "field"}
        /\ lines[i].key = key
        /\ \A j \in Item(n) + 1 .. i : lines[j].kind \notin {"item", "section", "nodes"}}

\* Of a file that is accepted, every field holds what the last line about it in its own
\* section says, or else its default, and every item is a node that holds what its own
\* lines say: no line is dropped, or read into another section or node, whatever the
\* order and repetition of lines (Config::load).
FieldsAsWritten ==
    loading = "accepted" =>
        /\ \A field \in DOMAIN config :
               config[field] =
                   IF Says(field) = {} THEN ConfigDefault[field]
                   ELSE Assigned(field, lines[Highest(Says(field))].value)
        /\ Len(nodes) = Cardinality(Items)
        /\ \A n \in DOMAIN nodes, key \in DOMAIN NodeDefault :
               nodes[n][key] =
                   IF SaysOf(n, key) = {} THEN NodeDefault[key]
                   ELSE lines[Highest(SaysOf(n, key))].value

\* What the other parts rely on in an accepted configuration: a member for each id and
\* each address, so that votes and redirects are unambiguous; this node is one of them,
\* at the ports it listens on; a majority that survives a failure; a lease shorter than
\* an election timeout; log entries left behind by a snapshot; limits the parser and
\* the server accept (Config::validate, RaftNode::start, RespParser, TcpServer).
ConfigFits ==
    loading = "accepted" =>
        /\ Cardinality({nodes[i].id : i \in DOMAIN nodes}) = Len(nodes)
        /\ Cardinality({raft_endpoint(nodes[i]) : i \in DOMAIN nodes}) = Len(nodes)
        /\ Cardinality({client_endpoint(nodes[i]) : i \in DOMAIN nodes}) = Len(nodes)
        /\ Cardinality({i \in DOMAIN nodes :
                           /\ nodes[i].id = config[<<"node", "id">>]
                           /\ nodes[i].raft_port = config[<<"network", "raft_port">>]
                           /\ nodes[i].client_port = config[<<"network", "client_port">>]}) = 1
        /\ Len(nodes) \div 2 + 1 < Len(nodes)
        /\ Number(<<"raft", "election_timeout_lower_ms">>) - Number(<<"raft", "heartbeat_ms">>)
             \in 1 .. Number(<<"raft", "election_timeout_lower_ms">>) - 1
        /\ Number(<<"raft", "snapshot_distance">>) > Number(<<"raft", "reserved_log_items">>)
        /\ Number(<<"server", "max_request_size">>) >= 16
        /\ Number(<<"server", "max_connections">>) >= 1
        /\ config[Password] # Text("")

=============================================================================
