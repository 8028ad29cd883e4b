----------------------------- MODULE MCRaftNode -----------------------------
(* Small instances of RaftNode *)
EXTENDS RaftNode, TLC

\* Client threads of the same kind behave alike
Symmetry == Permutations(Writer) \cup Permutations(Reader)
=============================================================================
