--------------------------- MODULE MCStateManager ---------------------------
(* Small instances of StateManager *)
EXTENDS StateManager, TLC

\* Candidates and threads are interchangeable
Symmetry == Permutations(Node) \cup Permutations(Thread)
=============================================================================
