----------------------------- MODULE MCLeaseRead -----------------------------
(* Small instances of LeaseRead *)
EXTENDS LeaseRead, TLC

\* The voters other than the leader are interchangeable
Symmetry == Permutations(Voter \ {Leader})
=============================================================================
