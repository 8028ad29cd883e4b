--------------------------- MODULE MCClientRetry ---------------------------
(* Small instances of ClientRetry *)
EXTENDS ClientRetry

MCMinInt == -1
MCSpelling == [v \in {} |-> 0]
=============================================================================
