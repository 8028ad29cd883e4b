----------------------------- MODULE DurableLog -----------------------------
(***************************************************************************)
(* What NuRaft may assume of a log store: a contiguous log with a durable  *)
(* prefix.  Ending the process, at any moment, loses at most the entries   *)
(* after the prefix; opening the store again returns the prefix, possibly  *)
(* followed by entries that were not yet promised.                         *)
(***************************************************************************)
EXTENDS Integers, Sequences, IndexMap

CONSTANTS Entry, MaxIndex, MaxPack

VARIABLES live, start, log, durable

vars == <<live, start, log, durable>>

next == NextIndex(log, start)

Init ==
    /\ live = FALSE
    /\ start \in {1, 2}
    /\ log = Empty
    /\ durable = start - 1

Extend(e) ==
    /\ live
    /\ log' = Put(log, next, e)
    /\ UNCHANGED <<live, start, durable>>

\* Replacing an entry drops everything behind it
Overwrite(i, e) ==
    /\ live
    /\ i \in start .. next
    /\ log' = Put(Below(log, i), i, e)
    /\ durable' = i - 1
    /\ UNCHANGED <<live, start>>

MakeDurable ==
    /\ live
    /\ durable' = next - 1
    /\ UNCHANGED <<live, start, log>>

\* The two operations that replace the file; a process that dies in them
\* leaves the new log behind
Compact(last) ==
    /\ live
    /\ log' = Above(log, last)
    /\ start' = IF start <= last THEN last + 1 ELSE start
    /\ durable' = NextIndex(log', start') - 1
    /\ live' \in BOOLEAN

Install(i, pack) ==
    /\ live
    /\ i <= next
    /\ log' = PutSeq(Below(log, i), i, pack)
    /\ start' = IF DOMAIN log' = {} THEN i ELSE First(log')
    /\ durable' = NextIndex(log', start') - 1
    /\ live' \in BOOLEAN

\* The end of the process, before or after one last sync
Stop(d) ==
    /\ live
    /\ live' = FALSE
    /\ log' = Below(log, d + 1)
    /\ durable' = d
    /\ UNCHANGED start

Recover ==
    /\ ~live
    /\ live' = TRUE
    /\ UNCHANGED start
    /\ log = Below(log', durable + 1)
    /\ DOMAIN log' = start .. durable'
    /\ durable' >= durable

Next ==
    \/ \E e \in Entry : Extend(e)
    \/ \E i \in 1 .. MaxIndex, e \in Entry : Overwrite(i, e)
    \/ MakeDurable
    \/ \E last \in 0 .. MaxIndex : Compact(last)
    \/ \E i \in 1 .. MaxIndex, n \in 0 .. MaxPack :
          \E pack \in [1 .. n -> Entry] : Install(i, pack)
    \/ \E d \in {durable, next - 1} : Stop(d)
    \/ Recover

Spec == Init /\ [][Next]_vars

=============================================================================
