------------------------------ MODULE IndexMap ------------------------------
(* std::map from log indexes, as functions with a finite domain *)
EXTENDS Integers, Sequences

\* f is a function from some set of log indexes to S
IsPartial(f, S) ==
    /\ f = [i \in DOMAIN f |-> f[i]]
    /\ DOMAIN f \subseteq Nat
    /\ \A i \in DOMAIN f : f[i] \in S

Empty == [i \in {} |-> 0]

\* erase(lower_bound(i), end()) and erase(begin(), upper_bound(i))
Below(f, i) == [j \in {k \in DOMAIN f : k < i} |-> f[j]]
Above(f, i) == [j \in {k \in DOMAIN f : k > i} |-> f[j]]

\* map[i] = v, and map[i + k] = s[k] for every k
Put(f, i, v) == [j \in DOMAIN f \cup {i} |-> IF j = i THEN v ELSE f[j]]
PutSeq(f, i, s) ==
    [j \in DOMAIN f \cup i .. (i + Len(s) - 1) |->
        IF j < i THEN f[j] ELSE s[j - i + 1]]

\* begin()->first and rbegin()->first
First(f) == CHOOSE i \in DOMAIN f : \A j \in DOMAIN f : i <= j
Last(f) == CHOOSE i \in DOMAIN f : \A j \in DOMAIN f : j <= i

\* The index after the last one of a map that starts at `start'
NextIndex(f, start) == IF DOMAIN f = {} THEN start ELSE Last(f) + 1

=============================================================================
