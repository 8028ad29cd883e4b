----------------------- MODULE FileLogStoreRefinement -----------------------
(***************************************************************************)
(* FileLogStore implements DurableLog, for every set of entries and every  *)
(* bound, if the process ends at its first storage error (FailStop) and is *)
(* restarted after writeback (SyncedRestart).  One lemma per kind of step  *)
(* shows which step of the abstract log it is; StoreInv, proved inductive  *)
(* in FileLogStoreProofs, supplies what the mapping needs of the state.    *)
(***************************************************************************)
EXTENDS FileLogStoreProofs

\* A map without holes lies below its next index
LEMMA BelowNext ==
    ASSUME NEW es, IsPartial(es, Entry), NEW start \in Nat, NEW n \in Nat,
           DOMAIN es = start .. (start + n - 1)
    PROVE  Below(es, (NextIndex(es, start) - 1) + 1) = es
<1>1. NextIndex(es, start) = start + n
  BY IntervalBounds
<1>2. (NextIndex(es, start) - 1) + 1 = start + n
  BY <1>1
<1>3. {k \in DOMAIN es : k < start + n} = DOMAIN es
  OBVIOUS
<1>4. Below(es, start + n) = [j \in DOMAIN es |-> es[j]]
  BY <1>3 DEF Below
<1> QED BY <1>2, <1>4 DEF IsPartial

\* The abstract log's maps are the store's
LEMMA SameMaps ==
    /\ \A f, i, v : Log!Put(f, i, v) = Put(f, i, v)
    /\ \A f, i : Log!Below(f, i) = Below(f, i)
    /\ \A f, i : Log!Above(f, i) = Above(f, i)
    /\ \A f, i, s : Log!PutSeq(f, i, s) = PutSeq(f, i, s)
    /\ \A f : Log!First(f) = First(f)
    /\ \A f, s : Log!NextIndex(f, s) = NextIndex(f, s)
    /\ Log!Empty = Empty
BY DEF Log!Put, Put, Log!Below, Below, Log!Above, Above, Log!PutSeq, PutSeq,
       Log!First, First, Log!NextIndex, NextIndex, Log!Last, Last, Log!Empty, Empty

\* What the synced log covers
LEMMA SyncedEnd ==
    ASSUME StoreInv, status = "up"
    PROVE  /\ startIndex \in Nat /\ next_slot \in Nat
           /\ syncedDurable = next_slot - 1
<1>1. startIndex \in Nat
  BY DEF StoreInv, TypeOK
<1>2. /\ next_slot = startIndex + Len(syncedCache) /\ Len(syncedCache) \in Nat
      /\ syncedDurable = startIndex + Len(syncedCache) - 1
  BY SyncFacts
<1> QED BY <1>1, <1>2

-----------------------------------------------------------------------------
(* Operations that succeed *)

LEMMA AppendRefines ==
    ASSUME NEW e \in Entry, append(e)
    PROVE  Log!Next
<1>1. /\ status = "up" /\ status' = "up"
      /\ entries' = Put(entries, next_slot, e)
      /\ startIndex' = startIndex /\ durable' = durable
  BY DEF append, Running, Succeed
<1>2. Log!Extend(e)
  BY <1>1, SameMaps DEF Log!Extend, Log!next, next_slot
<1> QED BY <1>2 DEF Log!Next

LEMMA WriteAtRefines ==
    ASSUME StoreInv, NEW i \in 1 .. MaxIndex, NEW e \in Entry, write_at(i, e)
    PROVE  Log!Next
<1>1. /\ status = "up" /\ status' = "up"
      /\ i >= startIndex /\ i <= next_slot
      /\ entries' = Put(Below(entries, i), i, e)
      /\ durable' = i - 1 /\ startIndex' = startIndex
  BY DEF write_at, overwrite, Running, Succeed
<1>2. startIndex \in Nat /\ next_slot \in Nat
  BY <1>1, SyncedEnd
<1>3. i \in startIndex .. next_slot
  BY <1>1, <1>2, ConstantsAssumption
<1>4. Log!Overwrite(i, e)
  BY <1>1, <1>3, SameMaps DEF Log!Overwrite, Log!next, next_slot
<1> QED BY <1>4 DEF Log!Next

LEMMA SyncRefines ==
    ASSUME StoreInv,
           \/ \E start, count \in Nat : end_of_append_batch(start, count)
           \/ flush
    PROVE  Log!Next
<1>1. /\ status = "up" /\ status' = "up" /\ durable' = syncedDurable
      /\ startIndex' = startIndex /\ entries' = entries
  BY DEF end_of_append_batch, flush, Running, Succeed
<1>2. syncedDurable = next_slot - 1
  BY <1>1, SyncedEnd
<1>3. Log!MakeDurable
  BY <1>1, <1>2, SameMaps DEF Log!MakeDurable, Log!next, next_slot
<1> QED BY <1>3 DEF Log!Next

\* A new file: the process lives on with it, or dies once it is in place
LEMMA RewriteLeaves ==
    ASSUME StoreInv, status = "up", NEW start \in Nat, NEW n \in Nat, NEW es,
           IsPartial(es, Entry), DOMAIN es = start .. (start + n - 1),
           \/ rewrite(start, es) /\ Succeed
           \/ GoDown(Claim(start, es, NextIndex(es, start) - 1))
    PROVE  /\ (status' = "up") \in BOOLEAN
           /\ (IF status' = "up" THEN startIndex' ELSE promised'.start) = start
           /\ (IF status' = "up" THEN entries' ELSE promised'.log) = es
           /\ (IF status' = "up" THEN durable' ELSE promised'.durable)
                 = NextIndex(es, start) - 1
<1>1. CASE rewrite(start, es) /\ Succeed
  BY <1>1 DEF rewrite, Succeed
<1>2. CASE GoDown(Claim(start, es, NextIndex(es, start) - 1))
  <2>1. /\ status' = "down"
        /\ promised' = [start |-> start,
                        log |-> Below(es, (NextIndex(es, start) - 1) + 1),
                        durable |-> NextIndex(es, start) - 1]
    BY <1>2 DEF GoDown, Claim
  <2>2. Below(es, (NextIndex(es, start) - 1) + 1) = es
    BY Zenon, BelowNext
  <2> QED BY <2>1, <2>2
<1> QED BY <1>1, <1>2

LEMMA CompactRefines ==
    ASSUME StoreInv, status = "up", NEW last \in 0 .. MaxIndex,
           \/ rewrite(compactedStart(last), compacted(last)) /\ Succeed
           \/ GoDown(Claim(compactedStart(last), compacted(last),
                           NextIndex(compacted(last), compactedStart(last)) - 1))
    PROVE  Log!Next
<1>1. last \in Nat
  BY ConstantsAssumption
<1>2. compactedStart(last) \in Nat /\ IsPartial(compacted(last), Entry)
  BY <1>1, CompactedShape
<1>3. PICK n \in Nat : DOMAIN compacted(last) =
          compactedStart(last) .. (compactedStart(last) + n - 1)
  BY <1>1, CompactedShape
<1>4. /\ (IF status' = "up" THEN startIndex' ELSE promised'.start)
            = compactedStart(last)
      /\ (IF status' = "up" THEN entries' ELSE promised'.log) = compacted(last)
      /\ (IF status' = "up" THEN durable' ELSE promised'.durable)
            = NextIndex(compacted(last), compactedStart(last)) - 1
  BY <1>2, <1>3, RewriteLeaves
<1>5. Log!Compact(last)
  BY <1>4, SameMaps DEF Log!Compact, compacted, compactedStart
<1> QED BY <1>5 DEF Log!Next

LEMMA InstallRefines ==
    ASSUME StoreInv, status = "up", NEW i \in 1 .. MaxIndex, NEW pack \in Packs,
           i <= next_slot,
           \/ rewrite(packedStart(i, pack), packed(i, pack)) /\ Succeed
           \/ GoDown(Claim(packedStart(i, pack), packed(i, pack),
                           NextIndex(packed(i, pack), packedStart(i, pack)) - 1))
    PROVE  Log!Next
<1>1. PICK m \in 0 .. MaxPack : pack \in [1 .. m -> Entry]
  BY DEF Packs
<1>2. i \in Nat /\ i >= 1 /\ m \in Nat
  BY ConstantsAssumption
<1>3. packedStart(i, pack) \in Nat /\ IsPartial(packed(i, pack), Entry)
  BY <1>1, <1>2, PackedShape
<1>4. PICK n \in Nat : DOMAIN packed(i, pack) =
          packedStart(i, pack) .. (packedStart(i, pack) + n - 1)
  BY <1>1, <1>2, PackedShape
<1>5. /\ (IF status' = "up" THEN startIndex' ELSE promised'.start)
            = packedStart(i, pack)
      /\ (IF status' = "up" THEN entries' ELSE promised'.log) = packed(i, pack)
      /\ (IF status' = "up" THEN durable' ELSE promised'.durable)
            = NextIndex(packed(i, pack), packedStart(i, pack)) - 1
  BY <1>3, <1>4, RewriteLeaves
<1>6. Log!Install(i, pack)
  <2>1. Log!next = next_slot
    BY SameMaps DEF Log!next, next_slot
  <2>2. packed(i, pack) = Log!PutSeq(Log!Below(entries, i), i, pack)
    BY SameMaps DEF packed
  <2> DEFINE es == packed(i, pack)
             start == packedStart(i, pack)
  <2>3. start = IF DOMAIN es = {} THEN i ELSE Log!First(es)
    BY SameMaps DEF packedStart
  <2>4. NextIndex(es, start) = Log!NextIndex(es, start)
    BY SameMaps
  <2> HIDE DEF es, start
  <2>5. /\ (IF status' = "up" THEN startIndex' ELSE promised'.start) = start
        /\ (IF status' = "up" THEN entries' ELSE promised'.log) = es
        /\ (IF status' = "up" THEN durable' ELSE promised'.durable)
              = Log!NextIndex(es, start) - 1
        /\ es = Log!PutSeq(Log!Below(entries, i), i, pack)
    BY <1>5, <2>2, <2>4 DEF es, start
  <2> QED BY Zenon, <2>1, <2>3, <2>5 DEF Log!Install
<1> QED BY <1>1, <1>6 DEF Log!Next

-----------------------------------------------------------------------------
(* The end of the process, and opening the store *)

LEMMA StopRefines ==
    ASSUME StoreInv, status = "up", NEW d \in {durable, syncedDurable},
           GoDown(Claim(startIndex, entries, d))
    PROVE  Log!Next
<1>1. /\ status' = "down"
      /\ promised' = [start |-> startIndex, log |-> Below(entries, d + 1),
                      durable |-> d]
  BY DEF GoDown, Claim
<1>2. Log!Stop(d)
  BY <1>1, SameMaps DEF Log!Stop
<1>3. Log!next = next_slot
  BY SameMaps DEF Log!next, next_slot
<1>4. d \in {IF status = "up" THEN durable ELSE promised.durable, Log!next - 1}
  BY <1>3, SyncedEnd
<1> QED BY <1>2, <1>4 DEF Log!Next

LEMMA RecoverRefines ==
    ASSUME StoreInv, status = "down", NEW n, Loaded(n), StoreInv', PromiseKept
    PROVE  Log!Next
<1>1. DownInv /\ TypeOK
  BY DEF StoreInv
<1>2. /\ status' = "up" /\ startIndex' = header /\ pending' = <<>>
      /\ durable' = header + n - 1
  BY <1>1 DEF Loaded, DownInv
<1>3. /\ header \in Nat /\ promised.durable \in Nat /\ promised.start = header
      /\ DOMAIN promised.log = header .. promised.durable
      /\ Covered \in Nat /\ IsPartial(promised.log, Entry)
  BY <1>1 DEF DownInv, TypeOK
<1>4. /\ DOMAIN entries' = header .. durable'
      /\ durable' \in Nat /\ header - 1 <= durable'
  <2>1. /\ DOMAIN entries' = startIndex' .. (startIndex' + Len(syncedCache') - 1)
        /\ durable' = startIndex' + Len(cache') - 1
        /\ cache' \in Seq(Frame) /\ durable' \in Nat
    BY <1>2 DEF StoreInv, UpInv, EncodedFrom, TypeOK
  <2>2. syncedCache' = cache'
    <3>1. \A fs \in Seq(Frame) : fs \o <<>> = fs
      BY ConcatFacts
    <3> QED BY <1>2, <2>1, <3>1 DEF syncedCache
  <2>3. Len(cache') \in Nat
    BY <2>1
  <2> QED BY <1>2, <1>3, <2>1, <2>2, <2>3
<1>5. promised.durable <= durable'
  <2>1. CASE promised.durable \in header .. promised.durable
    BY <1>3, <1>4, <2>1 DEF PromiseKept
  <2>2. CASE promised.durable < header
    BY <1>3, <1>4, <2>2
  <2> QED BY <1>3, <2>1, <2>2
<1>6. promised.log = Below(entries', promised.durable + 1)
  <2>1. {k \in DOMAIN entries' : k < promised.durable + 1} = DOMAIN promised.log
    BY <1>3, <1>4, <1>5
  <2>2. \A i \in DOMAIN promised.log : entries'[i] = promised.log[i]
    BY DEF PromiseKept
  <2>3. Below(entries', promised.durable + 1)
            = [i \in DOMAIN promised.log |-> promised.log[i]]
    BY <2>1, <2>2 DEF Below
  <2> QED BY <1>3, <2>3 DEF IsPartial
<1>7. Log!Recover
  BY <1>2, <1>3, <1>4, <1>5, <1>6, SameMaps DEF Log!Recover
<1> QED BY <1>7 DEF Log!Next

-----------------------------------------------------------------------------
(* Every behaviour of the store is one of the durable log *)

LEMMA InitRefines ==
    ASSUME Init
    PROVE  Log!Init
<1>1. status = "down" /\ header \in {1, 2}
      /\ promised = [start |-> header, log |-> Below(Empty, (header - 1) + 1),
                     durable |-> header - 1]
  BY DEF Init, Unclaimed, Claim
<1>2. Below(Empty, (header - 1) + 1) = Empty
  BY DEF Below, Empty
<1> QED BY <1>1, <1>2, SameMaps DEF Log!Init

LEMMA StepRefines ==
    ASSUME StoreInv, StoreInv', FailStop, SyncedRestart, [Next]_vars
    PROVE  [Log!Next]_(Log!vars)
<1>1. ASSUME UNCHANGED vars
      PROVE  UNCHANGED Log!vars
  BY <1>1 DEF vars, memory, Log!vars
<1>2. ASSUME NEW e \in Entry, append(e)
      PROVE  Log!Next
  BY <1>2, AppendRefines
<1>3. ASSUME NEW i \in 1 .. MaxIndex, NEW e \in Entry, write_at(i, e)
      PROVE  Log!Next
  BY <1>3, WriteAtRefines
<1>4. ASSUME NEW start \in 1 .. MaxIndex, NEW count \in 0 .. MaxIndex,
             end_of_append_batch(start, count)
      PROVE  Log!Next
  <2>1. start \in Nat /\ count \in Nat
    BY ConstantsAssumption
  <2> QED BY <1>4, <2>1, SyncRefines
<1>5. ASSUME flush
      PROVE  Log!Next
  BY <1>5, SyncRefines
<1>6. ASSUME NEW last \in 0 .. MaxIndex, compact(last)
      PROVE  Log!Next
  BY <1>6, CompactRefines DEF compact, Running
<1>7. ASSUME NEW i \in 1 .. MaxIndex, NEW pack \in Packs, apply_pack(i, pack)
      PROVE  Log!Next
  BY <1>7, InstallRefines DEF apply_pack, Running
<1>8. ASSUME NEW last \in 0 .. MaxIndex, NEW renamed \in BOOLEAN,
             compactFails(last, renamed)
      PROVE  Log!Next
  <2>1. /\ status = "up"
        /\ GoDown(IF renamed
                  THEN Claim(compactedStart(last), compacted(last),
                         NextIndex(compacted(last), compactedStart(last)) - 1)
                  ELSE Claim(startIndex, entries, syncedDurable))
    BY <1>8 DEF compactFails, rewriteFails, Throw, Running
  <2>2. CASE renamed
    BY <2>1, <2>2, CompactRefines
  <2>3. CASE ~renamed
    BY <2>1, <2>3, StopRefines
  <2> QED BY <2>2, <2>3
<1>9. ASSUME NEW i \in 1 .. MaxIndex, NEW pack \in Packs, NEW renamed \in BOOLEAN,
             apply_packFails(i, pack, renamed)
      PROVE  Log!Next
  <2>1. /\ status = "up" /\ i <= next_slot
        /\ GoDown(IF renamed
                  THEN Claim(packedStart(i, pack), packed(i, pack),
                         NextIndex(packed(i, pack), packedStart(i, pack)) - 1)
                  ELSE Claim(startIndex, entries, syncedDurable))
    BY <1>9 DEF apply_packFails, rewriteFails, Throw, Running
  <2>2. CASE renamed
    BY <2>1, <2>2, InstallRefines
  <2>3. CASE ~renamed
    BY <2>1, <2>3, StopRefines
  <2> QED BY <2>2, <2>3
<1>10. ASSUME \/ \E n \in 0 .. MaxIndex, piece \in BOOLEAN :
                    sync_pendingFails(n, piece) \/ Kill(n, piece)
              \/ truncateFails \/ destroy
       PROVE  Log!Next
  <2>1. /\ status = "up"
        /\ \/ GoDown(Claim(startIndex, entries, durable))
           \/ GoDown(Claim(startIndex, entries, syncedDurable))
    BY <1>10 DEF sync_pendingFails, Kill, truncateFails, destroy, Throw, Running
  <2> QED BY <2>1, StopRefines
<1>11. ASSUME (\E image \in CrashImages : PowerLoss(image)) \/ Writeback
       PROVE  UNCHANGED Log!vars
  BY <1>11 DEF PowerLoss, Writeback, memory, Log!vars
<1>12. ASSUME load_walFails
       PROVE  UNCHANGED Log!vars
  BY <1>12 DEF load_walFails, memory, Log!vars
<1>13. ASSUME load_wal \/ load_legacy \/ load_absent
       PROVE  Log!Next
  <2>1. status = "down" /\ \E n : Loaded(n)
    BY <1>13 DEF load_wal, load_legacy, load_absent
  <2>2. PICK n : Loaded(n)
    BY <2>1
  <2>3. PromiseKept
    BY <1>13, <2>2, OpenStep DEF Open, Loaded
  <2> QED BY <2>1, <2>2, <2>3, RecoverRefines
<1> QED BY <1>1, <1>2, <1>3, <1>4, <1>5, <1>6, <1>7, <1>8, <1>9, <1>10, <1>11,
           <1>12, <1>13 DEF Next, Open

\* FileLogStore implements DurableLog: every operation, failure, kill, power loss
\* and recovery is a step of a contiguous log that loses nothing of its durable
\* prefix, or changes nothing its callers can see.
THEOREM RefinementCorrect ==
    ASSUME FailStop, SyncedRestart
    PROVE  Spec => ImplementsDurableLog
<1>1. Init => Log!Init
  BY InitRefines
<1>2. StoreInv /\ StoreInv' /\ [Next]_vars => [Log!Next]_(Log!vars)
  BY StepRefines
<1> QED BY <1>1, <1>2, StoreCorrect, PTL DEF Spec, ImplementsDurableLog, Log!Spec

=============================================================================
