------------------------- MODULE FileLogStoreProofs -------------------------
(***************************************************************************)
(* Proofs about FileLogStore: for every set of entries and every bound, if *)
(* the process ends at its first storage error (FailStop) and is restarted *)
(* after writeback (SyncedRestart).  Nothing is assumed of the order in    *)
(* which pages reach the disk.                                             *)
(***************************************************************************)
EXTENDS FileLogStore, WellFoundedInduction, TLAPS

-----------------------------------------------------------------------------
(* The inductive invariant *)

\* fs holds the entries of es, which start at `start', frame by frame
EncodedFrom(fs, start, es) ==
    /\ DOMAIN es = start .. (start + Len(fs) - 1)
    /\ \A k \in 1 .. Len(fs) :
          fs[k] = encode_entry(start + k - 1, es[start + k - 1])

\* Every frame that can be read is in its place
InSequence(fs, start) ==
    \A k \in 1 .. Len(fs) : fs[k].whole => fs[k].index = start + k - 1

AgreeUpTo(fs, gs, n) ==
    /\ n <= Len(fs)
    /\ n <= Len(gs)
    /\ \A k \in 1 .. n : fs[k] = gs[k]

\* While the object lives, the file and the pending frames together are the
\* log, the file is all durable, and what an undone truncation would bring back
\* is in sequence too
UpInv ==
    /\ format = "wal"
    /\ startIndex >= 1
    /\ header = startIndex
    /\ EncodedFrom(syncedCache, startIndex, entries)
    /\ offsets = [i \in DOMAIN entries |-> i - startIndex]
    /\ fileSize = Len(cache)
    /\ durable = startIndex + Len(cache) - 1
    /\ pending # <<>> => pendingStart = startIndex + Len(cache)
    /\ kept = Len(cache)
    /\ AgreeUpTo(cache, stable, kept)
    /\ InSequence(stable, header)

\* How many frames the promise covers
Covered == promised.durable - header + 1

\* Afterwards, the promised entries are the first frames of the file, on the
\* medium, and all other readable frames are in their places
DownInv ==
    /\ header >= 1
    /\ pending = <<>>
    /\ pendingStart = 0
    /\ AgreeUpTo(cache, stable, kept)
    /\ InSequence(cache, header)
    /\ InSequence(stable, header)
    /\ promised.start = header
    /\ Covered \in 0 .. kept
    /\ DOMAIN promised.log = header .. promised.durable
    /\ \A k \in 1 .. Covered :
          cache[k] = encode_entry(header + k - 1, promised.log[header + k - 1])
    /\ format # "wal" =>
          /\ stable = cache
          /\ kept = Len(cache)
          /\ \A k \in 1 .. Len(cache) : cache[k].whole
          /\ format = "absent" => cache = <<>>

StoreInv ==
    /\ TypeOK
    /\ status = "up" => UpInv
    /\ status # "up" => DownInv

-----------------------------------------------------------------------------
(* Maps whose indexes are an interval *)

LEMMA IntervalBounds ==
    ASSUME NEW f, NEW start \in Nat, NEW n \in Nat,
           DOMAIN f = start .. (start + n - 1)
    PROVE  /\ NextIndex(f, start) = start + n
           /\ n # 0 => First(f) = start /\ Last(f) = start + n - 1
           /\ n = 0 <=> DOMAIN f = {}
<1>1. CASE n = 0
  BY <1>1 DEF NextIndex
<1>2. CASE n # 0
  <2>1. start \in DOMAIN f /\ start + n - 1 \in DOMAIN f
    BY <1>2
  <2>2. First(f) = start
    <3>1. \A j \in DOMAIN f : start <= j
      OBVIOUS
    <3>2. ASSUME NEW i \in DOMAIN f, \A j \in DOMAIN f : i <= j
          PROVE  i = start
      <4>1. i <= start /\ start <= i /\ i \in Int
        BY <2>1, <3>1, <3>2
      <4> QED BY <4>1
    <3> QED BY <2>1, <3>1, <3>2 DEF First
  <2>3. Last(f) = start + n - 1
    <3>1. \A j \in DOMAIN f : j <= start + n - 1
      OBVIOUS
    <3>2. ASSUME NEW i \in DOMAIN f, \A j \in DOMAIN f : j <= i
          PROVE  i = start + n - 1
      <4>1. i <= start + n - 1 /\ start + n - 1 <= i /\ i \in Int
        BY <2>1, <3>1, <3>2
      <4> QED BY <4>1
    <3> QED BY <2>1, <3>1, <3>2 DEF Last
  <2> QED BY <1>2, <2>1, <2>2, <2>3 DEF NextIndex
<1> QED BY <1>1, <1>2

\* encode_all_locked writes exactly the frames of the map
LEMMA EncodeAll ==
    ASSUME NEW es, NEW start \in Nat, NEW n \in Nat,
           DOMAIN es = start .. (start + n - 1), IsPartial(es, Entry)
    PROVE  /\ encode_all(es) \in Seq(Frame)
           /\ Len(encode_all(es)) = n
           /\ EncodedFrom(encode_all(es), start, es)
<1> DEFINE fs == [k \in 1 .. n |-> encode_entry(start + k - 1, es[start + k - 1])]
<1>1. encode_all(es) = fs
  <2>1. CASE n = 0
    <3>1. encode_all(es) = <<>>
      BY <2>1, IntervalBounds DEF encode_all
    <3>2. fs = <<>>
      BY <2>1
    <3> QED BY <3>1, <3>2
  <2>2. CASE n # 0
    <3>1. First(es) = start /\ Last(es) = start + n - 1 /\ DOMAIN es # {}
      BY Zenon, <2>2, IntervalBounds
    <3>2. Last(es) - First(es) + 1 = n
      BY <3>1
    <3> QED BY <3>1, <3>2 DEF encode_all
  <2> QED BY <2>1, <2>2
<1>2. \A k \in 1 .. n : fs[k] \in Frame
  BY DEF encode_entry, Frame, IsPartial
<1>3. fs \in Seq(Frame) /\ Len(fs) = n
  BY <1>2
<1>4. \A k \in 1 .. n : fs[k] = encode_entry(start + k - 1, es[start + k - 1])
  OBVIOUS
<1> HIDE DEF fs
<1> QED BY <1>1, <1>3, <1>4 DEF EncodedFrom

\* Frames that encode a map are readable and in sequence
LEMMA EncodedInSequence ==
    ASSUME NEW fs \in Seq(Frame), NEW start \in Nat, NEW es,
           EncodedFrom(fs, start, es)
    PROVE  /\ InSequence(fs, start)
           /\ \A k \in 1 .. Len(fs) : fs[k].whole
<1> SUFFICES ASSUME NEW k \in 1 .. Len(fs)
             PROVE  fs[k].whole /\ fs[k].index = start + k - 1
  BY DEF InSequence
<1>1. fs[k] = encode_entry(start + k - 1, es[start + k - 1])
  BY DEF EncodedFrom
<1> QED BY <1>1 DEF encode_entry

-----------------------------------------------------------------------------
(* sync_pending_locked, and the end of the process *)

LEMMA ConcatFacts ==
    ASSUME NEW fs \in Seq(Frame), NEW gs \in Seq(Frame)
    PROVE  /\ fs \o gs \in Seq(Frame)
           /\ Len(fs \o gs) = Len(fs) + Len(gs)
           /\ \A k \in 1 .. Len(fs) : (fs \o gs)[k] = fs[k]
           /\ \A k \in 1 .. Len(gs) : (fs \o gs)[Len(fs) + k] = gs[k]
           /\ gs = <<>> => fs \o gs = fs
OBVIOUS

\* After a successful sync the file is the log, all of it durable
LEMMA SyncFacts ==
    ASSUME StoreInv, status = "up"
    PROVE  /\ syncedCache \in Seq(Frame)
           /\ Len(syncedCache) = Len(cache) + Len(pending)
           /\ \A k \in 1 .. Len(cache) : syncedCache[k] = cache[k]
           /\ \A k \in 1 .. Len(pending) : syncedCache[Len(cache) + k] = pending[k]
           /\ next_slot = startIndex + Len(syncedCache)
           /\ syncedFileSize = Len(syncedCache)
           /\ syncedDurable = startIndex + Len(syncedCache) - 1
           /\ syncedKept = Len(syncedCache)
           /\ syncedStable \in Seq(Frame)
           /\ AgreeUpTo(syncedCache, syncedStable, syncedKept)
           /\ InSequence(syncedStable, header)
           /\ InSequence(syncedCache, header)
<1>1. UpInv /\ TypeOK
  BY DEF StoreInv
<1>2. /\ cache \in Seq(Frame) /\ pending \in Seq(Frame) /\ stable \in Seq(Frame)
      /\ startIndex \in Nat /\ pendingStart \in Nat
      /\ Len(cache) \in Nat /\ Len(pending) \in Nat
  BY <1>1 DEF TypeOK
<1>3. /\ syncedCache \in Seq(Frame)
      /\ Len(syncedCache) = Len(cache) + Len(pending)
      /\ \A k \in 1 .. Len(cache) : syncedCache[k] = cache[k]
      /\ \A k \in 1 .. Len(pending) : syncedCache[Len(cache) + k] = pending[k]
  BY <1>2 DEF syncedCache
<1>4. next_slot = startIndex + Len(syncedCache)
  <2>1. DOMAIN entries = startIndex .. (startIndex + Len(syncedCache) - 1)
    BY <1>1 DEF UpInv, EncodedFrom
  <2>2. Len(syncedCache) \in Nat
    BY <1>2, <1>3
  <2> QED BY Zenon, <1>2, <2>1, <2>2, IntervalBounds DEF next_slot
<1>5. InSequence(syncedCache, header)
  BY <1>1, <1>2, <1>3, EncodedInSequence DEF UpInv
<1>6. CASE pending = <<>>
  <2>1. syncedCache = cache /\ Len(pending) = 0
    BY <1>2, <1>6 DEF syncedCache
  <2> QED BY <1>1, <1>2, <1>3, <1>4, <1>5, <1>6, <2>1
          DEF UpInv, syncedStable, syncedKept, syncedFileSize, syncedDurable
<1>7. CASE pending # <<>>
  <2>1. AgreeUpTo(syncedCache, syncedCache, Len(syncedCache))
    BY <1>3 DEF AgreeUpTo
  <2>2. /\ syncedStable = syncedCache
        /\ syncedKept = Len(syncedCache)
        /\ syncedFileSize = Len(syncedCache)
    BY <1>1, <1>3, <1>7 DEF UpInv, syncedStable, syncedKept, syncedFileSize
  <2>3. syncedDurable = startIndex + Len(syncedCache) - 1
    BY <1>1, <1>2, <1>3, <1>7 DEF UpInv, syncedDurable
  <2> QED BY <1>3, <1>4, <1>5, <2>1, <2>2, <2>3
<1> QED BY <1>6, <1>7

\* The process ends: what it claimed must be the first frames of the file
LEMMA GoDownStep ==
    ASSUME NEW start \in Nat, start >= 1, NEW n \in Nat, NEW es,
           IsPartial(es, Entry), DOMAIN es = start .. (start + n - 1),
           NEW d \in Nat, start - 1 <= d, d <= start + n - 1,
           GoDown(Claim(start, es, d)),
           format' = "wal", header' = start,
           cache' \in Seq(Frame), stable' \in Seq(Frame), kept' \in Nat,
           AgreeUpTo(cache', stable', kept'),
           InSequence(cache', start), InSequence(stable', start),
           d - start + 1 <= kept',
           \A k \in 1 .. (d - start + 1) :
              cache'[k] = encode_entry(start + k - 1, es[start + k - 1])
    PROVE  StoreInv'
<1> DEFINE claimed == Below(es, d + 1)
<1>1. promised' = [start |-> start, log |-> claimed, durable |-> d]
  BY DEF GoDown, Claim
<1>2. DOMAIN claimed = start .. d
  BY DEF Below
<1>3. \A i \in start .. d : claimed[i] = es[i]
  BY DEF Below
<1>4. IsPartial(claimed, Entry)
  BY DEF IsPartial, Below
<1>5. IsPartial(Empty, Entry) /\ IsPartial(Empty, Nat)
  BY DEF IsPartial, Empty
<1> HIDE DEF claimed
<1>6. TypeOK'
  BY <1>1, <1>4, <1>5 DEF TypeOK, GoDown
<1>7. Covered' = d - start + 1
  BY <1>1 DEF Covered
<1>8. \A k \in 1 .. (d - start + 1) :
          cache'[k] = encode_entry(start + k - 1, claimed[start + k - 1])
  <2> TAKE k \in 1 .. (d - start + 1)
  <2>1. start + k - 1 \in start .. d
    OBVIOUS
  <2>2. claimed[start + k - 1] = es[start + k - 1]
    BY <1>3, <2>1
  <2> QED BY <2>2
<1>9. DownInv'
  BY <1>1, <1>2, <1>7, <1>8 DEF DownInv, GoDown
<1> QED BY <1>6, <1>9 DEF StoreInv, GoDown

-----------------------------------------------------------------------------
(* Operations *)

LEMMA PartialPut ==
    ASSUME NEW S, NEW f, IsPartial(f, S), NEW i \in Nat, NEW v \in S
    PROVE  IsPartial(Put(f, i, v), S) /\ IsPartial(Below(f, i), S)
BY DEF IsPartial, Put, Below

LEMMA AppendStep ==
    ASSUME StoreInv, NEW e \in Entry, append(e)
    PROVE  StoreInv'
<1> DEFINE i == next_slot
           len == Len(syncedCache)
           frame == encode_entry(i, e)
<1>1. UpInv /\ TypeOK /\ status = "up"
  BY DEF StoreInv, append, Running
<1>2. /\ cache \in Seq(Frame) /\ pending \in Seq(Frame)
      /\ startIndex \in Nat /\ fileSize \in Nat
      /\ Len(cache) \in Nat /\ Len(pending) \in Nat
      /\ IsPartial(entries, Entry) /\ IsPartial(offsets, Nat)
      /\ pendingStart \in Nat
  BY <1>1 DEF TypeOK
<1>3. /\ i = startIndex + len /\ len = Len(cache) + Len(pending) /\ i \in Nat
      /\ len \in Nat
      /\ \A k \in 1 .. Len(cache) : syncedCache[k] = cache[k]
      /\ \A k \in 1 .. Len(pending) : syncedCache[Len(cache) + k] = pending[k]
  BY <1>1, <1>2, SyncFacts
<1>4. /\ entries' = Put(entries, i, e)
      /\ offsets' = Put(offsets, i, fileSize + Len(pending))
      /\ pending' = Append(pending, frame)
      /\ pendingStart' = IF pending = <<>> THEN i ELSE pendingStart
      /\ UNCHANGED <<startIndex, durable, fileSize, format, header, cache,
                     stable, kept, status, promised>>
  BY DEF append, disk, Succeed
<1>5. DOMAIN entries = startIndex .. (startIndex + len - 1)
  BY <1>1 DEF UpInv, EncodedFrom
<1> HIDE DEF i, len
<1>6. frame \in Frame
  BY <1>3 DEF encode_entry, Frame
<1> HIDE DEF frame
<1>7. /\ pending' \in Seq(Frame)
      /\ Len(pending') = Len(pending) + 1
      /\ pending'[Len(pending) + 1] = frame
      /\ \A k \in 1 .. Len(pending) : pending'[k] = pending[k]
  BY <1>2, <1>4, <1>6
<1>8. TypeOK'
  <2>1. IsPartial(entries', Entry) /\ IsPartial(offsets', Nat)
    BY <1>2, <1>3, <1>4, PartialPut
  <2> QED BY <1>1, <1>2, <1>3, <1>4, <1>7, <2>1 DEF TypeOK
<1>9. DOMAIN entries' = startIndex .. (startIndex + (len + 1) - 1)
  BY <1>2, <1>3, <1>4, <1>5 DEF Put
<1>10. offsets' = [j \in DOMAIN entries' |-> j - startIndex]
  <2>1. fileSize + Len(pending) = i - startIndex
    BY <1>1, <1>2, <1>3 DEF UpInv
  <2>2. offsets = [j \in DOMAIN entries |-> j - startIndex]
    BY <1>1 DEF UpInv
  <2> QED BY <1>4, <2>1, <2>2 DEF Put
<1>11. EncodedFrom(syncedCache', startIndex', entries')
  <2>1. syncedCache' = cache \o pending'
    BY <1>4 DEF syncedCache
  <2>2. /\ Len(syncedCache') = len + 1
        /\ \A k \in 1 .. Len(cache) : syncedCache'[k] = cache[k]
        /\ \A k \in 1 .. Len(pending') : syncedCache'[Len(cache) + k] = pending'[k]
    <3>1. /\ Len(cache \o pending') = Len(cache) + Len(pending')
          /\ \A k \in 1 .. Len(cache) : (cache \o pending')[k] = cache[k]
          /\ \A k \in 1 .. Len(pending') :
                (cache \o pending')[Len(cache) + k] = pending'[k]
      BY Zenon, <1>2, <1>7, ConcatFacts
    <3>2. Len(cache) + Len(pending') = len + 1
      BY <1>2, <1>3, <1>7
    <3> QED BY <2>1, <3>1, <3>2
  <2>3. ASSUME NEW k \in 1 .. (len + 1)
        PROVE  syncedCache'[k]
                  = encode_entry(startIndex + k - 1, entries'[startIndex + k - 1])
    <3>1. CASE k = len + 1
      <4>1. syncedCache'[k] = frame
        <5>1. k = Len(cache) + (Len(pending) + 1)
          BY <1>2, <1>3, <3>1
        <5>2. Len(pending) + 1 \in 1 .. Len(pending')
          BY <1>2, <1>7
        <5> QED BY <1>7, <2>2, <5>1, <5>2
      <4>2. startIndex + k - 1 = i
        BY <1>2, <1>3, <3>1
      <4>3. entries'[i] = e
        BY <1>4 DEF Put
      <4> QED BY <4>1, <4>2, <4>3 DEF frame
    <3>2. CASE k \in 1 .. len
      <4>1. syncedCache'[k] = syncedCache[k]
        <5>1. CASE k \in 1 .. Len(cache)
          BY <1>3, <2>2, <5>1
        <5>2. CASE k \in (Len(cache) + 1) .. len
          <6> DEFINE j == k - Len(cache)
          <6>1. j \in 1 .. Len(pending) /\ j \in 1 .. Len(pending') /\ k = Len(cache) + j
            BY <1>2, <1>3, <1>7, <5>2
          <6> HIDE DEF j
          <6> QED BY <1>3, <1>7, <2>2, <6>1
        <5> QED BY <1>2, <1>3, <3>2, <5>1, <5>2
      <4>2. syncedCache[k]
                = encode_entry(startIndex + k - 1, entries[startIndex + k - 1])
        BY <1>1, <3>2 DEF UpInv, EncodedFrom, len
      <4>3. startIndex + k - 1 # i /\ startIndex + k - 1 \in DOMAIN entries
        BY <1>2, <1>3, <1>5, <3>2
      <4>4. entries'[startIndex + k - 1] = entries[startIndex + k - 1]
        BY <1>4, <4>3 DEF Put
      <4> QED BY <4>1, <4>2, <4>4
    <3> QED BY <1>3, <3>1, <3>2
  <2> QED BY <1>4, <1>9, <2>2, <2>3 DEF EncodedFrom
<1>12. pendingStart' = startIndex + Len(cache)
  BY <1>1, <1>2, <1>3, <1>4 DEF UpInv
<1>13. UpInv'
  BY Zenon, <1>1, <1>4, <1>10, <1>11, <1>12 DEF UpInv
<1> QED BY <1>1, <1>4, <1>8, <1>13 DEF StoreInv

\* end_of_append_batch and flush: the pending frames move into the file
LEMMA SyncStep ==
    ASSUME StoreInv,
           \/ \E start, count \in Nat : end_of_append_batch(start, count)
           \/ flush
    PROVE  StoreInv'
<1>1. UpInv /\ TypeOK /\ status = "up"
  BY DEF StoreInv, end_of_append_batch, flush, Running
<1>2. /\ startIndex \in Nat /\ startIndex >= 1 /\ header = startIndex
      /\ format = "wal"
      /\ EncodedFrom(syncedCache, startIndex, entries)
      /\ offsets = [i \in DOMAIN entries |-> i - startIndex]
  BY <1>1 DEF UpInv, TypeOK
<1>3. /\ cache' = syncedCache
      /\ stable' \in {syncedStable, syncedCache}
      /\ kept' \in {syncedKept, Len(syncedCache)}
      /\ fileSize' = syncedFileSize
      /\ durable' = syncedDurable
      /\ pending' = <<>> /\ pendingStart' = 0
      /\ UNCHANGED <<startIndex, entries, offsets, format, header, status, promised>>
  BY DEF end_of_append_batch, flush, SyncDisk, ClearPending, Succeed
<1>4. /\ syncedCache \in Seq(Frame) /\ syncedStable \in Seq(Frame)
      /\ Len(syncedCache) \in Nat
      /\ syncedFileSize = Len(syncedCache)
      /\ syncedDurable = startIndex + Len(syncedCache) - 1
      /\ syncedKept = Len(syncedCache)
      /\ AgreeUpTo(syncedCache, syncedStable, syncedKept)
      /\ InSequence(syncedStable, header)
      /\ InSequence(syncedCache, header)
  BY <1>1, SyncFacts
<1>5. syncedCache' = syncedCache
  <2>1. syncedCache' = syncedCache \o <<>>
    BY <1>3 DEF syncedCache
  <2>2. \A fs \in Seq(Frame) : fs \o <<>> = fs
    BY ConcatFacts
  <2> QED BY <1>4, <2>1, <2>2
<1>6. AgreeUpTo(syncedCache, syncedCache, Len(syncedCache))
  BY <1>4 DEF AgreeUpTo
<1>7. /\ AgreeUpTo(cache', stable', kept')
      /\ InSequence(stable', header')
      /\ stable' \in Seq(Frame) /\ kept' = Len(syncedCache)
  BY <1>3, <1>4, <1>6
<1> HIDE DEF syncedCache
<1>8. TypeOK'
  <2>1. /\ durable' \in Nat /\ fileSize' \in Nat /\ kept' \in Nat
        /\ pending' \in Seq(Frame) /\ pendingStart' \in Nat
        /\ cache' \in Seq(Frame)
    BY <1>2, <1>3, <1>4, <1>7
  <2> QED BY <1>1, <1>3, <1>7, <2>1 DEF TypeOK
<1>9. UpInv'
  BY <1>2, <1>3, <1>4, <1>5, <1>7 DEF UpInv
<1> QED BY <1>1, <1>3, <1>8, <1>9 DEF StoreInv

\* rewrite_locked: a new file for a map without holes
LEMMA RewriteStep ==
    ASSUME StoreInv, status = "up", NEW start \in Nat, start >= 1,
           NEW n \in Nat, NEW es, IsPartial(es, Entry),
           DOMAIN es = start .. (start + n - 1),
           rewrite(start, es), Succeed
    PROVE  StoreInv'
<1> DEFINE fs == encode_all(es)
<1>1. /\ fs \in Seq(Frame) /\ Len(fs) = n /\ EncodedFrom(fs, start, es)
  BY Zenon, EncodeAll
<1>2. NextIndex(es, start) = start + n /\ (n # 0 => First(es) = start)
  BY Zenon, IntervalBounds
<1> HIDE DEF fs
<1>3. /\ startIndex' = start /\ entries' = es
      /\ offsets' = [i \in DOMAIN es |-> i - First(es)]
      /\ fileSize' = n /\ durable' = start + n - 1
      /\ pending' = <<>> /\ pendingStart' = 0
      /\ format' = "wal" /\ header' = start
      /\ cache' = fs /\ stable' = fs /\ kept' = n
      /\ UNCHANGED <<status, promised>>
  BY <1>1, <1>2 DEF rewrite, ClearPending, Succeed, fs
<1>4. offsets' = [i \in DOMAIN es |-> i - start]
  <2>1. CASE n = 0
    <3>1. DOMAIN es = {}
      BY <2>1
    <3> QED BY <1>3, <3>1
  <2>2. CASE n # 0
    BY <1>2, <1>3, <2>2
  <2> QED BY <2>1, <2>2
<1>5. syncedCache' = fs
  <2>1. syncedCache' = fs \o <<>>
    BY <1>3 DEF syncedCache
  <2>2. \A gs \in Seq(Frame) : gs \o <<>> = gs
    BY ConcatFacts
  <2> QED BY <1>1, <2>1, <2>2
<1>6. AgreeUpTo(fs, fs, n) /\ InSequence(fs, start)
  BY <1>1, EncodedInSequence DEF AgreeUpTo
<1>7. IsPartial(offsets', Nat)
  BY <1>4 DEF IsPartial
<1>8. TypeOK'
  BY <1>1, <1>3, <1>7 DEF TypeOK, StoreInv
<1>9. UpInv'
  BY <1>1, <1>3, <1>4, <1>5, <1>6 DEF UpInv
<1> QED BY <1>3, <1>8, <1>9 DEF StoreInv

\* What compact and apply_pack leave has no holes, and starts where they say
LEMMA CompactedShape ==
    ASSUME StoreInv, status = "up", NEW last \in Nat
    PROVE  /\ compactedStart(last) \in Nat /\ compactedStart(last) >= 1
           /\ IsPartial(compacted(last), Entry)
           /\ \E n \in Nat : DOMAIN compacted(last) =
                 compactedStart(last) .. (compactedStart(last) + n - 1)
<1>1. /\ UpInv /\ IsPartial(entries, Entry)
      /\ startIndex \in Nat /\ startIndex >= 1
  BY DEF StoreInv, TypeOK, UpInv
<1>2. Len(syncedCache) \in Nat
  BY SyncFacts
<1> DEFINE len == Len(syncedCache)
           start == compactedStart(last)
<1>3. DOMAIN entries = startIndex .. (startIndex + len - 1)
  BY <1>1 DEF UpInv, EncodedFrom
<1>4. start \in Nat /\ start >= 1
  BY <1>1 DEF compactedStart
<1>5. IsPartial(compacted(last), Entry)
  BY <1>1 DEF IsPartial, compacted, Above
<1> HIDE DEF len
<1>6. DOMAIN compacted(last) = {k \in startIndex .. (startIndex + len - 1) : k > last}
  BY <1>3 DEF compacted, Above
<1>7. CASE last < startIndex
  <2>1. start = startIndex /\ DOMAIN compacted(last) = start .. (start + len - 1)
    BY <1>1, <1>6, <1>7 DEF compactedStart
  <2> QED BY <1>2, <1>4, <1>5, <2>1 DEF len
<1>8. CASE startIndex <= last /\ last <= startIndex + len - 1
  <2> DEFINE n == startIndex + len - 1 - last
  <2>1. n \in Nat
    BY <1>1, <1>2, <1>8 DEF len
  <2>2. start = last + 1 /\ DOMAIN compacted(last) = start .. (start + n - 1)
    BY <1>1, <1>2, <1>6, <1>8 DEF compactedStart, len
  <2> QED BY Zenon, <1>4, <1>5, <2>1, <2>2
<1>9. CASE startIndex <= last /\ last > startIndex + len - 1
  <2>1. DOMAIN compacted(last) = start .. (start + 0 - 1)
    BY <1>1, <1>2, <1>4, <1>6, <1>9 DEF len
  <2> QED BY <1>4, <1>5, <2>1
<1> QED BY <1>1, <1>2, <1>7, <1>8, <1>9 DEF len

LEMMA PackedShape ==
    ASSUME StoreInv, status = "up", NEW i \in Nat, i >= 1, i <= next_slot,
           NEW m \in Nat, NEW pack \in [1 .. m -> Entry]
    PROVE  /\ packedStart(i, pack) \in Nat /\ packedStart(i, pack) >= 1
           /\ IsPartial(packed(i, pack), Entry)
           /\ \E n \in Nat : DOMAIN packed(i, pack) =
                 packedStart(i, pack) .. (packedStart(i, pack) + n - 1)
<1> DEFINE len == Len(syncedCache)
           es == packed(i, pack)
<1>1. /\ UpInv /\ IsPartial(entries, Entry)
      /\ startIndex \in Nat /\ startIndex >= 1
  BY DEF StoreInv, TypeOK, UpInv
<1>2. len \in Nat /\ next_slot = startIndex + len
  BY SyncFacts
<1>3. DOMAIN entries = startIndex .. (startIndex + len - 1)
  BY <1>1 DEF UpInv, EncodedFrom
<1>4. pack \in Seq(Entry) /\ Len(pack) = m
  OBVIOUS
<1> HIDE DEF len
<1>5. DOMAIN es = {k \in startIndex .. (startIndex + len - 1) : k < i}
                    \cup i .. (i + m - 1)
  BY <1>3, <1>4 DEF packed, PutSeq, Below
<1>6. IsPartial(es, Entry)
  <2>1. ASSUME NEW j \in DOMAIN es PROVE es[j] \in Entry /\ j \in Nat
    <3>1. CASE j < i
      <4>1. j \in DOMAIN entries /\ es[j] = entries[j]
        BY <1>3, <1>5, <3>1 DEF packed, PutSeq, Below
      <4> QED BY <1>1, <4>1 DEF IsPartial
    <3>2. CASE ~(j < i)
      <4>1. j \in i .. (i + m - 1)
        BY <1>5, <3>2
      <4>2. es[j] = pack[j - i + 1]
        BY <3>2 DEF packed, PutSeq
      <4>3. j - i + 1 \in 1 .. m
        BY <4>1
      <4> QED BY <4>1, <4>2, <4>3
    <3> QED BY <3>1, <3>2
  <2>2. es = [j \in DOMAIN es |-> es[j]]
    BY DEF packed, PutSeq
  <2> HIDE DEF es
  <2> QED BY <2>1, <2>2 DEF IsPartial
<1> HIDE DEF es
<1> DEFINE s == IF startIndex < i THEN startIndex ELSE i
<1>7. \E n \in Nat : DOMAIN es = s .. (s + n - 1)
  <2>1. CASE startIndex < i
    <3>1. /\ i - startIndex + m \in Nat
          /\ DOMAIN es = s .. (s + (i - startIndex + m) - 1)
      BY <1>1, <1>2, <1>5, <2>1
    <3> QED BY <3>1
  <2>2. CASE ~(startIndex < i)
    <3>1. DOMAIN es = s .. (s + m - 1)
      BY <1>1, <1>2, <1>5, <2>2
    <3> QED BY <3>1
  <2> QED BY <2>1, <2>2
<1>8. packedStart(i, pack) = s
  <2>1. PICK n \in Nat : DOMAIN es = s .. (s + n - 1)
    BY <1>7
  <2>2. s \in Nat
    BY <1>1
  <2> HIDE DEF s
  <2>3. CASE n = 0
    <3>1. DOMAIN es = {}
      BY <2>1, <2>2, <2>3
    <3>2. s = i
      <4>1. ~(startIndex < i)
        <5> SUFFICES ASSUME startIndex < i PROVE startIndex \in DOMAIN es
          BY <3>1
        <5> QED BY <1>1, <1>2, <1>5
      <4> QED BY <4>1 DEF s
    <3> QED BY <3>1, <3>2 DEF packedStart, es
  <2>4. CASE n # 0
    <3>1. s \in DOMAIN es
      BY <2>1, <2>2, <2>4
    <3>2. First(es) = s
      BY Zenon, <2>1, <2>2, <2>4, IntervalBounds
    <3> QED BY <3>1, <3>2 DEF packedStart, es
  <2> QED BY <2>3, <2>4
<1> QED BY <1>1, <1>6, <1>7, <1>8 DEF es

LEMMA CompactStep ==
    ASSUME StoreInv, NEW last \in Nat, compact(last)
    PROVE  StoreInv'
<1>1. status = "up" /\ rewrite(compactedStart(last), compacted(last)) /\ Succeed
  BY DEF compact, Running
<1>2. /\ compactedStart(last) \in Nat /\ compactedStart(last) >= 1
      /\ IsPartial(compacted(last), Entry)
  BY <1>1, CompactedShape
<1>3. PICK n \in Nat : DOMAIN compacted(last) =
          compactedStart(last) .. (compactedStart(last) + n - 1)
  BY <1>1, CompactedShape
<1> QED BY <1>1, <1>2, <1>3, RewriteStep

LEMMA ApplyPackStep ==
    ASSUME StoreInv, NEW i \in Nat, i >= 1,
           NEW m \in Nat, NEW pack \in [1 .. m -> Entry], apply_pack(i, pack)
    PROVE  StoreInv'
<1>1. /\ status = "up" /\ i <= next_slot
      /\ rewrite(packedStart(i, pack), packed(i, pack)) /\ Succeed
  BY DEF apply_pack, Running
<1>2. /\ packedStart(i, pack) \in Nat /\ packedStart(i, pack) >= 1
      /\ IsPartial(packed(i, pack), Entry)
  BY <1>1, PackedShape
<1>3. PICK n \in Nat : DOMAIN packed(i, pack) =
          packedStart(i, pack) .. (packedStart(i, pack) + n - 1)
  BY <1>1, PackedShape
<1> QED BY <1>1, <1>2, <1>3, RewriteStep

\* write_at cuts the file where the frame of i starts; nothing before it moves
LEMMA WriteAtStep ==
    ASSUME StoreInv, NEW i \in Nat, NEW e \in Entry, write_at(i, e)
    PROVE  StoreInv'
<1> DEFINE m == i - startIndex
           len == Len(syncedCache)
           file == Truncated(syncedCache, m)
           frame == encode_entry(i, e)
<1>1. UpInv /\ TypeOK /\ status = "up"
  BY DEF StoreInv, write_at, overwrite, Running
<1>2. /\ startIndex \in Nat /\ startIndex >= 1
      /\ IsPartial(entries, Entry) /\ IsPartial(offsets, Nat)
      /\ format = "wal" /\ header = startIndex
      /\ EncodedFrom(syncedCache, startIndex, entries)
      /\ offsets = [j \in DOMAIN entries |-> j - startIndex]
  BY <1>1 DEF TypeOK, UpInv
<1>3. /\ syncedCache \in Seq(Frame) /\ len \in Nat
      /\ next_slot = startIndex + len
      /\ syncedFileSize = len /\ syncedKept = len
      /\ syncedStable \in Seq(Frame)
      /\ AgreeUpTo(syncedCache, syncedStable, len)
      /\ InSequence(syncedStable, header)
  BY <1>1, SyncFacts
<1>4. m \in Nat /\ m <= len
  BY <1>2, <1>3 DEF write_at, overwrite
<1>5. DOMAIN entries = startIndex .. (startIndex + len - 1)
  BY <1>2 DEF EncodedFrom
<1> HIDE DEF len
<1>6. FrameOffset(i) = m
  <2>1. CASE i \in DOMAIN offsets
    BY <1>2, <2>1 DEF FrameOffset
  <2>2. CASE i \notin DOMAIN offsets
    <3>1. i = startIndex + len
      BY <1>2, <1>3, <1>4, <1>5, <2>2
    <3> QED BY <1>2, <1>3, <2>2, <3>1 DEF FrameOffset
  <2> QED BY <2>1, <2>2
<1> HIDE DEF m
<1>7. /\ file \in Seq(Frame) /\ Len(file) = m
      /\ \A k \in 1 .. m : file[k] = syncedCache[k]
  <2>1. \A k \in 1 .. m : k <= len /\ syncedCache[k] \in Frame
    BY <1>3, <1>4 DEF len
  <2>2. file = [k \in 1 .. m |-> syncedCache[k]]
    BY <2>1 DEF Truncated, len
  <2> HIDE DEF file
  <2> QED BY <1>4, <2>1, <2>2
<1> HIDE DEF file
<1>8. /\ cache' = file /\ stable' = syncedStable
      /\ kept' = IF syncedKept < Len(file) THEN syncedKept ELSE Len(file)
      /\ entries' = Put(Below(entries, i), i, e)
      /\ offsets' = Put(Below(offsets, i), i, m)
      /\ durable' = i - 1 /\ fileSize' = m
      /\ pending' = <<frame>> /\ pendingStart' = i
      /\ UNCHANGED <<startIndex, format, header, status, promised>>
  BY <1>6 DEF write_at, overwrite, Succeed, file
<1>9. kept' = m
  BY <1>3, <1>4, <1>7, <1>8
<1>10. AgreeUpTo(cache', stable', kept')
  BY <1>3, <1>4, <1>7, <1>8, <1>9 DEF AgreeUpTo, len
<1>11. frame \in Frame
  BY DEF encode_entry, Frame
<1> HIDE DEF frame
<1>12. /\ pending' \in Seq(Frame) /\ Len(pending') = 1 /\ pending'[1] = frame
       /\ pending' # <<>>
  BY <1>8, <1>11
<1>13. IsPartial(Below(entries, i), Entry) /\ IsPartial(Below(offsets, i), Nat)
  BY Zenon, <1>2, <1>4, PartialPut
<1>14. IsPartial(entries', Entry) /\ IsPartial(offsets', Nat)
  BY <1>4, <1>8, <1>13, PartialPut
<1>15. durable' \in Nat /\ durable' = startIndex + m - 1
  BY <1>2, <1>4, <1>8 DEF m
<1>16. TypeOK'
  BY <1>1, <1>3, <1>4, <1>7, <1>8, <1>9, <1>12, <1>14, <1>15 DEF TypeOK
<1>17. DOMAIN entries' = startIndex .. (startIndex + (m + 1) - 1)
  BY <1>2, <1>4, <1>3, <1>5, <1>8 DEF Put, Below, m
<1>18. offsets' = [j \in DOMAIN entries' |-> j - startIndex]
  BY <1>2, <1>8 DEF Put, Below, m
<1>19. EncodedFrom(syncedCache', startIndex', entries')
  <2>1. syncedCache' = file \o pending'
    BY <1>8 DEF syncedCache
  <2>2. /\ Len(syncedCache') = m + 1
        /\ \A k \in 1 .. m : syncedCache'[k] = file[k]
        /\ syncedCache'[m + 1] = frame
    <3>1. /\ Len(file \o pending') = Len(file) + Len(pending')
          /\ \A k \in 1 .. Len(file) : (file \o pending')[k] = file[k]
          /\ \A k \in 1 .. Len(pending') :
                (file \o pending')[Len(file) + k] = pending'[k]
      BY Zenon, <1>7, <1>12, ConcatFacts
    <3>2. 1 \in 1 .. 1
      OBVIOUS
    <3> QED BY <1>7, <1>12, <2>1, <3>1, <3>2
  <2>3. ASSUME NEW k \in 1 .. (m + 1)
        PROVE  syncedCache'[k]
                  = encode_entry(startIndex + k - 1, entries'[startIndex + k - 1])
    <3>1. CASE k = m + 1
      <4>1. startIndex + k - 1 = i
        BY <1>2, <1>4, <3>1 DEF m
      <4>2. entries'[i] = e
        BY <1>8 DEF Put
      <4> QED BY <2>2, <3>1, <4>1, <4>2 DEF frame
    <3>2. CASE k \in 1 .. m
      <4>1. syncedCache'[k] = syncedCache[k]
        BY <1>7, <2>2, <3>2
      <4>2. k \in 1 .. len /\ startIndex + k - 1 < i
            /\ startIndex + k - 1 \in DOMAIN entries
        BY <1>2, <1>3, <1>4, <1>5, <3>2 DEF m
      <4>3. syncedCache[k]
                = encode_entry(startIndex + k - 1, entries[startIndex + k - 1])
        BY <1>2, <4>2 DEF EncodedFrom, len
      <4>4. entries'[startIndex + k - 1] = entries[startIndex + k - 1]
        BY <1>2, <1>8, <4>2 DEF Put, Below
      <4> QED BY <4>1, <4>3, <4>4
    <3> QED BY <1>4, <3>1, <3>2
  <2> QED BY <1>8, <1>17, <2>2, <2>3 DEF EncodedFrom
<1>20. pendingStart' = startIndex + m
  BY <1>2, <1>8 DEF m
<1>21. UpInv'
  BY <1>2, <1>3, <1>7, <1>8, <1>9, <1>10, <1>12, <1>15, <1>18, <1>19, <1>20
     DEF UpInv
<1> QED BY <1>1, <1>8, <1>16, <1>21 DEF StoreInv

-----------------------------------------------------------------------------
(* Storage errors and the end of the process *)

\* The pending frames were synced before the process ended
LEMMA SyncedDown ==
    ASSUME StoreInv, status = "up", SyncDisk,
           NEW d \in {durable, syncedDurable},
           GoDown(Claim(startIndex, entries, d))
    PROVE  StoreInv'
<1> DEFINE len == Len(syncedCache)
<1>1. UpInv /\ TypeOK
  BY DEF StoreInv
<1>2. /\ startIndex \in Nat /\ startIndex >= 1 /\ header = startIndex
      /\ IsPartial(entries, Entry) /\ format = "wal"
      /\ EncodedFrom(syncedCache, startIndex, entries)
      /\ durable = startIndex + Len(cache) - 1
      /\ Len(cache) \in Nat /\ Len(pending) \in Nat
  BY <1>1 DEF TypeOK, UpInv
<1>3. /\ syncedCache \in Seq(Frame) /\ len \in Nat
      /\ len = Len(cache) + Len(pending)
      /\ syncedDurable = startIndex + len - 1 /\ syncedKept = len
      /\ syncedStable \in Seq(Frame)
      /\ AgreeUpTo(syncedCache, syncedStable, syncedKept)
      /\ InSequence(syncedStable, header) /\ InSequence(syncedCache, header)
  BY SyncFacts
<1>4. /\ cache' = syncedCache /\ stable' = syncedStable /\ kept' = syncedKept
      /\ format' = format /\ header' = header
  BY DEF SyncDisk
<1>5. /\ DOMAIN entries = startIndex .. (startIndex + len - 1)
      /\ \A k \in 1 .. len : syncedCache[k]
            = encode_entry(startIndex + k - 1, entries[startIndex + k - 1])
  BY <1>2 DEF EncodedFrom
<1> HIDE DEF len
<1>6. d \in Nat /\ startIndex - 1 <= d /\ d <= startIndex + len - 1
  BY <1>2, <1>3
<1>7. d - startIndex + 1 <= kept'
  BY <1>2, <1>3, <1>4, <1>6
<1>8. \A k \in 1 .. (d - startIndex + 1) : cache'[k]
            = encode_entry(startIndex + k - 1, entries[startIndex + k - 1])
  BY <1>2, <1>3, <1>4, <1>5, <1>6
<1>9. /\ cache' \in Seq(Frame) /\ stable' \in Seq(Frame) /\ kept' \in Nat
      /\ AgreeUpTo(cache', stable', kept')
      /\ InSequence(cache', startIndex) /\ InSequence(stable', startIndex)
      /\ format' = "wal" /\ header' = startIndex
  BY <1>2, <1>3, <1>4
<1> QED BY Zenon, <1>2, <1>3, <1>5, <1>6, <1>7, <1>8, <1>9, GoDownStep

\* The process ended after the new file was renamed into place
LEMMA RenamedDown ==
    ASSUME StoreInv, status = "up", NEW start \in Nat, start >= 1,
           NEW n \in Nat, NEW es, IsPartial(es, Entry),
           DOMAIN es = start .. (start + n - 1),
           GoDown(Claim(start, es, NextIndex(es, start) - 1)),
           header' = start, cache' = encode_all(es), stable' = cache',
           kept' = Len(cache'), format' = format
    PROVE  StoreInv'
<1> DEFINE fs == encode_all(es)
<1>1. fs \in Seq(Frame) /\ Len(fs) = n /\ EncodedFrom(fs, start, es)
  BY Zenon, EncodeAll
<1>2. NextIndex(es, start) - 1 = start + n - 1
  BY IntervalBounds
<1>3. format = "wal"
  BY DEF StoreInv, UpInv
<1> HIDE DEF fs
<1>4. cache' = fs /\ stable' = fs /\ kept' = n
  BY <1>1 DEF fs
<1>5. InSequence(fs, start)
  BY <1>1, EncodedInSequence
<1>6. AgreeUpTo(fs, fs, n)
  BY <1>1 DEF AgreeUpTo
<1> DEFINE d == start + n - 1
<1>7. d \in Nat /\ d - start + 1 = n /\ start - 1 <= d /\ d <= start + n - 1
  OBVIOUS
<1>8. \A k \in 1 .. n : fs[k] = encode_entry(start + k - 1, es[start + k - 1])
  BY <1>1 DEF EncodedFrom
<1>9. GoDown(Claim(start, es, d))
  BY <1>2
<1> HIDE DEF d
<1>10. \A k \in 1 .. (d - start + 1) :
          cache'[k] = encode_entry(start + k - 1, es[start + k - 1])
  BY <1>4, <1>7, <1>8
<1>11. d - start + 1 <= kept'
  BY <1>4, <1>7
<1> QED BY Zenon, <1>1, <1>3, <1>4, <1>5, <1>6, <1>7, <1>9, <1>10, <1>11, GoDownStep

\* rewrite_locked threw, before or after the rename
LEMMA RewriteFailsStep ==
    ASSUME StoreInv, FailStop, status = "up", NEW start \in Nat, start >= 1,
           NEW n \in Nat, NEW es, IsPartial(es, Entry),
           DOMAIN es = start .. (start + n - 1),
           NEW renamed \in BOOLEAN, rewriteFails(start, es, renamed)
    PROVE  StoreInv'
<1>1. CASE renamed
  <2>1. /\ GoDown(Claim(start, es, NextIndex(es, start) - 1))
        /\ header' = start /\ cache' = encode_all(es) /\ stable' = cache'
        /\ kept' = Len(cache') /\ format' = format
    BY <1>1 DEF rewriteFails, Throw
  <2> QED BY <2>1, RenamedDown
<1>2. CASE ~renamed
  <2>1. GoDown(Claim(startIndex, entries, syncedDurable)) /\ SyncDisk
    BY <1>2 DEF rewriteFails, Throw
  <2> QED BY <2>1, SyncedDown
<1> QED BY <1>1, <1>2

\* What a write that was cut short leaves is in sequence where it can be read
LEMMA WrittenFacts ==
    ASSUME StoreInv, status = "up", NEW n \in 0 .. Len(pending),
           NEW piece \in BOOLEAN
    PROVE  /\ cache \o Written(n, piece) \in Seq(Frame)
           /\ Len(cache) <= Len(cache \o Written(n, piece))
           /\ \A k \in 1 .. Len(cache) : (cache \o Written(n, piece))[k] = cache[k]
           /\ InSequence(cache \o Written(n, piece), startIndex)
<1> DEFINE sub == SubSeq(pending, 1, n)
           tail == IF piece /\ n < Len(pending) THEN <<Torn(pending[n + 1])>>
                   ELSE <<>>
           w == Written(n, piece)
<1>1. UpInv /\ TypeOK
  BY DEF StoreInv
<1>2. /\ cache \in Seq(Frame) /\ pending \in Seq(Frame)
      /\ Len(cache) \in Nat /\ Len(pending) \in Nat /\ n \in Nat
      /\ startIndex \in Nat /\ header = startIndex
  BY <1>1 DEF TypeOK, UpInv
<1>3. /\ sub \in Seq(Frame) /\ Len(sub) = n
      /\ \A k \in 1 .. n : sub[k] = pending[k]
  BY <1>2
<1>4. /\ tail \in Seq(Frame)
      /\ \A k \in 1 .. Len(tail) : ~tail[k].whole
  <2>1. CASE piece /\ n < Len(pending)
    <3>1. pending[n + 1] \in Frame
      BY <1>2, <2>1
    <3>2. Torn(pending[n + 1]) \in Frame /\ ~Torn(pending[n + 1]).whole
      BY Zenon, <3>1 DEF Torn, Frame
    <3> HIDE DEF Torn
    <3> QED BY <2>1, <3>2
  <2>2. CASE ~(piece /\ n < Len(pending))
    BY <2>2
  <2> QED BY <2>1, <2>2
<1>5. w = sub \o tail
  BY DEF Written
<1> HIDE DEF sub, tail, w
<1>6. /\ w \in Seq(Frame) /\ Len(w) = n + Len(tail) /\ Len(tail) \in Nat
      /\ \A k \in 1 .. n : w[k] = pending[k]
      /\ \A k \in 1 .. Len(tail) : w[n + k] = tail[k]
  <2>1. /\ sub \o tail \in Seq(Frame)
        /\ Len(sub \o tail) = Len(sub) + Len(tail)
        /\ \A k \in 1 .. Len(sub) : (sub \o tail)[k] = sub[k]
        /\ \A k \in 1 .. Len(tail) : (sub \o tail)[Len(sub) + k] = tail[k]
    BY <1>3, <1>4, ConcatFacts
  <2>2. Len(tail) \in Nat
    BY <1>4
  <2> QED BY <1>3, <1>5, <2>1, <2>2
<1>7. /\ cache \o w \in Seq(Frame)
      /\ Len(cache \o w) = Len(cache) + Len(w)
      /\ \A k \in 1 .. Len(cache) : (cache \o w)[k] = cache[k]
      /\ \A k \in 1 .. Len(w) : (cache \o w)[Len(cache) + k] = w[k]
  BY Zenon, <1>2, <1>6, ConcatFacts
<1>8. /\ InSequence(syncedCache, header)
      /\ Len(syncedCache) = Len(cache) + Len(pending)
      /\ \A k \in 1 .. Len(cache) : syncedCache[k] = cache[k]
      /\ \A k \in 1 .. Len(pending) : syncedCache[Len(cache) + k] = pending[k]
  BY SyncFacts
<1>9. ASSUME NEW k \in 1 .. Len(cache \o w), (cache \o w)[k].whole
      PROVE  (cache \o w)[k].index = startIndex + k - 1
  <2>1. CASE k \in 1 .. Len(cache) + n
    <3>1. (cache \o w)[k] = syncedCache[k] /\ k \in 1 .. Len(syncedCache)
      <4>1. CASE k \in 1 .. Len(cache)
        BY <1>2, <1>7, <1>8, <4>1
      <4>2. CASE k \in (Len(cache) + 1) .. (Len(cache) + n)
        <5> DEFINE j == k - Len(cache)
        <5>1. /\ j \in 1 .. n /\ j \in 1 .. Len(w) /\ j \in 1 .. Len(pending)
              /\ k = Len(cache) + j
          BY <1>2, <1>6, <4>2
        <5> HIDE DEF j
        <5>2. k \in 1 .. Len(syncedCache)
          BY <1>2, <1>8, <4>2
        <5> QED BY <1>6, <1>7, <1>8, <5>1, <5>2
      <4> QED BY <1>2, <2>1, <4>1, <4>2
    <3> QED BY <1>2, <1>8, <1>9, <3>1 DEF InSequence
  <2>2. CASE k \in (Len(cache) + n + 1) .. (Len(cache) + Len(w))
    <3> DEFINE j == k - Len(cache) - n
    <3>1. /\ j \in 1 .. Len(tail) /\ n + j \in 1 .. Len(w)
          /\ k = Len(cache) + (n + j)
      BY <1>2, <1>6, <2>2
    <3> HIDE DEF j
    <3>2. (cache \o w)[k] = tail[j]
      BY <1>6, <1>7, <3>1
    <3> QED BY <1>4, <1>9, <3>1, <3>2
  <2> QED BY <1>2, <1>6, <1>7, <2>1, <2>2
<1>10. InSequence(cache \o w, startIndex)
  BY <1>9 DEF InSequence
<1>11. Len(cache) <= Len(cache \o w)
  BY <1>2, <1>6, <1>7
<1> QED BY <1>7, <1>10, <1>11 DEF w

\* The process ended in the middle of the write of the pending frames
LEMMA WrittenDown ==
    ASSUME StoreInv, status = "up", NEW n \in 0 .. Len(pending),
           NEW piece \in BOOLEAN, cache' = cache \o Written(n, piece),
           UNCHANGED <<format, header, stable, kept>>,
           GoDown(Claim(startIndex, entries, durable))
    PROVE  StoreInv'
<1> DEFINE len == Len(syncedCache)
<1>1. UpInv /\ TypeOK
  BY DEF StoreInv
<1>2. /\ startIndex \in Nat /\ startIndex >= 1 /\ header = startIndex
      /\ IsPartial(entries, Entry) /\ format = "wal"
      /\ EncodedFrom(syncedCache, startIndex, entries)
      /\ durable = startIndex + Len(cache) - 1
      /\ Len(cache) \in Nat /\ Len(pending) \in Nat
      /\ kept = Len(cache) /\ stable \in Seq(Frame)
      /\ AgreeUpTo(cache, stable, kept) /\ InSequence(stable, startIndex)
  BY <1>1 DEF TypeOK, UpInv
<1>3. /\ len = Len(cache) + Len(pending)
      /\ \A k \in 1 .. Len(cache) : syncedCache[k] = cache[k]
  BY SyncFacts
<1>4. /\ DOMAIN entries = startIndex .. (startIndex + len - 1)
      /\ \A k \in 1 .. len : syncedCache[k]
            = encode_entry(startIndex + k - 1, entries[startIndex + k - 1])
  BY <1>2 DEF EncodedFrom
<1> HIDE DEF len
<1>5. /\ cache' \in Seq(Frame) /\ Len(cache) <= Len(cache')
      /\ \A k \in 1 .. Len(cache) : cache'[k] = cache[k]
      /\ InSequence(cache', startIndex)
  BY WrittenFacts
<1>6. AgreeUpTo(cache', stable', kept')
  BY <1>2, <1>5 DEF AgreeUpTo
<1>7. durable - startIndex + 1 = Len(cache) /\ durable \in Nat /\ len \in Nat
      /\ startIndex - 1 <= durable /\ durable <= startIndex + len - 1
  BY <1>2, <1>3
<1>8. \A k \in 1 .. (durable - startIndex + 1) : cache'[k]
          = encode_entry(startIndex + k - 1, entries[startIndex + k - 1])
  <2> TAKE k \in 1 .. (durable - startIndex + 1)
  <2>1. k \in 1 .. Len(cache) /\ k \in 1 .. len
    BY <1>2, <1>3, <1>7
  <2> QED BY <1>3, <1>4, <1>5, <2>1
<1>9. /\ stable' \in Seq(Frame) /\ kept' \in Nat /\ format' = "wal"
      /\ header' = startIndex /\ InSequence(stable', startIndex)
      /\ durable - startIndex + 1 <= kept'
  BY <1>2, <1>7
<1> QED BY Zenon, <1>2, <1>4, <1>5, <1>6, <1>7, <1>8, <1>9, GoDownStep

-----------------------------------------------------------------------------
(* The machine: power loss and writeback *)

\* What a power loss leaves of unsynced frames: some of them, in their places,
\* whole or broken
LEMMA LostTailFacts ==
    ASSUME NEW u \in Seq(Frame), NEW t \in LostTails(u)
    PROVE  /\ t \in Seq(Frame)
           /\ Len(t) <= Len(u)
           /\ \A k \in 1 .. Len(t) : t[k].whole => t[k] = u[k]
<1>1. \A k \in 1 .. Len(u) :
          u[k] \in Frame /\ Torn(u[k]) \in Frame /\ ~Torn(u[k]).whole
  <2>1. \A f \in Frame : Torn(f) \in Frame /\ ~Torn(f).whole
    BY Zenon DEF Torn, Frame
  <2> QED BY <2>1
<1>2. Len(u) \in Nat
  OBVIOUS
<1>3. CASE \E k \in 0 .. Len(u) : t = SubSeq(u, 1, k)
  <2>1. PICK k \in 0 .. Len(u) : t = SubSeq(u, 1, k)
    BY <1>3
  <2>2. Len(t) = k /\ t \in Seq(Frame) /\ \A j \in 1 .. k : t[j] = u[j]
    BY <1>2, <2>1
  <2> QED BY <2>2
<1>4. CASE \E k \in 1 .. Len(u) : t = Append(SubSeq(u, 1, k - 1), Torn(u[k]))
  <2>1. PICK k \in 1 .. Len(u) : t = Append(SubSeq(u, 1, k - 1), Torn(u[k]))
    BY <1>4
  <2> DEFINE s == SubSeq(u, 1, k - 1)
             f == Torn(u[k])
  <2>2. s \in Seq(Frame) /\ Len(s) = k - 1 /\ \A j \in 1 .. (k - 1) : s[j] = u[j]
    BY <1>2
  <2>3. f \in Frame /\ ~f.whole
    BY <1>1
  <2> HIDE DEF s, f
  <2>4. t = Append(s, f)
    BY <2>1 DEF s, f
  <2>5. /\ t \in Seq(Frame) /\ Len(t) = k /\ t[k] = f
        /\ \A j \in 1 .. (k - 1) : t[j] = u[j]
    BY <1>2, <2>2, <2>3, <2>4
  <2> QED BY <1>2, <2>3, <2>5
<1>5. CASE \E n \in 0 .. Len(u) : \E T \in SUBSET (1 .. n) :
              t = [k \in 1 .. n |-> IF k \in T THEN Torn(u[k]) ELSE u[k]]
  <2>0. PICK n \in 0 .. Len(u) : \E T \in SUBSET (1 .. n) :
              t = [k \in 1 .. n |-> IF k \in T THEN Torn(u[k]) ELSE u[k]]
    BY <1>5
  <2>1. PICK T \in SUBSET (1 .. n) :
              t = [k \in 1 .. n |-> IF k \in T THEN Torn(u[k]) ELSE u[k]]
    BY <2>0
  <2>2. \A k \in 1 .. n : k \in 1 .. Len(u)
    BY <1>2
  <2>3. \A k \in 1 .. n : t[k] \in Frame /\ (t[k].whole => t[k] = u[k])
    BY <1>1, <2>1, <2>2
  <2>4. t \in Seq(Frame) /\ Len(t) = n
    BY <2>1, <2>3
  <2> QED BY <2>3, <2>4
<1> HIDE DEF Torn
<1>6. CASE OrderedWriteback
  BY <1>3, <1>4, <1>6 DEF LostTails
<1>7. CASE ~OrderedWriteback
  <2>1. \E n \in 0 .. Len(u) :
            t \in {[k \in 1 .. n |-> IF k \in T THEN Torn(u[k]) ELSE u[k]] :
                     T \in SUBSET (1 .. n)}
    BY <1>7 DEF LostTails
  <2> QED BY Zenon, <1>5, <2>1
<1> QED BY <1>6, <1>7

LEMMA CrashImageFacts ==
    ASSUME StoreInv, status # "up", NEW image \in CrashImages
    PROVE  /\ image \in Seq(Frame)
           /\ InSequence(image, header)
           /\ kept <= Len(image)
           /\ \A k \in 1 .. kept : image[k] = cache[k]
           /\ format # "wal" => image = cache
<1>1. DownInv /\ TypeOK
  BY DEF StoreInv
<1>2. /\ cache \in Seq(Frame) /\ stable \in Seq(Frame) /\ kept \in Nat
      /\ header \in Nat /\ Len(cache) \in Nat
      /\ AgreeUpTo(cache, stable, kept)
      /\ InSequence(cache, header) /\ InSequence(stable, header)
      /\ format # "wal" => stable = cache /\ kept = Len(cache)
      /\ kept <= Len(cache)
  BY <1>1 DEF DownInv, TypeOK, AgreeUpTo
<1>3. CASE image = stable
  BY <1>2, <1>3 DEF AgreeUpTo
<1>4. CASE image # stable
  <2> DEFINE s == SubSeq(cache, 1, kept)
             u == SubSeq(cache, kept + 1, Len(cache))
  <2>1. PICK t \in LostTails(u) : image = s \o t
    BY Zenon, <1>4 DEF CrashImages
  <2>2. /\ s \in Seq(Frame) /\ Len(s) = kept
        /\ \A k \in 1 .. kept : s[k] = cache[k]
    BY <1>2
  <2>3. /\ u \in Seq(Frame) /\ Len(u) = Len(cache) - kept
        /\ \A k \in 1 .. (Len(cache) - kept) : u[k] = cache[kept + k]
    BY <1>2
  <2> HIDE DEF s, u
  <2>4. /\ t \in Seq(Frame) /\ Len(t) <= Len(u) /\ Len(t) \in Nat
        /\ \A k \in 1 .. Len(t) : t[k].whole => t[k] = u[k]
    <3>1. /\ t \in Seq(Frame) /\ Len(t) <= Len(u)
          /\ \A k \in 1 .. Len(t) : t[k].whole => t[k] = u[k]
      BY <2>3, LostTailFacts
    <3> QED BY <3>1
  <2>5. /\ image \in Seq(Frame) /\ Len(image) = kept + Len(t)
        /\ \A k \in 1 .. kept : image[k] = s[k]
        /\ \A k \in 1 .. Len(t) : image[kept + k] = t[k]
    <3>1. /\ s \o t \in Seq(Frame) /\ Len(s \o t) = Len(s) + Len(t)
          /\ \A k \in 1 .. Len(s) : (s \o t)[k] = s[k]
          /\ \A k \in 1 .. Len(t) : (s \o t)[Len(s) + k] = t[k]
      BY Zenon, <2>2, <2>4, ConcatFacts
    <3> QED BY <2>1, <2>2, <3>1
  <2>6. InSequence(image, header)
    <3> SUFFICES ASSUME NEW k \in 1 .. Len(image), image[k].whole
                 PROVE  image[k].index = header + k - 1
      BY DEF InSequence
    <3>1. image[k] = cache[k] /\ k \in 1 .. Len(cache)
      <4>1. CASE k \in 1 .. kept
        BY <1>2, <2>2, <2>5, <4>1
      <4>2. CASE k \in (kept + 1) .. (kept + Len(t))
        <5> DEFINE j == k - kept
        <5>1. j \in 1 .. Len(t) /\ j \in 1 .. (Len(cache) - kept) /\ k = kept + j
          BY <1>2, <2>3, <2>4, <4>2
        <5> HIDE DEF j
        <5>2. k \in 1 .. Len(cache)
          BY <1>2, <2>3, <2>4, <4>2
        <5> QED BY <2>3, <2>4, <2>5, <5>1, <5>2
      <4> QED BY <1>2, <2>4, <2>5, <4>1, <4>2
    <3> QED BY <1>2, <3>1 DEF InSequence
  <2>7. ASSUME format # "wal" PROVE image = cache
    <3>1. kept = Len(cache) /\ Len(t) = 0
      BY <1>2, <2>3, <2>4, <2>7
    <3>2. Len(image) = Len(cache) /\ \A k \in 1 .. Len(cache) : image[k] = cache[k]
      BY <1>2, <2>2, <2>5, <3>1
    <3> QED BY <1>2, <2>5, <3>2
  <2> QED BY <1>2, <2>2, <2>4, <2>5, <2>6, <2>7
<1> QED BY <1>3, <1>4

\* The file is now what the power loss left, or what the kernel wrote back
LEMMA DiskStep ==
    ASSUME StoreInv, status = "down",
           NEW image \in Seq(Frame), InSequence(image, header),
           kept <= Len(image), \A k \in 1 .. kept : image[k] = cache[k],
           format # "wal" => image = cache,
           cache' = image, stable' = image, kept' = Len(image),
           UNCHANGED <<status, memory, format, header, promised>>
    PROVE  StoreInv'
<1>1. DownInv /\ TypeOK
  BY DEF StoreInv
<1>2. Len(image) \in Nat /\ kept \in Nat /\ header \in Nat /\ promised.durable \in Nat
  BY <1>1 DEF TypeOK
<1>3. TypeOK'
  BY <1>1, <1>2 DEF TypeOK, memory
<1>4. AgreeUpTo(cache', stable', kept')
  BY DEF AgreeUpTo
<1>5. Covered' = Covered /\ Covered \in 0 .. kept
  BY <1>1 DEF Covered, DownInv
<1>6. Covered' \in 0 .. kept'
  BY <1>2, <1>5
<1>7. \A k \in 1 .. Covered : image[k]
          = encode_entry(header + k - 1, promised.log[header + k - 1])
  BY <1>1, <1>2, <1>5 DEF DownInv
<1>8. DownInv'
  BY <1>1, <1>4, <1>5, <1>6, <1>7 DEF DownInv, memory
<1> QED BY <1>3, <1>8 DEF StoreInv

-----------------------------------------------------------------------------
(* Opening the store *)

\* The loader's stopping place exists: the first frame that cannot be read
LEMMA ValidFramesFacts ==
    ASSUME NEW fs \in Seq(Frame)
    PROVE  /\ ValidFrames(fs) \in 0 .. Len(fs)
           /\ \A k \in 1 .. ValidFrames(fs) : fs[k].whole
           /\ ValidFrames(fs) < Len(fs) => ~fs[ValidFrames(fs) + 1].whole
<1> DEFINE Stops(n) == /\ \A k \in 1 .. n : fs[k].whole
                       /\ n < Len(fs) => ~fs[n + 1].whole
<1>1. \E n \in 0 .. Len(fs) : Stops(n)
  <2>1. CASE \A k \in 1 .. Len(fs) : fs[k].whole
    <3>1. Stops(Len(fs)) /\ Len(fs) \in 0 .. Len(fs)
      BY <2>1
    <3> QED BY <3>1
  <2>2. CASE \E k \in 1 .. Len(fs) : ~fs[k].whole
    <3> DEFINE Broken == {k \in 1 .. Len(fs) : ~fs[k].whole}
               R == {ss \in Nat \X Nat : ss[1] < ss[2]}
    <3>0. IsWellFoundedOn(R, Nat)
      BY NatLessThanWellFounded DEF OpToRel
    <3>1. Broken # {} /\ Broken \subseteq Nat
      BY <2>2
    <3>2. PICK x \in Broken : \A y \in Broken : ~(<<y, x>> \in R)
      <4> HIDE DEF R, Broken
      <4> QED BY Zenon, <3>0, <3>1, WFMin
    <3>3. \A y \in Broken : ~(y < x)
      BY Zenon, <3>1, <3>2
    <3>4. Stops(x - 1) /\ x - 1 \in 0 .. Len(fs)
      <4>1. x \in 1 .. Len(fs) /\ ~fs[(x - 1) + 1].whole
        BY (x - 1) + 1 = x
      <4>2. ASSUME NEW k \in 1 .. (x - 1) PROVE fs[k].whole
        BY <3>3, <4>1
      <4> QED BY <4>1, <4>2
    <3> QED BY Zenon, <3>4
  <2> QED BY <2>1, <2>2
<1>2. ValidFrames(fs) = CHOOSE n \in 0 .. Len(fs) : Stops(n)
  BY DEF ValidFrames
<1>3. ValidFrames(fs) \in 0 .. Len(fs) /\ Stops(ValidFrames(fs))
  <2> HIDE DEF Stops
  <2> QED BY <1>1, <1>2
<1> QED BY <1>3

\* The store comes up with the first n frames of the file
LEMMA LoadedStep ==
    ASSUME StoreInv, status = "down", NEW n \in 0 .. Len(cache), Loaded(n),
           \A k \in 1 .. n : cache[k].whole,
           cache' \in Seq(Frame), Len(cache') = n,
           \A k \in 1 .. n : cache'[k] = cache[k],
           stable' = cache', kept' = n, format' = "wal", header' = header
    PROVE  StoreInv'
<1>1. DownInv /\ TypeOK
  BY DEF StoreInv
<1>2. /\ cache \in Seq(Frame) /\ header \in Nat /\ header >= 1 /\ n \in Nat
      /\ Len(cache) \in Nat
      /\ InSequence(cache, header) /\ pending = <<>> /\ pendingStart = 0
  BY <1>1 DEF DownInv, TypeOK
<1>3. /\ startIndex' = header /\ entries' = LoadedEntries(n)
      /\ offsets' = [i \in header .. (header + n - 1) |-> i - header]
      /\ durable' = header + n - 1 /\ fileSize' = n /\ status' = "up"
      /\ promised' = Unclaimed(header)
      /\ pending' = <<>> /\ pendingStart' = 0
  BY <1>2 DEF Loaded
<1>4. \A k \in 1 .. n : cache[k] \in Frame /\ cache[k].index = header + k - 1
  BY <1>2 DEF InSequence
<1>5. /\ DOMAIN entries' = header .. (header + n - 1)
      /\ \A k \in 1 .. n : entries'[header + k - 1] = cache[k].entry
  <2>1. DOMAIN entries' = header .. (header + n - 1)
    BY <1>3 DEF LoadedEntries
  <2>2. ASSUME NEW k \in 1 .. n
        PROVE  entries'[header + k - 1] = cache[k].entry
    <3>1. /\ header + k - 1 \in header .. (header + n - 1)
          /\ (header + k - 1) - header + 1 = k
      BY <1>2
    <3> QED BY <1>3, <3>1 DEF LoadedEntries
  <2> QED BY <2>1, <2>2
<1>6. IsPartial(entries', Entry)
  <2>1. \A i \in header .. (header + n - 1) :
            i \in Nat /\ i - header + 1 \in 1 .. n
    BY <1>2
  <2>2. \A i \in header .. (header + n - 1) : cache[i - header + 1].entry \in Entry
    BY <1>4, <2>1 DEF Frame
  <2> QED BY <1>3, <2>1, <2>2 DEF IsPartial, LoadedEntries
<1>7. IsPartial(offsets', Nat)
  BY <1>2, <1>3 DEF IsPartial
<1>8. promised' = [start |-> header, log |-> Below(Empty, (header - 1) + 1),
                   durable |-> header - 1]
  BY <1>3 DEF Unclaimed, Claim
<1>9. IsPartial(Below(Empty, (header - 1) + 1), Entry)
  BY DEF IsPartial, Below, Empty
<1>10. TypeOK'
  BY <1>1, <1>2, <1>3, <1>6, <1>7, <1>8, <1>9 DEF TypeOK
<1>11. syncedCache' = cache'
  <2>1. \A fs \in Seq(Frame) : fs \o <<>> = fs
    BY ConcatFacts
  <2> QED BY <1>3, <2>1 DEF syncedCache
<1>12. \A k \in 1 .. n : cache'[k]
          = encode_entry(header + k - 1, entries'[header + k - 1])
  <2>1. ASSUME NEW f \in Frame, f.whole PROVE f = encode_entry(f.index, f.entry)
    BY <2>1 DEF Frame, encode_entry
  <2> QED BY <1>4, <1>5, <2>1
<1>13. EncodedFrom(cache', header, entries')
  BY <1>5, <1>12 DEF EncodedFrom
<1>14. InSequence(cache', header)
  BY <1>2, <1>13, EncodedInSequence
<1>15. AgreeUpTo(cache', cache', n)
  BY DEF AgreeUpTo
<1>16. UpInv'
  BY <1>2, <1>3, <1>5, <1>11, <1>13, <1>14, <1>15 DEF UpInv
<1> QED BY <1>3, <1>10, <1>16 DEF StoreInv

\* Nothing that was promised is missing if the promised frames were read
LEMMA LoadedKeepsPromise ==
    ASSUME StoreInv, status = "down", NEW n \in Nat, Loaded(n), Covered <= n
    PROVE  PromiseKept
<1>1. DownInv /\ TypeOK
  BY DEF StoreInv
<1>2. /\ header \in Nat /\ promised.durable \in Nat
      /\ DOMAIN promised.log = header .. promised.durable
      /\ \A k \in 1 .. Covered : cache[k]
            = encode_entry(header + k - 1, promised.log[header + k - 1])
  BY <1>1 DEF TypeOK, DownInv
<1>3. entries' = LoadedEntries(n)
  BY DEF Loaded
<1> SUFFICES ASSUME NEW i \in DOMAIN promised.log
             PROVE  i \in DOMAIN entries' /\ entries'[i] = promised.log[i]
  BY DEF PromiseKept
<1> DEFINE k == i - header + 1
<1>4. /\ k \in 1 .. Covered /\ header + k - 1 = i
      /\ i \in header .. (header + n - 1)
  <2>1. i \in header .. promised.durable
    BY <1>2
  <2>2. Covered = promised.durable - header + 1
    BY DEF Covered
  <2>3. header \in Nat /\ promised.durable \in Nat
    BY <1>2
  <2> QED BY <2>1, <2>2, <2>3
<1>5. i \in DOMAIN entries' /\ entries'[i] = cache[k].entry
  BY <1>3, <1>4 DEF LoadedEntries
<1> HIDE DEF k
<1>6. cache[k] = encode_entry(i, promised.log[i])
  BY <1>2, <1>4
<1> QED BY <1>5, <1>6 DEF encode_entry

\* No frame of a store that is down is out of sequence
LEMMA DownInSequence ==
    ASSUME StoreInv, status # "up"
    PROVE  ~OutOfSequence(cache)
<1>1. cache \in Seq(Frame) /\ InSequence(cache, header)
  BY DEF StoreInv, DownInv, TypeOK
<1>2. /\ ValidFrames(cache) \in 0 .. Len(cache)
      /\ \A k \in 1 .. ValidFrames(cache) : cache[k].whole
  BY <1>1, ValidFramesFacts
<1>3. \A k \in 1 .. ValidFrames(cache) : k \in 1 .. Len(cache)
  BY <1>1, <1>2
<1> QED BY <1>1, <1>2, <1>3 DEF OutOfSequence, InSequence

LEMMA OpenStep ==
    ASSUME StoreInv, SyncedRestart, Open
    PROVE  StoreInv' /\ (status' = "up" => PromiseKept)
<1>1. DownInv /\ TypeOK /\ status = "down"
  BY DEF StoreInv, Open, load_wal, load_walFails, load_legacy, load_absent
<1>2. /\ cache \in Seq(Frame) /\ stable \in Seq(Frame) /\ kept \in Nat
      /\ Len(cache) \in Nat /\ kept <= Len(cache)
      /\ Covered \in 0 .. kept
      /\ format # "wal" => /\ stable = cache /\ kept = Len(cache)
                           /\ \A k \in 1 .. Len(cache) : cache[k].whole
                           /\ format = "absent" => cache = <<>>
  BY <1>1 DEF DownInv, TypeOK, AgreeUpTo
<1>3. \A k \in 1 .. Covered : cache[k].whole
  <2> TAKE k \in 1 .. Covered
  <2>1. cache[k] = encode_entry(header + k - 1, promised.log[header + k - 1])
    BY <1>1 DEF DownInv
  <2> QED BY <2>1 DEF encode_entry
<1>4. CASE load_wal
  <2> DEFINE n == ValidFrames(cache)
  <2>1. /\ n \in 0 .. Len(cache)
        /\ \A k \in 1 .. n : cache[k].whole
        /\ n < Len(cache) => ~cache[n + 1].whole
    BY <1>2, ValidFramesFacts
  <2>2. /\ Loaded(n) /\ format = "wal" /\ stable = cache /\ kept = Len(cache)
        /\ IF n # Len(cache)
           THEN /\ cache' = SubSeq(cache, 1, n)
                /\ stable' = cache'
                /\ kept' = n
                /\ UNCHANGED <<format, header>>
           ELSE UNCHANGED <<format, header, cache, stable, kept>>
    BY <1>4 DEF load_wal, MayRestart, disk
  <2> HIDE DEF n
  <2>3. Covered <= n
    <3> SUFFICES ASSUME n < Covered PROVE FALSE
      BY <1>2, <2>1
    <3>1. n + 1 \in 1 .. Covered /\ n < Len(cache)
      BY <1>2, <2>1
    <3> QED BY <1>3, <2>1, <3>1
  <2>4. /\ cache' \in Seq(Frame) /\ Len(cache') = n
        /\ \A k \in 1 .. n : cache'[k] = cache[k]
        /\ stable' = cache' /\ kept' = n /\ format' = "wal" /\ header' = header
    <3>1. CASE n # Len(cache)
      <4>1. /\ SubSeq(cache, 1, n) \in Seq(Frame) /\ Len(SubSeq(cache, 1, n)) = n
            /\ \A k \in 1 .. n : SubSeq(cache, 1, n)[k] = cache[k]
        BY <1>2, <2>1
      <4> QED BY <2>2, <3>1, <4>1
    <3>2. CASE n = Len(cache)
      BY <1>2, <2>2, <3>2
    <3> QED BY <3>1, <3>2
  <2>5. StoreInv'
    BY <1>1, <2>1, <2>2, <2>4, LoadedStep
  <2>6. n \in Nat
    BY <1>2, <2>1
  <2>7. PromiseKept
    BY <1>1, <2>2, <2>3, <2>6, LoadedKeepsPromise
  <2> QED BY <2>5, <2>7
<1>5. CASE load_walFails
  BY <1>1, <1>2, <1>5, DownInSequence DEF load_walFails, StoreInv, TypeOK, DownInv,
     memory, disk, Covered
<1>6. CASE load_legacy
  <2>1. /\ Loaded(Len(cache)) /\ format = "legacy" /\ format' = "wal"
        /\ stable' = cache /\ kept' = Len(cache) /\ header' = header /\ cache' = cache
    BY <1>6 DEF load_legacy
  <2>2. Len(cache) \in 0 .. Len(cache) /\ Covered <= Len(cache)
    BY <1>2
  <2>3. StoreInv'
    BY <1>1, <1>2, <2>1, <2>2, LoadedStep
  <2>4. PromiseKept
    BY <1>1, <1>2, <2>1, <2>2, LoadedKeepsPromise
  <2> QED BY <2>3, <2>4
<1>7. CASE load_absent
  <2>1. /\ Loaded(0) /\ format = "absent" /\ format' = "wal"
        /\ UNCHANGED <<header, cache, stable, kept>>
    BY <1>7 DEF load_absent
  <2>2. /\ Len(cache) = 0 /\ stable = cache /\ kept = 0 /\ Covered <= 0
        /\ 0 \in 0 .. Len(cache)
    BY <1>2, <2>1
  <2>3. StoreInv'
    BY <1>1, <1>2, <2>1, <2>2, LoadedStep
  <2>4. PromiseKept
    BY <1>1, <2>1, <2>2, LoadedKeepsPromise
  <2> QED BY <2>3, <2>4
<1> QED BY <1>4, <1>5, <1>6, <1>7 DEF Open

-----------------------------------------------------------------------------
(* The invariant is inductive *)

LEMMA InitStore ==
    ASSUME Init
    PROVE  StoreInv
<1>1. /\ header \in Nat /\ header >= 1 /\ cache \in Seq(Frame)
      /\ \A k \in 1 .. Len(cache) : cache[k].whole /\ cache[k].index = header + k - 1
      /\ format \in {"absent", "legacy"} /\ (format = "absent" => cache = <<>>)
  <2>1. CASE format = "absent" /\ header = 1 /\ cache = <<>>
    BY <2>1
  <2>2. CASE /\ format = "legacy" /\ header \in {1, 2}
             /\ \E e \in Entry : cache = <<encode_entry(header, e)>>
    <3>1. PICK e \in Entry : cache = <<encode_entry(header, e)>>
      BY <2>2
    <3> DEFINE f == encode_entry(header, e)
    <3>2. f \in Frame /\ f.whole /\ f.index = header
      BY <2>2 DEF encode_entry, Frame
    <3> HIDE DEF f
    <3>3. cache = <<f>>
      BY <3>1 DEF f
    <3> QED BY <2>2, <3>2, <3>3
  <2> QED BY <2>1, <2>2 DEF Init
<1>2. /\ status = "down" /\ startIndex = 1 /\ entries = Empty /\ offsets = Empty
      /\ pending = <<>> /\ pendingStart = 0 /\ durable = 0 /\ fileSize = 0
      /\ stable = cache /\ kept = Len(cache) /\ promised = Unclaimed(header)
  BY DEF Init
<1>3. promised = [start |-> header, log |-> Below(Empty, (header - 1) + 1),
                  durable |-> header - 1]
  BY <1>2 DEF Unclaimed, Claim
<1>4. /\ IsPartial(Below(Empty, (header - 1) + 1), Entry)
      /\ DOMAIN Below(Empty, (header - 1) + 1) = {}
      /\ IsPartial(Empty, Entry) /\ IsPartial(Empty, Nat)
  BY DEF IsPartial, Below, Empty
<1>5. TypeOK
  BY <1>1, <1>2, <1>3, <1>4 DEF TypeOK
<1>6. Covered = 0 /\ header .. promised.durable = {}
  BY <1>1, <1>3 DEF Covered
<1>7. AgreeUpTo(cache, stable, kept) /\ InSequence(cache, header)
  BY <1>1, <1>2 DEF AgreeUpTo, InSequence
<1>8. DownInv
  BY <1>1, <1>2, <1>3, <1>4, <1>6, <1>7 DEF DownInv
<1> QED BY <1>2, <1>5, <1>8 DEF StoreInv

LEMMA NextStore ==
    ASSUME StoreInv, FailStop, SyncedRestart, [Next]_vars
    PROVE  StoreInv' /\ (status = "down" /\ status' = "up" => PromiseKept)
<1> USE ConstantsAssumption
<1>0. status = "up" => pending \in Seq(Frame) /\ Len(pending) \in Nat
  BY DEF StoreInv, TypeOK
<1>1. CASE UNCHANGED vars
  <2>1. StoreInv'
    BY <1>1 DEF StoreInv, TypeOK, UpInv, DownInv, Covered, syncedCache, vars,
       memory, disk
  <2> QED BY <1>1, <2>1 DEF vars
<1>2. ASSUME NEW e \in Entry, append(e)
      PROVE  StoreInv' /\ status = "up"
  BY <1>2, AppendStep DEF append, Running
<1>3. ASSUME NEW i \in 1 .. MaxIndex, NEW e \in Entry, write_at(i, e)
      PROVE  StoreInv' /\ status = "up"
  <2>1. i \in Nat
    OBVIOUS
  <2> QED BY <1>3, <2>1, WriteAtStep DEF write_at, overwrite, Running
<1>4. ASSUME NEW start \in 1 .. MaxIndex, NEW count \in 0 .. MaxIndex,
             end_of_append_batch(start, count)
      PROVE  StoreInv' /\ status = "up"
  <2>1. start \in Nat /\ count \in Nat
    OBVIOUS
  <2>2. status = "up"
    BY <1>4 DEF end_of_append_batch, Running
  <2> QED BY <1>4, <2>1, <2>2, SyncStep
<1>5. ASSUME flush
      PROVE  StoreInv' /\ status = "up"
  BY <1>5, SyncStep DEF flush, Running
<1>6. ASSUME NEW last \in 0 .. MaxIndex, compact(last)
      PROVE  StoreInv' /\ status = "up"
  <2>1. last \in Nat
    OBVIOUS
  <2> QED BY <1>6, <2>1, CompactStep DEF compact, Running
<1>7. ASSUME NEW i \in 1 .. MaxIndex, NEW pack \in Packs, apply_pack(i, pack)
      PROVE  StoreInv' /\ status = "up"
  <2>1. PICK m \in 0 .. MaxPack : pack \in [1 .. m -> Entry]
    BY DEF Packs
  <2>2. i \in Nat /\ i >= 1 /\ m \in Nat
    OBVIOUS
  <2>3. status = "up"
    BY <1>7 DEF apply_pack, Running
  <2> QED BY <1>7, <2>1, <2>2, <2>3, ApplyPackStep
<1>8. ASSUME NEW last \in 0 .. MaxIndex, NEW renamed \in BOOLEAN,
             compactFails(last, renamed)
      PROVE  StoreInv' /\ status = "up"
  <2>1. last \in Nat
    OBVIOUS
  <2>2. /\ status = "up"
        /\ rewriteFails(compactedStart(last), compacted(last), renamed)
    BY <1>8 DEF compactFails, Running
  <2>3. /\ compactedStart(last) \in Nat /\ compactedStart(last) >= 1
        /\ IsPartial(compacted(last), Entry)
    BY <2>1, <2>2, CompactedShape
  <2>4. PICK n \in Nat : DOMAIN compacted(last) =
            compactedStart(last) .. (compactedStart(last) + n - 1)
    BY <2>1, <2>2, CompactedShape
  <2> QED BY <2>2, <2>3, <2>4, RewriteFailsStep
<1>9. ASSUME NEW i \in 1 .. MaxIndex, NEW pack \in Packs, NEW renamed \in BOOLEAN,
             apply_packFails(i, pack, renamed)
      PROVE  StoreInv' /\ status = "up"
  <2>1. PICK m \in 0 .. MaxPack : pack \in [1 .. m -> Entry]
    BY DEF Packs
  <2>2. i \in Nat /\ i >= 1 /\ m \in Nat
    OBVIOUS
  <2>3. /\ status = "up" /\ i <= next_slot
        /\ rewriteFails(packedStart(i, pack), packed(i, pack), renamed)
    BY <1>9 DEF apply_packFails, Running
  <2>4. /\ packedStart(i, pack) \in Nat /\ packedStart(i, pack) >= 1
        /\ IsPartial(packed(i, pack), Entry)
    BY <2>1, <2>2, <2>3, PackedShape
  <2>5. PICK n \in Nat : DOMAIN packed(i, pack) =
            packedStart(i, pack) .. (packedStart(i, pack) + n - 1)
    BY <2>1, <2>2, <2>3, PackedShape
  <2> QED BY <2>3, <2>4, <2>5, RewriteFailsStep
<1>10. ASSUME NEW n \in 0 .. MaxIndex, NEW piece \in BOOLEAN,
              sync_pendingFails(n, piece) \/ Kill(n, piece)
       PROVE  StoreInv' /\ status = "up"
  <2>1. /\ status = "up" /\ n <= Len(pending)
        /\ cache' = cache \o Written(n, piece)
        /\ UNCHANGED <<format, header, stable, kept>>
        /\ GoDown(Claim(startIndex, entries, durable))
    BY <1>10 DEF sync_pendingFails, Kill, Throw, Running
  <2>2. n \in 0 .. Len(pending)
    BY <1>0, <2>1
  <2> QED BY <2>1, <2>2, WrittenDown
<1>11. ASSUME truncateFails \/ destroy
       PROVE  StoreInv' /\ status = "up"
  <2>1. /\ status = "up" /\ SyncDisk
        /\ \/ GoDown(Claim(startIndex, entries, syncedDurable))
           \/ GoDown(Claim(startIndex, entries, durable))
    BY <1>11 DEF truncateFails, destroy, Throw, Running
  <2> QED BY <2>1, SyncedDown
<1>12. ASSUME NEW image \in CrashImages, PowerLoss(image)
       PROVE  StoreInv' /\ status' = "down"
  <2>1. /\ status = "down" /\ cache' = image /\ stable' = image
        /\ kept' = Len(image)
        /\ UNCHANGED <<status, memory, format, header, promised>>
    BY <1>12 DEF PowerLoss
  <2>2. /\ image \in Seq(Frame) /\ InSequence(image, header)
        /\ kept <= Len(image) /\ \A k \in 1 .. kept : image[k] = cache[k]
        /\ format # "wal" => image = cache
    BY <2>1, CrashImageFacts
  <2> QED BY <2>1, <2>2, DiskStep
<1>13. ASSUME Writeback
       PROVE  StoreInv' /\ status' = "down"
  <2>1. /\ status = "down" /\ cache' = cache /\ stable' = cache
        /\ kept' = Len(cache)
        /\ UNCHANGED <<status, memory, format, header, promised>>
    BY <1>13 DEF Writeback
  <2>2. cache \in Seq(Frame) /\ InSequence(cache, header) /\ kept <= Len(cache)
    BY <2>1 DEF StoreInv, TypeOK, DownInv, AgreeUpTo
  <2> QED BY <2>1, <2>2, DiskStep
<1>14. ASSUME Open
       PROVE  StoreInv' /\ (status' = "up" => PromiseKept)
  BY <1>14, OpenStep
<1> QED BY <1>1, <1>2, <1>3, <1>4, <1>5, <1>6, <1>7, <1>8, <1>9, <1>10, <1>11,
           <1>12, <1>13, <1>14 DEF Next

-----------------------------------------------------------------------------
(* The theorems *)

\* The invariant holds in every state of a store whose process ends at its first
\* storage error and is restarted after writeback.
THEOREM StoreCorrect ==
    ASSUME FailStop, SyncedRestart
    PROVE  Spec => []StoreInv
<1>1. Init => StoreInv
  BY InitStore
<1>2. StoreInv /\ [Next]_vars => StoreInv'
  BY NextStore
<1> QED BY <1>1, <1>2, PTL DEF Spec

\* Type correctness of FileLogStore: in particular durable_index_ never falls
\* below zero and every offset is a position.
THEOREM StoreTypeCorrect ==
    ASSUME FailStop, SyncedRestart
    PROVE  Spec => []TypeOK
<1>1. StoreInv => TypeOK
  BY DEF StoreInv
<1> QED BY <1>1, StoreCorrect, PTL

\* queue_entry_locked never throws: pending_ is always the end of the log.
THEOREM PendingCorrect ==
    ASSUME FailStop, SyncedRestart
    PROVE  Spec => []PendingIsTail
<1>1. StoreInv => PendingIsTail
  <2> SUFFICES ASSUME StoreInv, status = "up", pending # <<>>
               PROVE  /\ pendingStart + Len(pending) = next_slot
                      /\ \A k \in 1 .. Len(pending) :
                            pending[k] = encode_entry(pendingStart + k - 1,
                                            entries[pendingStart + k - 1])
    BY DEF PendingIsTail
  <2>1. /\ startIndex \in Nat /\ Len(cache) \in Nat /\ Len(pending) \in Nat
        /\ pendingStart = startIndex + Len(cache)
        /\ EncodedFrom(syncedCache, startIndex, entries)
    BY DEF StoreInv, TypeOK, UpInv
  <2>2. /\ Len(syncedCache) = Len(cache) + Len(pending)
        /\ \A k \in 1 .. Len(pending) : syncedCache[Len(cache) + k] = pending[k]
        /\ next_slot = startIndex + Len(syncedCache)
    BY SyncFacts
  <2>3. ASSUME NEW k \in 1 .. Len(pending)
        PROVE  pending[k] = encode_entry(pendingStart + k - 1,
                                         entries[pendingStart + k - 1])
    <3> DEFINE j == Len(cache) + k
    <3>1. j \in 1 .. Len(syncedCache) /\ startIndex + j - 1 = pendingStart + k - 1
      BY <2>1, <2>2
    <3>2. syncedCache[j] = encode_entry(startIndex + j - 1, entries[startIndex + j - 1])
      <4> HIDE DEF j
      <4> QED BY <2>1, <3>1 DEF EncodedFrom
    <3> QED BY <2>2, <3>1, <3>2
  <2> QED BY <2>1, <2>2, <2>3
<1> QED BY <1>1, StoreCorrect, PTL

\* The log never has a hole: log_entries over its whole range succeeds.
THEOREM HolesCorrect ==
    ASSUME FailStop, SyncedRestart
    PROVE  Spec => []NoHoles
<1>1. StoreInv => NoHoles
  <2> SUFFICES ASSUME StoreInv, status = "up"
               PROVE  log_entries(startIndex, next_slot) # {}
    BY DEF NoHoles
  <2>1. /\ startIndex \in Nat
        /\ DOMAIN entries = startIndex .. (startIndex + Len(syncedCache) - 1)
    BY DEF StoreInv, TypeOK, UpInv, EncodedFrom
  <2>2. next_slot = startIndex + Len(syncedCache) /\ Len(syncedCache) \in Nat
    BY SyncFacts
  <2>3. /\ startIndex <= next_slot
        /\ startIndex .. (next_slot - 1) \subseteq DOMAIN entries
    BY <2>1, <2>2
  <2> QED BY Zenon, <2>3 DEF log_entries
<1> QED BY <1>1, StoreCorrect, PTL

\* offsets_ and file_size_ always describe the file, so write_at truncates at the
\* start of the right frame.
THEOREM OffsetsCorrect ==
    ASSUME FailStop, SyncedRestart
    PROVE  Spec => []OffsetsMatchFile
<1>1. StoreInv => OffsetsMatchFile
  <2> SUFFICES ASSUME StoreInv, status = "up" PROVE OffsetsMatchFile
    BY DEF OffsetsMatchFile
  <2>1. /\ startIndex \in Nat /\ header = startIndex /\ fileSize = Len(cache)
        /\ offsets = [i \in DOMAIN entries |-> i - startIndex]
        /\ EncodedFrom(syncedCache, startIndex, entries)
    BY DEF StoreInv, TypeOK, UpInv
  <2>2. Len(syncedCache) \in Nat
    BY SyncFacts
  <2>3. ASSUME NEW i \in DOMAIN entries
        PROVE  /\ offsets[i] < Len(syncedCache)
               /\ syncedCache[offsets[i] + 1] = encode_entry(i, entries[i])
    <3>1. i \in startIndex .. (startIndex + Len(syncedCache) - 1)
      BY <2>1 DEF EncodedFrom
    <3> DEFINE k == i - startIndex + 1
    <3>2. k \in 1 .. Len(syncedCache) /\ startIndex + k - 1 = i
      BY <2>1, <2>2, <3>1
    <3>3. offsets[i] + 1 = k /\ offsets[i] < Len(syncedCache)
      BY <2>1, <2>2, <3>1
    <3> HIDE DEF k
    <3> QED BY <2>1, <3>2, <3>3 DEF EncodedFrom
  <2> QED BY <2>1, <2>3 DEF OffsetsMatchFile
<1> QED BY <1>1, StoreCorrect, PTL

\* load_wal_locked never finds an entry out of sequence in a file of the store,
\* whatever part of the unsynced frames a power loss has kept.
THEOREM SequenceCorrect ==
    ASSUME FailStop, SyncedRestart
    PROVE  Spec => []FramesInSequence
<1>1. StoreInv => FramesInSequence
  BY DownInSequence DEF FramesInSequence
<1> QED BY <1>1, StoreCorrect, PTL

\* Durability: what last_durable_index() covered when the process ended is in the
\* log, with the same entries, whenever the store opens again.
THEOREM DurabilityCorrect ==
    ASSUME FailStop, SyncedRestart
    PROVE  Spec => RecoveryKeepsPromise
<1>1. StoreInv /\ [Next]_vars =>
        [status = "down" /\ status' = "up" => PromiseKept]_vars
  BY NextStore
<1> QED BY <1>1, StoreCorrect, PTL DEF Spec, RecoveryKeepsPromise

=============================================================================
