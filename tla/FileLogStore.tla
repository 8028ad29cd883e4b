---------------------------- MODULE FileLogStore ----------------------------
(***************************************************************************)
(* The append-only write-ahead log that StrongKV gives to NuRaft           *)
(* (src/storage/file_log_store.cpp).                                       *)
(*                                                                         *)
(* A file is a header, which holds the first log index, followed by        *)
(* frames.  Offsets and sizes count frames after the header instead of     *)
(* bytes.  The mutex of the class makes every operation one step; a        *)
(* process killed between the system calls of an operation leaves the      *)
(* disk of a process killed just before or just after it, or in the middle *)
(* of a write, which Kill covers.                                          *)
(*                                                                         *)
(* Three layers of state are kept apart: the object's memory, the file as  *)
(* the operating system shows it (cache), and what the medium is sure to   *)
(* hold (stable, and the first `kept' frames of cache).                    *)
(***************************************************************************)
EXTENDS Integers, Sequences, IndexMap

CONSTANTS
    Entry,            \* the serialized NuRaft log entries
    MaxIndex,         \* bound: no entry is appended beyond this index
    MaxPack,          \* bound: entries in a log pack
    MaxFrames,        \* bound: failed writes do not grow the file beyond this
    Faults,           \* the calls that may fail: "write" (write, fdatasync,
                      \* ftruncate) and "rewrite" (atomic_write_file)
    FailStop,         \* TRUE: the process ends at its first storage error;
                      \* FALSE: it goes on using the store (stop(), destructor)
    OrderedWriteback, \* TRUE: a power loss keeps a prefix of the unsynced
                      \* bytes; FALSE: it may keep later pages and lose earlier
    SyncedRestart     \* TRUE: a killed process is restarted only after the
                      \* kernel has written the file back; FALSE: at any time

ASSUME ConstantsAssumption ==
    /\ Entry # {}
    /\ MaxIndex \in Nat
    /\ MaxPack \in Nat
    /\ MaxFrames \in Nat
    /\ Faults \subseteq {"write", "rewrite"}
    /\ FailStop \in BOOLEAN
    /\ OrderedWriteback \in BOOLEAN
    /\ SyncedRestart \in BOOLEAN

VARIABLES
    status,        \* "down", "up", or "refused" (load threw)
    startIndex,    \* start_index_
    entries,       \* entries_: a function from indexes to entries
    offsets,       \* offsets_: the same indexes to frame positions
    pending,       \* pending_, the encoded frames not yet written
    pendingStart,  \* pending_start_index_; pending_count_ is Len(pending)
    durable,       \* durable_index_
    fileSize,      \* file_size_
    format,        \* what is on disk: "absent", "legacy" or "wal"
    header,        \* the start index stored in the file's header
    cache,         \* the frames of the file as read(2) would return them
    stable,        \* the frames at the last completed fdatasync or fsync
    kept,          \* how many leading frames of cache are also in stable
    promised       \* history: what the store last called durable, see Claim

memory == <<startIndex, entries, offsets, pending, pendingStart, durable,
            fileSize>>
disk == <<format, header, cache, stable, kept>>
vars == <<status, memory, disk, promised>>

-----------------------------------------------------------------------------
(* Frames *)

Frame == [index : Nat, entry : Entry, whole : BOOLEAN]

\* encode_entry_locked: a frame with a valid length and checksum
encode_entry(i, e) == [index |-> i, entry |-> e, whole |-> TRUE]

\* a frame of which some bytes are missing or wrong
Torn(f) == [f EXCEPT !.whole = FALSE]

TypeOK ==
    /\ status \in {"down", "up", "refused"}
    /\ startIndex \in Nat
    /\ IsPartial(entries, Entry)
    /\ IsPartial(offsets, Nat)
    /\ pending \in Seq(Frame)
    /\ pendingStart \in Nat
    /\ durable \in Nat
    /\ fileSize \in Nat
    /\ format \in {"absent", "legacy", "wal"}
    /\ header \in Nat
    /\ cache \in Seq(Frame)
    /\ stable \in Seq(Frame)
    /\ kept \in Nat
    /\ promised = [start |-> promised.start, log |-> promised.log,
                   durable |-> promised.durable]
    /\ promised.start \in Nat
    /\ promised.durable \in Nat
    /\ IsPartial(promised.log, Entry)

-----------------------------------------------------------------------------
(* Reading the store *)

next_slot == NextIndex(entries, startIndex)

\* log_entries: the entries of [from, to), or none if one of them is missing
log_entries(from, to) ==
    IF from <= to /\ from .. (to - 1) \subseteq DOMAIN entries
    THEN {[k \in 1 .. (to - from) |-> entries[from + k - 1]]}
    ELSE {}

\* What a caller may rely on: the entries up to last_durable_index()
Claim(start, es, d) ==
    [start |-> start, log |-> Below(es, d + 1), durable |-> d]

Unclaimed(start) == Claim(start, Empty, start - 1)

-----------------------------------------------------------------------------
(* The disk after sync_pending_locked has succeeded.  With nothing pending  *)
(* it returns before write and fdatasync.                                   *)

syncedCache    == cache \o pending
syncedStable   == IF pending = <<>> THEN stable ELSE syncedCache
syncedKept     == IF pending = <<>> THEN kept ELSE Len(syncedCache)
syncedFileSize == fileSize + Len(pending)
syncedDurable  == IF pending = <<>> THEN durable
                  ELSE pendingStart + Len(pending) - 1

\* Mutant: write without fdatasync
SyncDiskUnsynced ==
    /\ cache' = syncedCache
    /\ UNCHANGED <<format, header, stable, kept>>

SyncDisk ==
    /\ cache' = syncedCache
    /\ stable' = syncedStable
    /\ kept' = syncedKept
    /\ UNCHANGED <<format, header>>

ClearPending ==
    /\ pending' = <<>>
    /\ pendingStart' = 0

Running == status = "up"

Succeed == UNCHANGED <<status, promised>>

\* The process is gone; `claim' is what it last called durable
GoDown(claim) ==
    /\ status' = "down"
    /\ promised' = claim
    /\ startIndex' = 1
    /\ entries' = Empty
    /\ offsets' = Empty
    /\ pending' = <<>>
    /\ pendingStart' = 0
    /\ durable' = 0
    /\ fileSize' = 0

\* A storage error ends the process, or the exception is survived and leaves
\* the object as the operation had changed it so far
Throw(claim, left) == IF FailStop THEN GoDown(claim) ELSE left /\ Succeed

-----------------------------------------------------------------------------
(* Operations *)

\* Mutant: pending_start_index_ follows the newest entry
append_movingStart(e) ==
    LET i == next_slot
    IN  /\ Running
        /\ i <= MaxIndex
        /\ entries' = Put(entries, i, e)
        /\ pendingStart' = i
        /\ offsets' = Put(offsets, i, fileSize + Len(pending))
        /\ pending' = Append(pending, encode_entry(i, e))
        /\ UNCHANGED <<startIndex, durable, fileSize, disk>>
        /\ Succeed

append(e) ==
    LET i == next_slot
    IN  /\ Running
        /\ i <= MaxIndex
        /\ pending # <<>> => i = pendingStart + Len(pending)
        /\ entries' = Put(entries, i, e)
        /\ pendingStart' = IF pending = <<>> THEN i ELSE pendingStart
        /\ offsets' = Put(offsets, i, fileSize + Len(pending))
        /\ pending' = Append(pending, encode_entry(i, e))
        /\ UNCHANGED <<startIndex, durable, fileSize, disk>>
        /\ Succeed

\* ftruncate beyond the end of the file fills it with zeros
ZeroFill == Torn(encode_entry(0, CHOOSE e \in Entry : TRUE))

Truncated(fs, n) ==
    [k \in 1 .. n |-> IF k <= Len(fs) THEN fs[k] ELSE ZeroFill]

\* write_at cuts the log at i, where its frame starts, and queues e; `file' is
\* the file after the cut, `size' and `d' the new file_size_ and durable_index_.
\* The ftruncate is not synced here.
FrameOffset(i) == IF i \in DOMAIN offsets THEN offsets[i] ELSE syncedFileSize

overwrite(i, e, file, size, d) ==
    /\ Running
    /\ i >= startIndex
    /\ i <= next_slot
    /\ i <= MaxIndex
    /\ cache' = file
    /\ stable' = syncedStable
    /\ kept' = IF syncedKept < Len(file) THEN syncedKept ELSE Len(file)
    /\ entries' = Put(Below(entries, i), i, e)
    /\ offsets' = Put(Below(offsets, i), i, size)
    /\ durable' = d
    /\ fileSize' = size
    /\ pending' = <<encode_entry(i, e)>>
    /\ pendingStart' = i
    /\ UNCHANGED <<startIndex, format, header>>
    /\ Succeed

\* Mutants: the suffix stays in the file; file_size_ is not updated;
\* durable_index_ keeps covering the entry that is replaced
write_at_noTruncate(i, e) ==
    overwrite(i, e, syncedCache, FrameOffset(i), i - 1)
write_at_staleSize(i, e) ==
    overwrite(i, e, Truncated(syncedCache, FrameOffset(i)), syncedFileSize, i - 1)
write_at_staleDurable(i, e) ==
    overwrite(i, e, Truncated(syncedCache, FrameOffset(i)), FrameOffset(i),
              syncedDurable)

write_at(i, e) ==
    overwrite(i, e, Truncated(syncedCache, FrameOffset(i)), FrameOffset(i), i - 1)

end_of_append_batch(start, count) ==
    /\ Running
    /\ count # 0
    /\ pending # <<>>
    /\ pendingStart >= start
    /\ pendingStart + Len(pending) <= start + count
    /\ SyncDisk
    /\ fileSize' = syncedFileSize
    /\ durable' = syncedDurable
    /\ ClearPending
    /\ UNCHANGED <<startIndex, entries, offsets>>
    /\ Succeed

\* flush syncs the descriptor even when nothing was pending
flush ==
    /\ Running
    /\ cache' = syncedCache
    /\ stable' = syncedCache
    /\ kept' = Len(syncedCache)
    /\ fileSize' = syncedFileSize
    /\ durable' = syncedDurable
    /\ ClearPending
    /\ UNCHANGED <<startIndex, entries, offsets, format, header>>
    /\ Succeed

\* encode_all_locked: the map is written in index order
encode_all(es) ==
    IF DOMAIN es = {} THEN <<>>
    ELSE [k \in 1 .. (Last(es) - First(es) + 1) |->
            encode_entry(First(es) + k - 1, es[First(es) + k - 1])]

\* rewrite_locked, after the caller has chosen the new start and entries
rewrite(start, es) ==
    /\ startIndex' = start
    /\ entries' = es
    /\ offsets' = [i \in DOMAIN es |-> i - First(es)]
    /\ fileSize' = Len(encode_all(es))
    /\ durable' = NextIndex(es, start) - 1
    /\ ClearPending
    /\ format' = "wal"
    /\ header' = start
    /\ cache' = encode_all(es)
    /\ stable' = cache'
    /\ kept' = Len(cache')

\* atomic_write_file throws: before the rename the old file stays, after it
\* (directory fsync) the new one is in place; offsets_, file_size_ and
\* durable_index_ keep their values
rewriteFails(start, es, renamed) ==
    /\ "rewrite" \in Faults
    /\ Throw(IF renamed THEN Claim(start, es, NextIndex(es, start) - 1)
             ELSE Claim(startIndex, entries, syncedDurable),
             /\ startIndex' = start
             /\ entries' = es
             /\ fileSize' = syncedFileSize
             /\ durable' = syncedDurable
             /\ ClearPending
             /\ UNCHANGED offsets)
    /\ IF renamed
       THEN /\ header' = start
            /\ cache' = encode_all(es)
            /\ stable' = cache'
            /\ kept' = Len(cache')
            /\ UNCHANGED format
       ELSE SyncDisk

compacted(last) == Above(entries, last)
compactedStart(last) == IF startIndex <= last THEN last + 1 ELSE startIndex

compact(last) ==
    /\ Running
    /\ rewrite(compactedStart(last), compacted(last))
    /\ Succeed

compactFails(last, renamed) ==
    /\ Running
    /\ rewriteFails(compactedStart(last), compacted(last), renamed)

packed(i, pack) == PutSeq(Below(entries, i), i, pack)
packedStart(i, pack) ==
    IF DOMAIN packed(i, pack) = {} THEN i ELSE First(packed(i, pack))

Packs == UNION {[1 .. n -> Entry] : n \in 0 .. MaxPack}

\* NuRaft sends a pack that starts at or before the receiver's next slot
apply_pack(i, pack) ==
    /\ Running
    /\ i <= next_slot
    /\ i + Len(pack) - 1 <= MaxIndex
    /\ rewrite(packedStart(i, pack), packed(i, pack))
    /\ Succeed

apply_packFails(i, pack, renamed) ==
    /\ Running
    /\ i <= next_slot
    /\ i + Len(pack) - 1 <= MaxIndex
    /\ rewriteFails(packedStart(i, pack), packed(i, pack), renamed)

\* The part of pending_ that a failed or interrupted write(2) has handed over:
\* some whole frames, then perhaps a piece of the next one
Written(n, piece) ==
    SubSeq(pending, 1, n) \o
    (IF piece /\ n < Len(pending) THEN <<Torn(pending[n + 1])>> ELSE <<>>)

\* write_all or fdatasync throws in sync_pending_locked, whoever called it:
\* pending_, file_size_ and durable_index_ keep their values
sync_pendingFails(n, piece) ==
    /\ Running
    /\ "write" \in Faults
    /\ pending # <<>>
    /\ n <= Len(pending)
    /\ Len(cache) + Len(Written(n, piece)) <= MaxFrames
    /\ cache' = cache \o Written(n, piece)
    /\ UNCHANGED <<format, header, stable, kept>>
    /\ Throw(Claim(startIndex, entries, durable), UNCHANGED memory)

\* sync_pending_locked succeeds and the next system call of the operation
\* throws (ftruncate in write_at, the second fdatasync in flush)
truncateFails ==
    /\ Running
    /\ "write" \in Faults
    /\ SyncDisk
    /\ Throw(Claim(startIndex, entries, syncedDurable),
             /\ fileSize' = syncedFileSize
             /\ durable' = syncedDurable
             /\ ClearPending
             /\ UNCHANGED <<startIndex, entries, offsets>>)

-----------------------------------------------------------------------------
(* The end of the object, of the process and of the machine *)

\* ~FileLogStore: nobody hears of this last sync; if it fails the error is
\* swallowed, which is a Kill in the middle of the write
destroy ==
    /\ Running
    /\ SyncDisk
    /\ GoDown(Claim(startIndex, entries, durable))

\* The process dies, possibly in the middle of a write
Kill(n, piece) ==
    /\ Running
    /\ n <= Len(pending)
    /\ Len(cache) + Len(Written(n, piece)) <= MaxFrames
    /\ cache' = cache \o Written(n, piece)
    /\ UNCHANGED <<format, header, stable, kept>>
    /\ GoDown(Claim(startIndex, entries, durable))

\* What an unsynced tail may look like after a power loss
LostTails(u) ==
    IF OrderedWriteback
    THEN {SubSeq(u, 1, k) : k \in 0 .. Len(u)} \cup
         {Append(SubSeq(u, 1, k - 1), Torn(u[k])) : k \in 1 .. Len(u)}
    ELSE UNION {{[k \in 1 .. n |-> IF k \in T THEN Torn(u[k]) ELSE u[k]] :
                     T \in SUBSET (1 .. n)} : n \in 0 .. Len(u)}

\* An unsynced truncation may be undone
CrashImages ==
    {stable} \cup
    {SubSeq(cache, 1, kept) \o t :
        t \in LostTails(SubSeq(cache, kept + 1, Len(cache)))}

PowerLoss(image) ==
    /\ status = "down"
    /\ cache' = image
    /\ stable' = image
    /\ kept' = Len(image)
    /\ UNCHANGED <<status, memory, format, header, promised>>

\* The kernel writes dirty pages back on its own
Writeback ==
    /\ status = "down"
    /\ stable' = cache
    /\ kept' = Len(cache)
    /\ UNCHANGED <<status, memory, format, header, cache, promised>>

-----------------------------------------------------------------------------
(* Opening the store *)

\* load_wal_locked stops at the first frame it cannot read
ValidFrames(fs) ==
    CHOOSE n \in 0 .. Len(fs) :
        /\ \A k \in 1 .. n : fs[k].whole
        /\ n < Len(fs) => ~fs[n + 1].whole

\* "invalid Raft WAL entry sequence" / "legacy Raft log is not contiguous"
OutOfSequence(fs) ==
    \E k \in 1 .. ValidFrames(fs) : fs[k].index # header + k - 1

\* A broken frame before the tail: its length field decides whether the loader
\* throws "checksum mismatch before tail" or takes the rest for a torn frame
BrokenBeforeTail(fs) == ValidFrames(fs) < Len(fs) - 1

MayRestart == SyncedRestart => (stable = cache /\ kept = Len(cache))

LoadedEntries(n) == [i \in header .. (header + n - 1) |->
                        cache[i - header + 1].entry]

Loaded(n) ==
    /\ startIndex' = header
    /\ entries' = LoadedEntries(n)
    /\ offsets' = [i \in header .. (header + n - 1) |-> i - header]
    /\ durable' = header + n - 1
    /\ fileSize' = n
    /\ status' = "up"
    /\ promised' = Unclaimed(header)
    /\ UNCHANGED <<pending, pendingStart>>

load_wal ==
    LET n == ValidFrames(cache)
    IN  /\ status = "down"
        /\ format = "wal"
        /\ MayRestart
        /\ ~OutOfSequence(cache)
        /\ Loaded(n)
        /\ IF n # Len(cache)
           THEN /\ cache' = SubSeq(cache, 1, n)
                /\ stable' = cache'
                /\ kept' = n
                /\ UNCHANGED <<format, header>>
           ELSE UNCHANGED disk

load_walFails ==
    /\ status = "down"
    /\ format = "wal"
    /\ MayRestart
    /\ OutOfSequence(cache) \/ BrokenBeforeTail(cache)
    /\ status' = "refused"
    /\ UNCHANGED <<memory, disk, promised>>

\* The old whole-file format is read and rewritten as a WAL
load_legacy ==
    /\ status = "down"
    /\ format = "legacy"
    /\ Loaded(Len(cache))
    /\ format' = "wal"
    /\ stable' = cache
    /\ kept' = Len(cache)
    /\ UNCHANGED <<header, cache>>

load_absent ==
    /\ status = "down"
    /\ format = "absent"
    /\ format' = "wal"
    /\ Loaded(0)
    /\ UNCHANGED <<header, cache, stable, kept>>

-----------------------------------------------------------------------------

\* A new node, or one upgraded from the legacy format
Init ==
    /\ status = "down"
    /\ startIndex = 1
    /\ entries = Empty
    /\ offsets = Empty
    /\ pending = <<>>
    /\ pendingStart = 0
    /\ durable = 0
    /\ fileSize = 0
    /\ \/ /\ format = "absent"
          /\ header = 1
          /\ cache = <<>>
       \/ /\ format = "legacy"
          /\ header \in {1, 2}
          /\ \E e \in Entry : cache = <<encode_entry(header, e)>>
    /\ stable = cache
    /\ kept = Len(cache)
    /\ promised = Unclaimed(header)

Open == load_wal \/ load_walFails \/ load_legacy \/ load_absent

Next ==
    \/ \E e \in Entry : append(e)
    \/ \E i \in 1 .. MaxIndex, e \in Entry : write_at(i, e)
    \/ \E start \in 1 .. MaxIndex, count \in 0 .. MaxIndex :
          end_of_append_batch(start, count)
    \/ flush
    \/ \E last \in 0 .. MaxIndex : compact(last)
    \/ \E i \in 1 .. MaxIndex, pack \in Packs : apply_pack(i, pack)
    \/ \E last \in 0 .. MaxIndex, renamed \in BOOLEAN :
          compactFails(last, renamed)
    \/ \E i \in 1 .. MaxIndex, pack \in Packs, renamed \in BOOLEAN :
          apply_packFails(i, pack, renamed)
    \/ \E n \in 0 .. MaxIndex, piece \in BOOLEAN : sync_pendingFails(n, piece)
    \/ truncateFails
    \/ destroy
    \/ \E n \in 0 .. MaxIndex, piece \in BOOLEAN : Kill(n, piece)
    \/ \E image \in CrashImages : PowerLoss(image)
    \/ Writeback
    \/ Open

Spec == Init /\ [][Next]_vars

-----------------------------------------------------------------------------
(* Properties *)

\* queue_entry_locked never throws "non-contiguous pending Raft WAL batch": what
\* is pending is always exactly the end of the log.
PendingIsTail ==
    status = "up" /\ pending # <<>> =>
        /\ pendingStart + Len(pending) = next_slot
        /\ \A k \in 1 .. Len(pending) :
              pending[k] = encode_entry(pendingStart + k - 1,
                                        entries[pendingStart + k - 1])

\* The log has no holes, log_entries over its whole range never returns null:
\* write_at's and apply_pack's erasures and compact's cut agree on the bounds.
NoHoles ==
    status = "up" => log_entries(startIndex, next_slot) # {}

\* offsets_ and file_size_ describe the file: the offset that write_at will
\* truncate at is where the frame of that entry starts, in the file or, once
\* pending_ is written, behind it.
OffsetsMatchFile ==
    status = "up" =>
        /\ DOMAIN offsets = DOMAIN entries
        /\ fileSize = Len(cache)
        /\ header = startIndex
        /\ \A i \in DOMAIN entries :
              /\ offsets[i] < Len(syncedCache)
              /\ syncedCache[offsets[i] + 1] = encode_entry(i, entries[i])

\* load_wal_locked never throws "invalid Raft WAL entry sequence" on a file that
\* the store itself wrote: neither a second write of pending_, nor an old suffix
\* behind a write_at, nor a failed rewrite leaves whole frames out of order.
FramesInSequence == status # "up" => ~OutOfSequence(cache)

\* The store can always be opened again (docs/design.md: "A torn/corrupt tail is
\* truncated to the last valid frame at startup"): load_wal_locked never throws
\* on what a power loss leaves of a file that the store itself wrote.
NeverRefused == status # "refused"

\* Whatever last_durable_index() covered when the process ended is in the log
\* when the store is opened again, with the same entries.
PromiseKept ==
    \A i \in DOMAIN promised.log :
        i \in DOMAIN entries' /\ entries'[i] = promised.log[i]

RecoveryKeepsPromise ==
    [][status = "down" /\ status' = "up" => PromiseKept]_vars

\* The store implements the durable log its callers program against: memory is
\* the log while the object lives; afterwards only the claim is left.
Log == INSTANCE DurableLog WITH
    live    <- status = "up",
    start   <- IF status = "up" THEN startIndex ELSE promised.start,
    log     <- IF status = "up" THEN entries ELSE promised.log,
    durable <- IF status = "up" THEN durable ELSE promised.durable

ImplementsDurableLog == Log!Spec

=============================================================================
