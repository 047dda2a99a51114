------------------------------ MODULE RingFile ------------------------------
(***************************************************************************)
(* Sizing and opening the ring file: ringCapacityBytes and                 *)
(* ringFileRewritable (ring_buffer.h) and LittleFsStorage::begin           *)
(* (littlefs_storage.h).                                                   *)
(*                                                                         *)
(* A file system is [bs, blocks, meta, size, cursors]: its block size and  *)
(* count, the blocks that are not the ring's, the ring file's bytes or     *)
(* Absent, and the cursor pair in NVS, {} when there is none.  The opening *)
(* of a file is a record s: fs, where begin() is (at), its existing and    *)
(* capacity_ (cap), and as history whether unacknowledged punches are in   *)
(* the file ("none", "kept", or "lost" with it), whether begin() failed to *)
(* open it or to read its cursors (blind), and whether the file is one it  *)
(* had no punches to keep for (clean).  Each step is one call that         *)
(* outlives a cut.                                                         *)
(***************************************************************************)
EXTENDS Integers, FiniteSetsExt

CONSTANTS
    RingMinRecords,   \* kRingMinRecords
    RingSlackBlocks   \* kRingSlackBlocks

ASSUME RingFileAssumption == RingMinRecords \in Nat \ {0} /\ RingSlackBlocks \in Nat

RecordBytes == 60     \* sizeof(PunchRecord)
CtzOverhead == 8      \* kLfsCtzOverheadPerBlock
Absent == -1

CeilDiv(a, b) == (a + b - 1) \div b

\* ringCapacityBytes(); "the obvious formula" takes all of the free space.
RingBlocksAll(blocks, meta, slack) == blocks - meta - slack

RingBlocks(blocks, meta, slack) == (blocks - meta - slack) \div 2

ringCapacityBytes(bs, blocks, used, existing, slack, minRecords) ==
    LET usedBlocks == CeilDiv(used, bs)
        meta == usedBlocks - Min({existing \div bs, usedBlocks})
        records == (RingBlocks(blocks, meta, slack) * (bs - CtzOverhead)) \div RecordBytes
    IN  IF \/ bs <= CtzOverhead \/ blocks = 0
           \/ usedBlocks > blocks \/ meta + slack >= blocks
           \/ records = 0 \/ records < minRecords
        THEN 0 ELSE records * RecordBytes

ringFileRewritable(bs, blocks, used, bytes, slack) ==
    /\ bs > CtzOverhead
    /\ CeilDiv(used, bs) <= blocks
    /\ blocks - CeilDiv(used, bs) >= CeilDiv(bytes, bs - CtzOverhead) + slack

\* littlefs: block k > 0 of a file starts with ctz(k) + 1 pointers of 4 bytes,
\* so of the blocks 1 .. m all have a first pointer, every second one another,
\* every fourth a third.
Pointers[m \in Nat] == IF m = 0 THEN 0 ELSE m + Pointers[m \div 2]
Holds(bs, n) == n * bs - 4 * Pointers[n - 1]
BlocksOf(bs, bytes) ==
    IF bytes <= 0 THEN 0 ELSE CHOOSE n \in 1 .. bytes :
        Holds(bs, n) >= bytes /\ \A k \in 1 .. n - 1 : Holds(bs, k) < bytes

\* LittleFS.usedBytes()
UsedBytes(fs) == fs.bs * (fs.meta + BlocksOf(fs.bs, fs.size))

\* existingSize(): a file that cannot be opened counts as one of no bytes.
existingSize(fs) == {Max({fs.size, 0}), 0}

\* loadCursors(): the saved pair, or {} when there is none or it cannot be read.
loadCursors(fs) == {fs.cursors, {}}

\* No cursors, or head == tail.
bufferEmptyUnread(pair) == TRUE

bufferEmpty(pair) == \A c \in pair : c[1] = c[2]

MinBytes == RingMinRecords * RecordBytes

Rewritable(fs, existing) ==
    ringFileRewritable(fs.bs, fs.blocks, UsedBytes(fs), existing, RingSlackBlocks)

\* What is left of unacknowledged punches when the file goes.
Gone(unsent) == IF unsent = "kept" THEN "lost" ELSE unsent

\* LittleFsStorage::begin(), one call at a time.
Sized(s, existing, pair) ==
    LET t == [s EXCEPT !.existing = existing, !.at = "sized",
                       !.blind = s.blind \/ existing = 0 \/ pair = {}]
    IN  IF existing >= MinBytes /\ ~Rewritable(s.fs, existing) /\ bufferEmpty(pair)
        THEN {[t EXCEPT !.fs.size = Absent, !.existing = 0, !.unsent = Gone(s.unsent), !.clean = TRUE],
              [t EXCEPT !.at = "failed"]}
        ELSE {t}

DropUnwritable(s) ==
    UNION {Sized(s, n, pair) : n \in existingSize(s.fs), pair \in loadCursors(s.fs)}

KeepOrSize(s) ==
    LET fs == s.fs
        cap == ringCapacityBytes(fs.bs, fs.blocks, UsedBytes(fs), s.existing,
                                 RingSlackBlocks, RingMinRecords)
    IN  IF s.existing >= MinBytes
        THEN {[s EXCEPT !.cap = (s.existing \div RecordBytes) * RecordBytes, !.at = a] :
                a \in {"opened", "failed"}}
        ELSE {[s EXCEPT !.at = "failed"]}
             \cup (IF cap = 0 THEN {}
                   ELSE {[s EXCEPT !.cap = cap, !.fs.size = 0, !.at = "filling",
                                   !.unsent = Gone(s.unsent), !.clean = TRUE]})

\* create(): all the zeros, or a write that fails part of the way and the close.
Fill(s) ==
    {[s EXCEPT !.fs.size = s.cap, !.at = "filled"]}
    \cup {[s EXCEPT !.fs.size = n * RecordBytes, !.at = "failed"] :
            n \in 0 .. (s.cap \div RecordBytes) - 1}

\* create(): the cursors of the file that is gone, a remove() whose result is
\* ignored, and the reopening.
ClearCursors(s) ==
    {[s EXCEPT !.fs.cursors = pair, !.at = a] :
        pair \in {{}, s.fs.cursors}, a \in {"opened", "failed"}}

BeginStep(s) ==
    CASE s.at = "begin" -> DropUnwritable(s)
      [] s.at = "sized" -> KeepOrSize(s)
      [] s.at = "filling" -> Fill(s)
      [] s.at = "filled" -> ClearCursors(s)
      [] OTHER -> {}
=============================================================================
