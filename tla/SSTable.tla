------------------------------- MODULE SSTable -------------------------------
(***************************************************************************)
(* A table file (table/sstable): how Builder lays out the versions of the  *)
(* keys it is given, and how Get, HasOverlap and Iterator find them again. *)
(*                                                                         *)
(* Keys are positive integers. A block is a sequence of entries, one per   *)
(* key, with the newest version and the offset of the older ones in the    *)
(* old block, whose cells are the lists of versions that                   *)
(* flushSingleKeyOldVers appends. Offsets and indexes start at 0 as in the *)
(* code. A value is a number, and 0 a delete mark. Prefix compression,     *)
(* block compression and checksums are left out; reading does not fail.    *)
(***************************************************************************)
EXTENDS Integers, Sequences, FiniteSets, SequencesExt

CONSTANTS
    BlockEntries,  \* entries after which shouldFinishBlock cuts the block (BlockSize)
    OffsetLimit,   \* number of values of entryPosition.offset, 256 in the code
    NumBuckets     \* buckets of the hash index

\* sort.Search: the first index of 0..n-1, the domain of f, for which f holds, or n.
Search(f) == Min({i \in DOMAIN f : f[i]} \cup {Cardinality(DOMAIN f)})

-----------------------------------------------------------------------------
(* Builder *)

\* The byte that NewTableBuilder puts at the start of oldBlock.
Pad == <<>>

NewTableBuilder(useSuRF) ==
    [blocks |-> <<>>, cur |-> <<>>, olds |-> <<>>, oldBlock |-> <<Pad>>, positions |-> <<>>,
     useSuRF |-> useSuRF]

\* resetBuffers does not put the first byte of oldBlock back.
ResetBuilder(b) == [b EXCEPT !.blocks = <<>>, !.positions = <<>>, !.oldBlock = <<>>]

AddOld(b, e) ==
    [b EXCEPT !.cur[Len(b.cur)].oldOffset = IF @ = 0 THEN Len(b.oldBlock) ELSE @,
              !.olds = Append(@, [ver |-> e.ver, val |-> e.val])]

FlushSingleKeyOldVers(b) ==
    IF b.olds = <<>> THEN b ELSE [b EXCEPT !.oldBlock = Append(@, b.olds), !.olds = <<>>]

FinishBlock(b) ==
    IF b.cur = <<>> THEN b
    ELSE [FlushSingleKeyOldVers(b) EXCEPT !.blocks = Append(@, b.cur), !.cur = <<>>]

\* addHelper and addIndex: an entry, and its position for the hash index or for SuRF.
AddHelper(b, e) ==
    [b EXCEPT !.cur = Append(@, [key |-> e.key, ver |-> e.ver, val |-> e.val, oldOffset |-> 0]),
              !.positions = Append(@, [key |-> e.key, blk |-> Len(b.blocks),
                                       off |-> Len(b.cur) % OffsetLimit])]

ShouldFinishBlock(b) == Len(b.cur) >= BlockEntries

Add(b, e) ==
    IF b.cur # <<>> /\ Last(b.cur).key = e.key THEN AddOld(b, e)
    ELSE LET f == FlushSingleKeyOldVers(b)
         IN AddHelper(IF ShouldFinishBlock(f) THEN FinishBlock(f) ELSE f, e)

NoEntry == [result |-> "noEntry"]

Fallback == [result |-> "fallback"]

\* Mutant: a bucket keeps its first entry when an entry of another block falls into it.
PutBucketFirst(bucket, p) ==
    IF bucket = NoEntry THEN [result |-> "entry", blk |-> p.blk, off |-> p.off] ELSE bucket

\* One round of the loop of buildHashIndex. Entries of one block share a bucket, the first one's offset is kept.
PutBucket(bucket, p) ==
    CASE bucket = NoEntry -> [result |-> "entry", blk |-> p.blk, off |-> p.off]
      [] bucket = Fallback -> bucket
      [] OTHER -> IF bucket.blk = p.blk THEN bucket ELSE Fallback

BuildHashIndex(positions, hash) ==
    LET put(buckets, p) == [buckets EXCEPT ![hash[p.key] % NumBuckets] = PutBucket(@, p)]
    IN FoldLeft(put, [i \in 0..(NumBuckets - 1) |-> NoEntry], positions)

\* Finish, and OpenTable of its result. hash is the hash of the keys. near has the absent keys that
\* the bloom filter lets through, or that SuRF takes for the key just below them.
Finish(b, hash, near, globalTs) ==
    LET f == FinishBlock(b)
        stored == {p.key : p \in ToSet(f.positions)}
    IN [blocks |-> f.blocks, oldBlock |-> f.oldBlock, positions |-> f.positions, hash |-> hash,
        near |-> near \ stored, useSuRF |-> f.useSuRF, globalTs |-> globalTs,
        buckets |-> BuildHashIndex(f.positions, hash), smallest |-> Min(stored), biggest |-> Max(stored)]

-----------------------------------------------------------------------------
(* The index of an open table *)

Stored(t) == {p.key : p \in ToSet(t.positions)}

PositionOf(t, k) == LET p == CHOOSE p \in ToSet(t.positions) : p.key = k
                    IN [result |-> "entry", blk |-> p.blk, off |-> p.off]

BloomHas(t, k) == k \in Stored(t) \cup t.near

HashLookup(t, k) == t.buckets[t.hash[k] % NumBuckets]

\* The key whose leaf SuRF reaches for k.
SurfLeaf(t, k) ==
    IF k \in Stored(t) THEN {k}
    ELSE {s \in Stored(t) : k \in t.near /\ s < k /\ \A r \in Stored(t) : r < k => r <= s}

SurfGet(t, k) == IF SurfLeaf(t, k) = {} THEN NoEntry ELSE PositionOf(t, Min(SurfLeaf(t, k)))

\* The leaves at or after the one that SuRF's Iterator.Seek stops at, which may be the leaf of a
\* key below the one it is asked for.
SurfFrom(t, k) == SurfLeaf(t, k) \cup {s \in Stored(t) : s >= k}

SurfSeek(t, k) == IF SurfFrom(t, k) = {} THEN NoEntry ELSE PositionOf(t, Min(SurfFrom(t, k)))

-----------------------------------------------------------------------------
(* Iterator. "entries" is empty when bi.entries was reset; err is io.EOF. *)

TableIterator(t, reversed) ==
    [kind |-> "table", t |-> t, reversed |-> reversed, bpos |-> 0, entries |-> <<>>, idx |-> 0,
     err |-> FALSE, key |-> 0, ver |-> 0, val |-> 0, oldOffset |-> 0, vi |-> 0]

SetIdx(it, i) ==
    IF i < 0 \/ i >= Len(it.entries) THEN [it EXCEPT !.idx = i, !.err = TRUE]
    ELSE LET e == it.entries[i + 1]
         IN [it EXCEPT !.idx = i, !.err = FALSE, !.key = e.key, !.val = e.val,
                       !.ver = IF it.t.globalTs # 0 THEN it.t.globalTs ELSE e.ver,
                       !.oldOffset = e.oldOffset, !.vi = 0]

SetBlock(it, b) == [it EXCEPT !.bpos = b, !.entries = it.t.blocks[b + 1], !.idx = 0]

BlockSeek(it, k) == SetIdx(it, Search([i \in 0..(Len(it.entries) - 1) |-> it.entries[i + 1].key >= k]))

SeekToFirst(it) == SetIdx(SetBlock(it, 0), 0)

SeekToLast(it) ==
    LET last == SetBlock(it, Len(it.t.blocks) - 1) IN SetIdx(last, Len(last.entries) - 1)

SeekInBlock(it, b, k) == BlockSeek(SetBlock(it, b), k)

SeekFromOffset(it, b, off, k) ==
    LET at == SetIdx(SetBlock(it, b), off)
    IN IF at.key >= k THEN at ELSE BlockSeek(at, k)

SeekFrom(it, k) ==
    LET b == Search([i \in 0..(Len(it.t.blocks) - 1) |-> it.t.blocks[i + 1][1].key > k])
        found == SeekInBlock(it, IF b = 0 THEN 0 ELSE b - 1, k)
    IN IF b > 0 /\ found.err /\ b < Len(it.t.blocks) THEN SeekFromOffset(it, b, 0, k) ELSE found

\* seek: with SuRF the search does not leave the block of the position.
TableSeekForward(it, k) ==
    LET p == SurfSeek(it.t, k)
    IN CASE ~it.t.useSuRF -> SeekFrom(it, k)
         [] p = NoEntry -> [it EXCEPT !.bpos = 0, !.err = TRUE]
         [] OTHER -> SeekFromOffset(it, p.blk, p.off, k)

\* next and prev: at the end of a block they go on in the neighbouring one.
Step(it, by) ==
    LET n == SetIdx(it, it.idx + by)
        b == it.bpos + by
        outside == b < 0 \/ b >= Len(it.t.blocks)
        over == SetBlock(it, b)
    IN CASE ~n.err -> n
         [] n.err /\ outside -> [n EXCEPT !.bpos = b, !.entries = <<>>]
         [] OTHER -> SetIdx(over, IF by = 1 THEN 0 ELSE Len(over.entries) - 1)

SeekForPrev(it, k) ==
    LET at == SeekFrom(it, k) IN IF at.key = k THEN at ELSE Step(at, -1)

TableNext(it) == Step(it, IF it.reversed THEN -1 ELSE 1)

TableRewind(it) == IF it.reversed THEN SeekToLast(it) ELSE SeekToFirst(it)

TableSeek(it, k) == IF it.reversed THEN SeekForPrev(it, k) ELSE TableSeekForward(it, k)

\* NextVersion with singleKeyIterator: offset 0 means that there is no older version.
TableHasOld(it) == it.oldOffset # 0 /\ it.vi < Len(it.t.oldBlock[it.oldOffset + 1])

TableNextVersion(it) ==
    LET old == it.t.oldBlock[it.oldOffset + 1][it.vi + 1]
    IN [it EXCEPT !.vi = @ + 1, !.ver = old.ver, !.val = old.val]

-----------------------------------------------------------------------------
(* Table *)

Absent == [ver |-> 0, val |-> 0]

\* SeekToVersion on the versions of the current entry, and what Get then returns.
TableAtVersion(it, ts) ==
    LET olds == IF it.oldOffset = 0 THEN <<>> ELSE it.t.oldBlock[it.oldOffset + 1]
        versions == <<[ver |-> it.ver, val |-> it.val]>> \o olds
        i == SelectInSeq(versions, LAMBDA v : v.ver <= ts)
    IN IF i = 0 THEN Absent ELSE versions[i]

\* Where pointGet looks: SuRF instead of the bloom filter and the hash index.
PointLookup(t, k) ==
    CASE t.useSuRF -> SurfGet(t, k)
      [] ~t.useSuRF /\ ~BloomHas(t, k) -> NoEntry
      [] OTHER -> HashLookup(t, k)

PointGet(t, k, ts, p) ==
    LET it == SeekFromOffset(TableIterator(t, FALSE), p.blk, p.off, k)
    IN IF it.err \/ it.key # k THEN Absent ELSE TableAtVersion(it, ts)

\* After a conflict in the hash index Get seeks, and returns the newest version whatever ts is.
SeekGet(t, k) ==
    LET it == TableSeek(TableIterator(t, FALSE), k)
    IN IF it.err \/ it.key # k THEN Absent ELSE [ver |-> it.ver, val |-> it.val]

TableGet(t, k, ts) ==
    LET p == PointLookup(t, k)
    IN CASE p = NoEntry -> Absent
         [] p = Fallback -> SeekGet(t, k)
         [] OTHER -> PointGet(t, k, ts, p)

\* Mutant: the range check alone, with the end taken as part of the range.
HasOverlapSmallest(t, start, end, includeEnd) == start <= t.biggest /\ start >= t.smallest

\* HasOverlap. SuRF answers for its leaves, so it may report an overlap that is none.
HasOverlap(t, start, end, includeEnd) ==
    LET before(k) == k < end \/ (includeEnd /\ k = end)
        it == SeekFrom(TableIterator(t, FALSE), start)
        leaf == Min(SurfFrom(t, start))
    IN CASE start > t.biggest -> FALSE
         [] start <= t.biggest /\ end < t.smallest -> FALSE
         [] start <= t.biggest /\ end = t.smallest -> includeEnd
         [] OTHER -> IF t.useSuRF
                     THEN SurfFrom(t, start) # {} /\ (before(leaf) \/ leaf \in SurfLeaf(t, end))
                     ELSE ~it.err /\ before(it.key)
=============================================================================
