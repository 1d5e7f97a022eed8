-------------------------------- MODULE Reads --------------------------------
(***************************************************************************)
(* A reader of one state of the store. A layout says which versions were   *)
(* written to which memtable and table. The reader opens an iterator on    *)
(* the tables that Builder makes of them and moves it about, and "ref" is  *)
(* the place it should be at in the list of the items that the transaction *)
(* may see.                                                                *)
(*                                                                         *)
(* A layout's "pending" is a sequence of writes, "mems" a sequence of sets *)
(* of versions [key, ver, val], and "l0" and "ln" have the plans of tables *)
(* [data, reset, useSuRF, hash, near]; reset tells that the builder had    *)
(* built another table before.                                             *)
(***************************************************************************)
EXTENDS Iterators

CONSTANTS
    Layouts,   \* the layouts to read
    Options,   \* options of the iterators
    MaxKey,    \* keys are 1..MaxKey
    MaxTs      \* read timestamps are 1..MaxTs

VARIABLES
    layout,    \* what lies where
    src,       \* the memtables and tables of the layout
    it,        \* the iterator of the transaction
    expected,  \* the items the transaction may see, in the order of the iterator
    ref        \* index of the item it should be at; Unopened before there is an iterator, and Unknown
               \* after a seek that SuRF cuts short

vars == <<layout, src, it, expected, ref>>

Keys == 1..MaxKey

Unknown == -1

Unopened == -2

NewestFirst(data) ==
    SetToSortSeq(data, LAMBDA a, b : a.key < b.key \/ (a.key = b.key /\ a.ver > b.ver))

Versions(data, k) ==
    LET vers == NewestFirst({d \in data : d.key = k})
    IN [i \in DOMAIN vers |-> [ver |-> vers[i].ver, val |-> vers[i].val]]

ListOf(data) ==
    LET keys == SetToSortSeq({d.key : d \in data}, <)
    IN [i \in DOMAIN keys |-> [key |-> keys[i], vers |-> Versions(data, keys[i])]]

\* The build of a table: newest version first as the iterators give them, with a new builder or one
\* that CompactTables has reset.
Build(plan) ==
    LET new == NewTableBuilder(plan.useSuRF)
        builder == IF plan.reset THEN ResetBuilder(new) ELSE new
    IN Finish(FoldLeft(Add, builder, NewestFirst(plan.data)), plan.hash, plan.near, 0)

Store(lay) ==
    [pending |-> lay.pending, mems |-> [i \in DOMAIN lay.mems |-> ListOf(lay.mems[i])],
     l0 |-> [i \in DOMAIN lay.l0 |-> Build(lay.l0[i])],
     ln |-> [i \in DOMAIN lay.ln |-> [j \in DOMAIN lay.ln[i] |-> Build(lay.ln[i][j])]]]

Plans(lay) == ToSet(lay.l0) \cup UNION {ToSet(lay.ln[i]) : i \in DOMAIN lay.ln}

Written(lay) == UNION (ToSet(lay.mems) \cup {p.data : p \in Plans(lay)})

\* After a Reset the old versions of the first key that has any are at offset 0, which means none.
LostToReset(plan) ==
    LET older == {d \in plan.data : \E e \in plan.data : e.key = d.key /\ e.ver > d.ver}
    IN {d \in older : plan.reset /\ \A e \in older : e.key >= d.key}

Readable(lay) == Written(lay) \ UNION {LostToReset(p) : p \in Plans(lay)}

\* The newest version at or below ts.
NewestAt(data, k, ts) ==
    LET vers == {d \in data : d.key = k /\ d.ver <= ts}
        d == CHOOSE d \in vers : \A e \in vers : e.ver <= d.ver
    IN IF vers = {} THEN Absent ELSE [ver |-> d.ver, val |-> d.val]

\* What a transaction may see of a key: its own write instead of the version readTs, then the
\* versions from readTs down.
VisibleVersions(lay, opt, ts, k) ==
    LET own == {[key |-> k, ver |-> ts, val |-> p.val] : p \in {p \in ToSet(lay.pending) : p.key = k}}
        committed == {d \in Readable(lay) : d.key = k /\ d.ver <= ts /\ (own # {} => d.ver < ts)}
        all == NewestFirst(own \cup committed)
    IN IF k \in Internal \/ all = <<>> THEN <<>>
       ELSE IF opt.allVersions THEN all
       ELSE IF Deleted(all[1]) THEN <<>> ELSE <<all[1]>>

Expected(lay, opt, ts) ==
    FlattenSeq([i \in Keys |-> VisibleVersions(lay, opt, ts, IF opt.reversed THEN MaxKey + 1 - i ELSE i)])

-----------------------------------------------------------------------------

Init ==
    /\ layout \in Layouts
    /\ src = Store(layout)
    /\ it = [item |-> <<>>] /\ expected = <<>>
    /\ ref = Unopened

OpenIt(opt, ts) ==
    /\ ref = Unopened
    /\ it' = NewIterator(src, opt, ts)
    /\ expected' = Expected(layout, opt, ts)
    /\ ref' = 0
    /\ UNCHANGED <<layout, src>>

\* The versions of a source are not all at or above those of the next one: a key of the
\* transaction's own has the version readTs, and a newer version was committed meanwhile.
\* MergeIterator.NextVersion then takes it that it has swapped already.
Overtaken ==
    /\ it.opt.allVersions
    /\ \E p \in ToSet(layout.pending), d \in Written(layout) : d.key = p.key /\ d.ver > it.readTs

\* seek in a table with SuRF: the leaf it finds is that of a smaller key, the last of its block.
SurfStops(t, k) ==
    \E b \in DOMAIN t.blocks : t.useSuRF /\ Last(t.blocks[b]).key \in SurfLeaf(t, k) \ {k}

CutShort(k) ==
    /\ ~it.opt.reversed
    /\ \E t \in ToSet(src.l0) \cup UNION {ToSet(src.ln[i]) : i \in DOMAIN src.ln} : SurfStops(t, k)

RewindIt ==
    /\ ref # Unopened
    /\ it' = ItRewind(it)
    /\ ref' = 1
    /\ UNCHANGED <<layout, src, expected>>

SeekIt(k) ==
    LET after(e) == IF it.opt.reversed THEN e.key <= k ELSE e.key >= k
    IN /\ ref # Unopened
       /\ it' = ItSeek(it, k)
       /\ ref' = IF CutShort(k) THEN Unknown ELSE 1 + Search([i \in 0..(Len(expected) - 1) |-> after(expected[i + 1])])
       /\ UNCHANGED <<layout, src, expected>>

NextIt ==
    /\ it.item # <<>>
    /\ it' = ItNext(it)
    /\ ref' = IF ref = Unknown THEN Unknown ELSE ref + 1
    /\ UNCHANGED <<layout, src, expected>>

Next ==
    \/ \E opt \in Options, ts \in 1..MaxTs : OpenIt(opt, ts)
    \/ RewindIt
    \/ \E k \in Keys : SeekIt(k)
    \/ NextIt

Spec == Init /\ [][Next]_vars

-----------------------------------------------------------------------------

\* An iterator shows exactly the items the transaction may see, in key order, whatever moves led
\* there: through own writes, memtables, overlapping and concatenated tables, blocks and old
\* versions, forward and backward (iterator.go parseItem over table.MergeIterator).
ScanExact ==
    ref > 0 /\ ~Overtaken => it.item = IF ref > Len(expected) THEN <<>> ELSE <<expected[ref]>>

\* db.get finds the newest version at or below its timestamp, whichever index the tables have: bloom
\* filter, hash index with conflicts or SuRF (sstable Table.Get). The one exception is a conflict in
\* the hash index, after which Get answers with the newest version of the table.
GetExact ==
    ref = Unopened =>
        \A k \in Keys, ts \in 1..MaxTs : \E result \in {DBGet(src, k, ts)} :
            \/ result = NewestAt(Readable(layout), k, ts)
            \/ \E t \in ToSet(LevelTables(src, k)) :
                  PointLookup(t, k) = Fallback /\ result = SeekGet(t, k) /\ result.ver > ts

\* The items that an iteration from the start shows.
RECURSIVE Collect(_)
Collect(x) == IF x.item = <<>> THEN <<>> ELSE x.item \o Collect(ItNext(x))

\* StartKey and EndKey leave out memtables and tables, and never an item between them: all the
\* Overlap functions and Table.HasOverlap agree with what the sources hold. The one exception are
\* the own writes of a reversed iterator, whose first entry is the largest.
PruningSound ==
    ref = 0 /\ ~Overtaken =>
        \A a \in Keys, b \in 2..(MaxKey + 1) : a < b =>
            LET opt == [it.opt EXCEPT !.range = <<a, b>>]
                inside(list) == SelectSeq(list, LAMBDA e : InRange(e.key, opt.range))
                pruned == opt.reversed /\ ~OverlapPending(ListIterator(layout.pending, TRUE), opt.range)
                lay == IF pruned THEN [layout EXCEPT !.pending = <<>>] ELSE layout
            IN inside(Collect(ItRewind(NewIterator(src, opt, it.readTs))))
                 = inside(Expected(lay, opt, it.readTs))
=============================================================================
