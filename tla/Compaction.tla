----------------------------- MODULE Compaction -----------------------------
(***************************************************************************)
(* The decisions of a compaction (compaction.go, levels.go) as operators:  *)
(* which tables it takes, which key ranges it reserves, which versions it  *)
(* keeps and where it cuts its output.                                     *)
(*                                                                         *)
(* A table is [id, data] and an entry of its data <<key, version, deleted>>. *)
(* Table.Smallest has the largest version and Table.Biggest version 0, so  *)
(* ranges compare user keys only. An entry has size one. Guards of a       *)
(* compaction filter, which only move the cuts, and the filter are left    *)
(* out, and HasOverlap is the exact one (a table without SuRF).            *)
(***************************************************************************)
EXTENDS Integers, Sequences, FiniteSets, SequencesExt, KeyVersions

CONSTANTS
    MaxKey,        \* keys are 1..MaxKey
    MaxTableSize,  \* TableBuilderOptions.MaxTableSize
    MinSkippedSize,\* minSkippedTableSize
    MaxExpandSize  \* maxCompactionExpandSize

ASSUME CompactionAssumption ==
    {MaxKey, MaxTableSize, MinSkippedSize, MaxExpandSize} \subseteq Nat

Keys == 1..MaxKey

Inf == <<0, MaxKey + 1>>

KeysOf(t) == {e[1] : e \in t.data}

Smallest(t) == Min(KeysOf(t))

Biggest(t) == Max(KeysOf(t))

Size(t) == Cardinality(t.data)

SumTableSize(ts) == FoldLeft(LAMBDA sum, t : sum + Size(t), 0, ts)

SortTables(ts) == SortSeq(ts, LAMBDA a, b : Smallest(a) < Smallest(b))

\* assertTablesOrder of a level above 0.
TablesOrdered(ts) ==
    \A i \in 1..(Len(ts) - 1) : Smallest(ts[i]) < Smallest(ts[i + 1]) /\ Biggest(ts[i]) < Biggest(ts[i + 1])

\* validate, which Open calls, asks for more.
Validate(ts) ==
    \A i \in 1..(Len(ts) - 1) : Biggest(ts[i]) < Smallest(ts[i + 1])

OverlapsWith(r, s) == r[1] <= s[2] /\ s[1] <= r[2]

KeyRange(ts) == <<Min({Smallest(ts[i]) : i \in DOMAIN ts}), Max({Biggest(ts[i]) : i \in DOMAIN ts})>>

\* The half-open interval of indexes that getTablesInRange returns.
TablesInRange(ts, r) ==
    <<Cardinality({i \in DOMAIN ts : Biggest(ts[i]) < r[1]}),
      Cardinality({i \in DOMAIN ts : Smallest(ts[i]) <= r[2]})>>

Slice(ts, lr) == SubSeq(ts, lr[1] + 1, lr[2])

IsCompacting(ranges, ts) ==
    /\ ts # <<>>
    /\ \E r \in ranges : OverlapsWith(r, <<Smallest(ts[1]), Biggest(Last(ts))>>)

\* Table.HasOverlap: a key of the table lies in the range.
HasOverlap(t, r) == \E k \in KeysOf(t) : r[1] <= k /\ k <= r[2]

\* Mutant: a large bottom table is skipped whatever the top tables hold.
SkipsLarge(top, t) == Size(t) >= MinSkippedSize

Skips(top, t) ==
    /\ Size(t) >= MinSkippedSize
    /\ \A i \in DOMAIN top : ~HasOverlap(top[i], <<Smallest(t), Biggest(t)>>)

\* fillBottomTables: which of the overlapping tables are rewritten and which only kept in place.
WithBottom(cd, tables) ==
    [cd EXCEPT !.bot = SelectSeq(tables, LAMBDA t : ~Skips(cd.top, t)),
               !.skipped = SelectSeq(tables, LAMBDA t : Skips(cd.top, t))]

NoCompaction ==
    [level |-> 0, top |-> <<>>, bot |-> <<>>, skipped |-> <<>>, this |-> Inf, next |-> Inf,
     topSize |-> 0, hints |-> <<>>]

\* fillTablesL0 up to compareAndAdd: all of level 0.
FillTablesL0(this, next) ==
    LET kr == KeyRange(this)
        overlapping == Slice(next, TablesInRange(next, kr))
    IN WithBottom([NoCompaction EXCEPT !.top = this, !.topSize = SumTableSize(this),
                       !.next = IF overlapping = <<>> THEN kr ELSE KeyRange(overlapping)],
                  overlapping)

\* calcRatio, kept as a fraction.
CalcRatio(top, bot) == <<top, IF bot = 0 THEN 1 ELSE bot>>

Greater(a, b) == a[1] * b[2] > b[1] * a[2]

\* One round of the loops of fillTables that expand to the left and to the right. x has the
\* half-open intervals of the top and the bottom tables, and whether the loop was left.
Expand(this, next, busyThis, busyNext, ratio, x, i) ==
    LET lr == TablesInRange(next, <<Smallest(this[i]), Biggest(this[i])>>)
        toLeft == i <= x.top[1]
        gap == IF toLeft THEN lr[2] < x.bot[1] ELSE lr[1] > x.bot[2]
        more == Slice(next, IF toLeft THEN <<lr[1], x.bot[1]>> ELSE <<x.bot[2], lr[2]>>)
        top == IF toLeft THEN <<i - 1, x.top[2]>> ELSE <<x.top[1], i>>
        bot == IF toLeft THEN <<lr[1], x.bot[2]>> ELSE <<x.bot[1], lr[2]>>
        topSize == SumTableSize(Slice(this, top))
        botSize == SumTableSize(more) + SumTableSize(Slice(next, x.bot))
    IN IF x.left \/ gap \/ IsCompacting(busyThis, <<this[i]>>) \/ IsCompacting(busyNext, more)
             \/ ~Greater(CalcRatio(topSize, botSize), ratio) \/ topSize + botSize >= MaxExpandSize
       THEN [x EXCEPT !.left = TRUE]
       ELSE [x EXCEPT !.top = top, !.bot = bot]

TablesBelow(next, t) == TablesInRange(next, <<Smallest(t), Biggest(t)>>)

RatioOf(next, t) == CalcRatio(Size(t), SumTableSize(Slice(next, TablesBelow(next, t))))

\* The tables of this level that fillTables may start from.
FreeTables(this, next, busyThis, busyNext) ==
    {i \in DOMAIN this : /\ ~IsCompacting(busyThis, <<this[i]>>)
                         /\ ~IsCompacting(busyNext, Slice(next, TablesBelow(next, this[i])))}

\* The intervals of top and bottom tables around table c, to the left and then to the right.
ExpandAround(this, next, busyThis, busyNext, c) ==
    LET step(x, i) == Expand(this, next, busyThis, busyNext, RatioOf(next, this[c]), x, i)
        start == [top |-> <<c - 1, c>>, bot |-> TablesBelow(next, this[c]), left |-> FALSE]
        toLeft == FoldLeft(step, start, Reverse([i \in 1..(c - 1) |-> i]))
    IN FoldLeft(step, [toLeft EXCEPT !.left = FALSE], [i \in 1..(Len(this) - c) |-> c + i])

Definition(level, top, bots) ==
    WithBottom([NoCompaction EXCEPT !.level = level, !.top = top, !.topSize = SumTableSize(top),
                    !.this = KeyRange(top), !.next = KeyRange(IF bots = <<>> THEN top ELSE bots)],
               bots)

DefinitionOf(level, this, next, x) == Definition(level, Slice(this, x.top), Slice(next, x.bot))

\* fillTables up to compareAndAdd: the first table with the best ratio of its size to the
\* size below it, and its neighbours as long as the ratio gets better.
FillTables(level, this, next, busyThis, busyNext) ==
    LET free == FreeTables(this, next, busyThis, busyNext)
        best == {i \in free : \A j \in free : ~Greater(RatioOf(next, this[j]), RatioOf(next, this[i]))}
    IN IF free = {} THEN NoCompaction
       ELSE DefinitionOf(level, this, next, ExpandAround(this, next, busyThis, busyNext, Min(best)))

MoveDown(cd) == cd.level > 0 /\ cd.bot = <<>> /\ cd.skipped = <<>>

-----------------------------------------------------------------------------
(* CompactTables *)

\* Where the output is cut before a key: a skipped table lies in between, the table is full, or a
\* split hint was reached. x has the finished tables, the one being built, the last key,
\* and what is left of skippedTbls and splitHints.
AddKey(data, safeTS, hasOverlap, x, k) ==
    LET skipped == SelectSeq(x.skipped, LAMBDA t : k <= Biggest(t))
        hints == SelectSeq(x.hints, LAMBDA h : k < h)
        cut == \/ skipped # x.skipped /\ x.cur # {}
               \/ x.last # 0 /\ Cardinality(x.cur) + 1 > MaxTableSize
               \/ hints # x.hints
        kept == Kept(data, k, safeTS, hasOverlap)
    IN [done |-> IF cut /\ x.cur # {} THEN Append(x.done, x.cur) ELSE x.done,
        cur |-> IF cut THEN kept ELSE x.cur \cup kept,
        last |-> k, skipped |-> skipped, hints |-> hints]

\* The data of the tables that a compaction builds, in key order.
CompactTables(cd, safeTS, hasOverlap) ==
    LET data == UNION {t.data : t \in ToSet(cd.top) \cup ToSet(cd.bot)}
        keys == SetToSortSeq({e[1] : e \in data}, LAMBDA a, b : a < b)
        step(x, k) == AddKey(data, safeTS, hasOverlap, x, k)
        end == FoldLeft(step, [done |-> <<>>, cur |-> {}, last |-> 0,
                               skipped |-> cd.skipped, hints |-> cd.hints], keys)
    IN IF end.cur = {} THEN end.done ELSE Append(end.done, end.cur)
=============================================================================
