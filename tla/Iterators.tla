------------------------------ MODULE Iterators ------------------------------
(***************************************************************************)
(* Reading through all the sources of the store: the iterators that        *)
(* concatenate and merge tables (table), the iterator of a transaction     *)
(* over its own writes, the memtables and the levels (iterator.go,         *)
(* transaction.go), and the search of db.get through the same sources.     *)
(*                                                                         *)
(* An iterator is a record with a kind; the operations of the interface    *)
(* y.Iterator dispatch on it. A "list" iterator goes over a sequence of    *)
(* [key, vers], vers newest first: it stands for the iterator of a         *)
(* memtable and, with one version per key, for pendingWritesIterator. A    *)
(* merge iterator's children read their key and valid fields from the      *)
(* iterator they hold, which the code refreshes after every move.          *)
(***************************************************************************)
EXTENDS SSTable

CONSTANT Internal   \* keys that start with '!'

\* isDeleted.
Deleted(item) == item.val = 0

EmptyIterator == [kind |-> "empty"]

ListIterator(list, reversed) ==
    [kind |-> "list", list |-> IF reversed THEN Reverse(list) ELSE list, reversed |-> reversed,
     i |-> Len(list) + 1, v |-> 1]

NewConcatIterator(tables, reversed) ==
    [kind |-> "concat", tables |-> tables, reversed |-> reversed, idx |-> 0, cur |-> EmptyIterator]

RECURSIVE Valid(_)
Valid(it) ==
    CASE it.kind = "empty" -> FALSE
      [] it.kind = "list" -> it.i <= Len(it.list)
      [] it.kind = "table" -> ~it.err
      [] it.kind = "concat" -> Valid(it.cur)
      [] it.kind = "merge" -> Valid(it.smaller)

\* Key and Value of a valid iterator.
RECURSIVE Item(_)
Item(it) ==
    CASE it.kind = "list" -> LET e == it.list[it.i]
                             IN [key |-> e.key, ver |-> e.vers[it.v].ver, val |-> e.vers[it.v].val]
      [] it.kind = "table" -> [key |-> it.key, ver |-> it.ver, val |-> it.val]
      [] it.kind = "concat" -> Item(it.cur)
      [] it.kind = "merge" -> Item(it.smaller)

Swap(m) == [m EXCEPT !.smaller = m.bigger, !.bigger = m.smaller, !.second = ~@]

\* Mutant: of two equal keys, the second iterator's is taken.
FixEither(m) ==
    IF ~Valid(m.bigger) THEN m
    ELSE IF ~Valid(m.smaller) THEN Swap(m)
    ELSE LET s == Item(m.smaller).key
             b == Item(m.bigger).key
         IN IF s = b THEN [m EXCEPT !.sameKey = TRUE]
            ELSE LET n == [m EXCEPT !.sameKey = FALSE]
                 IN IF (m.reversed /\ s < b) \/ (~m.reversed /\ s > b) THEN Swap(n) ELSE n

\* fix: the smaller key first, and of two equal keys the one of the first iterator ("second" tells
\* that the second iterator is in "smaller").
Fix(m) ==
    IF ~Valid(m.bigger) THEN m
    ELSE IF ~Valid(m.smaller) THEN Swap(m)
    ELSE LET s == Item(m.smaller).key
             b == Item(m.bigger).key
             n == [m EXCEPT !.sameKey = s = b]
         IN IF \/ s = b /\ m.second
               \/ m.reversed /\ s < b
               \/ ~m.reversed /\ s > b
            THEN Swap(n) ELSE n

\* NewMergeIterator: a balanced tree over the iterators.
RECURSIVE NewMergeIterator(_, _)
NewMergeIterator(iters, reversed) ==
    LET mid == Len(iters) \div 2
        part(a, b) == NewMergeIterator(SubSeq(iters, a, b), reversed)
    IN CASE Len(iters) = 0 -> EmptyIterator
         [] Len(iters) = 1 -> iters[1]
         [] OTHER -> [kind |-> "merge", smaller |-> part(1, mid), bigger |-> part(mid + 1, Len(iters)),
                      second |-> FALSE, sameKey |-> FALSE, reversed |-> reversed]

\* setIdx of ConcatIterator on a table, with the Rewind of a new table iterator.
ConcatSetIdx(it, i) ==
    IF i < 1 \/ i > Len(it.tables) THEN [it EXCEPT !.idx = i, !.cur = EmptyIterator]
    ELSE [it EXCEPT !.idx = i, !.cur = TableRewind(TableIterator(it.tables[i], it.reversed))]

RECURSIVE Rewind(_)
Rewind(it) ==
    CASE it.kind = "empty" -> it
      [] it.kind = "list" -> [it EXCEPT !.i = 1, !.v = 1]
      [] it.kind = "table" -> TableRewind(it)
      [] it.kind = "concat" -> ConcatSetIdx(it, IF it.reversed THEN Len(it.tables) ELSE 1)
      [] it.kind = "merge" -> Fix([it EXCEPT !.smaller = Rewind(@), !.bigger = Rewind(@)])

\* The table ConcatIterator.Seek goes to.
ConcatFind(it, k) ==
    LET n == Len(it.tables)
    IN IF it.reversed THEN n - Search([i \in 0..(n - 1) |-> it.tables[n - i].smallest <= k])
       ELSE 1 + Search([i \in 0..(n - 1) |-> it.tables[i + 1].biggest >= k])

ConcatSeek(it, k) ==
    LET at == ConcatSetIdx(it, ConcatFind(it, k))
    IN IF at.cur = EmptyIterator THEN at ELSE [at EXCEPT !.cur = TableSeek(@, k)]

RECURSIVE SeekKey(_, _)
SeekKey(it, k) ==
    CASE it.kind = "empty" -> it
      [] it.kind = "list" ->
           LET stops == [i \in 0..(Len(it.list) - 1) |-> IF it.reversed THEN it.list[i + 1].key <= k
                                                          ELSE it.list[i + 1].key >= k]
           IN [it EXCEPT !.v = 1, !.i = 1 + Search(stops)]
      [] it.kind = "table" -> TableSeek(it, k)
      [] it.kind = "concat" -> ConcatSeek(it, k)
      [] it.kind = "merge" -> Fix([it EXCEPT !.smaller = SeekKey(@, k), !.bigger = SeekKey(@, k)])

\* ConcatIterator.Next. No table is empty.
ConcatNext(it) ==
    LET n == [it EXCEPT !.cur = TableNext(@)]
    IN IF Valid(n) THEN n ELSE ConcatSetIdx(n, IF it.reversed THEN n.idx - 1 ELSE n.idx + 1)

RECURSIVE NextKey(_)
NextKey(it) ==
    CASE it.kind = "empty" -> it
      [] it.kind = "list" -> [it EXCEPT !.i = @ + 1, !.v = 1]
      [] it.kind = "table" -> TableNext(it)
      [] it.kind = "concat" -> ConcatNext(it)
      [] it.kind = "merge" ->
           Fix([it EXCEPT !.smaller = NextKey(@),
                          !.bigger = IF it.sameKey /\ Valid(@) THEN NextKey(@) ELSE @])

\* NextVersion as the set of the iterators it leads to: empty when it returns false, which changes nothing.
RECURSIVE NextVersion(_)
NextVersion(it) ==
    CASE it.kind = "empty" -> {}
      [] it.kind = "list" -> IF it.v < Len(it.list[it.i].vers) THEN {[it EXCEPT !.v = @ + 1]} ELSE {}
      [] it.kind = "table" -> IF TableHasOld(it) THEN {TableNextVersion(it)} ELSE {}
      [] it.kind = "concat" -> {[it EXCEPT !.cur = c] : c \in NextVersion(it.cur)}
      [] it.kind = "merge" ->
           LET more == NextVersion(it.smaller)
               s == Item(it.smaller).ver
               b == Item(it.bigger).ver
           IN IF more # {} THEN {[it EXCEPT !.smaller = c] : c \in more}
              ELSE IF ~it.sameKey \/ ~Valid(it.bigger) \/ s < b THEN {}
              ELSE IF s = b THEN {Swap([it EXCEPT !.bigger = c]) : c \in NextVersion(it.bigger)}
              ELSE {Swap(it)}

RECURSIVE SeekToVersion(_, _)
SeekToVersion(it, ts) ==
    IF Item(it).ver <= ts THEN {it} ELSE UNION {SeekToVersion(n, ts) : n \in NextVersion(it)}

-----------------------------------------------------------------------------
(* The iterator of a transaction. src has the sources: "pending", the      *)
(* transaction's own writes by key; "mems", memtables newest first; "l0",  *)
(* tables oldest first; "ln", for each level above 0 its tables.           *)

\* newPendingWritesIterator: the writes have the version readTs.
PendingList(pending, ts) ==
    [i \in 1..Len(pending) |-> [key |-> pending[i].key, vers |-> <<[ver |-> ts, val |-> pending[i].val]>>]]

InRange(k, range) == range[1] <= k /\ k < range[2]

\* OverlapPending looks at the first and the last entry, which are exchanged in a reversed iteration.
OverlapPending(it, range) ==
    LET first == it.list[1].key
        last == Last(it.list).key
    IN it.list # <<>> /\ (range = <<>> \/ (range[2] > first /\ range[1] <= last))

OverlapMemTable(list, range) ==
    LET at == SeekKey(ListIterator(list, FALSE), range[1])
    IN list # <<>> /\ (range = <<>> \/ (Valid(at) /\ Item(at).key < range[2]))

OverlapTable(t, range) == range = <<>> \/ HasOverlap(t, range[1], range[2], FALSE)

OverlapTables(tables, range) ==
    LET from == Search([i \in 0..(Len(tables) - 1) |-> range[1] <= tables[i + 1].biggest])
        to == Search([i \in 0..(Len(tables) - 1) |-> i >= from /\ tables[i + 1].smallest >= range[2]])
    IN IF range = <<>> THEN tables
       ELSE SelectSeq(SubSeq(tables, from + 1, to), LAMBDA t : OverlapTable(t, range))

\* appendIterators of the levels.
LevelIterators(src, opt) ==
    LET l0 == SelectSeq(src.l0, LAMBDA t : OverlapTable(t, opt.range))
        ln == [i \in DOMAIN src.ln |-> OverlapTables(src.ln[i], opt.range)]
        concat(tables) == NewConcatIterator(tables, opt.reversed)
        used == SelectSeq(ln, LAMBDA tables : tables # <<>>)
    IN [i \in DOMAIN l0 |-> concat(<<Reverse(l0)[i]>>)] \o [i \in DOMAIN used |-> concat(used[i])]

NewIterator(src, opt, ts) ==
    LET own == ListIterator(PendingList(src.pending, ts), opt.reversed)
        mems == SelectSeq(src.mems, LAMBDA list : OverlapMemTable(list, opt.range))
        iters == (IF OverlapPending(own, opt.range) THEN <<own>> ELSE <<>>)
                   \o [i \in DOMAIN mems |-> ListIterator(mems[i], opt.reversed)]
                   \o LevelIterators(src, opt)
    IN [iitr |-> NewMergeIterator(iters, opt.reversed), opt |-> opt, readTs |-> ts, item |-> <<>>]

\* parseItem with updateItem: on to the next item the transaction may see.
RECURSIVE ParseItem(_)
ParseItem(x) ==
    LET found == IF Item(x.iitr).key \in Internal THEN {} ELSE SeekToVersion(x.iitr, x.readTs)
        at == CHOOSE n \in found : TRUE
        on(it) == ParseItem([x EXCEPT !.iitr = NextKey(it)])
    IN IF ~Valid(x.iitr) THEN [x EXCEPT !.item = <<>>]
       ELSE IF found = {} THEN on(x.iitr)
       ELSE IF Deleted(Item(at)) /\ ~x.opt.allVersions THEN on(at)
       ELSE [x EXCEPT !.iitr = at, !.item = <<Item(at)>>]

ItRewind(x) == ParseItem([x EXCEPT !.iitr = Rewind(@)])

ItSeek(x, k) == ParseItem([x EXCEPT !.iitr = SeekKey(@, k)])

ItNext(x) ==
    LET more == IF x.opt.allVersions THEN NextVersion(x.iitr) ELSE {}
        at == CHOOSE n \in more : TRUE
    IN IF more # {} THEN [x EXCEPT !.iitr = at, !.item = <<Item(at)>>]
       ELSE ParseItem([x EXCEPT !.iitr = NextKey(@)])

-----------------------------------------------------------------------------
(* db.get: memtables, level 0 from the newest, then one table of each level. *)

ListGet(list, k, ts) ==
    LET i == SelectInSeq(list, LAMBDA e : e.key = k)
        v == SelectInSeq(list[i].vers, LAMBDA e : e.ver <= ts)
    IN IF i = 0 THEN Absent ELSE IF v = 0 THEN Absent ELSE list[i].vers[v]

\* getLevelNTable.
LevelNTable(tables, k) ==
    LET i == Search([j \in 0..(Len(tables) - 1) |-> tables[j + 1].biggest >= k])
    IN IF i = Len(tables) THEN <<>> ELSE <<tables[i + 1]>>

LevelTables(src, k) ==
    Reverse(src.l0) \o FlattenSeq([i \in DOMAIN src.ln |-> LevelNTable(src.ln[i], k)])

DBGet(src, k, ts) ==
    LET tables == LevelTables(src, k)
        results == [i \in DOMAIN src.mems |-> ListGet(src.mems[i], k, ts)]
                     \o [i \in DOMAIN tables |-> TableGet(tables[i], k, ts)]
        i == SelectInSeq(results, LAMBDA r : r # Absent)
    IN IF i = 0 THEN Absent ELSE results[i]
=============================================================================
