------------------------------- MODULE Memtable -------------------------------
(***************************************************************************)
(* A memtable (table/memtable): a list of batches that runWriteLSM puts at *)
(* its head, and a skip list into which runMergeLSM moves them, while      *)
(* readers look up a key or iterate. One goroutine puts, one merges.       *)
(*                                                                         *)
(* Batch i is a list node, a sequence of keys in order, written at version *)
(* i; list node 0 is nil. A node of the skip list is known by its key,     *)
(* Root is 0 and Nil is above all keys. The arena is left out: memory is   *)
(* not reused while there are readers (Epoch).                             *)
(***************************************************************************)
EXTENDS Integers, Sequences, FiniteSets, SequencesExt

CONSTANTS
    MaxKey,     \* keys are 1..MaxKey
    MaxHeight,  \* maxHeight
    Batches     \* the batches that are put, in order

VARIABLES
    pendingList,  \* Table.pendingList
    next,         \* listNode.next
    writer,       \* runWriteLSM in putToList: number of batches put, and the head it has loaded
    tasks,        \* length of mergeLSMCh
    tower,        \* node.tower: for each level, the next node of each node
    height,       \* skiplist.height
    vals,         \* the values of each node, newest first
    merger,       \* runMergeLSM
    reader        \* a reader

vars == <<pendingList, next, writer, tasks, tower, height, vals, merger, reader>>

UserKeys == 1..MaxKey

Root == 0

Nil == MaxKey + 1

Nodes == 1..Len(Batches)

Has(n, k) == k \in ToSet(Batches[n])

-----------------------------------------------------------------------------
(* Skip list *)

\* findNear. It compares a node that it met on the level above only once, which changes no result.
RECURSIVE FindNear(_, _, _, _, _)
FindNear(x, level, k, less, allowEqual) ==
    LET n == tower[level][x]
        down == FindNear(x, level - 1, k, less, allowEqual)
        here == IF less THEN (IF x = Root THEN Nil ELSE x) ELSE n
    IN IF n < k THEN FindNear(n, level, k, less, allowEqual)
       ELSE IF n = k /\ allowEqual THEN n
       ELSE IF n = k /\ ~less THEN tower[0][n]
       ELSE IF level > 0 THEN down ELSE here

\* findLast.
RECURSIVE FindLast(_, _)
FindLast(x, level) ==
    IF tower[level][x] # Nil THEN FindLast(tower[level][x], level)
    ELSE IF level > 0 THEN FindLast(x, level - 1)
    ELSE IF x = Root THEN Nil ELSE x

\* findSpliceForLevel.
RECURSIVE FindSpliceForLevel(_, _, _)
FindSpliceForLevel(k, before, level) ==
    LET n == tower[level][before]
    IN IF n < k THEN FindSpliceForLevel(k, n, level) ELSE [prev |-> before, next |-> n]

NoHint ==
    [height |-> 0, hitHeight |-> 0, prev |-> [i \in 0..MaxHeight |-> Nil], next |-> [i \in 0..MaxHeight |-> Nil]]

\* The loop of calculateRecomputeHeight: the lowest level from i on whose splice still holds the key.
RECURSIVE RecomputeFrom(_, _, _, _)
RecomputeFrom(k, h, i, listHeight) ==
    LET past(same(_)) == Min({j \in i..MaxHeight : ~same(j)} \cup {MaxHeight + 1})
    IN IF i >= listHeight THEN i
       ELSE IF tower[i][h.prev[i]] # h.next[i] THEN RecomputeFrom(k, h, i + 1, listHeight)
       ELSE IF h.prev[i] # Root /\ k <= h.prev[i]
            THEN RecomputeFrom(k, h, past(LAMBDA j : h.prev[j] = h.prev[i]), listHeight)
       ELSE IF h.next[i] # Nil /\ k > h.next[i]
            THEN RecomputeFrom(k, h, past(LAMBDA j : h.next[j] = h.next[i]), listHeight)
       ELSE i

\* calculateRecomputeHeight: the hint, and the number of levels to search again in "hitHeight".
CalculateRecomputeHeight(k, h, listHeight) ==
    IF h.height < listHeight
    THEN [height |-> listHeight, hitHeight |-> listHeight,
          prev |-> [h.prev EXCEPT ![listHeight] = Root], next |-> [h.next EXCEPT ![listHeight] = Nil]]
    ELSE [h EXCEPT !.hitHeight = RecomputeFrom(k, h, Max({0, h.hitHeight - 2}), listHeight)]

\* The search of PutWithHint from level i down. A match ends it, with the splice copied to the levels below.
RECURSIVE SearchDown(_, _, _)
SearchDown(k, h, i) ==
    LET s == FindSpliceForLevel(k, h.prev[i + 1], i)
        set(levels) == [h EXCEPT !.prev = [j \in DOMAIN @ |-> IF j \in levels THEN s.prev ELSE @[j]],
                                 !.next = [j \in DOMAIN @ |-> IF j \in levels THEN s.next ELSE @[j]]]
    IN IF i < 0 THEN h
       ELSE IF s.next = k THEN set(0..i)
       ELSE SearchDown(k, set({i}), i - 1)

Splice(k, h, listHeight) ==
    LET c == CalculateRecomputeHeight(k, h, listHeight) IN SearchDown(k, c, c.hitHeight - 1)

\* Mutant: the new value hides the older ones.
SetValueOver(k, ver) == vals' = [vals EXCEPT ![k] = IF ver <= @[1] THEN @ ELSE <<ver>>]

\* setValue: a version that is not newer changes nothing.
SetValue(k, ver) == vals' = [vals EXCEPT ![k] = IF ver <= @[1] THEN @ ELSE <<ver>> \o @]

-----------------------------------------------------------------------------

Idle == [pc |-> "idle"]

Init ==
    /\ pendingList = 0
    /\ next = [n \in Nodes |-> 0]
    /\ writer = [put |-> 0, old |-> Nil]
    /\ tasks = 0
    /\ tower = [i \in 0..(MaxHeight - 1) |-> [k \in Root..MaxKey |-> Nil]]
    /\ height = 1
    /\ vals = [k \in UserKeys |-> <<>>]
    /\ merger = Idle
    /\ reader = Idle

(* PutToPendingList *)

PutLoad ==
    /\ writer.put < Len(Batches) /\ writer.old = Nil
    /\ writer' = [writer EXCEPT !.old = pendingList]
    /\ UNCHANGED <<pendingList, next, tasks, tower, height, vals, merger, reader>>

\* The compare-and-swap, and after it the merge task of writeToLSM.
PutSwap ==
    /\ writer.old # Nil
    /\ UNCHANGED <<tower, height, vals, merger, reader>>
    /\ IF pendingList = writer.old
       THEN /\ pendingList' = writer.put + 1
            /\ next' = [next EXCEPT ![writer.put + 1] = writer.old]
            /\ writer' = [put |-> writer.put + 1, old |-> Nil]
            /\ tasks' = tasks + 1
       ELSE /\ writer' = [writer EXCEPT !.old = pendingList]
            /\ UNCHANGED <<pendingList, next, tasks>>

(* MergeListToSkl *)

RECURSIVE Chain(_)
Chain(n) == IF n = 0 THEN <<>> ELSE Append(Chain(next[n]), n)

\* The nodes are merged from the end of the list.
MergeBegin ==
    /\ merger = Idle /\ tasks > 0
    /\ tasks' = tasks - 1
    /\ merger' = IF pendingList = 0 THEN Idle
                 ELSE [pc |-> "node", head |-> pendingList, chain |-> Chain(pendingList)]
    /\ UNCHANGED <<pendingList, next, writer, tower, height, vals, reader>>

\* mergeToSkl of one node after that of its next: the nodes behind it are in the skip list.
MergeNode ==
    /\ merger.pc = "node"
    /\ IF merger.chain = <<>>
       THEN merger' = [merger EXCEPT !.pc = "swap"] /\ next' = next
       ELSE /\ next' = [next EXCEPT ![merger.chain[1]] = 0]
            /\ merger' = [pc |-> "put", head |-> merger.head, chain |-> merger.chain, e |-> 1, hint |-> NoHint]
    /\ UNCHANGED <<pendingList, writer, tasks, tower, height, vals, reader>>

EntryDone(hint) ==
    LET m == merger
    IN merger' = IF m.e < Len(Batches[m.chain[1]])
                 THEN [pc |-> "put", head |-> m.head, chain |-> m.chain, e |-> m.e + 1, hint |-> hint]
                 ELSE [pc |-> "node", head |-> m.head, chain |-> Tail(m.chain)]

\* PutWithHint up to the new node: h is the random height.
PutWithHint(h) ==
    /\ merger.pc = "put"
    /\ LET n == merger.chain[1]
           k == Batches[n][merger.e]
           listHeight == Max({h, height})
           hint == Splice(k, merger.hint, listHeight)
       IN /\ height' = listHeight
          /\ IF hint.next[0] = k
             THEN SetValue(k, n) /\ EntryDone(hint)
             ELSE /\ vals' = [vals EXCEPT ![k] = <<n>>]
                  /\ merger' = [merger EXCEPT !.pc = "link", !.hint = hint]
                                  @@ [key |-> k, level |-> 0, height |-> h, valid |-> TRUE]
    /\ UNCHANGED <<pendingList, next, writer, tasks, tower, reader>>

\* Mutant: the tower is linked from the top.
LinkFromTop ==
    /\ merger.pc = "link"
    /\ LET m == merger
           i == m.height - 1 - m.level
       IN /\ tower' = [tower EXCEPT ![i][m.key] = m.hint.next[i], ![i][m.hint.prev[i]] = m.key]
          /\ IF m.level + 1 < m.height THEN merger' = [m EXCEPT !.level = @ + 1]
             ELSE EntryDone(NoHint)
    /\ UNCHANGED <<pendingList, next, writer, tasks, height, vals, reader>>

\* One level of the new node is linked, or its splice is found again. After the last the hint is moved behind the node.
LinkLevel ==
    /\ merger.pc = "link"
    /\ LET m == merger
           i == m.level
           s == FindSpliceForLevel(m.key, m.hint.prev[i], i)
           moved(f, new(_)) == [j \in DOMAIN f |-> IF j < m.height THEN new(j) ELSE f[j]]
           after(j) == IF j = i THEN m.hint.next[i] ELSE tower[j][m.key]
           hint == [m.hint EXCEPT !.prev = moved(@, LAMBDA j : m.key), !.next = moved(@, after)]
       IN IF tower[i][m.hint.prev[i]] = m.hint.next[i]
          THEN /\ tower' = [tower EXCEPT ![i][m.key] = m.hint.next[i], ![i][m.hint.prev[i]] = m.key]
               /\ IF i + 1 < m.height THEN merger' = [m EXCEPT !.level = @ + 1]
                  ELSE EntryDone(IF m.valid THEN hint ELSE [m.hint EXCEPT !.height = 0])
          ELSE /\ merger' = [m EXCEPT !.hint.prev[i] = s.prev, !.hint.next[i] = s.next,
                                      !.valid = @ /\ i = 0]
               /\ tower' = tower
    /\ UNCHANGED <<pendingList, next, writer, tasks, height, vals, reader>>

\* The end of MergeListToSkl: the list becomes empty, or ends before the old head.
MergeSwap ==
    /\ merger.pc = "swap"
    /\ merger' = Idle
    /\ IF pendingList = merger.head
       THEN pendingList' = 0 /\ next' = next
       ELSE /\ next' = [n \in Nodes |-> IF next[n] = merger.head THEN 0 ELSE next[n]]
            /\ pendingList' = pendingList
    /\ UNCHANGED <<writer, tasks, tower, height, vals, reader>>

-----------------------------------------------------------------------------
(* Table.Get. Versions up to ts were put before the reader came. *)

GetBegin(k, ts) ==
    /\ reader = Idle
    /\ reader' = [pc |-> "list", key |-> k, ts |-> ts, node |-> pendingList]
    /\ UNCHANGED <<pendingList, next, writer, tasks, tower, height, vals, merger>>

Found(ver) == reader' = [pc |-> "found", key |-> reader.key, ts |-> reader.ts, ver |-> ver]

ListStep ==
    /\ reader.pc = "list"
    /\ LET r == reader
       IN IF r.node = 0
          THEN reader' = [pc |-> "skl", key |-> r.key, ts |-> r.ts, x |-> Root, level |-> height - 1]
          ELSE IF Has(r.node, r.key) /\ r.node <= r.ts THEN Found(r.node)
          ELSE reader' = [r EXCEPT !.node = next[r.node]]
    /\ UNCHANGED <<pendingList, next, writer, tasks, tower, height, vals, merger>>

\* skiplist.Get: one round of findNear, and in the end the values of the node.
SklStep ==
    /\ reader.pc = "skl"
    /\ LET r == reader
           n == tower[r.level][r.x]
           i == SelectInSeq(vals[r.key], LAMBDA v : v <= r.ts)
       IN IF n < r.key THEN reader' = [r EXCEPT !.x = n]
          ELSE IF n = r.key THEN Found(IF i = 0 THEN 0 ELSE vals[r.key][i])
          ELSE IF r.level > 0 THEN reader' = [r EXCEPT !.level = @ - 1]
          ELSE Found(0)
    /\ UNCHANGED <<pendingList, next, writer, tasks, tower, height, vals, merger>>

-----------------------------------------------------------------------------
(* Table.NewIterator and an iteration over all versions, as that of writeLevel0Table *)

ScanBegin(reversed) ==
    /\ reader = Idle
    /\ reader' = [pc |-> "capture", reversed |-> reversed, put |-> writer.put, node |-> pendingList,
                  lists |-> <<>>]
    /\ UNCHANGED <<pendingList, next, writer, tasks, tower, height, vals, merger>>

\* The skip list's iterator on a node: loadNode reads its values.
Load(n) == [n |-> n, vers |-> IF n = Nil THEN <<>> ELSE vals[n]]

\* The list nodes are taken one by one; then Rewind.
Capture ==
    /\ reader.pc = "capture"
    /\ LET r == reader
           first == IF r.reversed THEN FindLast(Root, height - 1) ELSE tower[0][Root]
       IN reader' = IF r.node # 0
                    THEN [r EXCEPT !.lists = Append(@, r.node), !.node = next[r.node]]
                    ELSE [pc |-> "scan", reversed |-> r.reversed, put |-> r.put, lists |-> r.lists,
                          left |-> UserKeys, skl |-> Load(first), shown |-> [k \in UserKeys |-> <<>>], late |-> {}]
    /\ UNCHANGED <<pendingList, next, writer, tasks, tower, height, vals, merger>>

\* The versions of a key that a tree of merge iterators shows by NextVersion, from those its leaves have.
RECURSIVE MergedVersions(_)
MergedVersions(lists) ==
    LET mid == Len(lists) \div 2
        a == MergedVersions(SubSeq(lists, 1, mid))
        b == MergedVersions(SubSeq(lists, mid + 1, Len(lists)))
    IN IF Len(lists) = 1 THEN lists[1]
       ELSE IF a = <<>> THEN b
       ELSE IF b = <<>> \/ Last(a) < b[1] THEN a
       ELSE IF Last(a) = b[1] THEN a \o Tail(b)
       ELSE a \o b

\* All versions of the next key, and Next. The key is late if the skip list's iterator shows a version
\* that is newer than a list node's: that node was merged after the iterator had taken it.
ScanKey ==
    /\ reader.pc = "scan"
    /\ LET r == reader
           keys == {k \in r.left : \E i \in DOMAIN r.lists : Has(r.lists[i], k)} \cup ({r.skl.n} \ {Nil})
           k == IF r.reversed THEN Max(keys) ELSE Min(keys)
           own == [i \in DOMAIN r.lists |-> IF Has(r.lists[i], k) THEN <<r.lists[i]>> ELSE <<>>]
           skl == IF r.skl.n = k THEN r.skl.vers ELSE <<>>
           after == IF r.reversed THEN FindNear(Root, height - 1, k, TRUE, FALSE) ELSE tower[0][k]
       IN IF keys = {} THEN reader' = [r EXCEPT !.pc = "scanned"]
          ELSE reader' = [r EXCEPT
                 !.shown[k] = MergedVersions(Append(own, skl)),
                 !.left = {j \in r.left : IF r.reversed THEN j < k ELSE j > k},
                 !.skl = IF r.skl.n = k THEN Load(after) ELSE @,
                 !.late = IF skl # <<>> /\ \E i \in DOMAIN own : own[i] # <<>> /\ own[i][1] < skl[1]
                          THEN @ \cup {k} ELSE @]
    /\ UNCHANGED <<pendingList, next, writer, tasks, tower, height, vals, merger>>

ReaderDone ==
    /\ reader.pc \in {"found", "scanned"}
    /\ reader' = Idle
    /\ UNCHANGED <<pendingList, next, writer, tasks, tower, height, vals, merger>>

Next ==
    \/ PutLoad
    \/ PutSwap
    \/ MergeBegin
    \/ MergeNode
    \/ \E h \in 1..MaxHeight : PutWithHint(h)
    \/ LinkLevel
    \/ MergeSwap
    \/ \E k \in UserKeys : \E ts \in 1..writer.put : GetBegin(k, ts)
    \/ ListStep
    \/ SklStep
    \/ \E reversed \in BOOLEAN : ScanBegin(reversed)
    \/ Capture
    \/ ScanKey
    \/ ReaderDone

Spec == Init /\ [][Next]_vars

-----------------------------------------------------------------------------

\* Get returns the newest version at or below its timestamp, wherever the batches are on their way
\* from the list to the skip list: listNode.next is cleared only when what it led to can be found
\* in the skip list, and towers are linked from the base level (mergeToSkl, PutWithHint).
GetExact ==
    reader.pc = "found" =>
        reader.ver = Max({0} \cup {v \in 1..reader.ts : Has(v, reader.key)})

\* An iteration shows, newest first, every version that was put before it began, in both
\* directions. The exception are the late keys: MergeIterator.NextVersion meets a version above the
\* last one it showed and takes it that there are no more.
ScanComplete ==
    reader.pc = "scanned" =>
        \A k \in UserKeys :
            LET shown == reader.shown[k]
            IN /\ \A i \in 1..(Len(shown) - 1) : shown[i] > shown[i + 1]
               /\ k \notin reader.late => {v \in 1..reader.put : Has(v, k)} \subseteq ToSet(shown)
=============================================================================
