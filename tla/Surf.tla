-------------------------------- MODULE Surf --------------------------------
(***************************************************************************)
(* SuRF (package surf), the index of the tables of deep levels: a trie of  *)
(* the keys cut where they differ, its upper levels in LOUDS-dense and the *)
(* others in LOUDS-sparse form.                                            *)
(*                                                                         *)
(* A key is a sequence of labels below Fanout (denseFanout), the greatest  *)
(* of which is labelTerminator. A bit vector is the set of its positions,  *)
(* counted from 0; words and lookup tables are left out. The value of the  *)
(* i-th key is i. A real suffix is one label, a hash suffix any function   *)
(* of the key. The sizes of determineCutoffLevel are left open. Prev and   *)
(* SeekToLast are not called by the store.                                 *)
(***************************************************************************)
EXTENDS Integers, Sequences, FiniteSets, SequencesExt

CONSTANTS
    Fanout,    \* denseFanout
    Queries,   \* the keys that are asked for
    KeySets,   \* the sets of keys of a table
    Options    \* SuRFOptions: [hash, real]

VARIABLES
    keys,   \* the keys of the table
    surf,   \* SuRF: [ld, ls, options]
    iter,   \* Iterator: [d |-> denseIter, s |-> sparseIter]
    start,  \* the key it was sought with, if it has not moved since
    ref     \* the values it may stand at; Len(keys) + 1 for none

vars == <<keys, surf, iter, start, ref>>

None == <<Fanout>>

labelTerminator == Fanout - 1

couldBePositive == 2

Rank(bits, pos) == Cardinality({p \in bits : p <= pos})

Select(bits, rank) == CHOOSE p \in bits : Rank(bits, p) = rank

\* pos + DistanceToNextSetBit(pos); numBits behind the last one.
NextSet(bits, pos, numBits) == Min({p \in bits : p > pos} \cup {numBits})

\* bytes.Compare.
RECURSIVE Compare(_, _)
Compare(a, b) ==
    CASE a = <<>> /\ b = <<>> -> 0
      [] a = <<>> /\ b # <<>> -> -1
      [] a # <<>> /\ b = <<>> -> 1
      [] OTHER -> IF a[1] < b[1] THEN -1 ELSE IF a[1] > b[1] THEN 1 ELSE Compare(Tail(a), Tail(b))

-----------------------------------------------------------------------------
(* Suffixes *)

HashOf(key) == FoldLeft(LAMBDA h, label : (2 * h + label) % 3, 0, key)

\* constructRealSuffix: 0 if the key is too short.
RealSuffix(key, level) == IF Len(key) <= level THEN 0 ELSE key[level + 1]

ConstructSuffix(opt, key, level) ==
    [hash |-> IF opt.hash THEN HashOf(key) ELSE 0, real |-> IF opt.real THEN RealSuffix(key, level) ELSE 0]

CheckEquality(opt, suffix, key, level) ==
    IF opt.real /\ ~opt.hash
    THEN suffix.real = 0 \/ (Len(key) > level /\ suffix.real = RealSuffix(key, level))
    ELSE suffix = ConstructSuffix(opt, key, level)

\* suffixVector.Compare.
CompareSuffix(opt, suffix, key, level) ==
    LET expected == RealSuffix(key, level)
    IN CASE ~opt.real \/ suffix.real = 0 \/ expected = 0 \/ suffix.real = expected -> couldBePositive
         [] OTHER -> IF suffix.real < expected THEN -1 ELSE 1

-----------------------------------------------------------------------------
(* Builder *)

NoItems == [labels |-> <<>>, hasChild |-> <<>>, louds |-> <<>>, leaves |-> <<>>, prefixes |-> <<>>]

AddItem(b, level, label, hasChild, first) ==
    [b EXCEPT ![level] = [@ EXCEPT !.labels = Append(@, label), !.hasChild = Append(@, hasChild),
                                   !.louds = Append(@, first)]]

\* insertSuffix and insertValue.
AddLeaf(b, level, opt, k, depth) ==
    [b EXCEPT ![level].leaves = Append(@, [value |-> k.value, suffix |-> ConstructSuffix(opt, k.key, depth + 1)])]

\* The runs of keys with the same label at depth.
RECURSIVE Groups(_, _)
Groups(ks, depth) ==
    IF ks = <<>> THEN <<>>
    ELSE LET same == SelectSeq(ks, LAMBDA k : k.key[depth + 1] = ks[1].key[depth + 1])
         IN <<same>> \o Groups(SubSeq(ks, Len(same) + 1, Len(ks)), depth)

\* buildNodes: a node for the keys that share their first depth labels. A node with one way is left out,
\* its label joins the prefix of the next one.
RECURSIVE BuildNodes(_, _, _, _, _, _)
BuildNodes(b, opt, ks, prefixDepth, depth, level) ==
    LET levels == IF level > Len(b) THEN Append(b, NoItems) ELSE b
        ends == depth >= Len(ks[1].key)
        groups == Groups(IF ends THEN Tail(ks) ELSE ks, depth)
        begun == IF ends THEN AddLeaf(AddItem(levels, level, labelTerminator, FALSE, TRUE), level, opt, ks[1], depth)
                 ELSE levels
        add(acc, i) ==
            LET g == groups[i]
                added == AddItem(acc, level, g[1].key[depth + 1], Len(g) > 1, i = 1 /\ ~ends)
            IN IF Len(g) = 1 THEN AddLeaf(added, level, opt, g[1], depth)
               ELSE BuildNodes(added, opt, g, depth + 1, depth + 1, level + 1)
    IN IF Len(groups) = 1 /\ ~ends /\ Len(ks) > 1
       THEN BuildNodes(levels, opt, ks, prefixDepth, depth + 1, level)
       ELSE LET built == FoldLeftDomain(add, begun, groups)
            IN [built EXCEPT ![level].prefixes = Append(@, SubSeq(ks[1].key, prefixDepth + 1, depth))]

NodeCount(level) == Len(level.prefixes)

Flatten(levels, field(_)) == FlattenSeq([i \in DOMAIN levels |-> field(levels[i])])

\* The positions of the bits of a vector over all its levels.
Bits(bools) == {p - 1 : p \in {p \in DOMAIN bools : bools[p]}}

\* buildDense and loudsDense.Init.
DenseInit(levels) ==
    LET labels == Flatten(levels, LAMBDA l : l.labels)
        hasChild == Flatten(levels, LAMBDA l : l.hasChild)
        louds == Bits(Flatten(levels, LAMBDA l : l.louds))
        nodeID(i) == Rank(louds, i - 1) - 1
        terminator(i) == i - 1 \in louds /\ labels[i] = labelTerminator /\ ~hasChild[i]
        pos(i) == nodeID(i) * Fanout + labels[i]
        items == {i \in DOMAIN labels : ~terminator(i)}
    IN [height |-> Len(levels), numBits |-> Cardinality(louds) * Fanout,
        labelVec |-> {pos(i) : i \in items},
        hasChildVec |-> {pos(i) : i \in {i \in items : hasChild[i]}},
        isPrefixVec |-> {nodeID(i) : i \in DOMAIN labels \ items},
        leaves |-> Flatten(levels, LAMBDA l : l.leaves),
        prefixes |-> Flatten(levels, LAMBDA l : l.prefixes)]

\* loudsSparse.Init.
SparseInit(b, startLevel) ==
    LET dense == SubSeq(b, 1, startLevel)
        levels == SubSeq(b, startLevel + 1, Len(b))
        denseNodeCount == Len(Flatten(dense, LAMBDA l : l.prefixes))
    IN [height |-> Len(levels), denseNodeCount |-> denseNodeCount,
        denseChildCount |-> IF startLevel = 0 THEN 0 ELSE denseNodeCount + NodeCount(levels[1]) - 1,
        labelVec |-> Flatten(levels, LAMBDA l : l.labels),
        hasChildVec |-> Bits(Flatten(levels, LAMBDA l : l.hasChild)),
        loudsVec |-> Bits(Flatten(levels, LAMBDA l : l.louds)),
        leaves |-> Flatten(levels, LAMBDA l : l.leaves),
        prefixes |-> Flatten(levels, LAMBDA l : l.prefixes)]

Build(b, opt, startLevel) ==
    [ld |-> DenseInit(SubSeq(b, 1, startLevel)), ls |-> SparseInit(b, startLevel), opt |-> opt]

-----------------------------------------------------------------------------
(* loudsDense and loudsSparse *)

DenseChild(ld, pos) == Rank(ld.hasChildVec, pos)

DenseNext(ld, pos) == NextSet(ld.labelVec, pos, ld.numBits)

\* Mutant: a leaf at label 0 takes the place of the prefix key before it.
DenseLeafUncorrected(ld, pos, isPrefix) ==
    ld.leaves[Rank(ld.labelVec, pos) - Rank(ld.hasChildVec, pos) + Rank(ld.isPrefixVec, pos \div Fanout)]

\* The leaf at suffixPos, with the correction for a leaf at label 0.
DenseLeaf(ld, pos, isPrefix) ==
    LET n == Rank(ld.labelVec, pos) - Rank(ld.hasChildVec, pos) + Rank(ld.isPrefixVec, pos \div Fanout)
    IN ld.leaves[IF isPrefix /\ pos \in ld.labelVec \ ld.hasChildVec THEN n - 1 ELSE n]

SparseLeaf(ls, pos) == ls.leaves[pos - Rank(ls.hasChildVec, pos) + 1]

SparseChild(ls, pos) == Rank(ls.hasChildVec, pos) + ls.denseChildCount

FirstLabelPos(ls, nodeID) == Select(ls.loudsVec, nodeID + 1 - ls.denseNodeCount)

SparsePrefix(ls, nodeID) == ls.prefixes[nodeID - ls.denseNodeCount + 1]

GetLabel(ls, pos) == ls.labelVec[pos + 1]

\* The first position behind the node.
NodeEnd(ls, pos) == NextSet(ls.loudsVec, pos, Len(ls.labelVec))

IsEndOfNode(ls, pos) == NodeEnd(ls, pos) = pos + 1

\* Mutant: the terminator is taken for a label.
LabelsAll(ls, pos) == pos .. (NodeEnd(ls, pos) - 1)

\* The positions that labelVector.Search and SearchGreaterThan look at: the terminator is skipped.
Labels(ls, pos) ==
    LET size == NodeEnd(ls, pos) - pos
    IN (IF size > 1 /\ GetLabel(ls, pos) = labelTerminator THEN pos + 1 ELSE pos) .. (NodeEnd(ls, pos) - 1)

Search(ls, label, pos) == {p \in Labels(ls, pos) : GetLabel(ls, p) = label}

SearchGreaterThan(ls, label, pos) == {p \in Labels(ls, pos) : GetLabel(ls, p) > label}

\* CheckPrefix.
HasPrefix(key, depth, prefix) ==
    depth + Len(prefix) <= Len(key) /\ SubSeq(key, depth + 1, depth + Len(prefix)) = prefix

Found(opt, leaf, key, depth) == IF CheckEquality(opt, leaf.suffix, key, depth + 1) THEN leaf.value ELSE 0

\* loudsSparse.Get; 0 is not found.
RECURSIVE SparseGet(_, _, _, _)
SparseGet(s, key, startDepth, nodeID) ==
    LET ls == s.ls
        pos == FirstLabelPos(ls, nodeID)
        prefix == IF startDepth >= Len(key) THEN <<>> ELSE SparsePrefix(ls, nodeID)
        depth == startDepth + Len(prefix)
    IN CASE ~HasPrefix(key, startDepth, prefix) -> 0
         [] HasPrefix(key, startDepth, prefix) /\ depth >= Len(key) ->
              IF GetLabel(ls, pos) = labelTerminator /\ pos \notin ls.hasChildVec
              THEN Found(s.opt, SparseLeaf(ls, pos), key, depth) ELSE 0
         [] OTHER ->
              LET found == Search(ls, key[depth + 1], pos)
                  at == Min(found)
              IN IF found = {} THEN 0
                 ELSE IF at \in ls.hasChildVec THEN SparseGet(s, key, depth + 1, SparseChild(ls, at))
                 ELSE Found(s.opt, SparseLeaf(ls, at), key, depth)

\* loudsDense.Get from a node on, and Get of the sparse levels below.
RECURSIVE DenseGet(_, _, _, _, _)
DenseGet(s, key, startDepth, nodeID, level) ==
    LET ld == s.ld
        prefix == ld.prefixes[nodeID + 1]
        depth == startDepth + Len(prefix)
        pos == nodeID * Fanout + key[depth + 1]
    IN CASE level = ld.height -> SparseGet(s, key, startDepth, nodeID)
         [] level < ld.height /\ ~HasPrefix(key, startDepth, prefix) -> 0
         [] level < ld.height /\ HasPrefix(key, startDepth, prefix) /\ depth >= Len(key) ->
              IF nodeID \in ld.isPrefixVec
              THEN Found(s.opt, DenseLeaf(ld, nodeID * Fanout, TRUE), key, depth) ELSE 0
         [] OTHER ->
              CASE pos \notin ld.labelVec -> 0
                [] pos \in ld.hasChildVec -> DenseGet(s, key, depth + 1, DenseChild(ld, pos), level + 1)
                [] pos \in ld.labelVec \ ld.hasChildVec -> Found(s.opt, DenseLeaf(ld, pos, FALSE), key, depth)

Get(s, key) == DenseGet(s, key, 0, 0, 0)

\* The prefix of a node compared with the key from depth on.
ComparePrefix(prefix, key, depth) ==
    IF prefix = <<>> THEN 0
    ELSE Compare(prefix, SubSeq(key, depth + 1, Min({depth + Len(prefix), Len(key)})))

-----------------------------------------------------------------------------
(* denseIter *)

DenseReset(ld) ==
    [valid |-> FALSE, searchComp |-> FALSE, leftComp |-> FALSE, level |-> 0, atPrefixKey |-> FALSE, key |-> <<>>,
     pos |-> [l \in 0 .. (ld.height - 1) |-> 0], prefixLen |-> [l \in 0 .. (ld.height - 1) |-> 0],
     sendOutNodeID |-> 0, sendOutDepth |-> 0]

\* The iterator is at a key of the dense levels.
Complete(it) == [it EXCEPT !.valid = TRUE, !.searchComp = TRUE, !.leftComp = TRUE]

\* It goes on in a sparse node, with the key looked for or with the leftmost one.
SendOut(it, nodeID, depth, searchComp) ==
    [it EXCEPT !.valid = TRUE, !.searchComp = searchComp, !.leftComp = ~searchComp,
               !.sendOutNodeID = nodeID, !.sendOutDepth = depth]

IsComplete(it) == it.searchComp /\ it.leftComp

\* append, of the dense and of the sparse iterator.
AppendLabel(it, prefix, label, pos) ==
    [it EXCEPT !.key = @ \o prefix \o <<label>>, !.pos[it.level] = pos,
               !.prefixLen[it.level] = Len(prefix) + 1 + (IF it.level = 0 THEN 0 ELSE it.prefixLen[it.level - 1])]

\* setAt, of both.
SetAt(it, label, pos) ==
    [it EXCEPT !.key = Append(SubSeq(@, 1, it.prefixLen[it.level] - 1), label), !.pos[it.level] = pos]

DenseAppend(ld, it, pos) == AppendLabel(it, ld.prefixes[pos \div Fanout + 1], pos % Fanout, pos)

RECURSIVE DenseLeftMost(_, _)
DenseLeftMost(ld, it) ==
    LET pos == it.pos[it.level]
        nodeID == DenseChild(ld, pos)
        below == DenseAppend(ld, [it EXCEPT !.level = @ + 1], DenseNext(ld, nodeID * Fanout - 1))
    IN CASE pos \notin ld.hasChildVec -> Complete(it)
         [] pos \in ld.hasChildVec /\ it.level = ld.height - 1 -> SendOut(it, nodeID, Len(it.key), TRUE)
         [] OTHER -> IF nodeID \in ld.isPrefixVec THEN Complete([below EXCEPT !.atPrefixKey = TRUE])
                     ELSE DenseLeftMost(ld, below)

\* denseIter.Next from a level on upwards.
RECURSIVE DenseUp(_, _)
DenseUp(ld, it) ==
    LET pos == it.pos[it.level]
        next == DenseNext(ld, pos)
    IN IF next \div Fanout = pos \div Fanout THEN DenseLeftMost(ld, SetAt(it, next % Fanout, next))
       ELSE IF it.level = 0 THEN [it EXCEPT !.valid = FALSE]
       ELSE DenseUp(ld, [it EXCEPT !.level = @ - 1])

DenseNextKey(ld, it) ==
    CASE ld.height = 0 -> it
      [] ld.height > 0 /\ it.atPrefixKey -> DenseLeftMost(ld, [it EXCEPT !.atPrefixKey = FALSE])
      [] OTHER -> DenseUp(ld, it)

\* denseIter.Seek from a node on.
RECURSIVE DenseSeek(_, _, _, _, _)
DenseSeek(s, it, key, startDepth, nodeID) ==
    LET ld == s.ld
        prefix == ld.prefixes[nodeID + 1]
        cmp == ComparePrefix(prefix, key, startDepth)
        depth == startDepth + Len(prefix)
        first == DenseAppend(ld, it, DenseNext(ld, nodeID * Fanout - 1))
        pos == nodeID * Fanout + key[depth + 1]
        at == DenseAppend(ld, it, pos)
    IN CASE it.level = ld.height -> SendOut([it EXCEPT !.level = @ - 1], nodeID, startDepth, FALSE)
         [] it.level < ld.height /\ cmp < 0 ->
              IF nodeID = 0 THEN [it EXCEPT !.valid = FALSE] ELSE DenseNextKey(ld, [it EXCEPT !.level = @ - 1])
         [] it.level < ld.height /\ cmp >= 0 /\ (cmp > 0 \/ depth >= Len(key)) ->
              IF nodeID \in ld.isPrefixVec THEN Complete([first EXCEPT !.atPrefixKey = TRUE])
              ELSE DenseLeftMost(ld, first)
         [] OTHER ->
              CASE pos \notin ld.labelVec -> DenseNextKey(ld, at)
                [] pos \in ld.hasChildVec ->
                     DenseSeek(s, [at EXCEPT !.level = @ + 1], key, depth + 1, DenseChild(ld, pos))
                [] pos \in ld.labelVec \ ld.hasChildVec ->
                     IF CompareSuffix(s.opt, DenseLeaf(ld, pos, FALSE).suffix, key, depth + 1) < 0
                     THEN DenseNextKey(ld, at) ELSE Complete(at)

-----------------------------------------------------------------------------
(* sparseIter *)

SparseReset(ls) ==
    [valid |-> FALSE, level |-> 0, atTerminator |-> FALSE, key |-> <<>>, startNodeID |-> 0, startDepth |-> 0,
     pos |-> [l \in 0 .. (ls.height - 1) |-> 0], prefixLen |-> [l \in 0 .. (ls.height - 1) |-> 0]]

SparseAppend(ls, it, nodeID, pos) == AppendLabel(it, SparsePrefix(ls, nodeID), GetLabel(ls, pos), pos)

\* The end of MoveToLeftMostKey.
RECURSIVE SparseDown(_, _)
SparseDown(ls, it) ==
    LET pos == it.pos[it.level]
        nodeID == SparseChild(ls, pos)
    IN IF pos \in ls.hasChildVec
       THEN SparseDown(ls, SparseAppend(ls, [it EXCEPT !.level = @ + 1], nodeID, FirstLabelPos(ls, nodeID)))
       ELSE [it EXCEPT !.valid = TRUE,
                       !.atTerminator = @ \/ (GetLabel(ls, pos) = labelTerminator /\ ~IsEndOfNode(ls, pos))]

SparseLeftMost(ls, it) ==
    SparseDown(ls, IF it.key # <<>> THEN it
                   ELSE SparseAppend(ls, it, it.startNodeID, FirstLabelPos(ls, it.startNodeID)))

\* sparseIter.Next from a level on upwards.
RECURSIVE SparseUp(_, _)
SparseUp(ls, it) ==
    LET pos == it.pos[it.level] + 1
    IN IF pos < Len(ls.labelVec) /\ pos \notin ls.loudsVec
       THEN SparseLeftMost(ls, SetAt(it, GetLabel(ls, pos), pos))
       ELSE IF it.level = 0 THEN [it EXCEPT !.valid = FALSE, !.key = <<>>]
       ELSE SparseUp(ls, [it EXCEPT !.level = @ - 1])

SparseNextKey(ls, it) == SparseUp(ls, [it EXCEPT !.atTerminator = FALSE])

\* sparseIter.Seek from a node on.
RECURSIVE SparseSeek(_, _, _, _, _)
SparseSeek(s, it, key, startDepth, nodeID) ==
    LET ls == s.ls
        pos == FirstLabelPos(ls, nodeID)
        prefix == SparsePrefix(ls, nodeID)
        cmp == ComparePrefix(prefix, key, startDepth)
        depth == startDepth + Len(prefix)
        label == key[depth + 1]
        found == Search(ls, label, pos)
        greater == SearchGreaterThan(ls, label, pos)
        to(p) == SparseAppend(ls, it, nodeID, p)
    IN CASE cmp < 0 ->
              IF it.level = 0 THEN [it EXCEPT !.valid = FALSE] ELSE SparseNextKey(ls, [it EXCEPT !.level = @ - 1])
         [] cmp > 0 \/ (cmp = 0 /\ depth >= Len(key)) -> SparseLeftMost(ls, to(pos))
         [] OTHER ->
              CASE found = {} ->
                     IF greater # {} THEN SparseLeftMost(ls, to(Min(greater)))
                     ELSE SparseNextKey(ls, to(Max(Labels(ls, pos))))
                [] found # {} ->
                     LET p == Min(found)
                     IN CASE p \in ls.hasChildVec ->
                               SparseSeek(s, [to(p) EXCEPT !.level = @ + 1], key, depth + 1, SparseChild(ls, p))
                          [] p \notin ls.hasChildVec ->
                               IF CompareSuffix(s.opt, SparseLeaf(ls, p).suffix, key, depth + 1) < 0
                               THEN SparseNextKey(ls, to(p)) ELSE [to(p) EXCEPT !.valid = TRUE]

-----------------------------------------------------------------------------
(* Iterator *)

NewIterator(s) == [d |-> DenseReset(s.ld), s |-> SparseReset(s.ls)]

Valid(s, it) ==
    IF s.ld.height = 0 THEN it.s.valid ELSE it.d.valid /\ (IsComplete(it.d) \/ it.s.valid)

\* incrDenseIter.
IncrDense(s, it) ==
    IF ~it.d.valid THEN it
    ELSE LET d == DenseNextKey(s.ld, it.d)
             from == [it.s EXCEPT !.startNodeID = d.sendOutNodeID, !.startDepth = d.sendOutDepth]
         IN [d |-> d, s |-> IF ~d.valid \/ d.leftComp THEN it.s ELSE SparseLeftMost(s.ls, from)]

Next1(s, it) ==
    LET moved == [it EXCEPT !.s = SparseNextKey(s.ls, it.s)]
    IN IF it.s.valid /\ moved.s.valid THEN moved ELSE IncrDense(s, IF it.s.valid THEN moved ELSE it)

Seek1(s, key) ==
    LET d == DenseSeek(s, DenseReset(s.ld), key, 0, 0)
        from == [SparseReset(s.ls) EXCEPT !.startNodeID = d.sendOutNodeID, !.startDepth = d.sendOutDepth]
        sought == [d |-> d, s |-> SparseSeek(s, from, key, d.sendOutDepth, d.sendOutNodeID)]
    IN CASE ~d.valid \/ IsComplete(d) -> [d |-> d, s |-> SparseReset(s.ls)]
         [] d.valid /\ ~d.searchComp -> IF sought.s.valid THEN sought ELSE IncrDense(s, sought)
         [] OTHER -> [d |-> d, s |-> SparseLeftMost(s.ls, from)]

DenseAt(s, it) == DenseLeaf(s.ld, it.d.pos[it.d.level], it.d.atPrefixKey)

SparseAt(s, it) == SparseLeaf(s.ls, it.s.pos[it.s.level])

Value(s, it) == IF IsComplete(it.d) THEN DenseAt(s, it).value ELSE SparseAt(s, it).value

\* Key: without the label of a prefix key or a terminator.
ItKey(it) ==
    CASE IsComplete(it.d) -> IF it.d.atPrefixKey THEN Front(it.d.key) ELSE it.d.key
      [] OTHER -> it.d.key \o (IF it.s.atTerminator THEN Front(it.s.key) ELSE it.s.key)

\* Iterator.compare: the labels, then the suffix of the leaf.
CompareAt(s, it, key) ==
    LET labels == ItKey(it)
        n == Min({Len(labels), Len(key)})
        cmp == Compare(SubSeq(labels, 1, n), SubSeq(key, 1, n))
        exact == IF IsComplete(it.d) THEN it.d.atPrefixKey ELSE it.s.atTerminator
        leaf == IF IsComplete(it.d) THEN DenseAt(s, it) ELSE SparseAt(s, it)
    IN CASE cmp # 0 -> cmp
         [] cmp = 0 /\ Len(labels) > Len(key) -> 1
         [] cmp = 0 /\ Len(labels) = Len(key) /\ exact -> 0
         [] OTHER -> CompareSuffix(s.opt, leaf.suffix, key, Len(labels))

\* HasOverlap, with the iterator that Seek has moved to the start of the range.
HasOverlap(s, it, end, includeEnd) ==
    LET cmp == CompareAt(s, it, end)
    IN Valid(s, it) /\ (cmp < 0 \/ cmp = couldBePositive \/ (cmp = 0 /\ includeEnd))

-----------------------------------------------------------------------------

Init ==
    /\ \E ks \in KeySets : keys = SetToSortSeq(ks, LAMBDA a, b : Compare(a, b) < 0)
    /\ \E opt \in Options :
         \E b \in {BuildNodes(<<>>, opt, [i \in DOMAIN keys |-> [key |-> keys[i], value |-> i]], 0, 0, 1)} :
           \E startLevel \in 0 .. (Len(b) - 1) : surf = Build(b, opt, startLevel)
    /\ iter = NewIterator(surf)
    /\ start = None
    /\ ref = {Len(keys) + 1}

\* The first key that is not less.
Ceiling(key) == Min({i \in DOMAIN keys : Compare(keys[i], key) >= 0} \cup {Len(keys) + 1})

\* Seek: the leaf may be that of the greatest key that is less, which the cut key cannot tell. Reset
\* makes any iterator a new one first.
Seek(key) ==
    /\ iter = NewIterator(surf)
    /\ iter' = Seek1(surf, key)
    /\ start' = key
    /\ ref' = IF key \in ToSet(keys) THEN {Ceiling(key)} ELSE {Ceiling(key), Ceiling(key) - 1} \ {0}
    /\ UNCHANGED <<keys, surf>>

NextKey ==
    /\ Valid(surf, iter)
    /\ iter' = Next1(surf, iter)
    /\ start' = None
    /\ ref' = {Value(surf, iter) + 1}
    /\ UNCHANGED <<keys, surf>>

Next ==
    \/ \E key \in Queries : Seek(key)
    \/ NextKey

Spec == Init /\ [][Next]_vars

-----------------------------------------------------------------------------

\* SuRF never misses: Get answers with the position of every key of the table, and HasOverlap is true
\* of every range with a key in it, whatever levels are dense (surf.go: SuRF.Get, SuRF.HasOverlap).
NeverMisses ==
    /\ iter = NewIterator(surf) => \A i \in DOMAIN keys : Get(surf, keys[i]) = i
    /\ start # None =>
        \A i \in Ceiling(start) .. Len(keys), end \in Queries, includeEnd \in BOOLEAN :
            Compare(keys[i], end) < (IF includeEnd THEN 1 ELSE 0) => HasOverlap(surf, iter, end, includeEnd)

\* Seek stops at the first key that is not less, or at the leaf just before it if the cut key cannot
\* tell them apart, and exactly at a key of the table; Next leaves out no key, also where the
\* iterator goes from the dense levels to the sparse ones and back.
SeekExact ==
    IF Valid(surf, iter) THEN Value(surf, iter) \in ref ELSE Len(keys) + 1 \in ref
=============================================================================
