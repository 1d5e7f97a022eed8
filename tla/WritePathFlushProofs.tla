------------------------ MODULE WritePathFlushProofs ------------------------
(***************************************************************************)
(* Proofs about the write path, third part: memtables are filled, frozen,  *)
(* flushed and dropped in one order. Every step keeps Structure and        *)
(* Contents, unless an ingestion flushes a memtable in the middle of       *)
(* writeToLSM.                                                             *)
(***************************************************************************)
EXTENDS WritePathProofs

-----------------------------------------------------------------------------
(* Sizes and shapes *)

LEMMA Sizes ==
    ASSUME MemTypes, Queue
    PROVE  /\ Len(l0) \in Nat /\ Len(flushChan) \in Nat /\ InHand \in {0, 1} /\ Quitting \in {0, 1}
           /\ Queued \in Nat /\ Frozen \in Nat /\ Frozen = Len(l0) + InHand + Queued
           /\ nextMem \in Nat /\ nextMem > 1 /\ Mutable(tbls) \in Nat /\ Top \in Nat
<1>1. Len(l0) \in Nat /\ Len(flushChan) \in Nat
  BY LenFacts DEF MemTypes, Stored, TaskTypes
<1>2. InHand \in {0, 1} /\ Quitting \in {0, 1} /\ Queued \in Nat
  BY DEF InHand, Quitting, Queue
<1>3. Frozen \in Nat /\ Frozen = Len(l0) + InHand + Queued
  BY <1>1, <1>2 DEF Frozen
<1>4. nextMem \in Nat /\ nextMem > 1
  BY WritePathAssumption DEF MemTypes, Counters
<1>5. Mutable(tbls) \in Nat
  BY MutableType, WritePathAssumption DEF MemTypes, Objects, Mems
<1>6. QED
  BY <1>1, <1>2, <1>3, <1>4, <1>5 DEF Top, Front

LEMMA FrontType ==
    ASSUME NEW ts, Sound(ts), NEW next \in Nat
    PROVE  Mutable(ts) \in Nat /\ Front(ts, next) \in Nat
BY MutableType, WritePathAssumption DEF Mems, Front

LEMMA ShapeGrows ==
    ASSUME NEW ts, NEW next \in Nat, NEW n \in Nat, NEW n2 \in Nat, Shape(ts, next, n), n <= n2
    PROVE  Shape(ts, next, n2)
<1>1. Front(ts, next) \in Nat /\ ts.length \in Nat
  BY FrontType, TablesFields DEF Shape, Sound
<1>2. Front(ts, next) - ts.length <= n2
  BY <1>1 DEF Shape
<1>3. QED
  BY <1>2 DEF Shape

\* nextMem matters only behind nil.
LEMMA ShapeNext ==
    ASSUME NEW ts, NEW next, NEW next2, NEW n, Shape(ts, next, n), Mutable(ts) # 0
    PROVE  Shape(ts, next2, n) /\ Front(ts, next2) = Front(ts, next)
<1>1. Front(ts, next2) = Front(ts, next)
  BY DEF Front
<1>2. QED
  BY <1>1 DEF Shape

LEMMA ShapeMake ==
    ASSUME NEW next \in Nat, NEW n \in Nat, Shape(tbls, next, n), Mutable(tbls) # 0,
           NEW mt \in Mems, NEW next2 \in Nat,
           (mt # 0 /\ mt = Mutable(tbls) + 1) \/ (mt = 0 /\ next2 = Mutable(tbls) + 1)
    PROVE  /\ Shape(NewMemTables(mt), next2, n) /\ Mutable(NewMemTables(mt)) = mt
           /\ Front(NewMemTables(mt), next2) = Mutable(tbls) + 1
<1> DEFINE nt == NewMemTables(mt)
           top == Mutable(tbls)
<1>1. /\ Sound(tbls) /\ top \in Nat /\ tbls.length \in Nat /\ tbls.length <= Len(tbls.tables)
      /\ Len(tbls.tables) \in Nat
  BY MutableType, TablesFields, LenFacts, WritePathAssumption DEF Shape, Sound, Mems
<1>2. /\ Len(tbls.tables) <= top /\ 1 <= tbls.length /\ top - tbls.length <= n
      /\ \A i \in 2..Len(tbls.tables) : tbls.tables[i] = top - i + 1
  BY DEF Shape, Front
<1>3. /\ Sound(nt) /\ nt.length = tbls.length + 1 /\ Len(nt.tables) = tbls.length + 1
      /\ Mutable(nt) = mt
      /\ \A i \in 2..(tbls.length + 1) : nt.tables[i] = tbls.tables[i - 1]
  BY <1>1, NewTables
<1>4. tbls.tables[1] = top
  BY DEF Mutable
<1> HIDE DEF nt, top
<1>5. Front(nt, next2) = top + 1
  BY <1>3 DEF Front, top
<1>6. \A i \in 2..(tbls.length + 1) : nt.tables[i] = top + 1 - i + 1
  <2> SUFFICES ASSUME NEW i \in 2..(tbls.length + 1) PROVE nt.tables[i] = top + 1 - i + 1
    OBVIOUS
  <2>1. CASE i = 2
    <3>1. 2 \in 2..(tbls.length + 1) /\ 2 - 1 = 1 /\ top + 1 - 2 + 1 = top
      BY <1>1, <1>2
    <3>2. nt.tables[2] = tbls.tables[1]
      BY <1>3, <3>1
    <3>3. QED
      BY <1>4, <2>1, <3>1, <3>2
  <2>2. CASE i # 2
    <3>1. i - 1 \in 2..Len(tbls.tables) /\ nt.tables[i] = tbls.tables[i - 1]
      BY <1>1, <1>3, <2>2
    <3>2. tbls.tables[i - 1] = top - (i - 1) + 1
      BY <1>2, <3>1
    <3>3. QED
      BY <1>1, <3>1, <3>2
  <2>3. QED
    BY <2>1, <2>2
<1>7. tbls.length + 1 <= top + 1 /\ top + 1 - (tbls.length + 1) <= n
  BY <1>1, <1>2
<1>8. /\ Len(nt.tables) <= Front(nt, next2) /\ 1 <= nt.length
      /\ Front(nt, next2) - nt.length <= n
  BY <1>1, <1>3, <1>5, <1>7
<1>9. \A i \in 2..Len(nt.tables) : nt.tables[i] = Front(nt, next2) - i + 1
  <2>1. Len(nt.tables) = tbls.length + 1
    BY <1>3
  <2>2. SUFFICES ASSUME NEW i \in 2..Len(nt.tables) PROVE nt.tables[i] = Front(nt, next2) - i + 1
    OBVIOUS
  <2>3. nt.tables[i] = top + 1 - i + 1
    BY <1>6, <2>1
  <2>4. i \in Int /\ top \in Nat
    BY <1>1
  <2>5. QED
    BY <1>5, <2>3, <2>4
<1>10. Shape(nt, next2, n)
  BY <1>3, <1>8, <1>9 DEF Shape
<1>11. QED
  BY <1>3, <1>5, <1>10 DEF nt, top

\* The flushed memtable is not the first; when it is left out, so are those in level 0.
LEMMA ShapeLowered ==
    ASSUME NEW next \in Nat, NEW n \in Nat, Shape(tbls, next, n), n < Front(tbls, next),
           ft.mt = n, n > 0
    PROVE  Shape(Lowered, next, n) /\ Mutable(Lowered) = Mutable(tbls)
<1> DEFINE top == Front(tbls, next)
           low == Lowered
<1>1. Sound(tbls) /\ Len(tbls.tables) <= top /\ \A i \in 2..Len(tbls.tables) : tbls.tables[i] = top - i + 1
  BY DEF Shape
<1>2. /\ Sound(low) /\ low.tables = tbls.tables
      /\ \/ low = tbls
         \/ low.length + 1 \in 1..Len(tbls.tables) /\ tbls.tables[low.length + 1] = ft.mt
  BY <1>1, LoweredFact
<1>3. Mutable(low) = Mutable(tbls) /\ Front(low, next) = top
  BY <1>2 DEF Mutable, Front
<1>4. CASE low = tbls
  BY <1>3, <1>4
<1>5. CASE low.length + 1 \in 1..Len(tbls.tables) /\ tbls.tables[low.length + 1] = ft.mt
  <2>1. top \in Nat /\ low.length \in Nat /\ Len(tbls.tables) \in Nat /\ Mutable(tbls) \in Nat
    BY <1>1, <1>2, FrontType, TablesFields, LenFacts DEF Sound
  <2> HIDE DEF low
  <2>2. low.length + 1 # 1
    <3>1. tbls.tables[1] = Mutable(tbls)
      BY DEF Mutable
    <3>2. Mutable(tbls) = n => top = n
      BY DEF Front
    <3>3. tbls.tables[1] # ft.mt
      BY <2>1, <3>1, <3>2
    <3>4. QED
      BY <1>5, <3>3
  <2>3. low.length + 1 \in 2..Len(tbls.tables)
    BY <1>5, <2>1, <2>2
  <2>4. n = top - (low.length + 1) + 1
    BY <1>1, <1>5, <2>3
  <2>5. 1 <= low.length /\ top - low.length <= n
    BY <2>1, <2>3, <2>4
  <2>6. QED
    BY <1>1, <1>2, <1>3, <2>5 DEF Shape, low
<1>6. QED
  BY <1>2, <1>4, <1>5

-----------------------------------------------------------------------------
(* The steps that only move a goroutine *)

-----------------------------------------------------------------------------
(* The steps that only move a goroutine *)

LEMMA Spots == At("vlog") = vpc /\ At("lsm") = lpc /\ At("close") = closing
BY DEF At

LEMMA CountsSame ==
    ASSUME UNCHANGED <<tbls, nextMem, flushChan, mpc, l0>>,
           closing' = closing \/ (closing' # "wait" /\ closing # "wait")
    PROVE  Quitting' = Quitting /\ Queued' = Queued /\ InHand' = InHand /\ Frozen' = Frozen /\ Top' = Top
<1>1. Quitting' = Quitting /\ InHand' = InHand /\ Top' = Top
  BY DEF Quitting, InHand, Top, Front, Mutable
<1>2. QED
  BY <1>1 DEF Queued, Frozen

LEMMA QueueSame ==
    ASSUME Queue, UNCHANGED <<flushChan, ft, l0, mpc, deleted, Quitting>>
    PROVE  Queue'
<1>1. Quitting' = Quitting /\ Queued' = Queued /\ InHand' = InHand
  BY DEF Queued, InHand
<1>2. QED
  BY <1>1 DEF Queue

LEMMA StructureSame ==
    ASSUME Structure, Lanes',
           UNCHANGED <<tbls, nextMem, newTbls, task, flushChan, mpc, ft, l0, deleted>>,
           \A c \in Callers : InFlush(c) \/ InFlush(c)' => At(c)' = At(c),
           closing' = closing \/ (closing' \in {"open", "writes"} /\ closing \in {"open", "writes"}),
           content' = content \/ closing \in {"open", "writes"}
    PROVE  Structure'
<1>1. /\ Quitting' = Quitting /\ Queued' = Queued /\ InHand' = InHand
      /\ Frozen' = Frozen /\ Top' = Top
  BY CountsSame
<1>2. Queue'
  BY <1>1, QueueSame DEF Structure
<1>3. /\ \A c \in Callers : At(c)' = "store" => At(c) = "store"
      /\ \A c \in Callers : At(c)' = "flush" => At(c) = "flush"
      /\ \A c \in Callers : InFlush(c) => InFlush(c)'
  BY DEF InFlush
<1>4. Fronts'
  <2>1. Resting' => Resting
    BY <1>3 DEF Resting
  <2>2. Shape(tbls, nextMem, Len(l0))'
    BY DEF Structure, Fronts
  <2>3. \A c \in Callers : At(c)' = "store" =>
          /\ Top' = Frozen' + 1 /\ task'[c].mt = Frozen' + 1 /\ Mutable(tbls') # 0
          /\ Shape(newTbls'[c], nextMem', Len(l0')) /\ Front(newTbls'[c], nextMem') = Frozen' + 2
    BY <1>1, <1>3 DEF Structure, Fronts
  <2>4. \A c \in Callers : At(c)' = "flush" => Top' = Frozen' + 2 /\ task'[c].mt = Frozen' + 1
    BY <1>1, <1>3 DEF Structure, Fronts
  <2>5. Resting' => Top' = Frozen' + 1
    BY <1>1, <2>1 DEF Structure, Fronts
  <2>6. QED
    BY <2>2, <2>3, <2>4, <2>5 DEF Fronts
<1>5. Numbers'
  <2>1. /\ vpc' = "store" <=> vpc = "store"
        /\ lpc' = "store" <=> lpc = "store"
        /\ closing' \in {"open", "writes"} \/ closing' = closing
    BY <1>3, Spots DEF InFlush, Callers, At
  <2>2. QED
    BY <2>1 DEF Structure, Numbers
<1>6. QED
  BY <1>2, <1>4, <1>5 DEF Structure

-----------------------------------------------------------------------------
(* flushMemTable *)

-----------------------------------------------------------------------------
(* flushMemTable *)

LEMMA StructureMake ==
    ASSUME MemTypes, Structure, Lanes', Resting, NEW c \in Callers, NEW mt \in Mems, MakeTables(c, mt),
           At(c)' = "store", \A d \in Callers : d # c => At(d)' = At(d),
           closing \in {"open", "writes"}, nextMem' \in Nat,
           \/ mt = nextMem /\ nextMem' = nextMem + 1 /\ c # "close"
           \/ mt = 0 /\ nextMem' = nextMem /\ c = "close",
           UNCHANGED <<flushChan, mpc, ft, l0, deleted>>
    PROVE  Structure'
<1>1. Lanes /\ Queue /\ Fronts /\ Numbers
  BY DEF Structure
<1>2. /\ Len(l0) \in Nat /\ Frozen \in Nat /\ nextMem \in Nat /\ Mutable(tbls) \in Nat
  BY <1>1, Sizes
<1>3. vpc # "store" /\ lpc # "store"
  BY Spots DEF Resting, InFlush, Callers
<1>4. Mutable(tbls) # 0 /\ nextMem = Mutable(tbls) + 1 /\ Top = Mutable(tbls) /\ Top = Frozen + 1
  BY <1>1, <1>3 DEF Numbers, Fronts, Top, Front
<1>5. /\ tbls' = tbls /\ newTbls'[c] = NewMemTables(mt)
      /\ task'[c].mt = Mutable(tbls)
  BY DEF MakeTables, MemTypes, Objects, TaskTypes
<1>6. /\ closing' = IF c = "close" THEN "store" ELSE closing
      /\ vpc' = IF c = "vlog" THEN "store" ELSE vpc
      /\ lpc' = IF c = "lsm" THEN "store" ELSE lpc
  BY DEF At, Callers
<1>7. Quitting' = Quitting /\ Queued' = Queued /\ InHand' = InHand /\ Frozen' = Frozen
  <2>1. Quitting' = Quitting /\ InHand' = InHand
    BY <1>6 DEF Quitting, InHand
  <2>2. QED
    BY <2>1 DEF Queued, Frozen
<1>8. Queue'
  BY <1>1, <1>7, QueueSame
<1>9. /\ Shape(newTbls'[c], nextMem', Len(l0)) /\ Mutable(newTbls'[c]) = mt
      /\ Front(newTbls'[c], nextMem') = Mutable(tbls) + 1
  <2>1. Shape(tbls, nextMem, Len(l0))
    BY <1>1 DEF Fronts
  <2>2. (mt # 0 /\ mt = Mutable(tbls) + 1) \/ (mt = 0 /\ nextMem' = Mutable(tbls) + 1)
    BY <1>2, <1>4
  <2>3. QED
    BY <1>2, <1>4, <1>5, <2>1, <2>2, ShapeMake
<1>10. Shape(tbls', nextMem', Len(l0')) /\ Top' = Top
  BY <1>1, <1>4, <1>5, ShapeNext DEF Fronts, Top, Front
<1>11. Fronts'
  <2>1. ~Resting' /\ \A d \in Callers : d # c => ~InFlush(d)'
    BY DEF Resting, InFlush
  <2>2. \A d \in Callers : At(d)' = "store" => d = c
    BY <2>1 DEF InFlush
  <2>3. \A d \in Callers : At(d)' # "flush"
    BY <2>1 DEF InFlush
  <2>4. /\ Top' = Frozen' + 1 /\ task'[c].mt = Frozen' + 1 /\ Mutable(tbls') # 0
        /\ Shape(newTbls'[c], nextMem', Len(l0')) /\ Front(newTbls'[c], nextMem') = Frozen' + 2
    <3>1. Mutable(tbls) + 1 = Frozen + 2 /\ Mutable(tbls) = Frozen + 1
      BY <1>2, <1>4
    <3>2. Shape(newTbls'[c], nextMem', Len(l0'))
      BY <1>9
    <3>3. QED
      BY <1>4, <1>5, <1>7, <1>9, <1>10, <3>1, <3>2, Zenon
  <2>5. QED
    BY <1>10, <2>1, <2>2, <2>3, <2>4 DEF Fronts
<1>12. Numbers'
  <2>1. Mutable(tbls') # 0 /\ closing' \in {"open", "writes", "store"}
    BY Zenon, <1>4, <1>5, <1>6
  <2>2. CASE c = "close"
    BY Zenon, <1>3, <1>4, <1>5, <1>6, <1>9, <2>1, <2>2 DEF Numbers
  <2>3. CASE c # "close"
    <3>1. nextMem' = Mutable(newTbls'[c]) + 1 /\ closing' \in {"open", "writes"}
      BY <1>2, <1>6, <1>9, <2>3
    <3>2. vpc' = "store" => c = "vlog"
      BY <1>3, <1>6
    <3>3. lpc' = "store" => c = "lsm"
      BY <1>3, <1>6
    <3>4. ~(vpc' # "store" /\ lpc' # "store")
      BY <1>6, <2>3 DEF Callers
    <3>5. QED
      BY <2>1, <3>1, <3>2, <3>3, <3>4 DEF Numbers
  <2>4. QED
    BY <2>2, <2>3
<1>13. QED
  BY <1>8, <1>11, <1>12 DEF Structure

LEMMA StructureStore ==
    ASSUME MemTypes, Structure, Lanes', NEW c \in Callers, StoreTables(c), At(c) = "store",
           At(c)' = "flush", \A d \in Callers : d # c => At(d)' = At(d) /\ ~InFlush(d),
           UNCHANGED flushChan
    PROVE  Structure'
<1>1. Lanes /\ Queue /\ Fronts /\ Numbers
  BY DEF Structure
<1>2. Len(l0) \in Nat /\ Frozen \in Nat /\ nextMem \in Nat /\ nextMem > 1
  BY <1>1, Sizes
<1>3. tbls' = newTbls[c] /\ UNCHANGED <<nextMem, content, mpc, ft, l0, deleted>>
  BY DEF StoreTables
<1>4. task'[c].mt = task[c].mt
  BY TasksStore DEF MemTypes, Counters
<1>5. /\ closing' = IF c = "close" THEN "flush" ELSE closing
      /\ vpc' = IF c = "vlog" THEN "flush" ELSE vpc
      /\ lpc' = IF c = "lsm" THEN "flush" ELSE lpc
      /\ c # "vlog" => vpc # "store"
      /\ c # "lsm" => lpc # "store"
      /\ c # "close" => closing \notin {"store", "flush"}
  BY DEF At, Callers, InFlush
<1>6. /\ c = "close" => closing = "store"
      /\ c # "close" => closing \in {"open", "writes"}
      /\ c = "vlog" => vpc = "store"
      /\ c = "lsm" => lpc = "store"
  BY <1>1 DEF At, Callers, Lanes
<1>7. Quitting' = Quitting /\ Queued' = Queued /\ InHand' = InHand /\ Frozen' = Frozen
  <2>1. Quitting' = Quitting /\ InHand' = InHand
    BY <1>3, <1>5, <1>6 DEF Quitting, InHand
  <2>2. QED
    BY <1>3, <2>1 DEF Queued, Frozen
<1>8. Queue'
  BY <1>1, <1>3, <1>7, QueueSame
<1>9. /\ Shape(newTbls[c], nextMem, Len(l0)) /\ Front(newTbls[c], nextMem) = Frozen + 2
      /\ task[c].mt = Frozen + 1
  BY <1>1 DEF Fronts
<1>10. Top' = Frozen + 2 /\ Shape(tbls', nextMem', Len(l0'))
  BY <1>3, <1>9 DEF Top
<1>11. Fronts'
  <2>1. ~Resting' /\ \A d \in Callers : d # c => ~InFlush(d)'
    BY DEF Resting, InFlush
  <2>2. \A d \in Callers : At(d)' = "flush" => d = c
    BY <2>1 DEF InFlush
  <2>3. \A d \in Callers : At(d)' # "store"
    BY <2>1 DEF InFlush
  <2>4. QED
    BY <1>4, <1>7, <1>9, <1>10, <2>1, <2>2, <2>3 DEF Fronts
<1>12. Numbers'
  <2>1. CASE c = "close"
    BY <1>1, <1>3, <1>5, <1>6, <2>1 DEF Numbers
  <2>2. CASE c # "close"
    <3>1. nextMem = Mutable(newTbls[c]) + 1
      BY <1>1, <1>6, <2>2 DEF Numbers, Callers
    <3>2. Mutable(tbls') # 0 /\ nextMem' = Mutable(tbls') + 1
      BY <1>2, <1>3, <3>1
    <3>3. vpc' # "store" /\ lpc' # "store" /\ closing' \in {"open", "writes"}
      BY <1>5, <1>6, <2>2
    <3>4. QED
      BY <3>2, <3>3 DEF Numbers
  <2>3. QED
    BY <2>1, <2>2
<1>13. QED
  BY <1>8, <1>11, <1>12 DEF Structure

LEMMA StructureSend ==
    ASSUME MemTypes, Structure, Lanes', NEW c \in Callers, SendTask(c), At(c) = "flush",
           At(c)' \notin {"store", "flush"}, \A d \in Callers : d # c => At(d)' = At(d) /\ ~InFlush(d),
           closing' = IF c = "close" THEN "quit" ELSE closing
    PROVE  Structure'
<1>1. Lanes /\ Queue /\ Fronts /\ Numbers
  BY DEF Structure
<1>2. /\ Len(l0) \in Nat /\ Frozen \in Nat /\ Len(flushChan) \in Nat /\ Queued \in Nat
      /\ InHand \in {0, 1} /\ Frozen = Len(l0) + InHand + Queued
  BY <1>1, Sizes
<1>3. UNCHANGED <<tbls, nextMem, content, mpc, ft, l0, deleted>>
  BY DEF SendTask, diskVars
<1>4. /\ Len(flushChan') = Len(flushChan) + 1
      /\ \A i \in 1..Len(flushChan) : flushChan'[i] = flushChan[i]
      /\ flushChan'[Len(flushChan) + 1] = task[c]
  BY AppendFacts DEF SendTask, MemTypes, TaskTypes
<1>5. /\ c = "close" => closing = "flush"
      /\ c # "close" => closing \in {"open", "writes"}
  BY <1>1 DEF At, Callers, Lanes
<1>6. Quitting = 0 /\ Quitting' = 0 /\ InHand' = InHand
  BY <1>3, <1>5 DEF Quitting, InHand
<1>7. Queued = Len(flushChan) /\ Queued' = Queued + 1 /\ Frozen' = Frozen + 1
  BY <1>2, <1>3, <1>4, <1>6 DEF Queued, Frozen
<1>8. task[c].mt = Frozen + 1 /\ Top = Frozen + 2 /\ Top' = Top
  BY <1>1, <1>3 DEF Fronts, Top
<1>9. Queue'
  <2>1. \A i \in 1..Queued' : flushChan'[i].mt = Len(l0') + InHand' + i
    <3> SUFFICES ASSUME NEW i \in 1..(Queued + 1) PROVE flushChan'[i].mt = Len(l0) + InHand + i
      BY <1>3, <1>6, <1>7
    <3>1. CASE i = Queued + 1
      <4>1. flushChan'[i] = task[c]
        BY <1>4, <1>7, <3>1
      <4>2. Frozen + 1 = Len(l0) + InHand + i
        BY <1>2, <3>1
      <4>3. QED
        BY <1>8, <4>1, <4>2
    <3>2. CASE i # Queued + 1
      <4>1. i \in 1..Queued /\ i \in 1..Len(flushChan)
        BY <1>2, <1>7, <3>2
      <4>2. QED
        BY <1>1, <1>4, <4>1 DEF Queue
    <3>3. QED
      BY <3>1, <3>2
  <2>2. Queued' \in Nat
    BY <1>2, <1>7
  <2>3. QED
    BY <1>1, <1>3, <1>6, <2>1, <2>2 DEF Queue
<1>10. Fronts'
  <2>1. \A d \in Callers : At(d)' \notin {"store", "flush"}
    BY DEF InFlush
  <2>2. Top' = Frozen' + 1
    BY <1>2, <1>7, <1>8
  <2>3. QED
    BY <1>1, <1>3, <2>1, <2>2 DEF Fronts
<1>11. Numbers'
  <2>1. vpc # "store" /\ lpc # "store" /\ closing # "store"
    BY DEF At, Callers, InFlush
  <2>2. vpc' # "store" /\ lpc' # "store" /\ closing' \notin {"store", "flush"}
    BY <1>5, Spots DEF At, Callers, InFlush
  <2>3. QED
    BY <1>1, <1>3, <1>5, <2>1, <2>2 DEF Numbers
<1>12. QED
  BY <1>9, <1>10, <1>11 DEF Structure

-----------------------------------------------------------------------------
(* runFlushMemTable, and the end of Close *)

-----------------------------------------------------------------------------
(* runFlushMemTable, and the end of Close *)

LEMMA FrontsKept ==
    ASSUME Fronts, Frozen' = Frozen, UNCHANGED <<nextMem, newTbls, task>>, nextMem \in Nat,
           Len(l0) \in Nat, Len(l0') \in Nat, Len(l0) <= Len(l0'),
           Mutable(tbls') = Mutable(tbls), Shape(tbls', nextMem', Len(l0')),
           \A c \in Callers : At(c)' = "store" => At(c) = "store",
           \A c \in Callers : At(c)' = "flush" => At(c) = "flush",
           Resting' => Resting
    PROVE  Fronts' /\ Top' = Top
<1>1. Top' = Top
  BY DEF Top, Front
<1>2. ASSUME NEW c \in Callers, At(c)' = "store"
      PROVE  Shape(newTbls'[c], nextMem', Len(l0')) /\ Front(newTbls'[c], nextMem') = Frozen' + 2
  <2>1. Shape(newTbls[c], nextMem, Len(l0)) /\ Front(newTbls[c], nextMem) = Frozen + 2
    BY <1>2 DEF Fronts
  <2>2. Shape(newTbls[c], nextMem, Len(l0'))
    BY <2>1, ShapeGrows
  <2>3. QED
    BY <2>1, <2>2
<1>3. QED
  BY <1>1, <1>2 DEF Fronts

LEMMA NumbersKept ==
    ASSUME Numbers, UNCHANGED <<vpc, lpc, closing, nextMem, newTbls, content>>,
           Mutable(tbls') = Mutable(tbls)
    PROVE  Numbers'
BY DEF Numbers

LEMMA StructureTake ==
    ASSUME MemTypes, Structure, TakeTask,
           UNCHANGED <<vpc, lpc, closing, mine, nextMem, newTbls, task, content>>
    PROVE  Structure' /\ Len(l0') = Len(l0) /\ (mpc' = "build" => Queued > 0 /\ ft'.mt = Len(l0) + 1)
<1>1. Lanes /\ Queue /\ Fronts /\ Numbers
  BY DEF Structure
<1>2. /\ Len(l0) \in Nat /\ Len(flushChan) \in Nat /\ InHand \in {0, 1} /\ Quitting \in {0, 1}
      /\ Queued \in Nat /\ Frozen = Len(l0) + InHand + Queued /\ nextMem \in Nat
  BY <1>1, Sizes
<1>3. /\ Len(flushChan) > 0 /\ flushChan[1] \in Tasks
      /\ Len(flushChan') = Len(flushChan) - 1
      /\ \A i \in 1..Len(flushChan') : flushChan'[i] = flushChan[i + 1]
      /\ \/ flushChan[1] = Quit /\ mpc' = "exited" /\ ft' = ft
         \/ flushChan[1] # Quit /\ mpc' = "build" /\ ft'.mt = flushChan[1].mt
  BY TasksTake DEF MemTypes
<1>4. mpc = "recv" /\ UNCHANGED <<l0, deleted, tbls>>
  BY DEF TakeTask
<1>5. InHand = 0 /\ Queued = Len(flushChan) - Quitting /\ Quitting = IF closing = "wait" THEN 1 ELSE 0
  BY <1>4 DEF InHand, Queued, Quitting
<1>6. CASE flushChan[1] = Quit /\ mpc' = "exited"
  <2>1. Queued = 0
    <3>1. Queued > 0 => flushChan[1].mt = Len(l0) + InHand + 1
      BY <1>1, <1>2 DEF Queue
    <3>2. flushChan[1].mt = 0
      BY <1>6, NoTaskType DEF Quit
    <3>3. QED
      BY <1>2, <3>1, <3>2
  <2>2. closing = "wait" /\ Quitting = 1 /\ Len(flushChan') = 0
    BY <1>2, <1>3, <1>5, <2>1
  <2>3. Quitting' = 0 /\ Queued' = 0 /\ InHand' = 0
    BY <1>6, <2>2 DEF Quitting, Queued, InHand
  <2>4. Frozen' = Frozen
    BY Zenon, <1>2, <1>4, <1>5, <2>1, <2>3 DEF Frozen
  <2>5. Queue'
    BY <1>1, <1>4, <1>6, <2>3 DEF Queue
  <2>6. Lanes'
    BY <1>1, <1>4, <1>6, <2>2 DEF Lanes
  <2>7. Fronts'
    <3>1. Shape(tbls', nextMem', Len(l0'))
      BY <1>1, <1>4 DEF Fronts
    <3>2. QED
      BY <1>1, <1>2, <1>4, <2>4, <3>1, FrontsKept DEF At, Resting, InFlush
  <2>8. Numbers'
    BY <1>1, <1>4, NumbersKept
  <2>9. QED
    BY <1>4, <1>6, <2>5, <2>6, <2>7, <2>8 DEF Structure
<1>7. CASE flushChan[1] # Quit /\ mpc' = "build" /\ ft'.mt = flushChan[1].mt
  <2>1. Queued > 0
    <3>1. Queued = 0 => Quitting = 1 /\ Len(flushChan) = 1
      BY <1>2, <1>3, <1>5
    <3>2. Quitting = 1 => flushChan[Len(flushChan)] = Quit
      BY <1>1 DEF Queue
    <3>3. QED
      BY <1>2, <1>7, <3>1, <3>2
  <2>2. flushChan[1].mt = Len(l0) + 1
    BY <1>1, <1>2, <1>5, <2>1 DEF Queue
  <2>3. Quitting' = Quitting /\ Queued' = Queued - 1 /\ InHand' = 1
    BY <1>2, <1>3, <1>4, <1>5, <1>7 DEF Quitting, Queued, InHand
  <2>4. Frozen' = Frozen
    BY <1>2, <1>4, <1>5, <2>3 DEF Frozen
  <2>5. Queue'
    <3>1. \A i \in 1..Queued' : flushChan'[i].mt = Len(l0') + InHand' + i
      <4> SUFFICES ASSUME NEW i \in 1..(Queued - 1) PROVE flushChan'[i].mt = Len(l0) + 1 + i
        BY <1>4, <2>3
      <4>1. i + 1 \in 1..Queued /\ i \in 1..Len(flushChan')
        BY <1>2, <1>3, <1>5
      <4>2. flushChan[i + 1].mt = Len(l0) + InHand + (i + 1)
        BY <1>1, <4>1 DEF Queue
      <4>3. QED
        BY <1>2, <1>3, <1>5, <4>1, <4>2
    <3>2. Quitting' = 1 => flushChan'[Len(flushChan')] = Quit
      <4>1. Quitting = 1 => Len(flushChan') \in 1..Len(flushChan') /\ Len(flushChan') + 1 = Len(flushChan)
        BY <1>2, <1>3, <1>5, <2>1
      <4>2. QED
        BY <1>1, <1>3, <2>3, <4>1 DEF Queue
    <3>3. Queued' \in Nat
      BY <1>2, <2>1, <2>3
    <3>4. QED
      BY <1>1, <1>4, <1>7, <2>2, <3>1, <3>2, <3>3 DEF Queue
  <2>6. Lanes'
    <3>1. closing # "closed"
      BY <1>1, <1>4 DEF Lanes
    <3>2. QED
      BY <1>1, <1>4, <1>7, <3>1 DEF Lanes
  <2>7. Fronts'
    <3>1. Shape(tbls', nextMem', Len(l0'))
      BY <1>1, <1>4 DEF Fronts
    <3>2. QED
      BY <1>1, <1>2, <1>4, <2>4, <3>1, FrontsKept DEF At, Resting, InFlush
  <2>8. Numbers'
    BY <1>1, <1>4, NumbersKept
  <2>9. QED
    BY <1>4, <1>7, <2>1, <2>2, <2>5, <2>6, <2>7, <2>8 DEF Structure
<1>8. QED
  BY <1>3, <1>6, <1>7

LEMMA StructureFlush ==
    ASSUME MemTypes, Structure, RunFlushMemTable
    PROVE  Structure'
<1>1. Lanes /\ Queue /\ Fronts /\ Numbers
  BY DEF Structure
<1>2. UNCHANGED <<vpc, lpc, closing, mine, nextMem, newTbls, task, content>>
  BY DEF RunFlushMemTable, vlogVars, lsmVars
<1>3. /\ Len(l0) \in Nat /\ InHand \in {0, 1} /\ Queued \in Nat /\ nextMem \in Nat
      /\ Frozen = Len(l0) + InHand + Queued /\ Frozen \in Nat /\ Top \in Nat
  BY <1>1, Sizes
<1>4. CASE TakeTask
  BY <1>2, <1>4, StructureTake
<1>5. CASE WriteLevel0Table \/ AddToManifest \/ LoadFlushed
  <2>1. UNCHANGED <<ft, flushChan, l0, deleted, tbls>>
    BY <1>5 DEF WriteLevel0Table, AddToManifest, LoadFlushed
  <2>2. \/ mpc \in {"build", "manifest"} /\ mpc' \in {"manifest", "add"}
        \/ mpc = "load" /\ mpc' = "lower"
    BY <1>5 DEF WriteLevel0Table, AddToManifest, LoadFlushed
  <2>3. Quitting' = Quitting /\ InHand' = InHand
    BY <1>2, <2>2 DEF Quitting, InHand
  <2>4. Queued' = Queued /\ Frozen' = Frozen
    BY <2>1, <2>3 DEF Queued, Frozen
  <2>5. Queue'
    BY <1>1, <2>1, <2>2, <2>3, <2>4 DEF Queue
  <2>6. Lanes'
    BY <1>1, <1>2, <2>1, <2>2 DEF Lanes
  <2>7. Fronts'
    <3>1. Shape(tbls', nextMem', Len(l0'))
      BY <1>1, <1>2, <2>1 DEF Fronts
    <3>2. QED
      BY <1>1, <1>2, <1>3, <2>1, <2>4, <3>1, FrontsKept DEF At, Resting, InFlush
  <2>8. Numbers'
    BY <1>1, <1>2, <2>1, NumbersKept
  <2>9. QED
    BY <2>5, <2>6, <2>7, <2>8 DEF Structure
<1>6. CASE ManifestRefuses
  <2>1. InHand = 1 /\ ft.mt \in deleted
    BY <1>6 DEF ManifestRefuses, InHand
  <2>2. ft.mt = Len(l0) + 1 /\ ft.mt <= Len(l0)
    BY <1>1, <2>1 DEF Queue
  <2>3. QED
    BY <1>3, <2>2
<1>7. CASE AddLevel0Table
  <2>1. UNCHANGED <<ft, flushChan, deleted, tbls>> /\ mpc = "add" /\ mpc' = "load"
    BY <1>7 DEF AddLevel0Table
  <2>2. Len(l0') = Len(l0) + 1
    BY <1>7, AppendFacts DEF AddLevel0Table, Level0Extended, MemTypes, Stored
  <2>3. Quitting' = Quitting /\ InHand = 1 /\ InHand' = 0
    BY <1>2, <2>1 DEF Quitting, InHand
  <2>4. Queued' = Queued /\ Frozen' = Frozen
    <3>1. Queued' = Queued
      BY <2>1, <2>3 DEF Queued
    <3>2. QED
      BY <1>3, <2>2, <2>3, <3>1 DEF Frozen
  <2>5. Queue'
    <3>1. \A i \in 1..Queued' : flushChan'[i].mt = Len(l0') + InHand' + i
      <4> SUFFICES ASSUME NEW i \in 1..Queued PROVE flushChan[i].mt = Len(l0) + 1 + 0 + i
        BY <2>1, <2>2, <2>3, <2>4
      <4>1. flushChan[i].mt = Len(l0) + InHand + i
        BY <1>1 DEF Queue
      <4>2. QED
        BY <1>3, <2>3, <4>1
    <3>2. ft'.mt = Len(l0') /\ Len(l0') > 0
      BY <1>1, <1>3, <2>1, <2>2, <2>3 DEF Queue
    <3>3. \A m \in deleted' : m <= Len(l0')
      <4>1. deleted \subseteq Int
        BY WritePathAssumption DEF MemTypes, Stored, Mems
      <4>2. QED
        BY <1>1, <1>3, <2>1, <2>2, <4>1 DEF Queue
    <3>4. QED
      BY <1>1, <2>1, <2>3, <2>4, <3>1, <3>2, <3>3 DEF Queue
  <2>6. Lanes'
    BY <1>1, <1>2, <2>1 DEF Lanes
  <2>7. Fronts'
    <3>1. Len(l0') \in Nat /\ Len(l0) <= Len(l0')
      BY <1>3, <2>2
    <3>2. Shape(tbls', nextMem', Len(l0'))
      BY <1>1, <1>2, <1>3, <2>1, <3>1, ShapeGrows DEF Fronts
    <3>3. QED
      BY <1>1, <1>2, <1>3, <2>1, <2>4, <3>1, <3>2, FrontsKept DEF At, Resting, InFlush
  <2>8. Numbers'
    BY <1>1, <1>2, <2>1, NumbersKept
  <2>9. QED
    BY <2>5, <2>6, <2>7, <2>8 DEF Structure
<1>8. CASE LowerLength
  <2>1. /\ UNCHANGED <<ft, flushChan, l0, deleted>> /\ mpc = "lower" /\ mpc' = "delete"
        /\ tbls' = Lowered
    BY <1>8 DEF LowerLength
  <2>2. Quitting' = Quitting /\ InHand = 0 /\ InHand' = 0
    BY <1>2, <2>1 DEF Quitting, InHand
  <2>3. Queued' = Queued /\ Frozen' = Frozen
    BY <2>1, <2>2 DEF Queued, Frozen
  <2>4. Len(l0) < Top
    <3>1. Top = Frozen + 1 \/ Top = Frozen + 2
      BY <1>1 DEF Fronts, Resting, InFlush
    <3>2. QED
      BY <1>3, <2>2, <3>1
  <2>5. Shape(Lowered, nextMem, Len(l0)) /\ Mutable(Lowered) = Mutable(tbls)
    <3>1. ft.mt = Len(l0) /\ Len(l0) > 0 /\ Shape(tbls, nextMem, Len(l0))
      BY <1>1, <2>1 DEF Queue, Fronts
    <3>2. QED
      BY <1>3, <2>4, <3>1, ShapeLowered DEF Top
  <2>6. Queue'
    BY <1>1, <2>1, <2>2, <2>3 DEF Queue
  <2>7. Lanes'
    BY <1>1, <1>2, <2>1, <2>5 DEF Lanes
  <2>8. Fronts'
    BY <1>1, <1>2, <1>3, <2>1, <2>3, <2>5, FrontsKept DEF At, Resting, InFlush
  <2>9. Numbers'
    BY <1>1, <1>2, <2>1, <2>5, NumbersKept
  <2>10. QED
    BY <2>6, <2>7, <2>8, <2>9 DEF Structure
<1>9. CASE DeleteMemTable
  <2>1. /\ UNCHANGED <<flushChan, l0, tbls>> /\ mpc = "delete" /\ mpc' = "recv"
        /\ deleted' = deleted \cup {ft.mt}
    BY <1>9 DEF DeleteMemTable
  <2>2. Quitting' = Quitting /\ InHand = 0 /\ InHand' = 0
    BY <1>2, <2>1 DEF Quitting, InHand
  <2>3. Queued' = Queued /\ Frozen' = Frozen
    BY <2>1, <2>2 DEF Queued, Frozen
  <2>4. Queue'
    BY <1>1, <1>3, <2>1, <2>2, <2>3 DEF Queue
  <2>5. Lanes'
    BY <1>1, <1>2, <2>1 DEF Lanes
  <2>6. Fronts'
    <3>1. Shape(tbls', nextMem', Len(l0'))
      BY Zenon, <1>1, <1>2, <2>1 DEF Fronts
    <3>2. QED
      BY <1>1, <1>2, <1>3, <2>1, <2>3, <3>1, FrontsKept DEF At, Resting, InFlush
  <2>7. Numbers'
    BY <1>1, <1>2, <2>1, NumbersKept
  <2>8. QED
    BY <2>4, <2>5, <2>6, <2>7 DEF Structure
<1>10. QED
  BY <1>4, <1>5, <1>6, <1>7, <1>8, <1>9 DEF RunFlushMemTable

LEMMA StructureClose ==
    ASSUME MemTypes, Structure, CloseGoesOn
    PROVE  Structure'
<1>1. Lanes /\ Queue /\ Fronts /\ Numbers
  BY DEF Structure
<1>2. UNCHANGED <<vpc, lpc, mine>>
  BY DEF CloseGoesOn, vlogVars, lsmVars
<1>3. /\ Len(l0) \in Nat /\ Len(flushChan) \in Nat /\ InHand \in {0, 1} /\ Queued \in Nat
      /\ nextMem \in Nat /\ Frozen = Len(l0) + InHand + Queued
  BY <1>1, Sizes
<1>4. At("vlog")' = At("vlog") /\ At("lsm")' = At("lsm") /\ At("close") = closing /\ At("close")' = closing'
  BY <1>2 DEF At
<1>5. closing # "open" /\ closing # "writes" => vpc = "exited" /\ lpc = "exited"
  BY <1>1 DEF Lanes
<1>6. CASE CloseMemTable
  <2>1. /\ closing = "writes" /\ vpc = "exited" /\ lpc = "exited"
        /\ UNCHANGED <<nextMem, flushChan, mpc, ft, l0, deleted>>
    BY <1>6 DEF CloseMemTable, diskVars
  <2>2. Resting
    BY <2>1, Spots DEF Resting, InFlush, Callers
  <2>3. CASE MakeTables("close", 0) /\ closing' = "store"
    <3>1. UNCHANGED tbls
      BY <2>3 DEF MakeTables
    <3>2. Lanes'
      BY <1>1, <1>2, <2>1, <2>3, <3>1 DEF Lanes
    <3>3. 0 \in Mems /\ "close" \in Callers
      BY WritePathAssumption DEF Mems, Callers
    <3>4. At("close")' = "store" /\ \A d \in Callers : d # "close" => At(d)' = At(d)
      BY <1>4, <2>3 DEF Callers
    <3>5. QED
      BY <1>3, <2>1, <2>2, <2>3, <3>2, <3>3, <3>4, StructureMake
  <2>4. CASE content[Mutable(tbls)] = {} /\ UNCHANGED <<tbls, content, newTbls, task>> /\ closing' = "quit"
    <3>1. /\ Quitting' = Quitting /\ Queued' = Queued /\ InHand' = InHand /\ Frozen' = Frozen
          /\ Top' = Top
      BY Zenon, <2>1, <2>4, CountsSame
    <3>2. Queue'
      BY <1>1, <2>1, <3>1, QueueSame
    <3>3. Lanes'
      BY <1>1, <1>2, <2>1, <2>4 DEF Lanes
    <3>4. Fronts'
      <4>1. Shape(tbls', nextMem', Len(l0'))
        BY Zenon, <1>1, <2>1, <2>4 DEF Fronts
      <4>2. \A c \in Callers : At(c)' # "store" /\ At(c)' # "flush"
        BY <1>2, <2>1, <2>4 DEF At
      <4>3. QED
        BY <1>1, <2>2, <3>1, <4>1, <4>2 DEF Fronts
    <3>5. Numbers'
      BY Zenon, <1>1, <1>2, <2>1, <2>4 DEF Numbers
    <3>6. QED
      BY <3>2, <3>3, <3>4, <3>5 DEF Structure
  <2>5. QED
    BY <1>6, <2>3, <2>4 DEF CloseMemTable
<1>7. CASE CloseStore
  <2>1. closing = "store" /\ closing' = "flush" /\ StoreTables("close") /\ UNCHANGED flushChan
    BY <1>7 DEF CloseStore
  <2>2. vpc = "exited" /\ lpc = "exited" /\ mpc' = mpc
    BY <1>5, <2>1 DEF StoreTables
  <2>3. Lanes'
    BY <1>1, <1>2, <2>1, <2>2 DEF Lanes
  <2>4. \A d \in Callers : d # "close" => At(d)' = At(d) /\ ~InFlush(d)
    BY <1>2, <2>2 DEF Callers, At, InFlush
  <2>5. QED
    BY <1>4, <2>1, <2>3, <2>4, StructureStore DEF Callers
<1>8. CASE CloseSend
  <2>1. closing = "flush" /\ closing' = "quit" /\ SendTask("close")
    BY <1>8 DEF CloseSend
  <2>2. vpc = "exited" /\ lpc = "exited" /\ mpc' = mpc
    BY <1>5, <2>1 DEF SendTask, diskVars
  <2>3. Lanes'
    BY <1>1, <1>2, <2>1, <2>2 DEF Lanes
  <2>4. \A d \in Callers : d # "close" => At(d)' = At(d) /\ ~InFlush(d)
    BY <1>2, <2>2 DEF Callers, At, InFlush
  <2>5. QED
    BY <1>4, <2>1, <2>3, <2>4, StructureSend DEF Callers
<1>9. CASE CloseQuit
  <2>1. /\ closing = "quit" /\ closing' = "wait" /\ flushChan' = Append(flushChan, Quit)
        /\ UNCHANGED <<tbls, nextMem, content, newTbls, task, mpc, ft, l0, deleted>>
    BY <1>9 DEF CloseQuit, memVars, diskVars
  <2>2. mpc # "exited"
    BY <1>1, <2>1 DEF Lanes
  <2>3. /\ Len(flushChan') = Len(flushChan) + 1 /\ flushChan'[Len(flushChan) + 1] = Quit
        /\ \A i \in 1..Len(flushChan) : flushChan'[i] = flushChan[i]
    <3>1. flushChan \in Seq(Tasks) /\ Quit \in Tasks
      BY NoTaskType DEF MemTypes, TaskTypes, Quit
    <3>2. QED
      BY <2>1, <3>1, AppendFacts
  <2>4. Quitting = 0 /\ Quitting' = 1 /\ InHand' = InHand
    BY <2>1, <2>2 DEF Quitting, InHand
  <2>5. Queued = Len(flushChan) /\ Queued' = Queued
    BY <1>3, <2>3, <2>4 DEF Queued
  <2>6. Frozen' = Frozen
    BY <2>1, <2>4, <2>5 DEF Frozen
  <2>7. Queue'
    BY <1>1, <2>1, <2>3, <2>4, <2>5 DEF Queue
  <2>8. Lanes'
    BY <1>1, <1>2, <2>1, <2>2 DEF Lanes
  <2>9. Fronts'
    <3>1. Shape(tbls', nextMem', Len(l0'))
      BY Zenon, <1>1, <2>1 DEF Fronts
    <3>2. /\ \A c \in Callers : At(c)' = "store" => At(c) = "store"
          /\ \A c \in Callers : At(c)' = "flush" => At(c) = "flush"
          /\ Resting' => Resting
      BY <1>2, <2>1 DEF At, Resting, InFlush
    <3>3. QED
      BY <1>1, <1>3, <2>1, <2>6, <3>1, <3>2, FrontsKept
  <2>10. Numbers'
    BY <1>1, <1>2, <2>1 DEF Numbers
  <2>11. QED
    BY <2>7, <2>8, <2>9, <2>10 DEF Structure
<1>10. CASE CloseEnd
  <2>1. /\ closing = "wait" /\ closing' = "closed" /\ mpc = "exited"
        /\ UNCHANGED <<tbls, nextMem, content, newTbls, task, flushChan, mpc, ft, l0, deleted>>
    BY <1>10 DEF CloseEnd, FlusherGone, memVars, diskVars
  <2>2. Quitting = 0 /\ Quitting' = 0 /\ InHand' = InHand
    BY <2>1 DEF Quitting, InHand
  <2>3. Queued' = Queued /\ Frozen' = Frozen
    BY <2>1, <2>2 DEF Queued, Frozen
  <2>4. Queue'
    BY <1>1, <2>1, <2>2, QueueSame
  <2>5. Lanes'
    BY <1>1, <1>2, <2>1 DEF Lanes
  <2>6. Fronts'
    <3>1. Shape(tbls', nextMem', Len(l0'))
      BY Zenon, <1>1, <2>1 DEF Fronts
    <3>2. /\ \A c \in Callers : At(c)' = "store" => At(c) = "store"
          /\ \A c \in Callers : At(c)' = "flush" => At(c) = "flush"
          /\ Resting' => Resting
      BY <1>2, <2>1 DEF At, Resting, InFlush
    <3>3. QED
      BY <1>1, <1>3, <2>1, <2>3, <3>1, <3>2, FrontsKept
  <2>7. Numbers'
    BY <1>1, <1>2, <2>1 DEF Numbers
  <2>8. QED
    BY <2>4, <2>5, <2>6, <2>7 DEF Structure
<1>11. QED
  BY <1>6, <1>7, <1>8, <1>9, <1>10 DEF CloseGoesOn

LEMMA StructureVLog ==
    ASSUME MemTypes, Structure, RunWriteVLog, ~raced'
    PROVE  Structure'
<1>1. Lanes /\ Queue /\ Fronts /\ Numbers
  BY DEF Structure
<1>2. UNCHANGED <<lpc, mine, closing>>
  BY DEF RunWriteVLog, lsmVars
<1>3. At("vlog") = vpc /\ At("vlog")' = vpc' /\ \A d \in Callers : d # "vlog" => At(d)' = At(d)
  BY <1>2 DEF At, Callers
<1>4. vpc # "exited" => closing \in {"open", "writes"}
  BY <1>1 DEF Lanes
<1>5. nextMem \in Nat
  BY <1>1, Sizes
<1>6. ASSUME UNCHANGED <<tbls, nextMem, content, newTbls, task, flushChan, mpc, ft, l0, deleted>>,
             vpc \notin {"store", "flush", "exited"}, vpc' \notin {"store", "flush"}
      PROVE  Structure'
  <2>1. Lanes'
    BY <1>1, <1>2, <1>4, <1>6 DEF Lanes
  <2>2. \A c \in Callers : InFlush(c) \/ InFlush(c)' => At(c)' = At(c)
    BY <1>3, <1>6 DEF InFlush
  <2>3. QED
    BY <1>2, <1>6, <2>1, <2>2, StructureSame
<1>7. CASE /\ WriteVLog \/ WriteVLogFails \/ SendBatch
              \/ CloseWriteVLog \/ CloseWriteVLogFails \/ IngestBegin
           /\ UNCHANGED <<memVars, flushChan, diskVars>>
  <2>1. UNCHANGED <<tbls, nextMem, content, newTbls, task, flushChan, mpc, ft, l0, deleted>>
    BY <1>7 DEF memVars, diskVars
  <2>2. vpc \notin {"store", "flush", "exited"} /\ vpc' \notin {"store", "flush"}
    BY <1>7 DEF WriteVLog, WriteVLogFails, SendBatch, CloseWriteVLog, CloseWriteVLogFails,
                IngestBegin, vlogVars
  <2>3. QED
    BY <1>6, <2>1, <2>2
<1>8. CASE IngestNoOverlap
  <2>1. /\ UNCHANGED <<tbls, nextMem, content, newTbls, task, flushChan, mpc, ft, l0, deleted>>
        /\ vpc = "ingest" /\ vpc' = "select"
    BY <1>8 DEF IngestNoOverlap, memVars, diskVars
  <2>2. QED
    BY <1>6, <2>1
<1>9. CASE IngestFlush
  <2>1. /\ vpc = "ingest" /\ vpc' = "store" /\ lpc \notin {"write", "store", "flush"}
        /\ nextMem <= MaxMem /\ nextMem' = nextMem + 1 /\ MakeTables("vlog", nextMem)
        /\ UNCHANGED <<flushChan, mpc, ft, l0, deleted>>
    BY Zenon, <1>9 DEF IngestFlush, TakeMemTable, diskVars
  <2>2. closing \in {"open", "writes"}
    BY <1>4, <2>1
  <2>3. Resting
    BY <2>1, <2>2 DEF Resting, InFlush, At
  <2>4. Lanes'
    <3>1. UNCHANGED tbls
      BY <2>1 DEF MakeTables
    <3>2. QED
      BY <1>1, <1>2, <2>1, <2>2, <3>1 DEF Lanes
  <2>5. nextMem \in Mems /\ nextMem' \in Nat
    BY <1>5, <2>1, WritePathAssumption DEF Mems
  <2>6. QED
    BY <1>3, <2>1, <2>2, <2>3, <2>4, <2>5, StructureMake DEF Callers
<1>10. CASE IngestStore
  <2>1. vpc = "store" /\ vpc' = "flush" /\ StoreTables("vlog") /\ UNCHANGED flushChan
    BY <1>10 DEF IngestStore
  <2>2. closing \in {"open", "writes"} /\ lpc \notin {"write", "store", "flush"} /\ mpc' = mpc
    BY <1>1, <1>4, <2>1 DEF Lanes, StoreTables
  <2>3. Lanes'
    BY <1>1, <1>2, <2>1, <2>2 DEF Lanes
  <2>4. \A d \in Callers : d # "vlog" => At(d)' = At(d) /\ ~InFlush(d)
    BY <1>3, <2>2 DEF InFlush, At
  <2>5. QED
    BY <1>3, <2>1, <2>3, <2>4, StructureStore DEF Callers
<1>11. CASE IngestSend
  <2>1. vpc = "flush" /\ vpc' = "select" /\ SendTask("vlog")
    BY <1>11 DEF IngestSend
  <2>2. /\ closing \in {"open", "writes"} /\ lpc \notin {"write", "store", "flush"}
        /\ mpc' = mpc /\ tbls' = tbls
    BY <1>1, <1>4, <2>1 DEF Lanes, SendTask, diskVars
  <2>3. Lanes'
    BY <1>1, <1>2, <2>1, <2>2 DEF Lanes
  <2>4. \A d \in Callers : d # "vlog" => At(d)' = At(d) /\ ~InFlush(d)
    BY <1>3, <2>2 DEF InFlush, At
  <2>5. QED
    BY <1>2, <1>3, <2>1, <2>3, <2>4, StructureSend DEF Callers
<1>12. QED
  BY <1>7, <1>8, <1>9, <1>10, <1>11 DEF RunWriteVLog

LEMMA StructureLSM ==
    ASSUME MemTypes, Structure, RunWriteLSM, ~raced'
    PROVE  Structure'
<1>1. Lanes /\ Queue /\ Fronts /\ Numbers
  BY DEF Structure
<1>2. UNCHANGED <<vpc, closing>>
  BY DEF RunWriteLSM, vlogVars
<1>3. At("lsm") = lpc /\ At("lsm")' = lpc' /\ \A d \in Callers : d # "lsm" => At(d)' = At(d)
  BY <1>2 DEF At, Callers
<1>4. lpc # "exited" => closing \in {"open", "writes"}
  BY <1>1 DEF Lanes
<1>5. nextMem \in Nat
  BY <1>1, Sizes
<1>6. ASSUME UNCHANGED <<tbls, nextMem, newTbls, task, flushChan, mpc, ft, l0, deleted>>,
             lpc \notin {"store", "flush", "exited"}, lpc' \notin {"store", "flush"},
             lpc' = "write" => mine' = Mutable(tbls) /\ vpc \notin {"store", "flush"}
      PROVE  Structure'
  <2>1. Lanes'
    BY <1>1, <1>2, <1>4, <1>6 DEF Lanes
  <2>2. \A c \in Callers : InFlush(c) \/ InFlush(c)' => At(c)' = At(c)
    BY <1>3, <1>6 DEF InFlush
  <2>3. QED
    BY <1>2, <1>4, <1>6, <2>1, <2>2, StructureSame
<1>7. CASE RecvBatch \/ WriteLSMExit \/ LoadTables
  <2>1. UNCHANGED <<tbls, nextMem, newTbls, task, flushChan, mpc, ft, l0, deleted>>
    BY <1>7 DEF RecvBatch, WriteLSMExit, LoadTables, memVars, diskVars
  <2>2. /\ lpc \notin {"store", "flush", "exited"} /\ lpc' \notin {"store", "flush"}
        /\ lpc' = "write" => mine' = Mutable(tbls) /\ vpc \notin {"store", "flush"}
    BY Zenon, <1>7 DEF RecvBatch, WriteLSMExit, LoadTables
  <2>3. QED
    BY <1>6, <2>1, <2>2
<1>8. CASE PutEntries
  <2>1. UNCHANGED <<tbls, nextMem, newTbls, task, flushChan, mpc, ft, l0, deleted>>
    BY Zenon, <1>8 DEF PutEntries, diskVars
  <2>2. /\ lpc = "write" /\ lpc' \in {"recv", "load", "write"}
        /\ lpc' = "write" => mine' = mine
    BY Zenon, <1>8 DEF PutEntries
  <2>3. mine = Mutable(tbls) /\ vpc \notin {"store", "flush"}
    BY <1>1, <2>2 DEF Lanes
  <2>4. QED
    BY <1>6, <2>1, <2>2, <2>3
<1>9. CASE MakeRoom
  <2>1. /\ lpc = "write" /\ lpc' = "store" /\ mine' = mine
        /\ nextMem <= MaxMem /\ nextMem' = nextMem + 1 /\ MakeTables("lsm", nextMem)
        /\ UNCHANGED <<flushChan, mpc, ft, l0, deleted>>
    BY <1>9 DEF MakeRoom, TakeMemTable, diskVars
  <2>2. closing \in {"open", "writes"} /\ vpc \notin {"store", "flush"} /\ mine = Mutable(tbls)
    BY <1>1, <1>4, <2>1 DEF Lanes
  <2>3. Resting
    BY <2>1, <2>2 DEF Resting, InFlush, At
  <2>4. Lanes'
    <3>1. UNCHANGED tbls
      BY <2>1 DEF MakeTables
    <3>2. QED
      BY <1>1, <1>2, <2>1, <2>2, <3>1 DEF Lanes
  <2>5. nextMem \in Mems /\ nextMem' \in Nat
    BY <1>5, <2>1, WritePathAssumption DEF Mems
  <2>6. QED
    BY <1>3, <2>1, <2>2, <2>3, <2>4, <2>5, StructureMake DEF Callers
<1>10. CASE RoomStore
  <2>1. lpc = "store" /\ lpc' = "flush" /\ StoreTables("lsm") /\ UNCHANGED flushChan
    BY <1>10 DEF RoomStore
  <2>2. closing \in {"open", "writes"} /\ vpc \notin {"store", "flush"} /\ mpc' = mpc
    BY <1>1, <1>4, <2>1 DEF Lanes, StoreTables
  <2>3. Lanes'
    BY <1>1, <1>2, <2>1, <2>2 DEF Lanes
  <2>4. \A d \in Callers : d # "lsm" => At(d)' = At(d) /\ ~InFlush(d)
    BY <1>3, <2>2 DEF InFlush, At
  <2>5. QED
    BY <1>3, <2>1, <2>3, <2>4, StructureStore DEF Callers
<1>11. CASE RoomSend
  <2>1. lpc = "flush" /\ lpc' = "load" /\ SendTask("lsm")
    BY <1>11 DEF RoomSend
  <2>2. /\ closing \in {"open", "writes"} /\ vpc \notin {"store", "flush"}
        /\ mpc' = mpc /\ tbls' = tbls
    BY <1>1, <1>4, <2>1 DEF Lanes, SendTask, diskVars
  <2>3. Lanes'
    BY <1>1, <1>2, <2>1, <2>2 DEF Lanes
  <2>4. \A d \in Callers : d # "lsm" => At(d)' = At(d) /\ ~InFlush(d)
    BY <1>3, <2>2 DEF InFlush, At
  <2>5. QED
    BY <1>2, <1>3, <2>1, <2>3, <2>4, StructureSend DEF Callers
<1>12. QED
  BY <1>7, <1>8, <1>9, <1>10, <1>11 DEF RunWriteLSM

LEMMA StructureInit == Init => Structure
<1> SUFFICES ASSUME Init PROVE Structure
  OBVIOUS
<1>1. /\ vpc = "select" /\ lpc = "recv" /\ mpc = "recv" /\ closing = "open"
      /\ flushChan = <<>> /\ l0 = <<>> /\ deleted = {} /\ nextMem = 2
      /\ tbls.tables = <<1>> /\ tbls.length = 1
  BY DEF Init
<1>2. Len(flushChan) = 0 /\ Len(l0) = 0 /\ Mutable(tbls) = 1 /\ Len(tbls.tables) = 1
  BY <1>1 DEF Mutable
<1>3. Quitting = 0 /\ InHand = 0
  BY <1>1 DEF Quitting, InHand
<1>4. Queued = 0 /\ Frozen = 0 /\ Top = 1 /\ Front(tbls, nextMem) = 1
  BY <1>2, <1>3 DEF Queued, Frozen, Top, Front
<1>5. Lanes
  BY <1>1 DEF Lanes
<1>6. Queue
  BY <1>1, <1>2, <1>3, <1>4 DEF Queue
<1>7. Fronts
  <2>1. Sound(tbls)
    BY MemTypesInit DEF MemTypes, Objects
  <2>2. Shape(tbls, nextMem, Len(l0))
    BY <1>1, <1>2, <1>4, <2>1 DEF Shape
  <2>3. \A c \in Callers : At(c) \notin {"store", "flush"}
    BY <1>1 DEF At
  <2>4. Top = Frozen + 1
    BY <1>4
  <2>5. QED
    BY <2>2, <2>3, <2>4, Zenon DEF Fronts
<1>8. Numbers
  BY <1>1, <1>2 DEF Numbers
<1>9. QED
  BY <1>5, <1>6, <1>7, <1>8 DEF Structure

LEMMA StructureNext ==
    ASSUME MemTypes, Structure, [Next]_vars, ~raced'
    PROVE  Structure'
<1>1. ASSUME UNCHANGED <<tbls, nextMem, content, newTbls, task, flushChan, mpc, ft, l0, deleted,
                         vpc, lpc, mine>>,
             closing' = closing \/ (closing = "open" /\ closing' = "writes")
      PROVE  Structure'
  <2>1. Lanes'
    BY <1>1 DEF Structure, Lanes
  <2>2. \A c \in Callers : InFlush(c) \/ InFlush(c)' => At(c)' = At(c)
    BY <1>1 DEF InFlush, At
  <2>3. QED
    BY <1>1, <2>1, <2>2, StructureSame
<1>2. CASE (\E r \in Reqs : SendToWriteCh(r)) \/ RunFlusher \/ CloseBegin \/ UNCHANGED vars
  BY Zenon, <1>1, <1>2 DEF SendToWriteCh, RunFlusher, CloseBegin, vars, vlogVars, lsmVars, memVars, diskVars
<1>3. CASE RunWriteVLog
  BY <1>3, StructureVLog
<1>4. CASE RunWriteLSM
  BY <1>4, StructureLSM
<1>5. CASE RunFlushMemTable
  BY <1>5, StructureFlush
<1>6. CASE CloseGoesOn
  BY <1>6, StructureClose
<1>7. QED
  BY <1>2, <1>3, <1>4, <1>5, <1>6 DEF Next

-----------------------------------------------------------------------------
(* The contents of the memtables *)

LEMMA ContentsSame ==
    ASSUME Placed, Contents, Kept, UNCHANGED <<content, l0>>, disk \subseteq disk',
           Top \in Nat, Top' \in Nat, nextMem \in Nat, nextMem' \in Nat, Top <= Top', nextMem <= nextMem',
           UNCHANGED <<mpc, ft, built>> \/ mpc' \notin {"manifest", "add"}
    PROVE  Contents'
<1>1. \A m \in Mems : \A e \in content[m] : PosIn(log', e) = PosIn(log, e)
  BY ContentTypes DEF Kept
<1>2. \A m \in Mems : content'[m] # {} => 1 <= m /\ m <= Top' /\ m < nextMem'
  <2> SUFFICES ASSUME NEW m \in Mems, content[m] # {} PROVE 1 <= m /\ m <= Top' /\ m < nextMem'
    BY Zenon
  <2>1. m \in Nat /\ 1 <= m /\ m <= Top /\ m < nextMem
    BY Zenon, ContentTypes DEF Contents
  <2>2. QED
    BY <2>1
<1>3. \A i \in 1..Len(l0') : l0'[i] = content'[i] /\ content'[i] \subseteq disk'
  BY Zenon DEF Contents
<1>4. \A m, n \in Mems : m < n =>
         \A e \in content'[m], f \in content'[n] : PosIn(log', e) < PosIn(log', f)
  BY Zenon, <1>1 DEF Contents
<1>5. /\ mpc' \in {"manifest", "add"} => built' = content'[ft'.mt]
      /\ mpc' = "add" => content'[ft'.mt] \subseteq disk'
  BY DEF Contents
<1>6. QED
  BY Zenon, <1>2, <1>3, <1>4, <1>5 DEF Contents

LEMMA ContentsFlush ==
    ASSUME Placed, Structure, Structure', Contents, Kept, RunFlushMemTable
    PROVE  Contents'
<1>1. /\ Len(l0) \in Nat /\ nextMem \in Nat /\ Top \in Nat /\ Queue /\ Fronts /\ MemTypes
      /\ l0 \in Seq(EntrySets) /\ Sound(tbls)
  BY Sizes DEF Structure, Placed, Grounded, MemTypes, Stored, Objects
<1>2. UNCHANGED <<content, nextMem>>
  BY DEF RunFlushMemTable
<1>3. Top' = Top
  <2>1. Mutable(tbls') = Mutable(tbls)
    <3>1. CASE tbls' = tbls
      BY <3>1
    <3>2. CASE LowerLength
      <4>1. tbls'.tables = tbls.tables
        BY <1>1, <3>2, LoweredFact DEF LowerLength
      <4>2. QED
        BY <4>1 DEF Mutable
    <3>3. QED
      BY <3>1, <3>2 DEF RunFlushMemTable, TakeTask, WriteLevel0Table, AddToManifest, ManifestRefuses,
         AddLevel0Table, LoadFlushed, DeleteMemTable
  <2>2. QED
    BY <1>2, <2>1 DEF Top, Front
<1>4. CASE TakeTask \/ ManifestRefuses \/ LoadFlushed \/ LowerLength \/ DeleteMemTable
  <2>1. UNCHANGED <<l0, disk>> /\ mpc' \notin {"manifest", "add"}
    BY <1>4 DEF TakeTask, ManifestRefuses, LoadFlushed, LowerLength, DeleteMemTable
  <2>2. QED
    BY <1>1, <1>2, <1>3, <2>1, ContentsSame
<1>5. \A m \in Mems : content'[m] # {} => 1 <= m /\ m <= Top' /\ m < nextMem'
  BY <1>2, <1>3 DEF Contents
<1>6. \A m, n \in Mems : m < n =>
         \A e \in content'[m], f \in content'[n] : PosIn(log', e) < PosIn(log', f)
  <2>1. log' = log
    BY DEF RunFlushMemTable, vlogVars
  <2>2. QED
    BY <1>2, <2>1 DEF Contents
<1>7. CASE WriteLevel0Table
  <2>1. UNCHANGED <<l0, disk, ft>> /\ mpc' = "manifest" /\ built' = content[ft.mt]
    BY <1>7 DEF WriteLevel0Table
  <2>2. QED
    BY <1>2, <1>5, <1>6, <2>1 DEF Contents
<1>8. CASE AddToManifest
  <2>1. /\ UNCHANGED <<l0, ft, built>> /\ mpc = "manifest" /\ mpc' = "add"
        /\ disk' = disk \cup built
    BY <1>8 DEF AddToManifest
  <2>2. QED
    BY <1>2, <1>5, <1>6, <2>1 DEF Contents
<1>9. CASE AddLevel0Table
  <2>1. UNCHANGED <<disk, ft>> /\ mpc = "add" /\ mpc' = "load" /\ l0' = Append(l0, built)
    BY <1>9 DEF AddLevel0Table, Level0Extended
  <2>2. ft.mt = Len(l0) + 1 /\ built = content[ft.mt] /\ content[ft.mt] \subseteq disk
    BY <1>1, <2>1 DEF Queue, InHand, Contents
  <2>3. built \in EntrySets
    BY <1>1 DEF MemTypes, Stored
  <2>4. /\ Len(l0') = Len(l0) + 1 /\ l0'[Len(l0) + 1] = built
        /\ \A i \in 1..Len(l0) : l0'[i] = l0[i]
    BY <1>1, <2>1, <2>3, AppendFacts
  <2>5. \A i \in 1..Len(l0') : l0'[i] = content'[i] /\ content'[i] \subseteq disk'
    <3> SUFFICES ASSUME NEW i \in 1..Len(l0') PROVE l0'[i] = content'[i] /\ content'[i] \subseteq disk'
      OBVIOUS
    <3>1. i \in 1..Len(l0) \/ i = Len(l0) + 1
      BY <1>1, <2>4
    <3>2. QED
      BY <1>2, <2>1, <2>2, <2>4, <3>1 DEF Contents
  <2>6. QED
    BY Zenon, <1>5, <1>6, <2>1, <2>5 DEF Contents
<1>10. QED
  BY <1>4, <1>7, <1>8, <1>9 DEF RunFlushMemTable

LEMMA ContentsPut ==
    ASSUME Placed, Structure, Contents, PutEntries, log' = log, vpc' = vpc, closing' = closing
    PROVE  Contents'
<1>1. /\ Len(l0) \in Nat /\ InHand \in {0, 1} /\ Queued \in Nat /\ nextMem \in Nat /\ Top \in Nat
      /\ Frozen = Len(l0) + InHand + Queued
      /\ Lanes /\ Queue /\ Fronts /\ Numbers
  BY Sizes DEF Structure, Placed, Grounded
<1>2. /\ lpc = "write"
      /\ UNCHANGED <<tbls, nextMem, l0, disk, built, mpc, ft>>
  BY Zenon DEF PutEntries, diskVars
<1>3. /\ mine = Mutable(tbls) /\ vpc \notin {"store", "flush"} /\ closing \in {"open", "writes"}
      /\ mine \in Mems /\ mine \in Nat
  BY <1>1, <1>2, ContentTypes DEF Lanes, Placed, Grounded, MemTypes, Counters
<1>4. Mutable(tbls) # 0 /\ nextMem = mine + 1 /\ Top = mine /\ Top' = Top
  BY <1>1, <1>2, <1>3 DEF Numbers, Top, Front
<1>5. mine = Frozen + 1
  <2>1. Resting
    BY <1>2, <1>3 DEF Resting, InFlush, At
  <2>2. QED
    BY <1>1, <1>4, <2>1 DEF Fronts
<1>6. /\ \A m \in Mems : content[m] \subseteq content'[m]
      /\ \A m \in Mems : m # mine => content'[m] = content[m]
      /\ \A e \in content'[mine] : e \in content[mine] \/
            (e \in Entries /\ PosIn(log, e) \in Nat /\ PosIn(log, e) > logOff)
  BY PutFacts
<1>7. \A m \in Mems : content'[m] # {} => 1 <= m /\ m <= Top' /\ m < nextMem'
  <2>1. 1 <= mine /\ mine <= Top' /\ mine < nextMem'
    BY <1>2, <1>3, <1>4
  <2>2. QED
    BY <1>2, <1>4, <1>6, <2>1 DEF Contents
<1>8. \A i \in 1..Len(l0') : l0'[i] = content'[i] /\ content'[i] \subseteq disk'
  <2> SUFFICES ASSUME NEW i \in 1..Len(l0) PROVE content'[i] = content[i]
    BY Zenon, <1>2 DEF Contents
  <2>1. i \in Nat /\ i < mine /\ mine <= MaxMem
    BY <1>1, <1>3, <1>5 DEF Mems
  <2>2. i \in Mems /\ i # mine
    BY <1>3, <2>1, WritePathAssumption DEF Mems
  <2>3. QED
    BY Zenon, <1>6, <2>2
<1>9. mpc \in {"manifest", "add"} => content'[ft.mt] = content[ft.mt]
  <2> SUFFICES ASSUME mpc \in {"manifest", "add"} PROVE content'[ft.mt] = content[ft.mt]
    OBVIOUS
  <2>1. InHand = 1 /\ ft.mt = Len(l0) + 1
    BY <1>1 DEF InHand, Queue
  <2>2. ft.mt \in Mems
    BY TaskFields DEF Placed, Grounded, MemTypes, TaskTypes
  <2>3. ft.mt # mine
    BY <1>1, <1>5, <2>1
  <2>4. QED
    BY <1>6, <2>2, <2>3
<1>10. \A m, n \in Mems : m < n =>
          \A e \in content'[m], f \in content'[n] : PosIn(log', e) < PosIn(log', f)
  <2> SUFFICES ASSUME NEW m \in Mems, NEW n \in Mems, m < n, NEW e \in content'[m], NEW f \in content'[n]
               PROVE  PosIn(log, e) < PosIn(log, f)
    OBVIOUS
  <2>1. n <= mine
    BY <1>4, <1>7
  <2>2. m # mine /\ e \in content[m]
    BY <1>3, <1>6, <2>1, ContentTypes
  <2>3. CASE f \in content[n]
    BY <2>2, <2>3 DEF Contents
  <2>4. CASE n = mine /\ PosIn(log, f) \in Nat /\ PosIn(log, f) > logOff
    BY <2>2, <2>4, ContentTypes
  <2>5. QED
    BY <1>6, <2>3, <2>4
<1>11. QED
  BY <1>2, <1>7, <1>8, <1>9, <1>10 DEF Contents

LEMMA TopGrows ==
    ASSUME MemTypes, Structure, RunWriteVLog \/ RunWriteLSM \/ CloseGoesOn
    PROVE  Top \in Nat /\ Top' \in Nat /\ Top <= Top' /\ nextMem \in Nat /\ nextMem' \in Nat /\ nextMem <= nextMem'
<1>1. /\ nextMem \in Nat /\ Top \in Nat /\ Frozen \in Nat
      /\ Lanes /\ Queue /\ Fronts /\ Numbers
  BY Sizes DEF Structure
<1>2. CASE UNCHANGED <<tbls, nextMem>>
  BY <1>1, <1>2 DEF Top, Front
<1>3. CASE tbls' = tbls /\ nextMem' = nextMem + 1 /\ closing \in {"open", "writes"}
  <2>1. Mutable(tbls) # 0
    BY <1>1, <1>3 DEF Numbers
  <2>2. Top' = Top
    BY <1>3, <2>1 DEF Top, Front
  <2>3. QED
    BY <1>1, <1>3, <2>2
<1>4. CASE \E c \in Callers : At(c) = "store" /\ StoreTables(c)
  <2>1. PICK c \in Callers : At(c) = "store" /\ StoreTables(c)
    BY <1>4
  <2>2. tbls' = newTbls[c] /\ nextMem' = nextMem
    BY <2>1 DEF StoreTables
  <2>3. Top = Frozen + 1 /\ Top' = Frozen + 2
    BY <1>1, <2>1, <2>2 DEF Fronts, Top
  <2>4. QED
    BY <1>1, <2>2, <2>3
<1>5. vpc # "exited" \/ lpc # "exited" => closing \in {"open", "writes"}
  BY <1>1 DEF Lanes
<1>6. CASE RunWriteVLog
  <2>1. CASE IngestFlush
    BY <1>3, <1>5, <2>1 DEF IngestFlush, TakeMemTable, MakeTables
  <2>2. CASE IngestStore
    BY <1>4, <2>2, Spots DEF IngestStore, Callers
  <2>3. CASE UNCHANGED memVars \/ SendTask("vlog")
    BY <1>2, <2>3 DEF memVars, SendTask
  <2>4. QED
    BY <1>6, <2>1, <2>2, <2>3 DEF RunWriteVLog, IngestNoOverlap, IngestSend
<1>7. CASE RunWriteLSM
  <2>1. CASE MakeRoom
    BY <1>3, <1>5, <2>1 DEF MakeRoom, TakeMemTable, MakeTables
  <2>2. CASE RoomStore
    BY <1>4, <2>2, Spots DEF RoomStore, Callers
  <2>3. CASE RecvBatch \/ WriteLSMExit \/ LoadTables \/ PutEntries \/ RoomSend
    BY Zenon, <1>2, <2>3 DEF memVars, RecvBatch, WriteLSMExit, LoadTables, PutEntries, RoomSend, SendTask
  <2>4. QED
    BY <1>7, <2>1, <2>2, <2>3 DEF RunWriteLSM
<1>8. CASE CloseGoesOn
  <2>1. CASE CloseStore
    BY <1>4, <2>1, Spots DEF CloseStore, Callers
  <2>2. CASE CloseMemTable \/ CloseSend \/ CloseQuit \/ CloseEnd
    BY Zenon, <1>2, <2>2 DEF CloseMemTable, MakeTables, CloseSend, SendTask, CloseQuit, CloseEnd, memVars
  <2>3. QED
    BY Zenon, <1>8, <2>1, <2>2 DEF CloseGoesOn
<1>9. QED
  BY <1>6, <1>7, <1>8

LEMMA ContentsNext ==
    ASSUME Placed, Structure, Structure', Contents, Kept, [Next]_vars
    PROVE  Contents'
<1>1. MemTypes /\ Top \in Nat /\ nextMem \in Nat
  BY Sizes DEF Structure, Placed, Grounded
<1>2. CASE (\E r \in Reqs : SendToWriteCh(r)) \/ RunFlusher \/ CloseBegin \/ UNCHANGED vars
  <2>1. UNCHANGED <<content, l0, disk, tbls, nextMem, mpc, ft, built>>
    BY Zenon, <1>2 DEF SendToWriteCh, RunFlusher, CloseBegin, vars, memVars, diskVars
  <2>2. Top' = Top
    BY <2>1 DEF Top, Front
  <2>3. QED
    BY <1>1, <2>1, <2>2, ContentsSame
<1>3. ASSUME UNCHANGED <<content, l0, disk, mpc, ft, built>>, RunWriteVLog \/ RunWriteLSM \/ CloseGoesOn
      PROVE  Contents'
  BY <1>1, <1>3, TopGrows, ContentsSame
<1>4. CASE RunWriteVLog
  <2>1. UNCHANGED <<content, l0, disk, mpc, ft, built>>
    BY <1>4 DEF RunWriteVLog, IngestFlush, IngestNoOverlap, IngestStore, IngestSend, TakeMemTable,
       MakeTables, StoreTables, SendTask, memVars, diskVars
  <2>2. QED
    BY <1>3, <1>4, <2>1
<1>5. CASE CloseGoesOn
  <2>1. UNCHANGED <<content, l0, disk, mpc, ft, built>>
    BY <1>5 DEF CloseGoesOn, CloseMemTable, CloseStore, CloseSend, CloseQuit, CloseEnd, MakeTables,
       StoreTables, SendTask, memVars, diskVars
  <2>2. QED
    BY <1>3, <1>5, <2>1
<1>6. CASE RunWriteLSM
  <2>1. CASE PutEntries
    BY <1>6, <2>1, ContentsPut DEF RunWriteLSM, vlogVars
  <2>2. CASE RecvBatch \/ WriteLSMExit \/ LoadTables \/ MakeRoom \/ RoomStore \/ RoomSend
    <3>1. UNCHANGED <<content, l0, disk, mpc, ft, built>>
      BY <2>2 DEF RecvBatch, WriteLSMExit, LoadTables, MakeRoom, RoomStore, RoomSend, TakeMemTable,
         MakeTables, StoreTables, SendTask, memVars, diskVars
    <3>2. QED
      BY <1>3, <1>6, <3>1
  <2>3. QED
    BY <1>6, <2>1, <2>2 DEF RunWriteLSM
<1>7. QED
  BY <1>2, <1>4, <1>5, <1>6, ContentsFlush DEF Next

-----------------------------------------------------------------------------
(* The offsets of the flush tasks, and the head *)

=============================================================================
