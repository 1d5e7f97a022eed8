------------------------ MODULE WritePathReadProofs -------------------------
(***************************************************************************)
(* Proofs about the write path, last part: what the log offsets of the     *)
(* flush tasks cover, and from the whole invariant what is logged, what    *)
(* reads find, what the stored head may skip and what Close leaves on      *)
(* disk.                                                                   *)
(***************************************************************************)
EXTENDS WritePathOrderProofs, WritePathFlushProofs, FiniteSetTheorems

-----------------------------------------------------------------------------
(* The offsets of the flush tasks, and the head *)

\* What is covered before a step is covered after it.
LEMMA CoversKept ==
    ASSUME Placed, Kept, Placed', NEW t \in Tasks, Covers(t, logOff, log, answer, content)
    PROVE  Covers(t, logOff', log', answer', content')
<1>1. t.off \in Nat /\ t.mt \in Mems /\ logOff \in Nat /\ logOff' \in Nat /\ log' \in Seq(Reqs)
  BY TaskFields, ContentTypes DEF Placed, Grounded, MemTypes, Counters, LogTypes, Batches
<1>2. t.off <= logOff' /\ t.off <= logOff
  BY <1>1 DEF Covers, Kept
<1>3. ASSUME NEW e \in Entries, e[1] \in InSeq(log'), PosIn(log', e) <= t.off, answer'[e[1]] # "err"
      PROVE  \E m \in 1..t.mt : e \in content'[m]
  <2>1. PosIn(log', e) \in Nat
    BY <1>1, <1>3, PosIndex, EntryFields
  <2>2. e[1] \in InSeq(log)
    BY <1>1, <1>2, <1>3, <2>1 DEF Kept
  <2>3. \E m \in 1..t.mt : e \in content[m]
    BY <1>3, <2>2 DEF Kept, Covers
  <2>4. 1..t.mt \subseteq Mems
    BY <1>1, WritePathAssumption DEF Mems
  <2>5. QED
    BY <2>3, <2>4 DEF Kept
<1>4. QED
  BY <1>2, <1>3 DEF Covers

LEMMA OffsetsStep ==
    ASSUME Placed, Kept, Placed', head' \in Nat, head' <= logOff, Queued' \in Nat, Queued' <= Len(flushChan'),
           \A c \in Callers : At(c)' = "flush" => Covers(task'[c], logOff, log, answer, content),
           \A i \in 1..Queued' : Covers(flushChan'[i], logOff, log, answer, content),
           mpc' \in {"build", "manifest"} /\ ft'.off # 0 => Covers(ft', logOff, log, answer, content),
           \A e \in Entries : e[1] \in InSeq(log) /\ PosIn(log, e) <= head' /\ answer[e[1]] # "err" =>
                                 e \in disk'
    PROVE  Offsets'
<1>1. /\ task' \in [Callers -> Tasks] /\ flushChan' \in Seq(Tasks) /\ ft' \in Tasks
      /\ Len(flushChan') \in Nat /\ log' \in Seq(Reqs)
  BY LenFacts DEF Placed, Grounded, MemTypes, TaskTypes, LogTypes, Batches
<1>2. logOff \in Nat /\ logOff' \in Nat /\ logOff <= logOff'
  BY DEF Placed, Grounded, MemTypes, Counters, Kept
<1>3. \A c \in Callers : At(c)' = "flush" => Covers(task'[c], logOff', log', answer', content')
  BY Zenon, <1>1, CoversKept
<1>4. \A i \in 1..Queued' : Covers(flushChan'[i], logOff', log', answer', content')
  <2> SUFFICES ASSUME NEW i \in 1..Queued' PROVE Covers(flushChan'[i], logOff', log', answer', content')
    OBVIOUS
  <2>1. i \in 1..Len(flushChan')
    BY <1>1
  <2>2. flushChan'[i] \in Tasks
    BY <1>1, <2>1
  <2>3. QED
    BY <2>2, CoversKept
<1>5. mpc' \in {"build", "manifest"} /\ ft'.off # 0 => Covers(ft', logOff', log', answer', content')
  BY <1>1, CoversKept
<1>6. ASSUME NEW e \in Entries, e[1] \in InSeq(log'), PosIn(log', e) <= head', answer'[e[1]] # "err"
      PROVE  e \in disk'
  <2>1. PosIn(log', e) \in Nat
    BY <1>1, <1>6, PosIndex, EntryFields
  <2>2. e[1] \in InSeq(log)
    BY <1>2, <1>6, <2>1 DEF Kept
  <2>3. QED
    BY <1>6, <2>2 DEF Kept
<1>7. head' <= logOff'
  BY <1>2
<1>8. QED
  BY <1>3, <1>4, <1>5, <1>6, <1>7 DEF Offsets

\* How far the queue goes, after a step.
LEMMA QueuedLength ==
    ASSUME Placed', Structure'
    PROVE  Queued' \in Nat /\ Queued' <= Len(flushChan') /\ head' \in Nat
<1>1. Queued' \in Nat /\ Quitting' \in {0, 1} /\ Len(flushChan') \in Nat /\ head' \in Nat
  BY Zenon, LenFacts DEF Structure, Queue, Quitting, Placed, Grounded, MemTypes, TaskTypes, Counters
<1>2. Queued' = Len(flushChan') - Quitting'
  BY DEF Queued
<1>3. QED
  BY <1>1, <1>2

LEMMA OffsetsQuiet ==
    ASSUME Placed, Kept, Placed', Structure', Offsets,
           UNCHANGED <<head, disk, mpc, ft>>,
           \A c \in Callers : At(c)' = "flush" =>
              \/ At(c) = "flush" /\ task'[c] = task[c]
              \/ Covers(task'[c], logOff, log, answer, content),
           \A i \in 1..Queued' :
              \/ i \in 1..Queued /\ flushChan'[i] = flushChan[i]
              \/ Covers(flushChan'[i], logOff, log, answer, content)
    PROVE  Offsets'
<1>1. Queued' \in Nat /\ Queued' <= Len(flushChan') /\ head' \in Nat
  BY QueuedLength
<1>2. head' <= logOff
  BY DEF Offsets
<1>3. \A c \in Callers : At(c)' = "flush" => Covers(task'[c], logOff, log, answer, content)
  BY DEF Offsets
<1>4. \A i \in 1..Queued' : Covers(flushChan'[i], logOff, log, answer, content)
  BY DEF Offsets
<1>5. mpc' \in {"build", "manifest"} /\ ft'.off # 0 => Covers(ft', logOff, log, answer, content)
  BY DEF Offsets
<1>6. \A e \in Entries : e[1] \in InSeq(log) /\ PosIn(log, e) <= head' /\ answer[e[1]] # "err" => e \in disk'
  BY DEF Offsets
<1>7. QED
  BY <1>1, <1>2, <1>3, <1>4, <1>5, <1>6, OffsetsStep

\* When the new memTables is stored, what is logged up to logOff is in the memtables behind it.
LEMMA StoreCovers ==
    ASSUME Placed, Structure, Contents, NEW c \in Callers, At(c) = "store", StoreTables(c), UNCHANGED flushChan
    PROVE  /\ Covers(task'[c], logOff, log, answer, content)
           /\ \A d \in Callers : d # c => task'[d] = task[d]
<1>1. /\ Frozen \in Nat /\ Top \in Nat /\ Fronts /\ Positions /\ logOff \in Nat /\ TaskTypes
      /\ log \in Seq(Reqs)
  BY Sizes, ContentTypes DEF Structure, Placed, Grounded, MemTypes
<1>2. /\ task'[c].mt = task[c].mt /\ task'[c].off = logOff
      /\ \A d \in Callers : d # c => task'[d] = task[d]
  BY <1>1, TasksStore
<1>3. task'[c].mt = Top
  BY <1>1, <1>2 DEF Fronts
<1>4. ASSUME NEW e \in Entries, e[1] \in InSeq(log), PosIn(log, e) <= logOff, answer[e[1]] # "err"
      PROVE  \E m \in 1..Top : e \in content[m]
  <2>1. PosIn(log, e) \in Nat
    BY <1>1, <1>4, PosIndex, EntryFields
  <2>2. Put(e)
    <3>1. Put(e) \/ e[1] \in Coming \/ Rest(e)
      BY <1>1, <1>4 DEF Positions, Logged
    <3>2. e[1] \in Coming \/ Rest(e) => PosIn(log, e) > logOff
      BY <1>1 DEF Positions
    <3>3. QED
      BY <1>1, <1>4, <2>1, <3>1, <3>2
  <2>3. PICK m \in Mems : e \in content[m]
    BY <2>2 DEF Put
  <2>4. 1 <= m /\ m <= Top /\ m \in Nat
    BY <2>3, ContentTypes DEF Contents
  <2>5. QED
    BY <1>1, <2>3, <2>4
<1>5. QED
  BY <1>1, <1>2, <1>3, <1>4 DEF Covers

LEMMA OffsetsMake ==
    ASSUME Placed, Kept, Placed', Structure', Offsets, NEW c \in Callers, NEW mt, MakeTables(c, mt),
           At(c)' = "store", \A d \in Callers : d # c => At(d)' = At(d),
           UNCHANGED <<flushChan, diskVars, Quitting>>
    PROVE  Offsets'
<1>1. \A d \in Callers : d # c => task'[d] = task[d]
  BY DEF MakeTables, Placed, Grounded, MemTypes, TaskTypes
<1>2. Queued' = Queued /\ UNCHANGED <<head, disk, mpc, ft>>
  BY DEF Queued, diskVars
<1>3. QED
  BY <1>1, <1>2, OffsetsQuiet

LEMMA OffsetsStore ==
    ASSUME Placed, Kept, Placed', Structure, Structure', Contents, Offsets, NEW c \in Callers,
           At(c) = "store", StoreTables(c), \A d \in Callers : d # c => At(d)' = At(d),
           UNCHANGED <<flushChan, Quitting>>
    PROVE  Offsets'
<1>1. /\ Covers(task'[c], logOff, log, answer, content)
      /\ \A d \in Callers : d # c => task'[d] = task[d]
  BY Zenon, StoreCovers
<1>2. Queued' = Queued /\ UNCHANGED <<head, disk, mpc, ft>>
  BY DEF Queued, StoreTables
<1>3. QED
  BY <1>1, <1>2, OffsetsQuiet

LEMMA OffsetsSend ==
    ASSUME Placed, Kept, Placed', Structure, Structure', Offsets, NEW c \in Callers,
           At(c) = "flush", SendTask(c), At(c)' # "flush", \A d \in Callers : d # c => At(d)' = At(d),
           Quitting = 0, Quitting' = 0
    PROVE  Offsets'
<1>1. flushChan \in Seq(Tasks) /\ task[c] \in Tasks /\ task \in [Callers -> Tasks] /\ Len(flushChan) \in Nat
  BY LenFacts DEF Placed, Grounded, MemTypes, TaskTypes
<1>2. /\ flushChan' = Append(flushChan, task[c]) /\ UNCHANGED <<head, disk, mpc, ft>>
      /\ \A d \in Callers : d # c => task'[d] = task[d]
  BY <1>1 DEF SendTask, diskVars
<1>3. /\ Len(flushChan') = Len(flushChan) + 1 /\ flushChan'[Len(flushChan) + 1] = task[c]
      /\ \A i \in 1..Len(flushChan) : flushChan'[i] = flushChan[i]
  BY <1>1, <1>2, AppendFacts
<1>4. Queued = Len(flushChan) /\ Queued' = Len(flushChan) + 1
  BY <1>1, <1>3 DEF Queued
<1>5. Covers(task[c], logOff, log, answer, content)
  BY DEF Offsets
<1>6. ASSUME NEW i \in 1..Queued'
      PROVE  \/ i \in 1..Queued /\ flushChan'[i] = flushChan[i]
             \/ Covers(flushChan'[i], logOff, log, answer, content)
  <2>1. i \in 1..Len(flushChan) \/ i = Len(flushChan) + 1
    BY <1>1, <1>4
  <2>2. QED
    BY <1>3, <1>4, <1>5, <2>1
<1>7. QED
  BY Zenon, <1>2, <1>6, OffsetsQuiet

LEMMA OffsetsFlush ==
    ASSUME Placed, Kept, Placed', Structure, Structure', Contents, Offsets, RunFlushMemTable
    PROVE  Offsets'
<1>1. /\ Len(l0) \in Nat /\ Len(flushChan) \in Nat /\ InHand \in {0, 1} /\ Quitting \in {0, 1}
      /\ Queued \in Nat /\ Queue /\ MemTypes /\ head \in Nat /\ logOff \in Nat
  BY Sizes DEF Structure, Placed, Grounded, MemTypes, Counters
<1>2. UNCHANGED <<vpc, lpc, closing, task, nextMem, newTbls, content, mine>>
  BY DEF RunFlushMemTable, vlogVars, lsmVars
<1>3. \A c \in Callers : At(c)' = At(c)
  BY <1>2 DEF At
<1>4. \A c \in Callers : At(c)' = "flush" => Covers(task'[c], logOff, log, answer, content)
  BY <1>2, <1>3 DEF Offsets
<1>5. Queued' \in Nat /\ Queued' <= Len(flushChan') /\ head' \in Nat
  BY QueuedLength
<1>6. CASE TakeTask
  <2>1. UNCHANGED <<head, disk>>
    BY <1>6 DEF TakeTask
  <2>2. /\ Len(flushChan') = Len(flushChan) - 1
        /\ \A i \in 1..Len(flushChan') : flushChan'[i] = flushChan[i + 1]
        /\ mpc' = "exited" \/ (mpc' = "build" /\ ft'.mt = flushChan[1].mt /\ ft'.off \in {0, flushChan[1].off})
    BY Zenon, <1>1, <1>2, <1>6, TasksTake DEF MemTypes
  <2>3. mpc' = "build" => Queued > 0
    BY <1>1, <1>2, <1>6, StructureTake
  <2>4. mpc' \in {"build", "manifest"} /\ ft'.off # 0 => Covers(ft', logOff, log, answer, content)
    <3> SUFFICES ASSUME mpc' = "build", ft'.off # 0 PROVE Covers(ft', logOff, log, answer, content)
      BY <2>2
    <3>1. Covers(flushChan[1], logOff, log, answer, content)
      BY <1>1, <2>3 DEF Offsets
    <3>2. ft'.mt = flushChan[1].mt /\ ft'.off = flushChan[1].off
      BY <2>2
    <3>3. QED
      BY <3>1, <3>2 DEF Covers
  <2>5. \A i \in 1..Queued' : Covers(flushChan'[i], logOff, log, answer, content)
    <3>1. Queued' <= Queued - 1 \/ Queued' = 0
      <4>1. CASE mpc' = "build"
        <5>1. Quitting' = Quitting
          BY <1>2, <1>6, <4>1 DEF Quitting, TakeTask
        <5>2. QED
          BY <1>1, <2>2, <5>1 DEF Queued
      <4>2. CASE mpc' = "exited"
        <5>1. Quitting' = 0 /\ Len(flushChan') = 0
          BY <4>2 DEF Quitting, Structure, Lanes
        <5>2. QED
          BY <5>1 DEF Queued
      <4>3. QED
        BY <2>2, <4>1, <4>2
    <3> SUFFICES ASSUME NEW i \in 1..Queued' PROVE Covers(flushChan'[i], logOff, log, answer, content)
      OBVIOUS
    <3>2. i \in 1..Len(flushChan') /\ i + 1 \in 1..Queued
      BY <1>1, <1>5, <2>2, <3>1
    <3>3. QED
      BY <2>2, <3>2 DEF Offsets
  <2>6. QED
    BY Zenon, <1>4, <1>5, <2>1, <2>4, <2>5, OffsetsStep DEF Offsets
<1>7. CASE WriteLevel0Table \/ AddLevel0Table \/ LoadFlushed \/ LowerLength \/ DeleteMemTable
  <2>1. /\ UNCHANGED <<head, disk, flushChan>> /\ mpc # "exited" /\ mpc' # "exited"
        /\ mpc' \in {"build", "manifest"} => mpc = "build" /\ ft' = ft
    BY Zenon, <1>7 DEF WriteLevel0Table, AddLevel0Table, LoadFlushed, LowerLength, DeleteMemTable
  <2>2. Quitting' = Quitting
    BY <1>2, <2>1 DEF Quitting
  <2>3. \A i \in 1..Queued' : Covers(flushChan'[i], logOff, log, answer, content)
    <3>1. Queued' = Queued
      BY <2>1, <2>2 DEF Queued
    <3>2. QED
      BY <2>1, <3>1 DEF Offsets
  <2>4. mpc' \in {"build", "manifest"} /\ ft'.off # 0 => Covers(ft', logOff, log, answer, content)
    BY <2>1 DEF Offsets
  <2>5. QED
    BY Zenon, <1>4, <1>5, <2>1, <2>3, <2>4, OffsetsStep DEF Offsets
<1>8. CASE AddToManifest
  <2>1. /\ mpc = "manifest" /\ mpc' = "add" /\ disk' = disk \cup built /\ UNCHANGED flushChan
        /\ head' = IF ft.off = 0 THEN head ELSE ft.off
    BY <1>8 DEF AddToManifest, HeadOfTask
  <2>2. \A i \in 1..Queued' : Covers(flushChan'[i], logOff, log, answer, content)
    <3>1. Quitting' = Quitting
      BY <1>2, <2>1 DEF Quitting
    <3>2. Queued' = Queued
      BY <2>1, <3>1 DEF Queued
    <3>3. QED
      BY <2>1, <3>2 DEF Offsets
  <2>3. ft.off # 0 => Covers(ft, logOff, log, answer, content)
    BY <2>1 DEF Offsets
  <2>4. head' <= logOff
    BY <2>1, <2>3 DEF Offsets, Covers
  <2>5. ASSUME NEW e \in Entries, e[1] \in InSeq(log), PosIn(log, e) <= head', answer[e[1]] # "err"
        PROVE  e \in disk'
    <3>1. CASE ft.off = 0
      BY Zenon, <2>1, <2>5, <3>1 DEF Offsets
    <3>2. CASE ft.off # 0
      <4>1. PICK m \in 1..ft.mt : e \in content[m]
        BY <2>1, <2>3, <2>5, <3>2 DEF Covers
      <4>2. ft.mt = Len(l0) + 1
        BY <1>1, <2>1 DEF Queue, InHand
      <4>3. m \in 1..Len(l0) \/ m = ft.mt
        BY <1>1, <4>1, <4>2
      <4>4. QED
        BY Zenon, <2>1, <4>1, <4>3 DEF Contents
    <3>3. QED
      BY <3>1, <3>2
  <2>6. QED
    BY Zenon, <1>4, <1>5, <2>1, <2>2, <2>4, <2>5, OffsetsStep
<1>9. CASE ManifestRefuses
  <2>1. InHand = 1 /\ ft.mt \in deleted
    BY <1>9 DEF ManifestRefuses, InHand
  <2>2. ft.mt = Len(l0) + 1 /\ ft.mt <= Len(l0)
    BY <1>1, <2>1 DEF Queue
  <2>3. QED
    BY <1>1, <2>2
<1>10. QED
  BY <1>6, <1>7, <1>8, <1>9 DEF RunFlushMemTable

LEMMA OffsetsCallers ==
    ASSUME Placed, Kept, Placed', Structure, Structure', Contents, Offsets,
           RunWriteVLog \/ RunWriteLSM \/ CloseGoesOn
    PROVE  Offsets'
<1>1. Lanes /\ TaskTypes
  BY DEF Structure, Placed, Grounded, MemTypes
<1>2. vpc # "exited" \/ lpc # "exited" => closing \in {"open", "writes"}
  BY <1>1 DEF Lanes
<1>3. ASSUME UNCHANGED <<task, flushChan, diskVars, Quitting>>, \A c \in Callers : At(c)' = "flush" => At(c) = "flush"
      PROVE  Offsets'
  <2>1. Queued' = Queued /\ UNCHANGED <<head, disk, mpc, ft>>
    BY <1>3 DEF Queued, diskVars
  <2>2. QED
    BY Zenon, <1>3, <2>1, OffsetsQuiet
<1>4. CASE RunWriteVLog
  <2>1. closing' = closing /\ lpc' = lpc
    BY <1>4 DEF RunWriteVLog, lsmVars
  <2>2. \A d \in Callers : d # "vlog" => At(d)' = At(d)
    BY <2>1 DEF At, Callers
  <2>3. At("vlog") = vpc /\ At("vlog")' = vpc' /\ "vlog" \in Callers
    BY DEF At, Callers
  <2>4. CASE IngestFlush
    <3>1. vpc' = "store" /\ MakeTables("vlog", nextMem) /\ UNCHANGED <<flushChan, diskVars>>
      BY <2>4 DEF IngestFlush, TakeMemTable
    <3>2. Quitting' = Quitting
      BY <2>1, <3>1 DEF Quitting, diskVars
    <3>3. QED
      BY <2>2, <2>3, <3>1, <3>2, OffsetsMake
  <2>5. CASE IngestStore
    <3>1. vpc = "store" /\ StoreTables("vlog") /\ UNCHANGED flushChan
      BY <2>5 DEF IngestStore
    <3>2. Quitting' = Quitting
      BY <2>1, <3>1 DEF Quitting, StoreTables
    <3>3. QED
      BY <2>2, <2>3, <3>1, <3>2, OffsetsStore
  <2>6. CASE IngestSend
    <3>1. vpc = "flush" /\ vpc' = "select" /\ SendTask("vlog")
      BY <2>6 DEF IngestSend
    <3>2. Quitting = 0 /\ Quitting' = 0
      BY <1>2, <2>1, <3>1 DEF Quitting
    <3>3. QED
      BY <2>2, <2>3, <3>1, <3>2, OffsetsSend
  <2>7. CASE /\ \/ WriteVLog \/ WriteVLogFails \/ SendBatch
                \/ CloseWriteVLog \/ CloseWriteVLogFails \/ IngestBegin \/ IngestNoOverlap
             /\ UNCHANGED <<memVars, flushChan, diskVars>>
    <3>1. vpc' = "flush" => vpc = "flush"
      BY <2>7 DEF WriteVLog, WriteVLogFails, SendBatch, CloseWriteVLog, CloseWriteVLogFails,
                  IngestBegin, IngestNoOverlap, vlogVars
    <3>2. UNCHANGED <<task, flushChan, diskVars, Quitting>>
      BY <2>1, <2>7 DEF Quitting, memVars, diskVars
    <3>3. QED
      BY <1>3, <2>2, <2>3, <3>1, <3>2
  <2>8. QED
    BY <1>4, <2>4, <2>5, <2>6, <2>7 DEF RunWriteVLog, IngestNoOverlap
<1>5. CASE RunWriteLSM
  <2>1. closing' = closing /\ vpc' = vpc
    BY <1>5 DEF RunWriteLSM, vlogVars
  <2>2. \A d \in Callers : d # "lsm" => At(d)' = At(d)
    BY <2>1 DEF At, Callers
  <2>3. At("lsm") = lpc /\ At("lsm")' = lpc' /\ "lsm" \in Callers
    BY DEF At, Callers
  <2>4. CASE MakeRoom
    <3>1. lpc' = "store" /\ MakeTables("lsm", nextMem) /\ UNCHANGED <<flushChan, diskVars>>
      BY <2>4 DEF MakeRoom, TakeMemTable
    <3>2. Quitting' = Quitting
      BY <2>1, <3>1 DEF Quitting, diskVars
    <3>3. QED
      BY <2>2, <2>3, <3>1, <3>2, OffsetsMake
  <2>5. CASE RoomStore
    <3>1. lpc = "store" /\ StoreTables("lsm") /\ UNCHANGED flushChan
      BY <2>5 DEF RoomStore
    <3>2. Quitting' = Quitting
      BY <2>1, <3>1 DEF Quitting, StoreTables
    <3>3. QED
      BY <2>2, <2>3, <3>1, <3>2, OffsetsStore
  <2>6. CASE RoomSend
    <3>1. lpc = "flush" /\ lpc' = "load" /\ SendTask("lsm")
      BY <2>6 DEF RoomSend
    <3>2. Quitting = 0 /\ Quitting' = 0
      BY <1>2, <2>1, <3>1 DEF Quitting
    <3>3. QED
      BY <2>2, <2>3, <3>1, <3>2, OffsetsSend
  <2>7. CASE RecvBatch \/ WriteLSMExit \/ LoadTables \/ PutEntries
    <3>1. lpc' # "flush" /\ UNCHANGED <<task, flushChan, diskVars>>
      BY <2>7 DEF RecvBatch, WriteLSMExit, LoadTables, PutEntries, memVars
    <3>2. Quitting' = Quitting
      BY <2>1, <3>1 DEF Quitting, diskVars
    <3>3. QED
      BY <1>3, <2>2, <2>3, <3>1, <3>2
  <2>8. QED
    BY <1>5, <2>4, <2>5, <2>6, <2>7 DEF RunWriteLSM
<1>6. CASE CloseGoesOn
  <2>1. vpc' = vpc /\ lpc' = lpc
    BY <1>6 DEF CloseGoesOn, vlogVars, lsmVars
  <2>2. \A d \in Callers : d # "close" => At(d)' = At(d)
    BY <2>1 DEF At, Callers
  <2>3. At("close") = closing /\ At("close")' = closing' /\ "close" \in Callers
    BY DEF At, Callers
  <2>4. CASE CloseMemTable
    <3>1. closing = "writes" /\ closing' \in {"store", "quit"} /\ UNCHANGED <<flushChan, diskVars>>
      BY Zenon, <2>4 DEF CloseMemTable
    <3>2. Quitting' = Quitting
      BY <3>1 DEF Quitting
    <3>3. (MakeTables("close", 0) /\ closing' = "store") \/ UNCHANGED task
      BY <2>4 DEF CloseMemTable
    <3>4. QED
      BY <1>3, <2>2, <2>3, <3>1, <3>2, <3>3, OffsetsMake
  <2>5. CASE CloseStore
    <3>1. closing = "store" /\ closing' = "flush" /\ StoreTables("close") /\ UNCHANGED flushChan
      BY <2>5 DEF CloseStore
    <3>2. Quitting' = Quitting
      BY <3>1 DEF Quitting
    <3>3. QED
      BY <2>2, <2>3, <3>1, <3>2, OffsetsStore
  <2>6. CASE CloseSend
    <3>1. closing = "flush" /\ closing' = "quit" /\ SendTask("close")
      BY <2>6 DEF CloseSend
    <3>2. Quitting = 0 /\ Quitting' = 0
      BY <3>1 DEF Quitting
    <3>3. QED
      BY <2>2, <2>3, <3>1, <3>2, OffsetsSend
  <2>7. CASE CloseQuit
    <3>1. /\ closing = "quit" /\ closing' = "wait" /\ flushChan' = Append(flushChan, Quit)
          /\ UNCHANGED <<task, head, disk, mpc, ft>>
      BY <2>7 DEF CloseQuit, memVars, diskVars
    <3>2. mpc # "exited" /\ flushChan \in Seq(Tasks) /\ Quit \in Tasks /\ Len(flushChan) \in Nat
      BY <1>1, <3>1, NoTaskType, LenFacts DEF Lanes, TaskTypes, Quit
    <3>3. Quitting = 0 /\ Quitting' = 1
      BY <3>1, <3>2 DEF Quitting
    <3>4. /\ Len(flushChan') = Len(flushChan) + 1
          /\ \A i \in 1..Len(flushChan) : flushChan'[i] = flushChan[i]
      BY <3>1, <3>2, AppendFacts
    <3>5. Queued = Len(flushChan) /\ Queued' = Queued
      BY <3>2, <3>3, <3>4 DEF Queued
    <3>6. QED
      BY <2>2, <2>3, <3>1, <3>4, <3>5, OffsetsQuiet
  <2>8. CASE CloseEnd
    <3>1. closing' = "closed" /\ mpc = "exited" /\ UNCHANGED <<task, flushChan, diskVars>>
      BY <2>8 DEF CloseEnd, FlusherGone, memVars
    <3>2. Quitting' = Quitting
      BY <3>1 DEF Quitting, diskVars
    <3>3. QED
      BY <1>3, <2>2, <2>3, <3>1, <3>2
  <2>9. QED
    BY <1>6, <2>4, <2>5, <2>6, <2>7, <2>8 DEF CloseGoesOn
<1>7. QED
  BY <1>4, <1>5, <1>6

LEMMA OffsetsNext ==
    ASSUME Placed, Kept, Placed', Structure, Structure', Contents, Offsets, [Next]_vars
    PROVE  Offsets'
<1>1. CASE (\E r \in Reqs : SendToWriteCh(r)) \/ RunFlusher \/ CloseBegin \/ UNCHANGED vars
  <2>1. /\ UNCHANGED <<task, flushChan, head, disk, mpc, ft, vpc, lpc>>
        /\ closing' = closing \/ (closing = "open" /\ closing' = "writes")
    BY Zenon, <1>1 DEF SendToWriteCh, RunFlusher, CloseBegin, vars, memVars, diskVars, vlogVars, lsmVars
  <2>2. Quitting' = Quitting /\ \A c \in Callers : At(c)' = "flush" => At(c) = "flush"
    BY <2>1 DEF Quitting, At
  <2>3. Queued' = Queued
    BY <2>1, <2>2 DEF Queued
  <2>4. QED
    BY Zenon, <2>1, <2>2, <2>3, OffsetsQuiet
<1>2. QED
  BY <1>1, OffsetsCallers, OffsetsFlush DEF Next

-----------------------------------------------------------------------------
(* The invariant *)

LEMMA EntriesFinite == IsFiniteSet(Entries)
<1>1. IsFiniteSet(Reqs) /\ IsFiniteSet(1..PerReq)
  BY FS_Interval, WritePathAssumption DEF Reqs
<1>2. QED
  BY Zenon, <1>1, FS_Product DEF Entries

\* Sets of entries, and intervals, have a size.
LEMMA CountedFact == Counted
<1>1. ASSUME NEW S \in SUBSET Entries PROVE Cardinality(S) \in Nat
  <2>1. IsFiniteSet(S)
    BY EntriesFinite, FS_Subset
  <2>2. QED
    BY <2>1, FS_CardinalityType
<1>2. ASSUME NEW m \in 1..PerReq, NEW n \in 1..PerReq, m <= n PROVE Cardinality(m..n) = n - m + 1
  BY <1>2, FS_Interval, WritePathAssumption
<1>3. QED
  BY <1>1, <1>2 DEF Counted

LEMMA GroundedInvariant == Spec => []Grounded
BY CountedFact, GroundedInit, GroundedNext, PTL DEF Spec

LEMMA RacedStays == ASSUME raced, [Next]_vars PROVE raced'
BY Zenon DEF Next, vars, SendToWriteCh, CloseBegin, RunWriteVLog, RunFlusher, RunWriteLSM, RunFlushMemTable,
   CloseGoesOn, IngestFlush, IngestNoOverlap, IngestStore, IngestSend, RecvBatch, WriteLSMExit, LoadTables,
   PutEntries, MakeRoom, RoomStore, RoomSend, countVars

LEMMA FlushedInvariant == Spec => []Flushed
<1>1. Init => Flushed
  <2> SUFFICES ASSUME Init PROVE Flushed
    OBVIOUS
  <2>1. Placed
    <3>1. Grounded
      BY CountedFact, GroundedInit
    <3>2. QED
      BY <3>1, OrderedInit, PositionsInit DEF Placed
  <2>2. Structure
    BY StructureInit
  <2>3. Contents
    BY DEF Init, Contents
  <2>4. Offsets
    <3>1. closing = "open" /\ vpc = "select" /\ lpc = "recv" /\ mpc = "recv" /\ Len(flushChan) = 0
      BY DEF Init
    <3>2. Queued = 0 /\ \A c \in Callers : At(c) # "flush"
      BY <3>1 DEF Queued, Quitting, At
    <3>3. log = <<>> /\ head = 0 /\ logOff = 0
      BY DEF Init
    <3>4. InSeq(log) = {}
      BY <3>3, InSeqEmpty
    <3>5. 1..Queued = {} /\ head <= logOff
      BY <3>2, <3>3
    <3>6. QED
      BY Zenon, <3>1, <3>2, <3>4, <3>5 DEF Offsets
  <2>5. QED
    BY <2>1, <2>2, <2>3, <2>4 DEF Flushed
<1>2. Flushed /\ [Next]_vars => Flushed'
  <2> SUFFICES ASSUME Flushed, [Next]_vars PROVE Flushed'
    OBVIOUS
  <2>1. Placed /\ Placed' /\ MemTypes
    BY PlacedNext DEF Flushed, Placed, Grounded
  <2>2. SUFFICES ASSUME ~raced' PROVE Structure' /\ Contents' /\ Offsets'
    BY <2>1 DEF Flushed
  <2>3. Structure /\ Contents /\ Offsets
    BY <2>2, RacedStays DEF Flushed
  <2>4. Kept
    BY <2>1, KeptNext
  <2>5. Structure'
    BY <2>1, <2>2, <2>3, StructureNext
  <2>6. QED
    BY <2>1, <2>3, <2>4, <2>5, ContentsNext, OffsetsNext
<1>3. QED
  BY <1>1, <1>2, PTL DEF Spec


-----------------------------------------------------------------------------
(* What follows for readers *)

-----------------------------------------------------------------------------
(* What follows for readers *)

(* What DB.get can find, in a memtable or in level 0, is in the value log,  *)
(* and with SyncWrites on disk: whatever the goroutines of writer.go and    *)
(* the flusher do, and whatever is ingested meanwhile.                      *)
THEOREM LoggedBeforeReadable == Spec => []WriteAhead
<1>1. Grounded => WriteAhead
  <2> SUFFICES ASSUME Grounded, NEW e \in Entries, Readable(e)
               PROVE  Logged(e) /\ (sync => e[1] \in synced)
    BY DEF WriteAhead
  <2>1. AheadStored /\ Sound(tbls)
    BY DEF Grounded, MemTypes, Objects
  <2>2. Reachable \subseteq Mems
    <3>1. tbls.tables \in Seq(Mems) /\ tbls.length \in Nat /\ tbls.length <= Len(tbls.tables)
      BY <2>1, TablesFields DEF Sound
    <3>2. Len(tbls.tables) \in Nat
      BY <3>1, LenFacts
    <3>3. QED
      BY <3>1, <3>2 DEF Reachable
  <2>3. e[1] \in Safe
    BY <2>1, <2>2 DEF Readable, AheadStored
  <2>4. QED
    BY <2>3 DEF Safe, Logged
<1>2. QED
  BY <1>1, GroundedInvariant, PTL

\* An acknowledged entry that closeWriteVLog has not left for the replay is in a memtable.
LEMMA AckedPut ==
    ASSUME Placed, NEW r \in Reqs, answer[r] = "ok", NEW e \in EntriesOf(r)
    PROVE  e \in Entries /\ e[1] = r /\ e[1] \in InSeq(log) /\ (Put(e) \/ r \in late)
<1>1. e \in Entries /\ e[1] = r
  BY DEF EntriesOf, Entries
<1>2. r \in InSeq(log) /\ Positions
  BY DEF Placed, Ordered, Answers
<1>3. r \notin Pipeline
  BY DEF Placed, Ordered, Answers
<1>4. ~Rest(e)
  BY <1>1, <1>3 DEF Rest, Pipeline, InSeq
<1>5. e[1] \in Coming => r \in late
  BY <1>1, <1>3 DEF Coming, Pipeline
<1>6. QED
  BY Zenon, <1>1, <1>2, <1>4, <1>5 DEF Positions, Logged

\* Where a memtable with entries is, among those that DB.get looks at.
LEMMA TableAt ==
    ASSUME MemTypes, Structure, Contents
    PROVE  /\ tbls.length \in Nat /\ tbls.length <= Len(tbls.tables) /\ Len(tbls.tables) \in Nat
           /\ Top \in Nat /\ Len(l0) \in Nat /\ Top - tbls.length <= Len(l0)
           /\ \A i \in 2..tbls.length : tbls.tables[i] = Top - i + 1
           /\ \A i \in 1..tbls.length : content[tbls.tables[i]] # {} =>
                 tbls.tables[i] = Top - i + 1 /\ tbls.tables[i] \in Mems
           /\ \A m \in Mems : content[m] # {} /\ m > Len(l0) =>
                 Top - m + 1 \in 1..tbls.length /\ tbls.tables[Top - m + 1] = m
<1>1. Top \in Nat /\ Len(l0) \in Nat /\ Queue /\ Fronts
  BY Sizes DEF Structure
<1>2. /\ Sound(tbls) /\ Len(tbls.tables) <= Top /\ 1 <= tbls.length
      /\ \A i \in 2..Len(tbls.tables) : tbls.tables[i] = Top - i + 1
      /\ Top - tbls.length <= Len(l0)
  BY Zenon, <1>1 DEF Fronts, Shape, Top
<1>3. /\ tbls.tables \in Seq(Mems) /\ tbls.length \in Nat /\ tbls.length <= Len(tbls.tables)
      /\ Len(tbls.tables) \in Nat
  BY Zenon, <1>2, TablesFields, LenFacts DEF Sound
<1>4. \A m \in Mems : content[m] # {} => 1 <= m /\ m <= Top /\ m < nextMem /\ m \in Nat
  BY WritePathAssumption DEF Contents, Mems
<1>5. tbls.tables[1] = Top \/ (tbls.tables[1] = 0 /\ Top = nextMem)
  BY DEF Top, Front, Mutable
<1>6. ASSUME NEW i \in 1..tbls.length, content[tbls.tables[i]] # {}
      PROVE  tbls.tables[i] = Top - i + 1 /\ tbls.tables[i] \in Mems
  <2>1. tbls.tables[i] \in Mems
    BY <1>3
  <2>2. CASE i = 1
    <3>1. tbls.tables[1] # 0
      BY <1>4, <1>6, <2>1, <2>2
    <3>2. QED
      BY <1>1, <1>5, <2>1, <2>2, <3>1
  <2>3. CASE i # 1
    <3>1. i \in 2..Len(tbls.tables)
      BY <1>3, <2>3
    <3>2. QED
      BY <1>2, <2>1, <3>1
  <2>4. QED
    BY <2>2, <2>3
<1>7. ASSUME NEW m \in Mems, content[m] # {}, m > Len(l0)
      PROVE  Top - m + 1 \in 1..tbls.length /\ tbls.tables[Top - m + 1] = m
  <2>1. 1 <= m /\ m <= Top /\ m < nextMem /\ m \in Nat
    BY <1>4, <1>7
  <2>2. Top - m + 1 \in 1..tbls.length
    BY <1>1, <1>2, <1>3, <1>7, <2>1
  <2>3. CASE m = Top
    <3>1. Top - m + 1 = 1 /\ Top # nextMem
      BY <1>1, <2>1, <2>3, WritePathAssumption DEF MemTypes, Counters
    <3>2. QED
      BY <1>5, <2>2, <2>3, <3>1
  <2>4. CASE m # Top
    <3>1. Top - m + 1 \in 2..Len(tbls.tables) /\ Top - (Top - m + 1) + 1 = m
      BY <1>1, <1>3, <2>1, <2>2, <2>4
    <3>2. QED
      BY <1>2, <2>2, <3>1
  <2>5. QED
    BY <2>2, <2>3, <2>4
<1>8. \A i \in 2..tbls.length : tbls.tables[i] = Top - i + 1
  <2>1. \A i \in 2..tbls.length : i \in 2..Len(tbls.tables)
    BY <1>3
  <2>2. QED
    BY <1>2, <2>1
<1>9. QED
  BY <1>1, <1>2, <1>3, <1>6, <1>7, <1>8, Zenon

(* Whatever flushMemTable, the flusher and LowerLength interleave to, the   *)
(* entries of an acknowledged request are in a memtable that DB.get looks   *)
(* at or in level 0, as long as no ingestion has called flushMemTable       *)
(* during writeToLSM.                                                       *)
THEOREM AcknowledgedIsReadable == Spec => []AckedReadable
<1>1. Flushed => AckedReadable
  <2> SUFFICES ASSUME Flushed, ~raced, NEW r \in Reqs \ late, answer[r] = "ok", NEW e \in EntriesOf(r)
               PROVE  Readable(e)
    BY DEF AckedReadable
  <2>1. Placed /\ MemTypes /\ Structure /\ Contents
    BY DEF Flushed, Placed, Grounded
  <2>2. PICK m \in Mems : e \in content[m]
    BY <2>1, AckedPut DEF Put
  <2>3. 1 <= m /\ m \in Nat /\ Len(l0) \in Nat
    BY Zenon, <2>1, <2>2, TableAt, ContentTypes DEF Contents
  <2>4. CASE m <= Len(l0)
    <3>1. m \in 1..Len(l0) /\ e \in l0[m]
      BY <2>1, <2>2, <2>3, <2>4 DEF Contents
    <3>2. QED
      BY Zenon, <3>1 DEF Readable
  <2>5. CASE m > Len(l0)
    <3>1. Top - m + 1 \in 1..tbls.length /\ tbls.tables[Top - m + 1] = m
      BY <2>1, <2>2, <2>5, TableAt
    <3>2. m \in Reachable
      BY <3>1 DEF Reachable
    <3>3. QED
      BY <2>2, <3>2 DEF Readable
  <2>6. QED
    BY <2>3, <2>4, <2>5
<1>2. QED
  BY <1>1, FlushedInvariant, PTL

(* The head that AddToManifest stores never passes over a logged entry that *)
(* is in no table of the manifest: the offset of a flush task is read after *)
(* the swap of memTables, and tasks are taken in their order.               *)
THEOREM HeadSkipsNothing == Spec => []HeadCovered
<1>1. Flushed => HeadCovered
  BY Zenon DEF Flushed, HeadCovered, Offsets, Logged, Pos, PosIn
<1>2. QED
  BY <1>1, FlushedInvariant, PTL

(* The order of lookup, memtables from new to old and then level 0 from new *)
(* to old, is the order of logging: a table that DB.get looks at later has  *)
(* no newer entry that it has not met before.                               *)
THEOREM LookupOrder == Spec => []NewestFirst
<1>1. Flushed => NewestFirst
  <2> SUFFICES ASSUME Flushed, ~raced, NEW i \in DOMAIN LookupTables, NEW j \in DOMAIN LookupTables,
                      NEW e \in LookupTables[i], NEW f \in LookupTables[j], i < j, Pos(e) < Pos(f)
               PROVE  \E k \in 1..i : f \in LookupTables[k]
    BY DEF NewestFirst
  <2>1. Placed /\ MemTypes /\ Structure /\ Contents
    BY DEF Flushed, Placed, Grounded
  <2> DEFINE len == tbls.length
             n == Len(l0)
  <2>2. /\ len \in Nat /\ Top \in Nat /\ n \in Nat
        /\ \A k \in 1..len : content[tbls.tables[k]] # {} =>
              tbls.tables[k] = Top - k + 1 /\ tbls.tables[k] \in Mems
    BY <2>1, TableAt, Zenon
  <2>3. /\ DOMAIN LookupTables = 1..(len + n)
        /\ \A k \in 1..(len + n) : LookupTables[k] = IF k <= len THEN content[tbls.tables[k]]
                                                     ELSE l0[n - (k - len) + 1]
    BY DEF LookupTables
  <2> HIDE DEF len, n
  <2>4. n < Top /\ 1..n \subseteq Mems
    <3>1. Frozen \in Nat /\ n <= Frozen /\ Fronts /\ Queue
      <4>1. /\ Frozen \in Nat /\ InHand \in {0, 1} /\ Queued \in Nat
            /\ Frozen = Len(l0) + InHand + Queued /\ Fronts /\ Queue
        BY <2>1, Sizes DEF Structure
      <4>2. QED
        BY <2>2, <4>1 DEF n
    <3>2. Top = Frozen + 1 \/ Top = Frozen + 2
      BY <3>1 DEF Fronts, Resting, InFlush
    <3>3. Top <= MaxMem + 1
      <4>1. Mutable(tbls) \in Mems /\ nextMem \in 2..(MaxMem + 1)
        BY <2>1, MutableType DEF MemTypes, Counters, Objects
      <4>2. QED
        BY <4>1, WritePathAssumption DEF Top, Front, Mems
    <3>4. QED
      BY <2>2, <3>1, <3>2, <3>3, WritePathAssumption DEF Mems
  <2>5. ASSUME NEW k \in 1..(len + n), NEW g \in LookupTables[k], k <= len
        PROVE  Top - k + 1 \in Mems /\ g \in content[Top - k + 1]
    <3>1. k \in 1..len
      BY <2>2, <2>5
    <3>2. g \in content[tbls.tables[k]]
      BY Zenon, <2>3, <2>5
    <3>3. tbls.tables[k] = Top - k + 1 /\ tbls.tables[k] \in Mems
      BY <2>2, <3>1, <3>2, Zenon
    <3>4. QED
      BY <3>2, <3>3, Zenon
  <2>6. ASSUME NEW k \in 1..(len + n), NEW g \in LookupTables[k], ~(k <= len)
        PROVE  /\ n - (k - len) + 1 \in 1..n /\ n - (k - len) + 1 \in Mems
               /\ g \in content[n - (k - len) + 1]
    <3>1. n - (k - len) + 1 \in 1..n
      BY <2>2, <2>6
    <3>2. g \in l0[n - (k - len) + 1]
      BY <2>3, <2>6
    <3>3. QED
      BY <2>1, <2>4, <3>1, <3>2 DEF Contents, n
  <2>7. ASSUME NEW p \in Mems, NEW q \in Mems, e \in content[p], f \in content[q] PROVE p <= q
    <3>1. PosIn(log, e) \in Nat /\ PosIn(log, f) \in Nat /\ PosIn(log, e) < PosIn(log, f)
      BY <2>1, <2>7, ContentTypes DEF Pos, PosIn
    <3>2. q < p => PosIn(log, f) < PosIn(log, e)
      BY Zenon, <2>1, <2>7 DEF Contents
    <3>3. p \in Nat /\ q \in Nat
      BY Zenon, <2>1, ContentTypes
    <3>4. QED
      BY <3>1, <3>2, <3>3
  <2>8. i \in 1..(len + n) /\ j \in 1..(len + n)
    BY <2>3
  <2>9. i <= len /\ ~(j <= len)
    <3>1. CASE ~(i <= len)
      <4>1. ~(j <= len)
        BY <2>2, <2>8, <3>1
      <4>2. n - (i - len) + 1 <= n - (j - len) + 1
        BY <2>6, <2>7, <2>8, <3>1, <4>1
      <4>3. QED
        BY <2>2, <2>8, <4>2
    <3>2. CASE j <= len
      <4>1. i <= len
        BY <2>2, <2>8, <3>2
      <4>2. Top - i + 1 <= Top - j + 1
        BY <2>5, <2>7, <2>8, <3>2, <4>1
      <4>3. QED
        BY <2>2, <2>8, <4>2
    <3>3. QED
      BY <3>1, <3>2
  <2> DEFINE q == n - (j - len) + 1
             k == Top - q + 1
  <2>10. q \in 1..n /\ q \in Mems /\ f \in content[q] /\ Top - i + 1 <= q
    BY <2>5, <2>6, <2>7, <2>8, <2>9
  <2> HIDE DEF q
  <2>11. k \in 2..len /\ k \in 1..i /\ Top - k + 1 = q
    BY <2>2, <2>4, <2>8, <2>9, <2>10
  <2> HIDE DEF k
  <2>12. tbls.tables[k] = q
    BY <2>1, <2>11, TableAt DEF len
  <2>13. k \in 1..(len + n) /\ k <= len
    BY <2>2, <2>11
  <2>14. f \in LookupTables[k]
    BY <2>3, <2>10, <2>12, <2>13
  <2>15. QED
    BY Zenon, <2>11, <2>14
<1>2. QED
  BY <1>1, FlushedInvariant, PTL

(* Close waits for the writers, flushes the last memtable and waits for the *)
(* flusher: when it has returned, every acknowledged entry is in a table of *)
(* the manifest, or in the log behind the head that the next Open replays   *)
(* from.                                                                    *)
THEOREM CloseLeavesAll == Spec => []CloseFlushes
<1>1. Flushed => CloseFlushes
  <2> SUFFICES ASSUME Flushed, ~raced, closing = "closed", NEW r \in Reqs, answer[r] = "ok",
                      NEW e \in EntriesOf(r)
               PROVE  e \in disk \/ (r \in late /\ Pos(e) > head)
    BY DEF CloseFlushes, CloseKeepsWrites
  <2>1. /\ Placed /\ MemTypes /\ Structure /\ Contents /\ Offsets
        /\ Lanes /\ Queue /\ Fronts /\ Numbers
    BY DEF Flushed, Placed, Grounded, Structure
  <2>2. e \in Entries /\ e[1] = r /\ e[1] \in InSeq(log) /\ (Put(e) \/ r \in late)
    BY <2>1, AckedPut
  <2>3. CASE r \in late
    <3>1. PosIn(log, e) > logOff
      BY Zenon, <2>1, <2>2, <2>3 DEF Placed, Positions, Coming
    <3>2. PosIn(log, e) \in Nat /\ head \in Nat /\ logOff \in Nat /\ head <= logOff
      BY <2>1, <2>2, ContentTypes, PosIndex, EntryFields DEF MemTypes, Counters, Offsets
    <3>3. PosIn(log, e) > head
      BY <3>1, <3>2
    <3>4. QED
      BY <2>3, <3>3 DEF Pos, PosIn
  <2>4. CASE Put(e)
    <3>1. PICK m \in Mems : e \in content[m]
      BY <2>4 DEF Put
    <3>2. 1 <= m /\ m <= Top /\ m < nextMem /\ m \in Nat /\ nextMem \in Nat
      BY <2>1, <3>1, ContentTypes, Sizes DEF Contents
    <3>3. mpc = "exited" /\ vpc = "exited" /\ lpc = "exited" /\ Len(flushChan) = 0
      BY <2>1 DEF Lanes
    <3>4. Queued = 0 /\ InHand = 0
      BY <3>3 DEF Queued, Quitting, InHand
    <3>5. Top = Len(l0) + 1 /\ Len(l0) \in Nat
      <4>1. Resting
        BY <3>3 DEF Resting, InFlush, At
      <4>2. Top = Frozen + 1 /\ Frozen = Len(l0) + InHand + Queued /\ Len(l0) \in Nat
        BY <2>1, <4>1, Sizes DEF Fronts
      <4>3. QED
        BY <3>4, <4>2
    <3>6. m # Top
      <4>1. Mutable(tbls) = 0 => Top = nextMem
        BY DEF Top, Front
      <4>2. Mutable(tbls) # 0 => content[Top] = {}
        BY <2>1 DEF Numbers, Top, Front
      <4>3. QED
        BY <3>1, <3>2, <4>1, <4>2
    <3>7. m \in 1..Len(l0)
      BY <3>2, <3>5, <3>6
    <3>8. QED
      BY <2>1, <3>1, <3>7 DEF Contents
  <2>5. QED
    BY <2>2, <2>3, <2>4
<1>2. QED
  BY <1>1, FlushedInvariant, PTL

=============================================================================
