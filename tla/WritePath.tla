----------------------------- MODULE WritePath -----------------------------
(***************************************************************************)
(* The write path behind sendToWriteCh (writer.go, db.go): the goroutines  *)
(* that log requests, sync the log, fill memtables and flush them to level *)
(* 0, the part of ingestion that flushes the memtable, and Close.          *)
(*                                                                         *)
(* A request is known by its place in the order of sending; it has PerReq  *)
(* entries, and an entry is the pair of its request and its number. All    *)
(* entries have the same size and MemCap of them fill a memtable. Merging  *)
(* the pending list of a memtable into its skiplist (runMergeLSM) does not *)
(* change what the memtable holds and has no step here. A memtable is      *)
(* known by its number, in the order memTableCh delivers them; 0 is the    *)
(* nil that Close puts in front. Compaction of level 0, and the stall it   *)
(* ends, are left out.                                                     *)
(***************************************************************************)
EXTENDS Integers, Sequences, FiniteSets

CONSTANTS
    NumReqs,    \* bound: requests ever sent
    PerReq,     \* entries of a request
    MemCap,     \* entries that fit a memtable (MaxMemTableSize)
    ChCap,      \* capacity of writeCh
    FlushCap,   \* capacity of flushChan (NumMemtables)
    MaxMem,     \* bound: memtables ever created
    Ingests,    \* bound: ingestions that flush the memtable
    IOErrors    \* bound: failing writes and syncs of the value log

ASSUME WritePathAssumption ==
    /\ NumReqs \in Nat
    /\ PerReq \in Nat \ {0} /\ MemCap \in Nat \ {0}
    /\ ChCap \in Nat \ {0} /\ FlushCap \in Nat \ {0}
    /\ MaxMem \in Nat \ {0} /\ Ingests \in Nat /\ IOErrors \in Nat

VARIABLES
    sync,        \* opt.SyncWrites
    writeCh,     \* DB.writeCh
    answer,      \* how the WaitGroup of each request was released
    log,         \* requests in the value log, in order
    synced,      \* requests known to be on disk
    vpc, vbatch, \* runWriteVLog: where it is and the batch in its hands
    fpc, fbatch, \* runFlusher
    writeLSMCh,  \* channel of batches, capacity 1
    lsmClosed,   \* writeLSMCh is closed
    lpc, lbatch, \* runWriteLSM: the batch it applies
    applied,     \* entries of that batch applied so far
    mine,        \* mutable memtable of writeToLSM's local mTbls
    tbls,        \* DB.mtbls: tables from new to old, and length
    nextMem,     \* next memtable memTableCh delivers
    content,     \* entries of each memtable
    logOff,      \* DB.logOff: position in the log, in entries
    newTbls,     \* local of flushMemTable, per goroutine that calls it
    task,        \* flush task of that goroutine
    flushChan,   \* DB.flushChan
    mpc, ft,     \* runFlushMemTable: where it is and its task
    flCurrent,   \* the memTables object it loaded is still the current one
    built,       \* entries of the table it has built
    l0,          \* level 0, oldest table first: sets of entries
    disk, head,  \* entries of the tables in the manifest, and its log offset
    deleted,     \* memtables handed to Guard.Delete
    closing,     \* where Close is
    late,        \* requests answered by closeWriteVLog
    raced,       \* history: an ingestion has called flushMemTable during writeToLSM
    ingested, ioErrors

vlogVars  == <<vpc, vbatch, log>>
flushVars == <<fpc, fbatch>>
lsmVars   == <<lpc, lbatch, applied, mine, logOff>>
memVars   == <<tbls, nextMem, content, newTbls, task>>
diskVars  == <<mpc, ft, flCurrent, built, l0, disk, head, deleted>>
countVars == <<ingested, ioErrors, raced>>
vars == <<sync, writeCh, answer, synced, vlogVars, flushVars, writeLSMCh, lsmClosed,
          lsmVars, memVars, flushChan, diskVars, closing, late, countVars>>

Reqs == 1..NumReqs

Entries == Reqs \X (1..PerReq)

Mems == 0..MaxMem

\* The goroutines that call flushMemTable.
Callers == {"vlog", "lsm", "close"}

InSeq(s) == {s[i] : i \in 1..Len(s)}

\* Position of a logged entry (its logOffset), counted in entries.
Pos(e) == (CHOOSE i \in 1..Len(log) : log[i] = e[1]) * PerReq - PerReq + e[2]

Logged(e) == e[1] \in InSeq(log)

NoTask == [mt |-> 0, off |-> 0]

Quit == NoTask

Init ==
    /\ sync \in BOOLEAN
    /\ writeCh = <<>>
    /\ answer = [r \in Reqs |-> "unsent"]
    /\ log = <<>>
    /\ synced = {}
    /\ vpc = "select" /\ vbatch = <<>>
    /\ fpc = IF sync THEN "select" ELSE "exited"
    /\ fbatch = <<>>
    /\ writeLSMCh = <<>>
    /\ lsmClosed = FALSE
    /\ lpc = "recv" /\ lbatch = <<>> /\ applied = 0 /\ mine = 0
    /\ tbls = [tables |-> <<1>>, length |-> 1]
    /\ nextMem = 2
    /\ content = [m \in Mems |-> {}]
    /\ logOff = 0
    /\ newTbls = [c \in Callers |-> [tables |-> <<>>, length |-> 0]]
    /\ task = [c \in Callers |-> NoTask]
    /\ flushChan = <<>>
    /\ mpc = "recv" /\ ft = NoTask /\ flCurrent = FALSE /\ built = {}
    /\ l0 = <<>>
    /\ disk = {} /\ head = 0
    /\ deleted = {}
    /\ closing = "open"
    /\ late = {}
    /\ ingested = 0 /\ ioErrors = 0 /\ raced = FALSE

Mutable(ts) == ts.tables[1]

\* writeWorker.done.
Answered(reqs, how) == [r \in Reqs |-> IF r \in InSeq(reqs) THEN how ELSE answer[r]]
-----------------------------------------------------------------------------
(* sendToWriteCh, and runWriteVLog. *)

SendToWriteCh(r) ==
    /\ closing = "open"
    /\ answer[r] = "unsent" /\ \A q \in 1..(r - 1) : answer[q] # "unsent"
    /\ Len(writeCh) < ChCap
    /\ writeCh' = Append(writeCh, r)
    /\ answer' = [answer EXCEPT ![r] = "wait"]
    /\ UNCHANGED <<sync, synced, vlogVars, flushVars, writeLSMCh, lsmClosed, lsmVars,
                   memVars, flushChan, diskVars, closing, late, countVars>>

\* The queued requests are taken as one batch and written to the value log.
WriteVLog ==
    /\ vpc = "select"
    /\ writeCh # <<>>
    /\ log' = log \o writeCh
    /\ vbatch' = writeCh
    /\ vpc' = "send"
    /\ writeCh' = <<>>
    /\ UNCHANGED <<answer, synced, flushVars, writeLSMCh, lsmClosed, late,
                   ingested, ioErrors>>

\* The value log fails: the batch is answered, and runWriteVLog returns.
WriteVLogFails ==
    /\ vpc = "select"
    /\ writeCh # <<>>
    /\ ioErrors < IOErrors
    /\ ioErrors' = ioErrors + 1
    /\ answer' = Answered(writeCh, "err")
    /\ vpc' = "exited"
    /\ writeCh' = <<>>
    /\ UNCHANGED <<synced, vbatch, log, flushVars, writeLSMCh, lsmClosed, late,
                   ingested>>

\* Mutant: runFlusher is passed by.
NeverSyncs == FALSE

ThroughFlusher == sync

(* The batch goes to the flusher, which must be at its select (flushCh has  *)
(* no buffer), or straight to the LSM writer.                               *)
SendBatch ==
    /\ vpc \in {"send", "ingestSend"}
    /\ IF ThroughFlusher
       THEN /\ fpc = "select"
            /\ fpc' = "sync"
            /\ fbatch' = vbatch
            /\ UNCHANGED writeLSMCh
       ELSE /\ writeLSMCh = <<>>
            /\ writeLSMCh' = <<vbatch>>
            /\ UNCHANGED flushVars
    /\ vpc' = IF vpc = "send" THEN "select" ELSE "ingest"
    /\ vbatch' = <<>>
    /\ UNCHANGED <<writeCh, answer, synced, log, lsmClosed, late, ingested,
                   ioErrors>>

\* Mutant: the requests still queued are forgotten.
NoLateAnswers == answer

LateAnswers == Answered(writeCh, "ok")

\* Mutant: nobody closes writeLSMCh.
LeavesOpen == lsmClosed

ClosesLSMCh == lsmClosed \/ ~sync

(* closeWriteVLog: what is still queued is logged, synced and answered; the *)
(* LSM tree gets it at the next replay.                                     *)
CloseWriteVLog ==
    /\ vpc = "select"
    /\ closing # "open"
    /\ log' = log \o writeCh
    /\ synced' = synced \cup InSeq(writeCh)
    /\ late' = InSeq(writeCh)
    /\ answer' = LateAnswers
    /\ writeCh' = <<>>
    /\ lsmClosed' = ClosesLSMCh
    /\ vpc' = "exited"
    /\ UNCHANGED <<vbatch, flushVars, writeLSMCh, ingested, ioErrors>>

CloseWriteVLogFails ==
    /\ vpc = "select"
    /\ closing # "open"
    /\ ioErrors < IOErrors
    /\ ioErrors' = ioErrors + 1
    /\ answer' = Answered(writeCh, "err")
    /\ writeCh' = <<>>
    /\ lsmClosed' = ClosesLSMCh
    /\ vpc' = "exited"
    /\ UNCHANGED <<synced, vbatch, log, flushVars, writeLSMCh, late, ingested>>
-----------------------------------------------------------------------------
(* runFlusher, with SyncWrites only. *)

Fdatasync ==
    /\ fpc = "sync"
    /\ synced' = synced \cup InSeq(fbatch)
    /\ fpc' = "send"
    /\ UNCHANGED <<answer, fbatch, writeLSMCh, lsmClosed, ioErrors>>

FdatasyncFails ==
    /\ fpc = "sync"
    /\ ioErrors < IOErrors
    /\ ioErrors' = ioErrors + 1
    /\ answer' = Answered(fbatch, "err")
    /\ fpc' = "select"
    /\ fbatch' = <<>>
    /\ UNCHANGED <<synced, writeLSMCh, lsmClosed>>

FlusherSend ==
    /\ fpc = "send"
    /\ writeLSMCh = <<>>
    /\ writeLSMCh' = <<fbatch>>
    /\ fpc' = "select"
    /\ fbatch' = <<>>
    /\ UNCHANGED <<answer, synced, lsmClosed, ioErrors>>

FlusherExit ==
    /\ fpc = "select"
    /\ closing # "open"
    /\ fpc' = "exited"
    /\ lsmClosed' = TRUE
    /\ UNCHANGED <<answer, synced, fbatch, writeLSMCh, ioErrors>>
-----------------------------------------------------------------------------
(* flushMemTable, called by runWriteLSM (ensureRoomForWrite) and, for an    *)
(* ingestion, by runWriteVLog.                                              *)

\* newMemTables reads the length of the old one and copies its tables.
NewMemTables(mt) ==
    [tables |-> <<mt>> \o SubSeq(tbls.tables, 1, tbls.length), length |-> tbls.length + 1]

MakeTables(c, mt) ==
    /\ newTbls' = [newTbls EXCEPT ![c] = NewMemTables(mt)]
    /\ task' = [task EXCEPT ![c] = [mt |-> Mutable(tbls), off |-> 0]]
    /\ UNCHANGED <<tbls, content>>

\* The first line of flushMemTable takes a new memtable from memTableCh.
TakeMemTable(c) ==
    /\ nextMem <= MaxMem
    /\ nextMem' = nextMem + 1
    /\ MakeTables(c, nextMem)

\* The new memTables is stored and the flush task made with the log offset.
StoreTables(c) ==
    /\ tbls' = newTbls[c]
    /\ flCurrent' = FALSE
    /\ task' = [task EXCEPT ![c].off = logOff]
    /\ newTbls' = [newTbls EXCEPT ![c] = [tables |-> <<>>, length |-> 0]]
    /\ UNCHANGED <<nextMem, content, mpc, ft, built, l0, disk, head, deleted>>

SendTask(c) ==
    /\ Len(flushChan) < FlushCap
    /\ flushChan' = Append(flushChan, task[c])
    /\ task' = [task EXCEPT ![c] = NoTask]
    /\ UNCHANGED <<tbls, nextMem, content, newTbls, diskVars>>

(* prepareIngestTask logs what is queued, as a batch that may be empty. An  *)
(* error of the value log ends the ingestion, but not runWriteVLog.         *)
IngestBegin ==
    /\ vpc = "select"
    /\ closing = "open"
    /\ ingested < Ingests
    /\ ingested' = ingested + 1
    /\ writeCh' = <<>>
    /\ \/ /\ log' = log \o writeCh
          /\ vbatch' = writeCh
          /\ vpc' = "ingestSend"
          /\ UNCHANGED <<answer, ioErrors>>
       \/ /\ ioErrors < IOErrors
          /\ ioErrors' = ioErrors + 1
          /\ answer' = Answered(writeCh, "err")
          /\ UNCHANGED vlogVars
    /\ UNCHANGED <<synced, flushVars, writeLSMCh, lsmClosed, late>>

(* Then it flushes the mutable memtable if that holds a key of an external  *)
(* table; an empty memtable holds none.                                     *)
IngestFlush ==
    /\ vpc = "ingest"
    /\ content[Mutable(tbls)] # {}
    /\ TakeMemTable("vlog")
    /\ vpc' = "store"
    /\ raced' = (raced \/ lpc \in {"write", "store", "flush"})
    /\ UNCHANGED <<flushChan, diskVars>>

IngestNoOverlap ==
    /\ vpc = "ingest"
    /\ vpc' = "select"
    /\ UNCHANGED <<memVars, flushChan, diskVars, raced>>

IngestStore ==
    /\ vpc = "store"
    /\ StoreTables("vlog")
    /\ vpc' = "flush"
    /\ UNCHANGED <<flushChan, raced>>

IngestSend ==
    /\ vpc = "flush"
    /\ SendTask("vlog")
    /\ vpc' = "select"
    /\ UNCHANGED raced
-----------------------------------------------------------------------------
(* runWriteLSM. *)

RecvBatch ==
    /\ lpc = "recv"
    /\ writeLSMCh # <<>>
    /\ writeLSMCh' = <<>>
    /\ lbatch' = Head(writeLSMCh)
    /\ lpc' = IF Head(writeLSMCh) = <<>> THEN "recv" ELSE "load"
    /\ UNCHANGED <<answer, applied, mine, logOff, memVars, flushChan, diskVars,
                   raced>>

WriteLSMExit ==
    /\ lpc = "recv"
    /\ writeLSMCh = <<>>
    /\ lsmClosed
    /\ lpc' = "exited"
    /\ UNCHANGED <<answer, writeLSMCh, lbatch, applied, mine, logOff, memVars,
                   flushChan, diskVars, raced>>

\* writeToLSM loads mtbls when it begins and after each flush of its own.
LoadTables ==
    /\ lpc = "load"
    /\ mine' = Mutable(tbls)
    /\ lpc' = "write"
    /\ raced' = (raced \/ vpc \in {"store", "flush"})
    /\ UNCHANGED <<answer, writeLSMCh, lbatch, applied, logOff, memVars,
                   flushChan, diskVars>>

Free == MemCap - Cardinality(content[mine])

\* The request being applied, and its entries that fit.
Request == lbatch[(applied \div PerReq) + 1]

Fitting ==
    LET first == (applied % PerReq) + 1
    IN  first..(IF first + Free - 1 < PerReq THEN first + Free - 1 ELSE PerReq)

(* The entries that fit go to the memtable, after updateOffset with the     *)
(* last of them. After the last request of the batch all are answered.      *)
PutEntries ==
    /\ lpc = "write"
    /\ Free > 0
    /\ content' = [content EXCEPT ![mine] = @ \cup {<<Request, i>> : i \in Fitting}]
    /\ logOff' = Pos(<<Request, (applied % PerReq) + Cardinality(Fitting)>>)
    /\ LET done == applied + Cardinality(Fitting)
       IN  IF done = Len(lbatch) * PerReq
           THEN /\ answer' = Answered(lbatch, "ok")
                /\ lpc' = "recv"
                /\ lbatch' = <<>>
                /\ applied' = 0
                /\ mine' = 0
           ELSE /\ lpc' = IF done % PerReq = 0 THEN "load" ELSE "write"
                /\ applied' = done
                /\ UNCHANGED <<answer, lbatch, mine>>
    /\ UNCHANGED <<writeLSMCh, tbls, nextMem, newTbls, task, flushChan,
                   diskVars, raced>>

\* ensureRoomForWrite finds the memtable full and flushes it.
MakeRoom ==
    /\ lpc = "write"
    /\ Free <= 0
    /\ TakeMemTable("lsm")
    /\ lpc' = "store"
    /\ UNCHANGED <<answer, writeLSMCh, lbatch, applied, mine, logOff, flushChan,
                   diskVars, raced>>

RoomStore ==
    /\ lpc = "store"
    /\ StoreTables("lsm")
    /\ lpc' = "flush"
    /\ UNCHANGED <<answer, writeLSMCh, lbatch, applied, mine, logOff, flushChan,
                   raced>>

RoomSend ==
    /\ lpc = "flush"
    /\ SendTask("lsm")
    /\ lpc' = "load"
    /\ UNCHANGED <<answer, writeLSMCh, lbatch, applied, mine, logOff, raced>>
-----------------------------------------------------------------------------
(* runFlushMemTable. *)

\* A nil memtable ends it. The head is stored only for a memtable with entries.
TakeTask ==
    /\ mpc = "recv"
    /\ flushChan # <<>>
    /\ flushChan' = Tail(flushChan)
    /\ IF Head(flushChan) = Quit
       THEN mpc' = "exited" /\ UNCHANGED ft
       ELSE /\ mpc' = "build"
            /\ ft' = [Head(flushChan) EXCEPT !.off = IF content[Head(flushChan).mt] = {}
                                                     THEN 0 ELSE @]
    /\ UNCHANGED <<flCurrent, built, l0, disk, head, deleted, tbls>>

WriteLevel0Table ==
    /\ mpc = "build"
    /\ built' = content[ft.mt]
    /\ mpc' = "manifest"
    /\ UNCHANGED <<ft, flCurrent, l0, disk, head, deleted, tbls, flushChan>>

\* Mutant: the offset of now is stored, not that of the task.
HeadWhenFlushed == logOff

HeadOfTask == IF ft.off = 0 THEN head ELSE ft.off

\* addLevel0Table: first the manifest, with the head, then level 0 itself.
AddToManifest ==
    /\ mpc = "manifest"
    /\ ft.mt \notin deleted
    /\ disk' = disk \cup built
    /\ head' = HeadOfTask
    /\ mpc' = "add"
    /\ UNCHANGED <<ft, flCurrent, built, l0, deleted, tbls, flushChan>>

(* A second table with the id of the memtable is refused, and runFlushMem-  *)
(* Table returns the error: nobody takes flush tasks any more.              *)
ManifestRefuses ==
    /\ mpc = "manifest"
    /\ ft.mt \in deleted
    /\ mpc' = "exited"
    /\ UNCHANGED <<ft, flCurrent, built, l0, disk, head, deleted, tbls, flushChan>>

\* Mutant: level 0 is kept the other way round.
Level0Reversed == <<built>> \o l0

Level0Extended == Append(l0, built)

AddLevel0Table ==
    /\ mpc = "add"
    /\ l0' = Level0Extended
    /\ built' = {}
    /\ mpc' = "load"
    /\ UNCHANGED <<ft, flCurrent, disk, head, deleted, tbls, flushChan>>

LoadFlushed ==
    /\ mpc = "load"
    /\ flCurrent' = TRUE
    /\ mpc' = "lower"
    /\ UNCHANGED <<ft, built, l0, disk, head, deleted, tbls, flushChan>>

\* Mutant: only the mutable memtable is kept.
LoweredToMutable == [tbls EXCEPT !.length = 1]

(* The length of the loaded memTables is lowered to leave the flushed table *)
(* and the older ones out; only a change of the current object matters.     *)
Lowered ==
    IF flCurrent /\ ft.mt \in InSeq(tbls.tables)
    THEN [tbls EXCEPT !.length =
             (CHOOSE i \in 1..Len(tbls.tables) : tbls.tables[i] = ft.mt) - 1]
    ELSE tbls

LowerLength ==
    /\ mpc = "lower"
    /\ tbls' = Lowered
    /\ flCurrent' = FALSE
    /\ mpc' = "delete"
    /\ UNCHANGED <<ft, built, l0, disk, head, deleted, flushChan>>

DeleteMemTable ==
    /\ mpc = "delete"
    /\ deleted' = deleted \cup {ft.mt}
    /\ ft' = NoTask
    /\ mpc' = "recv"
    /\ UNCHANGED <<flCurrent, built, l0, disk, head, tbls, flushChan>>
-----------------------------------------------------------------------------
(* Close. *)

CloseBegin ==
    /\ closing = "open"
    /\ closing' = "writes"
    /\ UNCHANGED <<sync, writeCh, answer, synced, vlogVars, flushVars, writeLSMCh,
                   lsmClosed, lsmVars, memVars, flushChan, diskVars, late, countVars>>

\* The write workers are gone; a mutable memtable with entries is flushed.
CloseMemTable ==
    /\ closing = "writes"
    /\ vpc = "exited" /\ fpc = "exited" /\ lpc = "exited"
    /\ IF content[Mutable(tbls)] # {}
       THEN MakeTables("close", 0) /\ closing' = "store"
       ELSE UNCHANGED <<tbls, content, newTbls, task>> /\ closing' = "quit"
    /\ UNCHANGED <<nextMem, flushChan, diskVars>>

CloseStore ==
    /\ closing = "store"
    /\ StoreTables("close")
    /\ closing' = "flush"
    /\ UNCHANGED flushChan

CloseSend ==
    /\ closing = "flush"
    /\ SendTask("close")
    /\ closing' = "quit"

CloseQuit ==
    /\ closing = "quit"
    /\ Len(flushChan) < FlushCap
    /\ flushChan' = Append(flushChan, Quit)
    /\ closing' = "wait"
    /\ UNCHANGED <<memVars, diskVars>>

\* Mutant: Close does not wait for the flusher.
FlusherSignalled == TRUE

FlusherGone == mpc = "exited"

CloseEnd ==
    /\ closing = "wait"
    /\ FlusherGone
    /\ closing' = "closed"
    /\ UNCHANGED <<memVars, flushChan, diskVars>>
-----------------------------------------------------------------------------
(* The goroutines, with the variables that none of their steps changes. *)

RunWriteVLog ==
    \/ /\ \/ WriteVLog \/ WriteVLogFails \/ SendBatch
          \/ CloseWriteVLog \/ CloseWriteVLogFails \/ IngestBegin
       /\ UNCHANGED <<sync, lsmVars, memVars, flushChan, diskVars, closing, raced>>
    \/ /\ IngestFlush \/ IngestNoOverlap \/ IngestStore \/ IngestSend
       /\ UNCHANGED <<sync, writeCh, answer, synced, vbatch, log, flushVars, writeLSMCh,
                      lsmClosed, lsmVars, closing, late, ingested, ioErrors>>

RunFlusher ==
    /\ Fdatasync \/ FdatasyncFails \/ FlusherSend \/ FlusherExit
    /\ UNCHANGED <<sync, writeCh, vlogVars, lsmVars, memVars, flushChan, diskVars, closing,
                   late, ingested, raced>>

RunWriteLSM ==
    /\ \/ RecvBatch \/ WriteLSMExit \/ LoadTables \/ PutEntries
       \/ MakeRoom \/ RoomStore \/ RoomSend
    /\ UNCHANGED <<sync, writeCh, synced, vlogVars, flushVars, lsmClosed, closing, late,
                   ingested, ioErrors>>

RunFlushMemTable ==
    /\ \/ TakeTask \/ WriteLevel0Table \/ AddToManifest \/ ManifestRefuses
       \/ AddLevel0Table \/ LoadFlushed \/ LowerLength \/ DeleteMemTable
    /\ UNCHANGED <<sync, writeCh, answer, synced, vlogVars, flushVars, writeLSMCh,
                   lsmClosed, lsmVars, nextMem, content, newTbls, task, closing, late,
                   countVars>>

CloseGoesOn ==
    /\ CloseMemTable \/ CloseStore \/ CloseSend \/ CloseQuit \/ CloseEnd
    /\ UNCHANGED <<sync, writeCh, answer, synced, vlogVars, flushVars, writeLSMCh,
                   lsmClosed, lsmVars, late, countVars>>

Next ==
    \/ \E r \in Reqs : SendToWriteCh(r)
    \/ RunWriteVLog \/ RunFlusher \/ RunWriteLSM \/ RunFlushMemTable
    \/ CloseBegin \/ CloseGoesOn

Spec == Init /\ [][Next]_vars

\* Every goroutine that can take a step is scheduled at some time.
FairSpec ==
    /\ Spec
    /\ WF_vars(RunWriteVLog) /\ WF_vars(RunFlusher) /\ WF_vars(RunWriteLSM)
    /\ WF_vars(RunFlushMemTable) /\ WF_vars(CloseGoesOn)
-----------------------------------------------------------------------------
Reachable == {tbls.tables[i] : i \in 1..tbls.length}

\* What DB.get finds: memtables within length, then level 0.
Readable(e) ==
    \/ \E m \in Reachable : e \in content[m]
    \/ \E i \in 1..Len(l0) : e \in l0[i]

EntriesOf(r) == {r} \X (1..PerReq)

(* The tables in the order of lookup: memtables from new to old, then the   *)
(* tables of level 0 from new to old.                                       *)
LookupTables ==
    [i \in 1..(tbls.length + Len(l0)) |->
        IF i <= tbls.length THEN content[tbls.tables[i]]
        ELSE l0[Len(l0) - (i - tbls.length) + 1]]

(* An acknowledged request can be read, all its entries, at every moment:   *)
(* also between the swap of memTables, the flush to level 0 and the         *)
(* lowering of length by another goroutine. Requests that closeWriteVLog    *)
(* acknowledges are only in the log. This and the properties below that     *)
(* begin with raced need that flushMemTable is not called by an ingestion   *)
(* while writeToLSM runs.                                                   *)
AckedReadable ==
    raced \/ \A r \in Reqs \ late :
                answer[r] = "ok" => \A e \in EntriesOf(r) : Readable(e)

(* Nothing can be read before it is in the value log, and with SyncWrites   *)
(* before the log is synced: the batch goes through runFlusher to           *)
(* runWriteLSM.                                                             *)
WriteAhead ==
    \A e \in Entries : Readable(e) => Logged(e) /\ (sync => e[1] \in synced)

(* The head that the manifest stores with a level 0 table, from which a     *)
(* restart replays the log, has nothing before it that is not in a table:   *)
(* what was logged before head is in the manifest's tables, unless it was   *)
(* answered with an error.                                                  *)
HeadCovered ==
    raced \/ \A e \in Entries :
                Logged(e) /\ Pos(e) <= head /\ answer[e[1]] # "err" => e \in disk

(* A lookup stops at the first table that has the key, so it must not pass  *)
(* over a newer entry: an entry logged after one of an earlier table is in  *)
(* that table or one before it too (a flushed memtable is still looked up). *)
NewestFirst ==
    raced \/ \A i, j \in DOMAIN LookupTables :
                \A e \in LookupTables[i], f \in LookupTables[j] :
                    i < j /\ Pos(e) < Pos(f) => \E k \in 1..i : f \in LookupTables[k]

(* "It's crucial to call it to ensure all the pending updates make their    *)
(* way to disk": when Close has returned, every acknowledged request is in  *)
(* the manifest's tables, or in the synced log behind head.                 *)
CloseKeepsWrites ==
    closing = "closed" =>
        \A r \in Reqs : answer[r] = "ok" =>
            \A e \in EntriesOf(r) : e \in disk \/ (r \in late /\ Pos(e) > head)

(* The same, where no ingestion has called flushMemTable during writeToLSM: *)
(* Close waits for the writers, then flushes the last memtable, then waits  *)
(* for the flusher.                                                         *)
CloseFlushes == raced \/ CloseKeepsWrites

(* Every request is answered, unless an error ended runWriteVLog or, with   *)
(* SyncWrites, Close has begun: runFlusher may take the close signal while  *)
(* runWriteVLog holds a batch for it.                                       *)
RequestsAnswered ==
    \A r \in Reqs :
        (answer[r] = "wait") ~> (\/ answer[r] \in {"ok", "err"}
                                 \/ ioErrors > 0 \/ raced
                                 \/ sync /\ closing # "open")

(* Without SyncWrites and without I/O errors, Close returns: the workers    *)
(* drain their channels, which they close one after the other, and the      *)
(* flusher takes every task.                                                *)
CloseReturns ==
    (closing = "writes" /\ ~sync) ~> (closing = "closed" \/ ioErrors > 0 \/ raced)
=============================================================================
