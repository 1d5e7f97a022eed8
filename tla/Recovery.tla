------------------------------ MODULE Recovery ------------------------------
(***************************************************************************)
(* Persistence: the files of the value log (value.go), the manifest        *)
(* (manifest.go), the flush of memtables with its head, and Open with its  *)
(* replay (db.go), against crashes at every step.                          *)
(*                                                                         *)
(* A transaction is known by its commit version. It writes the keys        *)
(* 1..Width, and its log records are <<version, key>>, then <<version, 0>> *)
(* for the record with bitFinTxn. Records have one size and an offset      *)
(* counts them; MemCap entries fill a memtable. Zero is a region that was  *)
(* never written, and also a record whose checksum fails: Entry ends the   *)
(* file at both. Transactions enter the pipeline one at a time (WritePath  *)
(* has its goroutines). Level 0 and one more level stand for the LSM tree. *)
(*                                                                         *)
(* `base` is what of the newest log file is surely on disk. A crash may    *)
(* set each record back to it, or keep what was written since; the         *)
(* manifest may fall back to any state written since its last sync.        *)
(***************************************************************************)
EXTENDS Integers, Sequences, FiniteSets, SequencesExt

CONSTANTS
    MaxTs,         \* bound: versions ever given out by one process
    Width,         \* entries of a transaction
    MemCap,        \* entries that fit a memtable (MaxMemTableSize)
    FlushCap,      \* capacity of flushChan (NumMemtables)
    LogEntries,    \* ValueLogMaxEntries
    MaxNumFiles,   \* ValueLogMaxNumFiles
    RewriteAt,     \* deletionsRewriteThreshold of the manifest
    RewriteRatio,  \* manifestDeletionsRatio
    MaxStops,      \* bound: crashes and Closes
    MaxMoves       \* bound: compactions and ingestions together

ASSUME RecoveryAssumption ==
    /\ MaxTs \in Nat /\ Width \in Nat \ {0} /\ MemCap \in Nat /\ Width <= MemCap
    /\ FlushCap \in Nat \ {0} /\ LogEntries \in Nat
    /\ MaxNumFiles \in Nat \ {0} /\ RewriteAt \in Nat /\ RewriteRatio \in Nat
    /\ MaxStops \in Nat /\ MaxMoves \in Nat

VARIABLES
    logs, base,            \* log files by fid; the surely durable part of the newest
    mfile,                 \* manifest file: states since the last sync, oldest first
    ssts,                  \* table files by id: their entries
    pc,                    \* "down", "replay", "up" or "closing"
    sync,                  \* opt.SyncWrites
    nextCommit, curRead,   \* oracle
    wpc, todo,             \* write worker: position, records still to apply and their place
    woff, numWritten,      \* valueLog: offset in maxPtr, numEntriesWritten
    mem,                   \* memtables: mt, imm (oldest first), ready and next file ids
    logOff, syncedFid,     \* DB.logOff, DB.syncedFid
    l0, l1,                \* tables of level 0, oldest first, and of level 1
    mf,                    \* manifestFile.manifest
    fpc, fhead,            \* flusher: position, head it will store
    cpc, cd,               \* compaction: position, tables taken and made
    ipc,                   \* ingestion: position, its table, version, awaited memtable
    rp,                    \* replay: position, validEndOffset, the lastCommit of iterate
                           \* and the lastCommit and txn of replayFunction
    acked,                 \* history: versions whose callers were answered
    fragile, torn,         \* history: see DeleteLogs and Crash
    ingested,              \* history: number of ingestions
    stops, compactions     \* counters of the bounds

logVars  == <<logs, base, woff, numWritten>>
memVars  == <<mem, logOff>>
lsmVars  == <<ssts, l0, l1>>
mfVars   == <<mfile, mf>>
flVars   == <<fpc, fhead, syncedFid>>
cpVars   == <<cpc, cd, compactions>>
wrVars   == <<wpc, todo>>
orcVars  == <<nextCommit, curRead>>
histVars == <<acked, fragile, torn>>
ingVars  == <<ipc, ingested>>
dbVars   == <<pc, sync, stops, rp>>
vars == <<logVars, memVars, lsmVars, mfVars, flVars, cpVars, wrVars, orcVars,
          histVars, ingVars, dbVars>>

Zero == <<0, 0>>

NoHead == [version |-> 0, fid |-> 0, off |-> 0]

NoManifest == [tables |-> <<>>, head |-> NoHead, creations |-> 0, deletions |-> 0]

NoIngest == [at |-> "idle", id |-> 0, ts |-> 0, wait |-> 0]

NoReplay == [fid |-> 0, off |-> 0, valid |-> 0, last |-> 0, commit |-> 0, txn |-> <<>>]

NoTodo == [recs |-> <<>>, fid |-> 0, off |-> 0]

Keys == 1..Width

EntriesOf(v) == [k \in Keys |-> <<v, k>>]

maxFid == Max(DOMAIN logs)

\* The record at offset i of a file whose tail is preallocated.
At(file, i) == IF i <= Len(file) THEN file[i] ELSE Zero

DataOf(ids) == UNION {ssts[t] : t \in ids}

\* The entries of a memtable, of all memtables, and of the tables in the levels.
ImmData == UNION {mem.imm[i].data : i \in DOMAIN mem.imm}

MemData == mem.mt.data \cup ImmData

TableData == DataOf(ToSet(l0) \cup l1)

Init ==
    /\ logs = (0 :> <<>>) /\ base = <<>> /\ woff = 0 /\ numWritten = 0
    /\ mfile = <<[tables |-> <<>>, head |-> NoHead]>>
    /\ mf = NoManifest
    /\ ssts = <<>> /\ l0 = <<>> /\ l1 = {}
    /\ pc = "up" /\ sync \in BOOLEAN /\ stops = 0 /\ rp = NoReplay
    /\ nextCommit = 1 /\ curRead = 0
    /\ wpc = "idle" /\ todo = NoTodo
    /\ mem = [mt |-> [id |-> 1, data |-> {}], imm |-> <<>>, ready |-> <<2, 3>>, next |-> 4]
    /\ logOff = [fid |-> 0, off |-> 0] /\ syncedFid = 0
    /\ fpc = "idle" /\ fhead = NoHead
    /\ cpc = "idle" /\ cd = [top |-> {}, new |-> 0] /\ compactions = 0
    /\ ipc = NoIngest /\ ingested = 0
    /\ acked = {} /\ fragile = FALSE /\ torn = FALSE

-----------------------------------------------------------------------------
(* Value log *)

Overwrite(file, off, recs) ==
    [i \in 1..Max({Len(file), off + Len(recs)}) |->
        IF i > off /\ i <= off + Len(recs) THEN recs[i - off] ELSE At(file, i)]

\* Commit takes a version, and valueLog.write appends its records at the offset in maxPtr.
\* A file is full when it has more than LogEntries records, or by its size in bytes, which
\* depends on the values and may come after any request.
WriteVLog ==
    /\ pc = "up" /\ wpc = "idle" /\ nextCommit <= MaxTs
    /\ LET recs == EntriesOf(nextCommit) \o << <<nextCommit, 0>> >>
       IN /\ logs' = [logs EXCEPT ![maxFid] = Overwrite(@, woff, recs)]
          /\ todo' = [recs |-> recs, fid |-> maxFid, off |-> woff]
          /\ woff' = woff + Len(recs)
          /\ numWritten' = numWritten + Len(recs)
    /\ nextCommit' = nextCommit + 1
    /\ \/ wpc' = "rotate"
       \/ numWritten' <= LogEntries /\ wpc' = "sync"
    /\ UNCHANGED <<base, curRead, memVars, lsmVars, mfVars, flVars, cpVars, histVars, ingVars, dbVars>>

\* doneWriting: the file is cut at the offset and synced.
DoneWriting ==
    /\ wpc = "rotate"
    /\ logs' = [logs EXCEPT ![maxFid] = SubSeq(@, 1, woff)]
    /\ base' = logs'[maxFid]
    /\ wpc' = "create"
    /\ UNCHANGED <<todo, woff, numWritten, orcVars, memVars, lsmVars, mfVars, flVars, cpVars,
                   histVars, ingVars, dbVars>>

\* The files createVlogFile removes, oldest first, while there are too many.
Deletable(fids) ==
    {f \in fids : f < syncedFid /\ Cardinality({g \in fids : g > f}) >= MaxNumFiles}

\* createVlogFile. `fragile` records that a removed file had an entry the durable manifest
\* has in no table.
CreateVlogFile ==
    /\ wpc = "create"
    /\ LET fids == DOMAIN logs \cup {maxFid + 1}
           gone == Deletable(fids)
           kept == DataOf(DOMAIN mfile[1].tables)
       IN /\ logs' = [f \in fids \ gone |-> IF f > maxFid THEN <<>> ELSE logs[f]]
          /\ fragile' = (fragile \/ \E f \in gone : \E i \in DOMAIN logs[f] :
                                       logs[f][i][2] \in Keys /\ logs[f][i] \notin kept)
    /\ base' = <<>> /\ woff' = 0 /\ numWritten' = 0
    /\ wpc' = "sync"
    /\ UNCHANGED <<todo, orcVars, memVars, lsmVars, mfVars, flVars, cpVars, acked, torn,
                   ingVars, dbVars>>

\* Mutant: the flusher passes the batch on without a sync.
PassOn ==
    /\ wpc = "sync"
    /\ wpc' = "lsm"
    /\ UNCHANGED <<todo, logVars, orcVars, memVars, lsmVars, mfVars, flVars, cpVars, histVars,
                   ingVars, dbVars>>

\* runFlusher, when SyncWrites is on, syncs the current file before the batch is applied.
SyncLog ==
    /\ wpc = "sync"
    /\ base' = IF sync THEN logs[maxFid] ELSE base
    /\ wpc' = "lsm"
    /\ UNCHANGED <<todo, logs, woff, numWritten, orcVars, memVars, lsmVars, mfVars, flVars, cpVars,
                   histVars, ingVars, dbVars>>

-----------------------------------------------------------------------------
(* Memtables *)

Free(m) == MemCap - Cardinality(m.mt.data)

\* flushMemTable puts a fresh memtable in front; memTableCh has one made in advance, and
\* its goroutine another.
FlushMemTable(m, off) ==
    [mt |-> [id |-> Head(m.ready), data |-> {}],
     imm |-> Append(m.imm, [id |-> m.mt.id, data |-> m.mt.data, off |-> off]),
     ready |-> Append(Tail(m.ready), m.next),
     next |-> m.next + 1]

\* flushChan has room: one task is in the flusher's hands.
CanFlush == Len(mem.imm) <= FlushCap

\* One round of writeToLSM: as many entries as the memtable takes. The record with
\* bitFinTxn needs no room. The last round answers the caller.
WriteToLSM ==
    /\ pc = "up" /\ wpc = "lsm"
    /\ Free(mem) = 0 => CanFlush
    /\ LET m == IF Free(mem) = 0 THEN FlushMemTable(mem, logOff) ELSE mem
           size == Len(todo.recs)
           n == IF size - 1 <= Free(m) THEN size ELSE Free(m)
       IN /\ mem' = [m EXCEPT !.mt.data = @ \cup {todo.recs[i] : i \in 1..Min({n, size - 1})}]
          /\ logOff' = [fid |-> todo.fid, off |-> todo.off + n]
          /\ todo' = IF n = size THEN NoTodo
                     ELSE [todo EXCEPT !.recs = SubSeq(@, n + 1, size), !.off = @ + n]
          /\ wpc' = IF n = size THEN "idle" ELSE "lsm"
          /\ acked' = IF n = size THEN acked \cup {todo.recs[1][1]} ELSE acked
    /\ UNCHANGED <<logVars, orcVars, lsmVars, mfVars, flVars, cpVars, fragile, torn, ingVars, dbVars>>

-----------------------------------------------------------------------------
(* Manifest *)

Updated(tables, creates, deletes) ==
    [t \in (DOMAIN tables \ deletes) \cup DOMAIN creates |->
        IF t \in DOMAIN creates THEN creates[t] ELSE tables[t]]

NewHead(old, head) == IF head = NoHead THEN old ELSE head

\* rewrite: a new file with the tables and the head, synced before it gets the name of the old one.
Rewritten(m) == [tables |-> m.tables, head |-> m.head]

Recounted(m) == [m EXCEPT !.creations = Cardinality(DOMAIN m.tables), !.deletions = 0]

\* The copy of the manifest that Open makes for later changes is rebuilt from the tables, and has
\* no head.
Clone(tables) ==
    Recounted([NoManifest EXCEPT !.tables = tables])

\* The states that ReplayManifestFile may find after a crash, which ends at a torn change set.
ReplayManifestFile == ToSet(mfile)

\* addChanges up to its Sync: the copy in memory is updated, and either the change set is
\* appended to the file or the file is rewritten from the copy.
AddChanges(creates, deletes, head) ==
    LET new == [tables |-> Updated(mf.tables, creates, deletes),
                head |-> NewHead(mf.head, head),
                creations |-> mf.creations + Cardinality(DOMAIN creates),
                deletions |-> mf.deletions + Cardinality(deletes)]
        last == Last(mfile)
    IN IF new.deletions > RewriteAt /\ new.deletions > RewriteRatio * (new.creations - new.deletions)
       THEN mfile' = <<Rewritten(new)>> /\ mf' = Recounted(new)
       ELSE /\ mfile' = Append(mfile, [tables |-> Updated(last.tables, creates, deletes),
                                       head |-> NewHead(last.head, head)])
            /\ mf' = new

\* The Sync that ends addChanges, outside its lock.
SyncManifest == mfile' = <<Last(mfile)>> /\ UNCHANGED mf

-----------------------------------------------------------------------------
(* runFlushMemTable *)

Running == pc \in {"replay", "up", "closing"}

\* Mutant: the head is the offset the writer has reached by now.
HeadOfWriter(ft) == [version |-> nextCommit, fid |-> logOff.fid, off |-> logOff.off]

HeadInfo(ft) == [version |-> nextCommit, fid |-> ft.off.fid, off |-> ft.off.off]

\* The table is written and synced, and syncedFid stored.
WriteLevel0Table ==
    /\ Running /\ fpc = "idle" /\ mem.imm # <<>>
    /\ LET ft == Head(mem.imm)
       IN /\ fhead' = HeadInfo(ft)
          /\ ssts' = (ft.id :> ft.data) @@ ssts
          /\ syncedFid' = ft.off.fid
    /\ fpc' = "add"
    /\ UNCHANGED <<l0, l1, logVars, orcVars, memVars, wrVars, mfVars, cpVars, histVars, ingVars, dbVars>>

AddLevel0Table ==
    /\ fpc = "add"
    /\ AddChanges(Head(mem.imm).id :> 0, {}, fhead)
    /\ fpc' = "install"
    /\ UNCHANGED <<fhead, syncedFid, logVars, orcVars, memVars, wrVars, lsmVars, cpVars, histVars,
                   ingVars, dbVars>>

\* The manifest is synced, the table enters level 0 and the memtable leaves the list.
InstallLevel0Table ==
    /\ fpc = "install"
    /\ SyncManifest
    /\ l0' = Append(l0, Head(mem.imm).id)
    /\ mem' = [mem EXCEPT !.imm = Tail(@)]
    /\ fpc' = "idle" /\ fhead' = NoHead
    /\ UNCHANGED <<syncedFid, ssts, l1, logOff, logVars, orcVars, wrVars, cpVars, histVars, ingVars, dbVars>>

-----------------------------------------------------------------------------
(* Compaction of level 0 into level 1, as far as the manifest sees it *)

CompactBuildTables ==
    /\ Running /\ cpc = "idle" /\ l0 # <<>> /\ compactions + ingested < MaxMoves
    /\ cd' = [top |-> ToSet(l0) \cup l1, new |-> mem.next]
    /\ ssts' = (mem.next :> TableData) @@ ssts
    /\ mem' = [mem EXCEPT !.next = @ + 1]
    /\ cpc' = "add"
    /\ compactions' = compactions + 1
    /\ UNCHANGED <<l0, l1, logOff, logVars, orcVars, wrVars, mfVars, flVars, histVars, ingVars, dbVars>>

CompactManifest ==
    /\ cpc = "add"
    /\ AddChanges(cd.new :> 1, cd.top, NoHead)
    /\ cpc' = "install"
    /\ UNCHANGED <<cd, compactions, logVars, orcVars, memVars, wrVars, lsmVars, flVars, histVars,
                   ingVars, dbVars>>

InstallTables ==
    /\ l0' = SelectSeq(l0, LAMBDA t : t \notin cd.top)
    /\ l1' = {cd.new}
    /\ ssts' = [t \in DOMAIN ssts \ cd.top |-> ssts[t]]
    /\ cpc' = "idle" /\ cd' = [top |-> {}, new |-> 0]
    /\ UNCHANGED <<compactions, logVars, orcVars, memVars, wrVars, flVars, histVars, ingVars, dbVars>>

\* Mutant: the old files are removed before the manifest is synced.
InstallUnsynced ==
    /\ cpc = "install"
    /\ InstallTables
    /\ UNCHANGED mfVars

\* The manifest is synced, the levels change, and the old files may be removed.
CompactInstall ==
    /\ cpc = "install"
    /\ SyncManifest
    /\ InstallTables

-----------------------------------------------------------------------------
(* Ingestion of one table with all keys into level 0 *)

\* prepareExternalFiles gives the file its number.
IngestLink ==
    /\ pc = "up" /\ ipc.at = "idle" /\ compactions + ingested < MaxMoves
    /\ ipc' = [NoIngest EXCEPT !.at = "linked", !.id = mem.next]
    /\ mem' = [mem EXCEPT !.next = @ + 1]
    /\ UNCHANGED <<ingested, logOff, logVars, lsmVars, mfVars, flVars, cpVars, wrVars, orcVars,
                   histVars, dbVars>>

\* prepareIngestTask takes a version, which the value log does not get to know, and flushes
\* the memtable if it overlaps.
PrepareIngestTask ==
    /\ pc = "up" /\ ipc.at = "linked" /\ wpc = "idle" /\ nextCommit <= MaxTs
    /\ mem.mt.data # {} => CanFlush
    /\ ingested' = ingested + 1
    /\ nextCommit' = nextCommit + 1
    /\ ipc' = [ipc EXCEPT !.at = "wait", !.ts = nextCommit,
                          !.wait = IF mem.mt.data = {} THEN 0 ELSE mem.mt.id]
    /\ mem' = IF mem.mt.data = {} THEN mem ELSE FlushMemTable(mem, logOff)
    /\ UNCHANGED <<logOff, curRead, logVars, lsmVars, mfVars, flVars, cpVars, wrVars, histVars, dbVars>>

\* ingestTable with target level 0, which an empty level 1 or an overlap with level 0 gives.
IngestTable ==
    /\ pc = "up" /\ ipc.at = "wait"
    /\ \A i \in DOMAIN mem.imm : mem.imm[i].id # ipc.wait
    /\ l1 = {} \/ l0 # <<>>
    /\ ssts' = (ipc.id :> {<<ipc.ts, k>> : k \in Keys}) @@ ssts
    /\ AddChanges(ipc.id :> 0, {}, NoHead)
    /\ ipc' = [ipc EXCEPT !.at = "install"]
    /\ UNCHANGED <<ingested, l0, l1, logVars, memVars, flVars, cpVars, wrVars, orcVars, histVars, dbVars>>

AddTable ==
    /\ pc = "up" /\ ipc.at = "install"
    /\ SyncManifest
    /\ l0' = Append(l0, ipc.id)
    /\ acked' = acked \cup {ipc.ts}
    /\ ipc' = NoIngest
    /\ UNCHANGED <<ingested, ssts, l1, fragile, torn, logVars, memVars, flVars, cpVars, wrVars, orcVars, dbVars>>

-----------------------------------------------------------------------------
(* The end of a process *)

LoseMemory ==
    /\ pc' = "down"
    /\ stops' = stops + 1
    /\ rp' = NoReplay
    /\ woff' = 0 /\ numWritten' = 0
    /\ mf' = NoManifest
    /\ l0' = <<>> /\ l1' = {}
    /\ nextCommit' = 1 /\ curRead' = 0
    /\ wpc' = "idle" /\ todo' = NoTodo
    /\ mem' = [mt |-> [id |-> 0, data |-> {}], imm |-> <<>>, ready |-> <<>>, next |-> 0]
    /\ logOff' = [fid |-> 0, off |-> 0] /\ syncedFid' = 0
    /\ fpc' = "idle" /\ fhead' = NoHead
    /\ cpc' = "idle" /\ cd' = [top |-> {}, new |-> 0]
    /\ ipc' = NoIngest
    /\ UNCHANGED <<sync, compactions, ingested, acked, fragile>>

\* Close syncs the value log and queues the mutable memtable.
CloseDB ==
    /\ pc = "up" /\ wpc = "idle" /\ ipc.at = "idle" /\ stops < MaxStops
    /\ mem.mt.data # {} => CanFlush
    /\ pc' = "closing"
    /\ base' = logs[maxFid]
    /\ mem' = IF mem.mt.data = {} THEN mem
              ELSE [mem EXCEPT !.mt = [id |-> 0, data |-> {}],
                               !.imm = Append(@, [id |-> mem.mt.id, data |-> mem.mt.data, off |-> logOff])]
    /\ UNCHANGED <<sync, stops, rp, logs, woff, numWritten, logOff, lsmVars, mfVars, flVars, cpVars,
                   wrVars, orcVars, histVars, ingVars>>

Closed ==
    /\ pc = "closing"
    /\ mem.imm = <<>> /\ cpc = "idle"
    /\ LoseMemory
    /\ UNCHANGED <<logs, base, mfile, ssts, torn>>

Trim(file) ==
    LET used == {i \in DOMAIN file : file[i] # Zero}
    IN SubSeq(file, 1, IF used = {} THEN 0 ELSE Max(used))

\* `torn` records that a part of a transaction was already in a table of the manifest when
\* another part was lost with the log.
Crash ==
    /\ pc # "down" /\ stops < MaxStops
    /\ LET cur == logs[maxFid]
           changed == {i \in 1..Max({Len(cur), Len(base)}) : At(cur, i) # At(base, i)}
       IN \E lost \in SUBSET changed, m \in ReplayManifestFile :
             LET file == Trim([i \in 1..Max({Len(cur), Len(base)}) |->
                                  IF i \in lost THEN At(base, i) ELSE At(cur, i)])
                 kept == DataOf(DOMAIN m.tables)
             IN /\ logs' = [logs EXCEPT ![maxFid] = file]
                /\ base' = file
                /\ mfile' = <<m>>
                /\ torn' = (torn \/ \E i \in lost : \E k \in Keys :
                               <<At(cur, i)[1], k>> \in kept /\ ~ \A j \in Keys : <<At(cur, i)[1], j>> \in kept)
    /\ LoseMemory
    /\ UNCHANGED ssts

-----------------------------------------------------------------------------
(* Open *)

\* Mutant: the tables of level 0 come in the wrong order.
InitTablesReversed(ids) == SetToSortSeq(ids, LAMBDA a, b : a > b)

InitTables(ids) == SetToSortSeq(ids, LAMBDA a, b : a < b)

\* revertToManifest: table files the manifest does not name are removed, one it names must exist.
RevertToManifest(tables) ==
    /\ DOMAIN tables \subseteq DOMAIN ssts
    /\ ssts' = [t \in DOMAIN tables |-> ssts[t]]

\* newLevelsController loads the levels, and file numbers go on above the largest.
NewLevelsController(tables) ==
    LET top == Max(DOMAIN tables \cup {0})
    IN /\ l0' = InitTables({t \in DOMAIN tables : tables[t] = 0})
       /\ l1' = {t \in DOMAIN tables : tables[t] = 1}
       /\ mem' = [mt |-> [id |-> top + 1, data |-> {}], imm |-> <<>>,
                  ready |-> <<top + 2, top + 3>>, next |-> top + 4]

\* Open up to the replay, which starts at the head of the manifest.
Open ==
    /\ pc = "down"
    /\ LET tables == mfile[1].tables
           head == mfile[1].head
           first == Min({f \in DOMAIN logs : f >= head.fid})
           off == IF first = head.fid THEN head.off ELSE 0
       IN /\ RevertToManifest(tables)
          /\ NewLevelsController(tables)
          /\ mf' = Clone(tables)
          /\ curRead' = head.version
          /\ rp' = [NoReplay EXCEPT !.fid = first, !.off = off, !.valid = off]
    /\ pc' = "replay"
    /\ UNCHANGED <<sync, stops, logVars, logOff, mfile, flVars, cpVars, wrVars, nextCommit, histVars, ingVars>>

Record == At(logs[rp.fid], rp.off + 1)

\* Mutant: only the end of the file is looked for.
IterateToEnd == Record = Zero

\* Where iterate leaves its loop: the end of the file, a record of another transaction.
IterateEnds ==
    \/ Record = Zero
    \/ Record[2] \in Keys /\ rp.last \notin {0, Record[1]}
    \/ Record[2] = 0 /\ rp.last # Record[1]

\* Mutant: records are applied as they come.
ApplyAtOnce ==
    /\ pc = "replay" /\ ~IterateEnds /\ Record[2] \in Keys
    /\ Free(mem) = 0 => CanFlush
    /\ curRead' = Max({curRead, Record[1]})
    /\ mem' = LET m == IF Free(mem) = 0 THEN FlushMemTable(mem, logOff) ELSE mem
              IN [m EXCEPT !.mt.data = @ \cup {Record}]
    /\ rp' = [rp EXCEPT !.off = @ + 1, !.last = Record[1], !.commit = Record[1],
                        !.txn = Append(@, Record)]
    /\ UNCHANGED <<pc, sync, stops, logOff, logVars, lsmVars, mfVars, flVars, cpVars, wrVars, nextCommit,
                   histVars, ingVars>>

\* A record of a transaction: replayFunction keeps it until the transaction is complete.
ReplayEntry ==
    /\ pc = "replay" /\ ~IterateEnds /\ Record[2] \in Keys
    /\ curRead' = Max({curRead, Record[1]})
    /\ rp' = [rp EXCEPT !.off = @ + 1, !.last = Record[1],
                        !.commit = IF @ = 0 THEN Record[1] ELSE @,
                        !.txn = Append(@, Record)]
    /\ UNCHANGED <<pc, sync, stops, memVars, logVars, lsmVars, mfVars, flVars, cpVars, wrVars, nextCommit,
                   histVars, ingVars>>

\* toLSM: a full memtable is flushed with the offset of DB.logOff, which replay leaves at 0.
ToLSM(m, e) ==
    LET room == IF Free(m) = 0 THEN FlushMemTable(m, logOff) ELSE m
    IN [room EXCEPT !.mt.data = @ \cup {e}]

\* The last record of a transaction: its entries go to the memtable.
ReplayFin ==
    /\ pc = "replay" /\ ~IterateEnds /\ Record[2] = 0
    /\ CanFlush
    /\ curRead' = Max({curRead, Record[1]})
    /\ mem' = FoldLeft(ToLSM, mem, rp.txn)
    /\ rp' = [rp EXCEPT !.off = @ + 1, !.valid = rp.off + 1, !.last = 0, !.commit = 0, !.txn = <<>>]
    /\ UNCHANGED <<pc, sync, stops, logOff, logVars, lsmVars, mfVars, flVars, cpVars, wrVars, nextCommit,
                   histVars, ingVars>>

ReplayNextFile ==
    /\ pc = "replay" /\ IterateEnds /\ rp.fid # maxFid
    /\ rp' = [rp EXCEPT !.fid = Min({f \in DOMAIN logs : f > rp.fid}), !.off = 0, !.valid = 0, !.last = 0]
    /\ UNCHANGED <<pc, sync, stops, logVars, memVars, lsmVars, mfVars, flVars, cpVars, wrVars, orcVars,
                   histVars, ingVars>>

\* Mutant: the next commit version ignores what was replayed.
NextCommitOfHead == mfile[1].head.version + 1

NextCommitAfterReplay == curRead + 1

\* Replay is over: writing continues at the end of the last whole transaction, without a
\* truncation of what follows, and the oracle continues above everything seen.
ReplayDone ==
    /\ pc = "replay" /\ IterateEnds /\ rp.fid = maxFid
    /\ pc' = "up"
    /\ rp' = NoReplay
    /\ woff' = rp.valid
    /\ nextCommit' = NextCommitAfterReplay
    /\ UNCHANGED <<sync, stops, curRead, logs, base, numWritten, memVars, lsmVars, mfVars, flVars, cpVars,
                   wrVars, histVars, ingVars>>

Writer == WriteVLog \/ DoneWriting \/ CreateVlogFile \/ SyncLog \/ WriteToLSM

Flusher == WriteLevel0Table \/ AddLevel0Table \/ InstallLevel0Table

Compactor == CompactBuildTables \/ CompactManifest \/ CompactInstall

Ingestion == IngestLink \/ PrepareIngestTask \/ IngestTable \/ AddTable

Restart == Open \/ ReplayEntry \/ ReplayFin \/ ReplayNextFile \/ ReplayDone

Next ==
    \/ Writer
    \/ Flusher
    \/ Compactor
    \/ Ingestion
    \/ CloseDB \/ Closed \/ Crash
    \/ Restart

Spec == Init /\ [][Next]_vars

-----------------------------------------------------------------------------
(* Properties *)

\* The versions all of whose entries are in data (which the union makes TLC evaluate once).
Complete(data) ==
    UNION {{v \in 1..MaxTs : \A k \in Keys : <<v, k>> \in d} : d \in {data}}

\* Record r may come after record p of the same log: within a transaction, or at its beginning
\* (p is the last record of the one before, or r is the first that is read).
Follows(p, r) ==
    r # Zero /\ IF p[2] = 0 THEN r[2] \in Keys ELSE r[1] = p[1]

\* The records of whole transactions that replay of a file finds from an offset.
Replayed(file, from) ==
    LET wellFormed(j) == \A i \in (from + 1)..j :
                            Follows(IF i = from + 1 THEN Zero ELSE file[i - 1], file[i])
        ends == {j \in (from + 1)..Len(file) : file[j][2] = 0 /\ wellFormed(j)}
    IN {file[i] : i \in (from + 1)..Max(ends \cup {from})}

\* What a store opened from a state of the manifest and the log files would hold.
Recovered(m) ==
    DataOf(DOMAIN m.tables) \cup
    UNION {Replayed(logs[f], IF f = m.head.fid THEN m.head.off ELSE 0) :
              f \in {g \in DOMAIN logs : g >= m.head.fid}}

Held == MemData \cup TableData

\* The versions on their way: not yet answered.
InFlight == {todo.recs[i][1] : i \in DOMAIN todo.recs}

Serving == pc \in {"up", "closing"}

\* At every moment, what Open would rebuild from the disk contains every answered transaction,
\* whichever of its unsynced states the manifest falls back to (addChanges, createVlogFile).
DiskCoversAcked ==
    sync /\ ~fragile => \A m \in DOMAIN mfile : acked \subseteq Complete(Recovered(mfile[m]))

\* After replay no transaction is there in part: replayFunction applies whole transactions, and
\* the head of a half-flushed one lies before its other half.
NoHalfTransaction ==
    Serving /\ ~torn =>
        {e[1] : e \in Held} \subseteq Complete(Held) \cup InFlight

\* The oracle of a process that serves gives out no version that is already in the store
\* (Open sets nextCommit from the head and the replayed records), unless tables were ingested.
VersionsFresh ==
    pc = "up" /\ ingested = 0 => \A e \in Held : e[1] < nextCommit

\* Every state the manifest may fall back to names only table files that exist, so
\* revertToManifest lets Open succeed.
ManifestFilesExist ==
    \A m \in DOMAIN mfile : DOMAIN mfile[m].tables \subseteq DOMAIN ssts

\* A crash without SyncWrites has left a region that ends the replay before later records.
HasHole == \E f \in DOMAIN logs : \E i \in 1..(Len(logs[f]) - 1) : logs[f][i] = Zero

Layers ==
    <<mem.mt.data>> \o Reverse([i \in DOMAIN mem.imm |-> mem.imm[i].data])
    \o Reverse([i \in DOMAIN l0 |-> ssts[l0[i]]]) \o <<DataOf(l1)>>

VersionsIn(data, k) == {v \in 1..MaxTs : <<v, k>> \in data}

\* The first memtable or table that has a key, in the order get looks, has its newest version:
\* replay from an old head (DB.logOff starts at 0 in every process) never hides what is newer in
\* the tables, unless tables were ingested or the log has a hole.
ReadsNewest ==
    Serving /\ ingested = 0 /\ ~HasHole =>
        \E layers \in {Layers} : \A k \in Keys :
            LET having == {i \in DOMAIN layers : VersionsIn(layers[i], k) # {}}
            IN having # {} => Max(VersionsIn(layers[Min(having)], k)) = Max(VersionsIn(Held, k))

\* The assertions of replayFunction hold: iterate passes it no record of a second transaction
\* while one is open, and no end without a beginning.
ReplayAsserts ==
    pc = "replay" /\ ~IterateEnds =>
        IF Record[2] = 0 THEN rp.commit = Record[1] /\ rp.txn # <<>>
        ELSE rp.commit \in {0, Record[1]}

\* The store a caller sees, as DurableLog has it. While the process is down or replaying, it is
\* what the disk holds.
Abstract == INSTANCE DurableLog WITH
    Versions <- 1..MaxTs,
    open <- Serving,
    store <- IF Serving THEN Complete(Held) \ InFlight ELSE Complete(Recovered(mfile[1])),
    durable <- sync,
    excused <- fragile \/ ingested > 0

\* Persistence implements the abstract store: a crash keeps the answered transactions (all of
\* them with SyncWrites), opening restores exactly what the disk held.
ImplementsDurableLog == Abstract!Spec
=============================================================================
