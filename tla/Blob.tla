-------------------------------- MODULE Blob --------------------------------
(***************************************************************************)
(* Blob files (blob.go): a flush writes large values to a file of their    *)
(* own, compactions and DeleteFilesInRange tell the garbage collector      *)
(* which values no table points to any more, and it rewrites files without *)
(* them. A pointer keeps its logical address; the change log says in which *)
(* physical file a logical one is now.                                     *)
(*                                                                         *)
(* An address is <<fid, offset>>, with the offset of an original file      *)
(* counted in entries. The value at an address is the address itself. A    *)
(* table is the set of its pointers. Sizes, and with them the thresholds   *)
(* of the collector, are left open. Dir and ValueDir are the same.         *)
(***************************************************************************)
EXTENDS Integers, Sequences, FiniteSets, SequencesExt

CONSTANTS
    Flushes,     \* the number of large values of each flush
    MaxJobs,     \* bound on the compactions and calls of DeleteFilesInRange
    MaxFid,      \* bound on file ids
    ChSize,      \* size of discardCh
    MaxCrashes   \* bound on the crashes

VARIABLES
    disk,        \* blob files on disk
    changeLog,   \* blob_change.log
    manifest,    \* tables of the manifest
    tables,      \* tables of the levels
    bm,          \* blobManager: physicalFiles, logicalToPhysical, maxFileID
    handler,     \* blobGCHandler: logicalToPhysical, candidates, and the collection under way
    discardCh,   \* blobManager.discardCh
    flusher, compactor, deleter,
    sent,        \* pointers ever sent to the collector
    struck,      \* addresses that were discarded in place of one that was gone
    flushes, jobs, crashes

vars == <<disk, changeLog, manifest, tables, bm, handler, discardCh, flusher, compactor, deleter,
          sent, struck, flushes, jobs, crashes>>

Idle == [pc |-> "idle"]

NoFiles == [f \in {} |-> {}]

Less(a, b) == a[1] < b[1] \/ (a[1] = b[1] /\ a[2] < b[2])

\* Mutant: the offset of the address is taken for that in the file.
PhysicalOffsetRaw(file, addr) == addr[2] + 1

\* getPhysicalOffset, as an index of the file's entries: the mapping is searched for the first
\* address that is not less, and not compared with it.
PhysicalOffset(file, addr) ==
    IF file.original THEN addr[2] + 1
    ELSE SelectInSeq(file.entries, LAMBDA e : ~Less(e, addr))

\* The file of blobFileBuilder with n values. The header and the footer look like empty entries.
Original(fid, n) == [original |-> TRUE, entries |-> [i \in 1..(n + 2) |-> <<fid, i - 1>>], discards |-> {}]

\* The address of the footer of a file with a mapping, which the mapping does not have.
NoAddr == <<0, 0>>

DiscardedOffsets(file) == {PhysicalOffset(file, a) : a \in file.discards}

\* extractValidEntries: the addresses of the entries that were not discarded, the footer included.
ValidEntries(file) ==
    LET all == IF file.original THEN file.entries ELSE Append(file.entries, NoAddr)
        kept == DOMAIN all \ DiscardedOffsets(file)
    IN {all[i] : i \in kept}

\* getFile, and the read in the file.
FileOf(m, fid) == IF fid \in DOMAIN m.logicalToPhysical THEN m.logicalToPhysical[fid] ELSE fid

PhysicalOf(m, fid) == IF fid \in m.physicalFiles THEN fid ELSE FileOf(m, fid)

Read(addr) ==
    LET f == PhysicalOf(bm, addr[1])
    IN IF f \notin bm.physicalFiles THEN NoAddr
       ELSE LET i == PhysicalOffset(disk[f], addr)
            IN IF i \in DOMAIN disk[f].entries THEN disk[f].entries[i] ELSE NoAddr

Init ==
    /\ disk = NoFiles
    /\ changeLog = <<>>
    /\ manifest = {} /\ tables = {}
    /\ bm = [physicalFiles |-> {}, logicalToPhysical |-> NoFiles, maxFileID |-> 0]
    /\ handler = [pc |-> "idle", logicalToPhysical |-> NoFiles, candidates |-> {}]
    /\ discardCh = <<>>
    /\ flusher = Idle /\ compactor = Idle /\ deleter = Idle
    /\ sent = {} /\ struck = {}
    /\ flushes = 0 /\ jobs = 0 /\ crashes = 0

Up == bm # <<>>

-----------------------------------------------------------------------------
(* writeLevel0Table *)

\* The blob file is built.
FlushBuild ==
    /\ Up /\ flusher = Idle
    /\ flushes < Len(Flushes) /\ bm.maxFileID < MaxFid
    /\ LET fid == bm.maxFileID + 1
           n == Flushes[flushes + 1]
       IN /\ bm' = [bm EXCEPT !.maxFileID = fid]
          /\ disk' = disk @@ (fid :> Original(fid, n))
          /\ flusher' = [pc |-> "add", fid |-> fid, table |-> {<<fid, i>> : i \in 1..n}]
    /\ flushes' = flushes + 1
    /\ UNCHANGED <<changeLog, manifest, tables, handler, discardCh, compactor, deleter, sent, struck, jobs, crashes>>

\* addFile.
FlushAddFile ==
    /\ flusher.pc = "add"
    /\ changeLog' = Append(changeLog, <<flusher.fid, flusher.fid>>)
    /\ bm' = [bm EXCEPT !.physicalFiles = @ \cup {flusher.fid}]
    /\ flusher' = [flusher EXCEPT !.pc = "install"]
    /\ UNCHANGED <<disk, manifest, tables, handler, discardCh, compactor, deleter, sent, struck, flushes, jobs, crashes>>

\* addLevel0Table.
FlushInstall ==
    /\ flusher.pc = "install"
    /\ manifest' = manifest \cup {flusher.table}
    /\ tables' = tables \cup {flusher.table}
    /\ flusher' = Idle
    /\ UNCHANGED <<disk, changeLog, bm, handler, discardCh, compactor, deleter, sent, struck, flushes, jobs, crashes>>

-----------------------------------------------------------------------------
(* Compaction and DeleteFilesInRange *)

Send(ptrs) ==
    /\ ptrs # {} => Len(discardCh) < ChSize
    /\ discardCh' = IF ptrs = {} THEN discardCh ELSE Append(discardCh, ptrs)
    /\ sent' = sent \cup ptrs

\* compactBuildTables ends with handleStats: the pointers are sent before the tables are replaced.
CompactSend(inputs, dropped) ==
    /\ Up /\ compactor = Idle /\ jobs < MaxJobs
    /\ jobs' = jobs + 1
    /\ Send(dropped)
    /\ compactor' = [pc |-> "manifest", inputs |-> inputs, output |-> {UNION inputs \ dropped} \ {{}}]
    /\ UNCHANGED <<disk, changeLog, manifest, tables, bm, handler, flusher, deleter, struck, flushes, crashes>>

\* addChanges. It fails if a table is not in the manifest any more.
CompactManifest ==
    /\ compactor.pc = "manifest"
    /\ IF compactor.inputs \subseteq manifest
       THEN /\ manifest' = (manifest \ compactor.inputs) \cup compactor.output
            /\ compactor' = [compactor EXCEPT !.pc = "install"]
       ELSE manifest' = manifest /\ compactor' = Idle
    /\ UNCHANGED <<disk, changeLog, tables, bm, handler, discardCh, flusher, deleter, sent, struck, flushes, jobs, crashes>>

CompactInstall ==
    /\ compactor.pc = "install"
    /\ tables' = (tables \ compactor.inputs) \cup compactor.output
    /\ compactor' = Idle
    /\ UNCHANGED <<disk, changeLog, manifest, bm, handler, discardCh, flusher, deleter, sent, struck, flushes, jobs, crashes>>

\* DeleteFilesInRange on the levels. It does not see that a table is being compacted (Levels).
DeleteTables(pruned) ==
    /\ Up /\ deleter = Idle /\ jobs < MaxJobs
    /\ jobs' = jobs + 1
    /\ tables' = tables \ pruned
    /\ deleter' = [pc |-> "manifest", pruned |-> pruned]
    /\ UNCHANGED <<disk, changeLog, manifest, bm, handler, discardCh, flusher, compactor, sent, struck, flushes, crashes>>

\* The error of addChanges is not looked at.
DeleteManifest ==
    /\ deleter.pc = "manifest"
    /\ manifest' = IF deleter.pruned \subseteq manifest THEN manifest \ deleter.pruned ELSE manifest
    /\ deleter' = [deleter EXCEPT !.pc = "send"]
    /\ UNCHANGED <<disk, changeLog, tables, bm, handler, discardCh, flusher, compactor, sent, struck, flushes, jobs, crashes>>

DeleteSend ==
    /\ deleter.pc = "send"
    /\ Send(UNION deleter.pruned)
    /\ deleter' = Idle
    /\ UNCHANGED <<disk, changeLog, manifest, tables, bm, handler, flusher, compactor, struck, flushes, jobs, crashes>>

-----------------------------------------------------------------------------
(* blobGCHandler *)

\* The addresses of a file that are discarded for others which it does not have.
Struck(file) ==
    {file.entries[PhysicalOffset(file, a)] :
        a \in {a \in file.discards : PhysicalOffset(file, a) \in DOMAIN file.entries}} \ file.discards

\* writeDiscardToFile.
WriteDiscard(file, ptrs) == [file EXCEPT !.discards = @ \cup ptrs]

\* handleDiscardInfo: every pointer is written to the file that has its logical file. Any of the
\* files may become a candidate.
HandleDiscardInfo ==
    /\ Up /\ handler.pc = "idle" /\ discardCh # <<>>
    /\ discardCh' = Tail(discardCh)
    /\ LET fileOf(a) == FileOf(handler, a[1])
           files == {fileOf(a) : a \in Head(discardCh)}
           with(f) == WriteDiscard(disk[f], {a \in Head(discardCh) : fileOf(a) = f})
       IN /\ disk' = [f \in DOMAIN disk |-> IF f \in files THEN with(f) ELSE disk[f]]
          /\ struck' = struck \cup UNION {Struck(with(f)) : f \in files}
          /\ \E c \in SUBSET files :
                handler' = [handler EXCEPT !.pc = "gc", !.candidates = @ \cup c]
    /\ UNCHANGED <<changeLog, manifest, tables, bm, flusher, compactor, deleter, sent, flushes, jobs, crashes>>

\* doGCIfNeeded finds too little to do.
NoGC ==
    /\ handler.pc = "gc"
    /\ handler' = [handler EXCEPT !.pc = "idle"]
    /\ UNCHANGED <<disk, changeLog, manifest, tables, bm, discardCh, flusher, compactor, deleter, sent, struck,
                   flushes, jobs, crashes>>

\* doGCIfNeeded up to the new file, with some of the candidates. Without an entry to answer with,
\* getPhysicalOffset panics: that is a Crash.
BuildGCFile(old) ==
    /\ handler.pc = "gc" /\ old # {} /\ \A f \in old : 0 \notin DiscardedOffsets(disk[f])
    /\ bm.maxFileID < MaxFid
    /\ LET fid == bm.maxFileID + 1
           valid == UNION {ValidEntries(disk[f]) : f \in old}
           logical == {a[1] : a \in valid}
           moved == [l \in logical |-> fid]
       IN /\ bm' = [bm EXCEPT !.maxFileID = fid]
          /\ disk' = disk @@ (fid :> [original |-> FALSE, entries |-> SetToSortSeq(valid, Less), discards |-> {}])
          /\ handler' = [pc |-> "add", logicalToPhysical |-> moved @@ handler.logicalToPhysical,
                         candidates |-> handler.candidates \ old, old |-> old, fid |-> fid, moved |-> moved]
    /\ UNCHANGED <<changeLog, manifest, tables, discardCh, flusher, compactor, deleter, sent, struck, flushes, jobs, crashes>>

\* addGCFile. Readers that have the old files keep them (Epoch).
AddGCFile ==
    /\ handler.pc = "add"
    /\ changeLog' = changeLog \o SetToSeq({<<f, handler.fid>> : f \in handler.old})
    /\ bm' = [bm EXCEPT !.physicalFiles = (@ \cup {handler.fid}) \ handler.old,
                        !.logicalToPhysical = handler.moved @@ @]
    /\ disk' = [f \in DOMAIN disk \ handler.old |-> disk[f]]
    /\ handler' = [pc |-> "idle", logicalToPhysical |-> handler.logicalToPhysical, candidates |-> handler.candidates]
    /\ UNCHANGED <<manifest, tables, discardCh, flusher, compactor, deleter, sent, struck, flushes, jobs, crashes>>

-----------------------------------------------------------------------------
(* Crash and Open *)

Crash ==
    /\ Up /\ crashes < MaxCrashes
    /\ crashes' = crashes + 1
    /\ bm' = <<>> /\ tables' = {} /\ discardCh' = <<>>
    /\ handler' = Idle /\ flusher' = Idle /\ compactor' = Idle /\ deleter' = Idle
    /\ UNCHANGED <<disk, changeLog, manifest, sent, struck, flushes, jobs>>

\* Mutant: one step of the chain.
ToFidOnce(log, fid) == log[SelectLastInSeq(log, LAMBDA e : e[1] = fid)][2]

\* getToFid: the end of the chain of a file in the change log.
RECURSIVE ToFid(_, _)
ToFid(log, fid) ==
    LET i == SelectLastInSeq(log, LAMBDA e : e[1] = fid)
    IN IF i = 0 THEN fid
       ELSE IF log[i][2] = fid THEN fid ELSE ToFid(log, log[i][2])

\* buildLogicalToPhysical: the logical files are those the log has as themselves.
LogicalToPhysical(log) ==
    [f \in {e[1] : e \in {e \in ToSet(log) : e[1] = e[2]}} |-> ToFid(log, f)]

\* blobManager.Open: files that no chain ends at are removed.
Open ==
    /\ ~Up
    /\ LET to == LogicalToPhysical(changeLog)
           valid == Range(to)
       IN /\ bm' = [physicalFiles |-> valid \cap DOMAIN disk, logicalToPhysical |-> to,
                    maxFileID |-> Max(valid \cup {0})]
          /\ disk' = [f \in DOMAIN disk \cap valid |-> disk[f]]
          /\ handler' = [pc |-> "idle", logicalToPhysical |-> to, candidates |-> {}]
    /\ tables' = manifest
    /\ UNCHANGED <<changeLog, manifest, discardCh, flusher, compactor, deleter, sent, struck, flushes, jobs, crashes>>

Next ==
    \/ FlushBuild
    \/ FlushAddFile
    \/ FlushInstall
    \/ \E inputs \in SUBSET tables \ {{}} : \E dropped \in SUBSET UNION inputs : CompactSend(inputs, dropped)
    \/ CompactManifest
    \/ CompactInstall
    \/ \E pruned \in SUBSET tables \ {{}} : DeleteTables(pruned)
    \/ DeleteManifest
    \/ DeleteSend
    \/ HandleDiscardInfo
    \/ NoGC
    \/ handler.pc = "gc" /\ \E old \in SUBSET handler.candidates : BuildGCFile(old)
    \/ AddGCFile
    \/ Crash
    \/ Open

Spec == Init /\ [][Next]_vars

-----------------------------------------------------------------------------

\* A table's pointer reads the value it was written with, through any number of collections, crashes
\* and reopenings, as long as nobody told the collector that it is garbage. The exception are the
\* struck addresses: when a pointer is discarded again after its value is gone (a compaction that was
\* interrupted after handleStats is done again, or DeleteFilesInRange took its tables),
\* getPhysicalOffset answers with the value behind it, and that one is dropped.
LiveReadable ==
    Up => \A p \in UNION tables \ (sent \cup struck) : Read(p) = p

\* The same without exception: Item.Value "retrieves the value of the item".
LiveReadableAlways ==
    Up => \A p \in UNION tables \ sent : Read(p) = p

\* Open finds the files that the change log leads to, and their ids are not given again: GC writes the
\* new file before the change log, and the old ones are removed after it.
ChangeLogCovered ==
    Up => /\ \A f \in DOMAIN bm.logicalToPhysical : bm.logicalToPhysical[f] \in bm.physicalFiles
          /\ \A f \in DOMAIN disk : f <= bm.maxFileID
=============================================================================
