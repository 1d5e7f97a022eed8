---------------------------- MODULE MCStructures ----------------------------
(***************************************************************************)
(* Three parts of the store that do not share state, on small instances:   *)
(* the block cache, the memtable and the blob files. A behaviour is one of *)
(* the part it begins with; the variables of the others do not change.     *)
(***************************************************************************)
EXTENDS Cache, SequencesExt

VARIABLES
    part,  \* the part the behaviour is of
    pendingList, next, writer, tasks, tower, height, vals, merger, memReader,
    disk, changeLog, manifest, tables, bm, handler, discardCh, flusher, compactor, blobDeleter,
    sent, struck, flushes, jobs, crashes

memVars == <<pendingList, next, writer, tasks, tower, height, vals, merger, memReader>>

blobVars == <<disk, changeLog, manifest, tables, bm, handler, discardCh, flusher, compactor,
              blobDeleter, sent, struck, flushes, jobs, crashes>>

M == INSTANCE Memtable WITH MaxKey <- 4, MaxHeight <- 2,
                            Batches <- <<<<2>>, <<1, 2, 4>>, <<2, 3>>>>, reader <- memReader

B == INSTANCE Blob WITH Flushes <- <<2, 1>>, MaxJobs <- 3, MaxFid <- 4, ChSize <- 1, MaxCrashes <- 1,
                        deleter <- blobDeleter

MCCost == [a |-> 1, b |-> 1, c |-> 2]

\* The readers of the cache are interchangeable.
Symmetry == Permutations(Readers)

-----------------------------------------------------------------------------

NoMemtable ==
    /\ pendingList = 0 /\ next = 0 /\ writer = 0 /\ tasks = 0 /\ tower = 0
    /\ height = 0 /\ vals = 0 /\ merger = 0 /\ memReader = 0

NoBlob ==
    /\ disk = 0 /\ changeLog = 0 /\ manifest = 0 /\ tables = 0 /\ bm = 0 /\ handler = 0
    /\ discardCh = 0 /\ flusher = 0 /\ compactor = 0 /\ blobDeleter = 0 /\ sent = 0
    /\ struck = 0 /\ flushes = 0 /\ jobs = 0 /\ crashes = 0

StructuresInit ==
    /\ Init
    /\ \/ part = "cache" /\ NoMemtable /\ NoBlob
       \/ part = "memtable" /\ M!Init /\ NoBlob
       \/ part = "blob" /\ NoMemtable /\ B!Init

StructuresNext ==
    /\ part' = part
    /\ \/ part = "cache" /\ Next /\ UNCHANGED <<memVars, blobVars>>
       \/ part = "memtable" /\ M!Next /\ UNCHANGED <<vars, blobVars>>
       \/ part = "blob" /\ B!Next /\ UNCHANGED <<vars, memVars>>

StructuresSpec == StructuresInit /\ [][StructuresNext]_<<part, vars, memVars, blobVars>>

-----------------------------------------------------------------------------

\* A memtable's Get is exact while batches move from the list to the skip list (Memtable).
MemGetExact == part = "memtable" => M!GetExact

\* A memtable's iterator shows all that was put before it began, but for the late keys (Memtable).
MemScanComplete == part = "memtable" => M!ScanComplete

\* A pointer that nobody discarded reads its value after any collection and crash (Blob).
LiveReadable == part = "blob" => B!LiveReadable

\* The change log leads to files that exist (Blob).
ChangeLogCovered == part = "blob" => B!ChangeLogCovered
=============================================================================
