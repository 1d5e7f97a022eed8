------------------------------- MODULE Levels -------------------------------
(***************************************************************************)
(* The levels of tables and everything that changes them: the flusher      *)
(* (addLevel0Table), the compaction workers (doCompact, runCompactDef),    *)
(* ingestion (ingestTable) and DeleteFilesInRange, with the reservations   *)
(* of compactStatus and the manifest, against a reader that visits one     *)
(* level at a time (levels.go, level_handler.go, writer_ingest.go, db.go). *)
(*                                                                         *)
(* Tables are immutable and keep their data while a guard needs them       *)
(* (module Epoch); a file is taken to be gone as soon as it is handed to   *)
(* Guard.Delete. The safe timestamp of a compaction is any value that      *)
(* Epoch allows: not above a running reader.                               *)
(***************************************************************************)
EXTENDS Compaction

CONSTANTS
    MaxLevels,           \* TableBuilderOptions.MaxLevels
    NumLevelZeroTables,  \* level 0 is compacted from this many tables on
    NumLevelZeroStall,   \* NumLevelZeroTablesStall
    LevelOneSize, LevelSizeMultiplier,
    Workers,             \* compaction workers
    Batches,             \* bound: what memtable number n may hold, as sets of <<key, deleted>>
    IngestKeys,          \* bound: key sets of the tables to ingest
    DeleteRanges,        \* bound: ranges given to DeleteFilesInRange, after the last flush began
    ReadKeys,            \* bound: keys looked up
    MaxTs,               \* bound: versions
    MaxExtras            \* bound: reads, ingestions and DeleteFilesInRange together

ASSUME LevelsAssumption ==
    /\ MaxLevels \in Nat /\ MaxLevels > 2
    /\ MaxTs \in Nat /\ DOMAIN Batches = 1..MaxTs
    /\ NumLevelZeroTables \in Nat \ {0}
    /\ NumLevelZeroStall \in Nat /\ NumLevelZeroStall > NumLevelZeroTables

VARIABLES
    levels,      \* levelHandler.tables of each level
    ranges,      \* compactStatus: reserved ranges of each level
    totalSize,   \* levelHandler.totalSize of each level
    deltaSize,   \* compactStatus: bytes being compacted away
    mem, file,   \* manifest: its copy in memory and its file, table id to level
    fl,          \* flusher: position and table
    cw,          \* compaction workers: position, CompactDef, tables built
    ig,          \* ingestion: position, table, level, reserved range, CompactDef, tables built
    df,          \* DeleteFilesInRange: next level, range, tables taken out
    rd,          \* reader: next level, key, snapshot, result
    panic,       \* what killed the process
    ts,          \* newest version given out
    hist,        \* history: all entries ever stored
    floor,       \* history: largest safe timestamp a compaction has used
    exempt,      \* history: keys in a deleted range, or whose delete mark was dropped too early
    raced,       \* history: DeleteFilesInRange took a table of a running compaction
    collided,    \* history: an ingestion and a compaction hold ranges that interleave, or the
                 \* unlocked remove of the ingestion undid a reservation
    extras       \* counter of the bound

cVars == <<levels, totalSize, ranges, deltaSize>>
mVars == <<mem, file>>
hVars == <<hist, floor, exempt, raced, collided>>
vars == <<cVars, mVars, fl, cw, ig, df, rd, panic, ts, hVars, extras>>

Level == 0..(MaxLevels - 1)

NoFlush == [at |-> "idle", table |-> [id |-> 0, data |-> {}]]

NoWork == [at |-> "idle", cd |-> NoCompaction, new |-> <<>>]

NoIngest == [at |-> "idle", tbl |-> [id |-> 0, data |-> {}], level |-> 0, left |-> {}, range |-> Inf, cd |-> NoCompaction, new |-> <<>>]

NoDelete == [at |-> "idle", level |-> 0, range |-> Inf, tables |-> <<>>]

NoRead == [at |-> "idle", level |-> 0, key |-> 1, ts |-> 0, want |-> {}]

Init ==
    /\ levels = [l \in Level |-> <<>>]
    /\ ranges = [l \in Level |-> {}]
    /\ totalSize = [l \in Level |-> 0] /\ deltaSize = [l \in Level |-> 0]
    /\ mem = <<>> /\ file = <<>>
    /\ fl = NoFlush /\ cw = [w \in Workers |-> NoWork] /\ ig = NoIngest /\ df = NoDelete /\ rd = NoRead
    /\ panic = "none"
    /\ ts = 0 /\ hist = {} /\ floor = 0 /\ exempt = {} /\ raced = FALSE /\ collided = FALSE
    /\ extras = 0

\* The next table ids. An id that nothing refers to any more may come again.
UsedIds ==
    DOMAIN mem \cup DOMAIN file \cup {t.id : t \in
        UNION {ToSet(levels[l]) : l \in Level} \cup {fl.table, ig.tbl} \cup ToSet(df.tables) \cup ToSet(ig.new)
        \cup UNION {ToSet(cw[w].cd.top) \cup ToSet(cw[w].cd.bot) \cup ToSet(cw[w].new) : w \in Workers}}

FreshIds(n) == SetToSortSeq((1..(Cardinality(UsedIds) + n)) \ UsedIds, LAMBDA a, b : a < b)

MaxTotalSize(l) == IF l = 0 THEN 0 ELSE LevelOneSize * LevelSizeMultiplier ^ (l - 1)

Alive == panic = "none"

\* Bound: after DeleteFilesInRange took tables of a compaction, or an ingestion and a compaction
\* collided, what is under way is finished and nothing else begun (a failing compaction is tried
\* again for ever).
Followed == ~raced /\ ~collided

-----------------------------------------------------------------------------
(* Manifest *)

Create(id, l) == <<"create", id, l>>

Delete(id) == <<"delete", id, 0>>

Move(id, l) == <<"move", id, l>>

\* applyManifestChange; after an error the rest of a change set is not applied.
ApplyChange(m, c) ==
    IF ~m.ok \/ (c[1] = "create") = (c[2] \in DOMAIN m.tables) THEN [m EXCEPT !.ok = FALSE]
    ELSE [m EXCEPT !.tables = [t \in (DOMAIN @ \cup {c[2]}) \ (IF c[1] = "delete" THEN {c[2]} ELSE {}) |->
                                  IF t = c[2] THEN c[3] ELSE @[t]]]

\* addChanges: the copy in memory keeps what was applied before an error, the file gets the
\* change set whole or not at all.
AddChanges(changes, ok) ==
    LET after == FoldLeft(ApplyChange, [tables |-> mem, ok |-> TRUE], changes)
    IN /\ ok = after.ok
       /\ mem' = after.tables
       /\ file' = IF ok THEN FoldLeft(ApplyChange, [tables |-> file, ok |-> TRUE], changes).tables ELSE file

-----------------------------------------------------------------------------
(* Flusher *)

\* A memtable with new versions has become table file, and addLevel0Table puts it in the manifest.
\* The caller of an ingestion writes none of its keys.
AddToManifest ==
    /\ Alive /\ fl.at = "idle" /\ Followed /\ ts < MaxTs
    /\ \E b \in Batches[ts + 1] :
          LET table == [id |-> FreshIds(1)[1], data |-> {<<e[1], ts + 1, e[2]>> : e \in b}]
          IN /\ ig.at # "idle" => KeysOf(table) \cap KeysOf(ig.tbl) = {}
             /\ fl' = [at |-> "add", table |-> table]
             /\ AddChanges(<<Create(table.id, 0)>>, TRUE)
    /\ ts' = ts + 1
    /\ UNCHANGED <<cVars, cw, ig, df, rd, panic, hVars, extras>>

TryAddLevel0Table ==
    /\ Alive /\ fl.at = "add"
    /\ IF Len(levels[0]) >= NumLevelZeroStall
       THEN fl' = [fl EXCEPT !.at = "stall"] /\ UNCHANGED <<levels, totalSize, hist>>
       ELSE /\ levels' = [levels EXCEPT ![0] = Append(@, fl.table)]
            /\ totalSize' = [totalSize EXCEPT ![0] = @ + Size(fl.table)]
            /\ hist' = hist \cup fl.table.data
            /\ fl' = NoFlush
    /\ UNCHANGED <<ranges, deltaSize, mVars, cw, ig, df, rd, panic, ts, floor, exempt, raced,
                   collided, extras>>

\* The stalled flusher waits until level 0 needs no compaction.
Unstall ==
    /\ Alive /\ fl.at = "stall"
    /\ Len(levels[0]) < NumLevelZeroTables
    /\ fl' = [fl EXCEPT !.at = "add"]
    /\ UNCHANGED <<cVars, mVars, cw, ig, df, rd, panic, ts, hVars, extras>>

-----------------------------------------------------------------------------
(* Compaction *)

\* pickCompactLevels.
Compactable(l) ==
    IF l = 0 THEN ranges[0] = {} /\ Len(levels[0]) >= NumLevelZeroTables
    ELSE totalSize[l] >= MaxTotalSize(l) + deltaSize[l]

Filled(l) ==
    IF l = 0 THEN FillTablesL0(levels[0], levels[1])
    ELSE FillTables(l, levels[l], levels[l + 1], ranges[l], ranges[l + 1])

\* compareAndAdd says yes.
MayAdd(cd) ==
    /\ \A r \in ranges[cd.level] : ~OverlapsWith(r, cd.this)
    /\ \A r \in ranges[cd.level + 1] : ~OverlapsWith(r, cd.next)
    /\ totalSize[cd.level] - deltaSize[cd.level] >= MaxTotalSize(cd.level)

\* The range an ingestion holds lies between the keys of a compaction into its level.
Straddles(cd, l, r) == l = cd.level + 1 /\ (OverlapsWith(r, KeyRange(cd.top)) \/ OverlapsWith(r, cd.next))

\* doCompact up to compareAndAdd, for a level that pickCompactLevels returned. The last level is
\* among them when it is full, and then the process ends at an assertion.
PickTables(w) ==
    /\ Alive /\ cw[w].at = "idle" /\ Followed
    /\ \E l \in Level :
          /\ Compactable(l)
          /\ IF l + 1 = MaxLevels
             THEN panic' = "last level" /\ UNCHANGED <<cw, ranges, deltaSize, collided>>
             ELSE \E cd \in {Filled(l)} :
                     /\ levels[l] # <<>> /\ cd.top # <<>> /\ MayAdd(cd)
                     /\ cw' = [cw EXCEPT ![w] = [at |-> "build", cd |-> cd, new |-> <<>>]]
                     /\ ranges' = [ranges EXCEPT ![l] = @ \cup {cd.this}, ![l + 1] = @ \cup {cd.next}]
                     /\ deltaSize' = [deltaSize EXCEPT ![l] = @ + cd.topSize]
                     /\ collided' = (collided \/ (ig.at # "idle" /\ Straddles(cd, ig.level, ig.range)))
                     /\ UNCHANGED panic
    /\ UNCHANGED <<levels, totalSize, mVars, fl, ig, df, rd, ts, hist, floor, exempt, raced, extras>>

\* Mutant: all levels below are taken to be empty.
NothingBelow(cd) == FALSE

\* setHasOverlapTable: a level below the next one has a table in the range of the top tables.
SetHasOverlapTable(cd) ==
    \E l \in (cd.level + 2)..(MaxLevels - 1) :
        LET lr == TablesInRange(levels[l], KeyRange(cd.top)) IN lr[1] < lr[2]

\* What getCompactSafeTs may return: what no reader is below, or nothing yet.
SafeTs == {0, IF rd.at = "read" THEN rd.ts ELSE ts}

\* The keys whose delete mark a compaction drops while an older version is further down, because
\* they lie outside the range that setHasOverlapTable looks at.
Uncovered(cd, new, looked) ==
    LET before == UNION {t.data : t \in ToSet(cd.top) \cup ToSet(cd.bot)}
        after == UNION {t.data : t \in ToSet(new)}
        below == UNION {t.data : t \in UNION {ToSet(levels[l]) : l \in (cd.level + 2)..(MaxLevels - 1)}}
    IN {e[1] : e \in {f \in before \ after : f[3] /\ f[1] \notin looked /\ \E g \in below : g[1] = f[1]}}

\* compactBuildTables. Tables are numbered as they are built.
Built(cd, safeTS, hasOverlap) ==
    LET new == CompactTables(cd, safeTS, hasOverlap)
    IN [i \in DOMAIN new |-> [id |-> FreshIds(Len(new))[i], data |-> new[i]]]

Released(cd) == [ranges EXCEPT ![cd.level] = @ \ {cd.this}, ![cd.level + 1] = @ \ {cd.next}]

\* compactStatus.delete; a range that is not there ends the process.
Release(cd) ==
    /\ ranges' = Released(cd)
    /\ deltaSize' = [deltaSize EXCEPT ![cd.level] = @ - cd.topSize]
    /\ panic' = IF cd.this \in ranges[cd.level] /\ cd.next \in ranges[cd.level + 1] THEN panic ELSE "range"

ChangeSet(cd, new) ==
    IF MoveDown(cd) THEN [i \in DOMAIN new |-> Move(new[i].id, cd.level + 1)]
    ELSE [i \in DOMAIN new |-> Create(new[i].id, cd.level + 1)]
         \o [i \in DOMAIN cd.top |-> Delete(cd.top[i].id)]
         \o [i \in DOMAIN cd.bot |-> Delete(cd.bot[i].id)]

\* runCompactDef up to the manifest, which is written before the levels change. Until then a
\* compaction only reads tables, and only its own. After an error it is given up.
Compact(w) ==
    /\ Alive /\ cw[w].at = "build"
    /\ \E safeTS \in IF MoveDown(cw[w].cd) THEN {0} ELSE SafeTs :
       \E cd \in {cw[w].cd} :
       \E new \in {IF MoveDown(cd) THEN cd.top ELSE Built(cd, safeTS, SetHasOverlapTable(cd))} :
          /\ \/ /\ AddChanges(ChangeSet(cd, new), TRUE)
                /\ cw' = [cw EXCEPT ![w].at = "replace", ![w].new = new]
                /\ UNCHANGED <<ranges, deltaSize, panic>>
             \/ /\ AddChanges(ChangeSet(cd, new), FALSE)
                /\ cw' = [cw EXCEPT ![w] = NoWork]
                /\ Release(cd)
          /\ floor' = Max({floor, safeTS})
          /\ exempt' = exempt \cup IF MoveDown(cd) THEN {}
                                ELSE Uncovered(cd, new, KeyRange(cd.top)[1]..KeyRange(cd.top)[2])
    /\ UNCHANGED <<levels, totalSize, fl, ig, df, rd, ts, hist, raced, collided, extras>>

\* The tables of a level after replaceTables.
Replaced(old, new, cd) ==
    LET lr == TablesInRange(old, cd.next)
    IN SortTables(SubSeq(old, 1, lr[1]) \o new \o cd.skipped \o SubSeq(old, lr[2] + 1, Len(old)))

Without(tables, gone) == SelectSeq(tables, LAMBDA t : t.id \notin {gone[i].id : i \in DOMAIN gone})

\* Mutant: the tables leave this level before they enter the next.
DeleteFirst(w) ==
    /\ Alive /\ cw[w].at = "replace"
    /\ cw[w].cd.top # <<>>
    /\ IF ToSet(cw[w].cd.top) \cap ToSet(levels[cw[w].cd.level]) # {}
       THEN /\ levels' = [levels EXCEPT ![cw[w].cd.level] = Without(@, cw[w].cd.top)]
            /\ UNCHANGED cw
       ELSE /\ levels' = [levels EXCEPT ![cw[w].cd.level + 1] = Replaced(@, cw[w].new, cw[w].cd)]
            /\ cw' = [cw EXCEPT ![w].at = "delete"]
    /\ UNCHANGED <<totalSize, ranges, deltaSize, mVars, fl, ig, df, rd, panic, ts, hVars, extras>>

\* What replaceTables does to a level, or the panic of assertTablesOrder.
InstallTables(l, new, cd) ==
    LET tables == Replaced(levels[l], new, cd)
        gone == ToSet(cd.bot) \cap ToSet(Slice(levels[l], TablesInRange(levels[l], cd.next)))
    IN IF TablesOrdered(new) /\ TablesOrdered(tables)
       THEN /\ levels' = [levels EXCEPT ![l] = tables]
            /\ totalSize' = [totalSize EXCEPT ![l] = @ + SumTableSize(new) - SumTableSize(SetToSeq(gone))]
            /\ UNCHANGED panic
       ELSE panic' = "order" /\ UNCHANGED <<levels, totalSize>>

ReplaceTables(w) ==
    /\ Alive /\ cw[w].at = "replace"
    /\ InstallTables(cw[w].cd.level + 1, cw[w].new, cw[w].cd)
    /\ cw' = [cw EXCEPT ![w].at = "delete"]
    /\ UNCHANGED <<ranges, deltaSize, mVars, fl, ig, df, rd, ts, hVars, extras>>

\* deleteTables, and doCompact removes its ranges.
DeleteTables(w) ==
    /\ Alive /\ cw[w].at = "delete"
    /\ LET cd == cw[w].cd
           kept == Without(levels[cd.level], cd.top)
       IN /\ levels' = [levels EXCEPT ![cd.level] = kept]
          /\ totalSize' = [totalSize EXCEPT ![cd.level] = @ - SumTableSize(levels[cd.level]) + SumTableSize(kept)]
          /\ Release(cd)
    /\ cw' = [cw EXCEPT ![w] = NoWork]
    /\ UNCHANGED <<mVars, fl, ig, df, rd, ts, hVars, extras>>

-----------------------------------------------------------------------------
(* Ingestion *)

\* checkRangeInLevel: the table may be placed here or below; a table has keys in its range; the
\* tables returned.
RangeOk(kr, l) ==
    /\ l # 0 => levels[l] # <<>>
    /\ \A r \in ranges[l] : ~OverlapsWith(r, kr)

TablesAt(kr, l) == IF l = 0 THEN levels[0] ELSE Slice(levels[l], TablesInRange(levels[l], kr))

OverlapAt(kr, l) == \E t \in ToSet(TablesAt(kr, l)) : HasOverlap(t, kr)

\* The levels where the loop of ingestTable ends.
Stops(kr) == {l \in Level : ~RangeOk(kr, l) \/ OverlapAt(kr, l)}

\* The level that ingestTable decides for.
Target(kr) ==
    LET first == Min(Stops(kr)) IN IF RangeOk(kr, first) \/ first = 0 THEN first ELSE first - 1

Extended(kr, tables) ==
    IF tables = <<>> THEN kr
    ELSE <<Min({kr[1], Smallest(tables[1])}), Max({kr[2], Biggest(Last(tables))})>>

\* ingestTable up to the reservation of the range. The memtable was flushed before if it has keys
\* of the table. No level at all to stop at is an index out of range.
PlaceTable ==
    /\ Alive /\ ig.at = "idle" /\ Followed /\ extras < MaxExtras /\ ts < MaxTs
    /\ \E keys \in IngestKeys :
       \E tbl \in {[id |-> FreshIds(1)[1], data |-> {<<k, ts + 1, FALSE>> : k \in keys}]} :
       \E kr \in {KeyRange(<<tbl>>)} :
          /\ KeysOf(fl.table) \cap keys = {}
          /\ IF Stops(kr) = {}
             THEN panic' = "ingest" /\ UNCHANGED <<ig, ranges>>
             ELSE \E target \in {Target(kr)} :
                  \E tables \in {IF RangeOk(kr, target) THEN TablesAt(kr, target) ELSE <<>>} :
                     /\ ranges' = [ranges EXCEPT ![target] = @ \cup {Extended(kr, tables)}]
                     /\ ig' = [NoIngest EXCEPT
                                 !.at = "manifest", !.tbl = tbl, !.level = target, !.range = Extended(kr, tables),
                                 !.cd = IF target = 0 \/ tables = <<>> THEN NoCompaction
                                        ELSE WithBottom([NoCompaction EXCEPT !.level = target - 1, !.top = <<tbl>>,
                                                            !.next = KeyRange(tables)], tables)]
                     /\ UNCHANGED panic
    /\ ts' = ts + 1 /\ extras' = extras + 1
    /\ UNCHANGED <<levels, totalSize, deltaSize, mVars, fl, cw, df, rd, hVars>>

\* ingestTable up to the manifest. runIngestCompact leaves HasOverlap false.
IngestManifest ==
    /\ Alive /\ ig.at = "manifest"
    /\ \E safeTS \in IF ig.cd.top = <<>> THEN {0} ELSE SafeTs :
       \E new \in {IF ig.cd.top = <<>> THEN <<ig.tbl>> ELSE Built(ig.cd, safeTS, FALSE)} :
          LET changes == [i \in DOMAIN new |-> Create(new[i].id, ig.level)]
                         \o [i \in DOMAIN ig.cd.bot |-> Delete(ig.cd.bot[i].id)]
          IN /\ \/ AddChanges(changes, TRUE) /\ ig' = [ig EXCEPT !.at = "install", !.new = new]
                \/ AddChanges(changes, FALSE) /\ ig' = [ig EXCEPT !.at = "remove"]
             /\ floor' = Max({floor, safeTS})
             /\ exempt' = exempt \cup IF ig.cd.top = <<>> THEN {} ELSE Uncovered(ig.cd, new, {})
    /\ UNCHANGED <<cVars, fl, cw, df, rd, panic, ts, hist, raced, collided, extras>>

\* Mutant: the table comes last.
TablesThen(tables, t) == Append(tables, t)

\* addTable finds its place by the biggest key.
TablesWith(tables, t) ==
    LET i == Cardinality({j \in DOMAIN tables : Smallest(tables[j]) < Biggest(t)})
    IN SubSeq(tables, 1, i) \o <<t>> \o SubSeq(tables, i + 1, Len(tables))

IngestInstall ==
    /\ Alive /\ ig.at = "install"
    /\ IF ig.cd.top # <<>> THEN InstallTables(ig.level, ig.new, ig.cd)
       ELSE /\ levels' = [levels EXCEPT ![ig.level] = IF ig.level = 0 THEN Append(@, ig.tbl)
                                                      ELSE TablesWith(@, ig.tbl)]
            /\ totalSize' = [totalSize EXCEPT ![ig.level] = @ + Size(ig.tbl)]
            /\ UNCHANGED panic
    /\ hist' = hist \cup ig.tbl.data
    /\ ig' = [ig EXCEPT !.at = "remove"]
    /\ UNCHANGED <<ranges, deltaSize, mVars, fl, cw, df, rd, ts, floor, exempt, raced, collided, extras>>

\* The deferred remove works on the ranges without the lock of compactStatus: it reads them,
IngestRemove ==
    /\ Alive /\ ig.at = "remove"
    /\ ig' = [ig EXCEPT !.at = "write", !.left = ranges[ig.level] \ {ig.range}]
    /\ UNCHANGED <<cVars, mVars, fl, cw, df, rd, panic, ts, hVars, extras>>

\* and writes back the rest.
IngestDone ==
    /\ Alive /\ ig.at = "write"
    /\ ranges' = [ranges EXCEPT ![ig.level] = ig.left]
    /\ collided' = (collided \/ ranges[ig.level] \ {ig.range} # ig.left)
    /\ ig' = NoIngest
    /\ UNCHANGED <<levels, totalSize, deltaSize, mVars, fl, cw, df, rd, panic, ts, hist, floor,
                   exempt, raced, extras>>

-----------------------------------------------------------------------------
(* DeleteFilesInRange *)

BeginDelete ==
    /\ Alive /\ df.at = "idle" /\ Followed /\ extras < MaxExtras /\ ts = MaxTs
    /\ \E r \in DeleteRanges :
          /\ df' = [at |-> "levels", level |-> 0, range |-> r, tables |-> <<>>]
          /\ exempt' = exempt \cup {k \in Keys : r[1] <= k /\ k < r[2]}
    /\ extras' = extras + 1
    /\ UNCHANGED <<cVars, mVars, fl, cw, ig, rd, panic, ts, hist, floor, raced, collided>>

IsRangeCoversTable(r, t) == r[1] <= Smallest(t) /\ Biggest(t) < r[2]

\* The tables of running compactions.
InWork == UNION {ToSet(c.top) \cup ToSet(c.bot) \cup ToSet(c.skipped) :
                    c \in {cw[w].cd : w \in Workers} \cup {ig.cd}}

\* One level under its lock. No table is ever seen as compacting, and totalSize stays.
DeleteInLevel ==
    /\ Alive /\ df.at = "levels" /\ df.level < MaxLevels
    /\ LET gone == SelectSeq(levels[df.level], LAMBDA t : IsRangeCoversTable(df.range, t))
       IN /\ levels' = [levels EXCEPT ![df.level] = Without(@, gone)]
          /\ df' = [df EXCEPT !.level = @ + 1, !.tables = @ \o gone]
          /\ raced' = (raced \/ ToSet(gone) \cap InWork # {})
    /\ UNCHANGED <<totalSize, ranges, deltaSize, mVars, fl, cw, ig, rd, panic, ts, hist, floor,
                   exempt, collided, extras>>

\* The changes go to the manifest, whose error is ignored, and the tables to Guard.Delete.
EndDelete ==
    /\ Alive /\ df.at = "levels" /\ df.level = MaxLevels
    /\ \E ok \in BOOLEAN : AddChanges([i \in DOMAIN df.tables |-> Delete(df.tables[i].id)], ok)
    /\ df' = NoDelete
    /\ UNCHANGED <<cVars, fl, cw, ig, rd, panic, ts, hVars, extras>>

-----------------------------------------------------------------------------
(* Reading *)

\* levelHandler.get: the tables of level 0 from the newest on, the one table of another level.
GetInLevel(l, k, t) ==
    LET from == SelectSeq(levels[l], LAMBDA x : k <= Biggest(x))
        tables == IF l = 0 THEN Reverse(levels[0]) ELSE IF from = <<>> THEN <<>> ELSE <<Head(from)>>
        hits == SelectSeq(tables, LAMBDA x : \E e \in x.data : e[1] = k /\ e[2] <= t)
    IN IF hits = <<>> THEN {} ELSE Best(Head(hits).data, k, t)

BeginRead ==
    /\ Alive /\ rd.at = "idle" /\ Followed /\ extras < MaxExtras
    /\ \E k \in ReadKeys :
          rd' = [at |-> "read", level |-> 0, key |-> k, ts |-> ts,
                 want |-> Visible(Best(hist, k, ts))]
    /\ extras' = extras + 1
    /\ UNCHANGED <<cVars, mVars, fl, cw, ig, df, panic, ts, hVars>>

\* One level of levelsController.get, which ends at the first one that has the key.
ReadLevel ==
    /\ Alive /\ rd.at = "read"
    /\ rd' = IF GetInLevel(rd.level, rd.key, rd.ts) # {} \/ rd.level + 1 = MaxLevels THEN NoRead
             ELSE [rd EXCEPT !.level = @ + 1]
    /\ UNCHANGED <<cVars, mVars, fl, cw, ig, df, panic, ts, hVars, extras>>

Flusher == AddToManifest \/ TryAddLevel0Table \/ Unstall

Worker(w) ==
    PickTables(w) \/ Compact(w) \/ ReplaceTables(w) \/ DeleteTables(w)

Ingestion ==
    PlaceTable \/ IngestManifest \/ IngestInstall \/ IngestRemove \/ IngestDone

Next ==
    \/ Flusher
    \/ \E w \in Workers : Worker(w)
    \/ Ingestion
    \/ BeginDelete \/ DeleteInLevel \/ EndDelete
    \/ BeginRead \/ ReadLevel

Spec == Init /\ [][Next]_vars

-----------------------------------------------------------------------------
(* Properties *)

\* The ways in which the code is known to go wrong have not happened.
Sound == Alive /\ ~raced /\ ~collided

\* The tables of a level above 0 are in order and do not overlap, so that the binary search of
\* getLevelNTable finds the one that may have a key, whatever compactions and ingestions ran.
LevelsValid == Sound => \A l \in Level \ {0} : Validate(levels[l])

\* The process does not end at an assertion of assertTablesOrder, compactStatus.delete or
\* doCompact. What ingestion does when no level stops it is an index out of range (README).
NoPanic == panic \in {"none", "ingest"} \/ collided

\* The first level that has a key answers, in the order of levelsController.get.
Get(k, t) ==
    LET found == SelectSeq([l \in 1..MaxLevels |-> GetInLevel(l - 1, k, t)], LAMBDA f : f # {})
    IN IF found = <<>> THEN {} ELSE Head(found)

\* At every moment, for every snapshot not below a safe timestamp that was used, a lookup finds
\* the newest version that was stored up to the snapshot: CompactTables drops nothing a
\* transaction may read, and no compaction leaves an older version in front of a newer one.
SnapshotReads ==
    Sound => \A k \in Keys \ exempt : \A t \in floor..ts :
                Visible(Get(k, t)) = Visible(Best(hist, k, t))

\* The same for a lookup that takes the lock of one level after the other while compactions
\* install their tables below and remove them above (runCompactDef): what it ends with is right.
ReaderCorrect ==
    [][Sound /\ rd.at = "read" /\ rd'.at = "idle" /\ rd.key \notin exempt =>
          Visible(GetInLevel(rd.level, rd.key, rd.ts)) \in {rd.want, Visible(Best(hist, rd.key, rd.ts))}]_vars

\* Tables whose files exist: in a level, on the way into one, or not yet given to Guard.Delete.
Present ==
    UNION {ToSet(levels[l]) : l \in Level} \cup {fl.table} \cup ToSet(df.tables)
    \cup UNION {ToSet(cw[w].new) : w \in Workers} \cup ToSet(ig.new)

OnTheWay == fl.table.data \cup ig.tbl.data

\* A process that stops now can be opened from its manifest file: the tables named there exist
\* (revertToManifest), and together they hold what the levels hold, with or without the table that
\* is on its way.
CrashSafe ==
    Sound =>
        /\ DOMAIN file \subseteq {t.id : t \in Present}
        /\ LET data == UNION {t.data : t \in {x \in Present : x.id \in DOMAIN file}}
           IN \A k \in Keys \ exempt : \A t \in floor..ts :
                 Visible(Best(data, k, t)) \in {Visible(Best(hist, k, t)), Visible(Best(hist \cup OnTheWay, k, t))}

\* levels.go promises for a delete mark: if the "key range has overlap with lower levels, then
\* keep the deletion marker". No older version of a deleted key comes back.
NoResurrection ==
    \A k \in Keys : \A t \in floor..ts :
        Best(hist, k, t) # {} /\ Visible(Best(hist, k, t)) = {} => Visible(Get(k, t)) = {}

=============================================================================
