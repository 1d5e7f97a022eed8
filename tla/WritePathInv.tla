---------------------------- MODULE WritePathInv ----------------------------
(***************************************************************************)
(* The inductive invariant of the write path, in the parts in which it is  *)
(* proved: Grounded (types; nothing is applied before it is logged and     *)
(* synced), Placed (the pipeline keeps the order of the requests, and      *)
(* logOff separates what is in a memtable from what is still to come), and *)
(* Flushed (memtables are filled, frozen, flushed and dropped in one       *)
(* order, until an ingestion flushes a memtable in the middle of           *)
(* writeToLSM).                                                            *)
(***************************************************************************)
EXTENDS WritePath

Below(S, T) == \A a \in S, b \in T : a < b

InChan(ch) == UNION {InSeq(ch[i]) : i \in 1..Len(ch)}

Tables == [tables : Seq(Mems), length : Nat]

Tasks == [mt : Mems, off : Nat]

(* The types of what the writers share, up to writeToLSM. *)
Requests ==
    /\ sync \in BOOLEAN
    /\ answer \in [Reqs -> {"unsent", "wait", "ok", "err"}]
    /\ synced \in SUBSET Reqs /\ late \in SUBSET Reqs
    /\ vpc \in {"select", "send", "ingestSend", "ingest", "store", "flush", "exited"}
    /\ fpc \in {"select", "sync", "send", "exited"}

Batches ==
    /\ writeCh \in Seq(Reqs) /\ log \in Seq(Reqs)
    /\ vbatch \in Seq(Reqs) /\ fbatch \in Seq(Reqs)

ReqSeqs == Seq(Reqs)

Channel == writeLSMCh \in Seq(ReqSeqs) /\ Len(writeLSMCh) <= 1

(* Sets of entries have a size. A fact about constants, kept with the types *)
(* so that only the last part needs the theory of finite sets.             *)
Counted ==
    /\ \A S \in SUBSET Entries : Cardinality(S) \in Nat
    /\ \A m, n \in 1..PerReq : m <= n => Cardinality(m..n) = n - m + 1

Applying ==
    /\ Counted
    /\ lbatch \in Seq(Reqs)
    /\ lpc \in {"recv", "load", "write", "store", "flush", "exited"}
    /\ applied \in Nat
    /\ lpc \in {"recv", "exited"} => lbatch = <<>> /\ applied = 0
    /\ lpc \notin {"recv", "exited"} => applied < Len(lbatch) * PerReq

LogTypes == Requests /\ Batches /\ Channel /\ Applying

(* The types of the memtables and of what is flushed. A memTables object   *)
(* has a table, and counts no more tables than it has.                     *)
Sound(ts) == ts \in Tables /\ 1 <= Len(ts.tables) /\ ts.length <= Len(ts.tables)

\* Where the goroutine is that calls flushMemTable.
At(c) == IF c = "vlog" THEN vpc ELSE IF c = "lsm" THEN lpc ELSE closing

Counters ==
    /\ mpc \in {"recv", "build", "manifest", "add", "load", "lower", "delete", "exited"}
    /\ closing \in {"open", "writes", "store", "flush", "quit", "wait", "closed"}
    /\ head \in Nat /\ logOff \in Nat
    /\ mine \in Mems /\ nextMem \in 2..(MaxMem + 1)

Objects ==
    /\ Sound(tbls)
    /\ newTbls \in [Callers -> Tables]
    /\ \A c \in Callers : At(c) = "store" => Sound(newTbls[c])

TaskTypes ==
    /\ task \in [Callers -> Tasks]
    /\ flushChan \in Seq(Tasks) /\ ft \in Tasks

EntrySets == SUBSET Entries

Stored ==
    /\ content \in [Mems -> EntrySets]
    /\ built \in EntrySets /\ disk \in EntrySets
    /\ l0 \in Seq(EntrySets)
    /\ deleted \in SUBSET Mems

MemTypes == Counters /\ Objects /\ TaskTypes /\ Stored

-----------------------------------------------------------------------------
(* Nothing is applied before it is logged and synced. *)

\* The requests that may be applied.
Safe == {r \in InSeq(log) : sync => r \in synced}

AheadPipe ==
    /\ InSeq(vbatch) \subseteq InSeq(log) /\ InSeq(fbatch) \subseteq InSeq(log)
    /\ fpc = "send" => InSeq(fbatch) \subseteq Safe
    /\ InChan(writeLSMCh) \subseteq Safe /\ InSeq(lbatch) \subseteq Safe

AheadStored ==
    /\ \A m \in Mems : \A e \in content[m] : e[1] \in Safe
    /\ \A e \in built : e[1] \in Safe
    /\ \A i \in 1..Len(l0) : \A e \in l0[i] : e[1] \in Safe

Grounded == LogTypes /\ MemTypes /\ AheadPipe /\ AheadStored

-----------------------------------------------------------------------------
(* The order of the requests *)

Increasing(s) == \A i, j \in 1..Len(s) : i < j => s[i] < s[j]

InLSMCh == InChan(writeLSMCh)

Pipeline == InSeq(lbatch) \cup InLSMCh \cup InSeq(fbatch) \cup InSeq(vbatch)

(* The requests are numbered in the order of sending, and no channel or    *)
(* batch changes that order: what was logged is before what is queued, and *)
(* what is further down the pipeline is before what follows.               *)
Rising ==
    /\ Increasing(log) /\ Increasing(writeCh)
    /\ Increasing(vbatch) /\ Increasing(fbatch) /\ Increasing(lbatch)
    /\ \A i \in 1..Len(writeLSMCh) : Increasing(writeLSMCh[i])

Apart ==
    /\ Below(InSeq(log), InSeq(writeCh))
    /\ Below(InSeq(lbatch), InLSMCh \cup InSeq(fbatch) \cup InSeq(vbatch))
    /\ Below(InLSMCh, InSeq(fbatch) \cup InSeq(vbatch))
    /\ Below(InSeq(fbatch), InSeq(vbatch))
    /\ Below(Pipeline, late)
    /\ late \subseteq InSeq(log)

Answers ==
    /\ \A r \in Pipeline \cup InSeq(writeCh) : answer[r] = "wait"
    /\ \A r \in late : answer[r] = "ok"
    /\ \A r \in Reqs : answer[r] = "ok" => r \in InSeq(log)
    /\ \A r \in InSeq(log) : answer[r] # "unsent"
    /\ \A q, r \in Reqs : q < r /\ answer[q] = "unsent" => answer[r] = "unsent"

HandsEmpty ==
    /\ vpc \notin {"send", "ingestSend"} => vbatch = <<>>
    /\ fpc \notin {"sync", "send"} => fbatch = <<>>
    /\ vpc # "exited" => late = {}
    /\ vpc = "exited" \/ closing \in {"open", "writes"}
    /\ sync \/ fpc = "exited"

Ordered == Rising /\ Apart /\ Answers /\ HandsEmpty

OrderVars == <<log, writeCh, vbatch, fbatch, lbatch, writeLSMCh, late, answer>>

-----------------------------------------------------------------------------
(* Positions in the log *)

PosIn(lg, e) == (CHOOSE i \in 1..Len(lg) : lg[i] = e[1]) * PerReq - PerReq + e[2]

Prefix(s, t) == Len(s) <= Len(t) /\ \A i \in 1..Len(s) : t[i] = s[i]

(* What is logged and not answered with an error is in a memtable, further  *)
(* up the pipeline, in the batch that writeToLSM has in hand, or was left   *)
(* for the replay by closeWriteVLog. logOff separates the first from the    *)
(* others.                                                                  *)
Coming == InLSMCh \cup InSeq(fbatch) \cup InSeq(vbatch) \cup late

Rest(e) == \E k \in 1..Len(lbatch) : e[1] = lbatch[k] /\ k * PerReq - PerReq + e[2] > applied

Put(e) == \E m \in Mems : e \in content[m]

Positions ==
    /\ logOff <= Len(log) * PerReq
    /\ \A e \in Entries : Put(e) => PosIn(log, e) <= logOff
    /\ \A e \in Entries : e[1] \in Coming \/ Rest(e) => PosIn(log, e) > logOff
    /\ \A e \in Entries : Logged(e) /\ answer[e[1]] # "err" =>
                             Put(e) \/ e[1] \in Coming \/ Rest(e)

Placed == Grounded /\ Ordered /\ Positions

\* Steps keep the places of what is logged, add only behind logOff, and forgive no error.
Kept ==
    /\ \A e \in Entries : e[1] \in InSeq(log) =>
          e[1] \in InSeq(log') /\ PosIn(log', e) = PosIn(log, e)
    /\ \A e \in Entries : e[1] \in InSeq(log') /\ e[1] \notin InSeq(log) => PosIn(log', e) > logOff
    /\ \A r \in InSeq(log) : answer'[r] # "err" => answer[r] # "err"
    /\ logOff <= logOff'
    /\ \A m \in Mems : content[m] \subseteq content'[m]

-----------------------------------------------------------------------------
(* Memtables and their flushes *)

\* 1 while the nil task of Close is in flushChan.
Quitting == IF closing = "wait" /\ mpc # "exited" THEN 1 ELSE 0

Queued == Len(flushChan) - Quitting

InHand == IF mpc \in {"build", "manifest", "add"} THEN 1 ELSE 0

\* The memtables that are flushed, being flushed, or waiting for it.
Frozen == Len(l0) + InHand + Queued

\* The number of the first memtable; nil stands for the one after the last.
Front(ts, next) == IF Mutable(ts) = 0 THEN next ELSE Mutable(ts)

Top == Front(tbls, nextMem)

(* A memTables object has the memtables from the first down, and counts all *)
(* that are not among the n tables of level 0.                              *)
Shape(ts, next, n) ==
    /\ Sound(ts) /\ Len(ts.tables) <= Front(ts, next) /\ 1 <= ts.length
    /\ \A i \in 2..Len(ts.tables) : ts.tables[i] = Front(ts, next) - i + 1
    /\ Front(ts, next) - ts.length <= n

(* One goroutine at a time is in flushMemTable, and none but the flusher is *)
(* left when Close flushes the last memtable.                               *)
Lanes ==
    /\ vpc \in {"store", "flush"} => lpc \notin {"write", "store", "flush"}
    /\ closing \notin {"open", "writes"} => vpc = "exited" /\ lpc = "exited"
    /\ lpc \in {"write", "store"} => mine = Mutable(tbls)
    /\ mpc = "exited" => closing \in {"wait", "closed"} /\ Len(flushChan) = 0
    /\ closing = "closed" => mpc = "exited"

(* The flush tasks are in the order of the memtables, after those that are  *)
(* in level 0.                                                              *)
Queue ==
    /\ Queued \in Nat
    /\ Quitting = 1 => flushChan[Len(flushChan)] = Quit
    /\ \A i \in 1..Queued : flushChan[i].mt = Len(l0) + InHand + i
    /\ InHand = 1 => ft.mt = Len(l0) + 1
    /\ mpc \in {"load", "lower", "delete"} => ft.mt = Len(l0) /\ Len(l0) > 0
    /\ \A m \in deleted : m <= Len(l0)

InFlush(c) == At(c) \in {"store", "flush"}

Resting == \A c \in Callers : ~InFlush(c)

Fronts ==
    /\ Shape(tbls, nextMem, Len(l0))
    /\ Resting => Top = Frozen + 1
    /\ \A c \in Callers : At(c) = "store" =>
          /\ Top = Frozen + 1 /\ task[c].mt = Frozen + 1 /\ Mutable(tbls) # 0
          /\ Shape(newTbls[c], nextMem, Len(l0)) /\ Front(newTbls[c], nextMem) = Frozen + 2
    /\ \A c \in Callers : At(c) = "flush" => Top = Frozen + 2 /\ task[c].mt = Frozen + 1

Numbers ==
    /\ Mutable(tbls) = 0 => closing \in {"flush", "quit", "wait", "closed"}
    /\ Mutable(tbls) # 0 /\ vpc # "store" /\ lpc # "store" => nextMem = Mutable(tbls) + 1
    /\ vpc = "store" => nextMem = Mutable(newTbls["vlog"]) + 1
    /\ lpc = "store" => nextMem = Mutable(newTbls["lsm"]) + 1
    /\ closing = "store" => Mutable(newTbls["close"]) = 0
    /\ closing = "flush" => Mutable(tbls) = 0
    /\ closing \in {"quit", "wait", "closed"} => Mutable(tbls) = 0 \/ content[Mutable(tbls)] = {}

Structure == Lanes /\ Queue /\ Fronts /\ Numbers

-----------------------------------------------------------------------------
(* What the memtables hold, and what the flush tasks cover *)

(* The memtables were filled one after the other, and level 0 has their    *)
(* contents in the same order.                                             *)
Contents ==
    /\ \A m \in Mems : content[m] # {} => 1 <= m /\ m <= Top /\ m < nextMem
    /\ \A i \in 1..Len(l0) : l0[i] = content[i] /\ content[i] \subseteq disk
    /\ mpc \in {"manifest", "add"} => built = content[ft.mt]
    /\ mpc = "add" => content[ft.mt] \subseteq disk
    /\ \A m, n \in Mems : m < n =>
          \A e \in content[m], f \in content[n] : PosIn(log, e) < PosIn(log, f)

(* A flush task covers what was logged up to its offset: all of it is in   *)
(* its memtable or an older one.                                           *)
Covers(t, lo, lg, ans, cont) ==
    /\ t.off <= lo
    /\ \A e \in Entries : e[1] \in InSeq(lg) /\ PosIn(lg, e) <= t.off /\ ans[e[1]] # "err" =>
                             \E m \in 1..t.mt : e \in cont[m]

Offsets ==
    /\ \A c \in Callers : At(c) = "flush" => Covers(task[c], logOff, log, answer, content)
    /\ \A i \in 1..Queued : Covers(flushChan[i], logOff, log, answer, content)
    /\ mpc \in {"build", "manifest"} /\ ft.off # 0 => Covers(ft, logOff, log, answer, content)
    /\ head <= logOff
    /\ \A e \in Entries : e[1] \in InSeq(log) /\ PosIn(log, e) <= head /\ answer[e[1]] # "err" =>
                             e \in disk

-----------------------------------------------------------------------------
(***************************************************************************)
(* The invariant. Until an ingestion has called flushMemTable during       *)
(* writeToLSM, the memtables are in order.                                 *)
(***************************************************************************)
Flushed == Placed /\ (raced \/ (Structure /\ Contents /\ Offsets))

=============================================================================
