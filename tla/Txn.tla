-------------------------------- MODULE Txn --------------------------------
(***************************************************************************)
(* Optimistic transactions of an unmanaged DB (transaction.go): the oracle *)
(* that hands out timestamps and detects conflicts, the life of a          *)
(* transaction from NewTransaction to Discard, and the write pipeline      *)
(* behind Commit, reduced to its order (a FIFO into the value log, batches *)
(* applied to the LSM tree in log order, acknowledged batch by batch).     *)
(*                                                                         *)
(* Each element of Txns is one transaction, used once, so no bound on      *)
(* timestamps is needed. A key is its own fingerprint (Fingerprint64 is    *)
(* taken to be injective) and a version is identified by its commit        *)
(* timestamp; the only part of a value that matters is the delete marker.  *)
(***************************************************************************)
EXTENDS Integers, Sequences, FiniteSets

CONSTANTS
    Txns,       \* transactions
    Keys,       \* user keys
    NoTxn,      \* the "nobody" holder of a mutex
    InitTs,     \* manifest head version the DB was opened with (0 when new)
    MapLimit,   \* commits map size from which decrRef clears it (1000)
    ChCap,      \* capacity of writeCh (kvWriteChCapacity)
    LogCap      \* batches between the value log and the LSM writer

ASSUME TxnAssumption ==
    /\ IsFiniteSet(Txns)
    /\ IsFiniteSet(Keys)
    /\ NoTxn \notin Txns
    /\ InitTs \in Nat
    /\ MapLimit \in Nat \ {0}
    /\ ChCap \in Nat \ {0}
    /\ LogCap \in Nat \ {0}

VARIABLES
    curRead,     \* oracle.curRead
    nextCommit,  \* oracle.nextCommit
    refCount,    \* oracle.refCount
    commits,     \* oracle.commits: a function from a set of keys to timestamps
    orcLock,     \* holder of oracle.Mutex while it spans more than one step
    writeLock,   \* holder of oracle.writeLock
    pc,          \* where each transaction is
    update,      \* Txn.update
    readTs,      \* Txn.readTs
    commitTs,    \* timestamp of newCommitTs, 0 before it
    reads,       \* Txn.reads: keys whose fingerprint is tracked
    pending,     \* Txn.pendingWrites: "none", "set" or "delete" per key
    seen,        \* version each key was last observed at, NotRead if never
    writeCh,     \* DB.writeCh
    postLog,     \* batches logged and not yet acknowledged, oldest first
    acked,       \* requests whose WaitGroup is done
    lsm,         \* versions of each key present in the LSM tree
    exposed      \* history: transactions that had loaded readTs but not yet
                 \* called addRef when decrRef decided to clear the map

oracleVars == <<curRead, nextCommit, refCount, commits, orcLock, writeLock>>
txnVars    == <<pc, update, readTs, commitTs, reads, pending, seen>>
pipeVars   == <<writeCh, postLog, acked, lsm>>
vars       == <<oracleVars, txnVars, pipeVars, exposed>>

NotRead == -1

Ts == Nat

Version == [ts : Ts, del : BOOLEAN]

\* Program points of a transaction, in the order of NewTransaction, Commit
\* and Discard.
PC == {"idle", "loaded", "active", "commit", "locked", "stamped", "waiting",
       "discard", "zero", "clearing", "done"}

Writes(t) == {k \in Keys : pending[t][k] # "none"}

Stamped(t) == commitTs[t] # 0

TypeOK ==
    /\ curRead \in Ts
    /\ nextCommit \in Ts \ {0}
    /\ refCount \in Nat
    /\ commits \in [Keys -> Ts]
    /\ orcLock \in Txns \cup {NoTxn}
    /\ writeLock \in Txns \cup {NoTxn}
    /\ pc \in [Txns -> PC]
    /\ update \in [Txns -> BOOLEAN]
    /\ readTs \in [Txns -> Ts]
    /\ commitTs \in [Txns -> Ts]
    /\ reads \in [Txns -> SUBSET Keys]
    /\ pending \in [Txns -> [Keys -> {"none", "set", "delete"}]]
    /\ seen \in [Txns -> [Keys -> Ts \cup {NotRead}]]
    /\ writeCh \in Seq(Txns)
    /\ postLog \in Seq(Seq(Txns))
    /\ acked \subseteq Txns
    /\ lsm \in [Keys -> SUBSET Version]
    /\ exposed \subseteq Txns

Init ==
    /\ curRead = InitTs
    /\ nextCommit = InitTs + 1
    /\ refCount = 0
    /\ commits = [k \in Keys |-> 0]
    /\ orcLock = NoTxn
    /\ writeLock = NoTxn
    /\ pc = [t \in Txns |-> "idle"]
    /\ update = [t \in Txns |-> FALSE]
    /\ readTs = [t \in Txns |-> 0]
    /\ commitTs = [t \in Txns |-> 0]
    /\ reads = [t \in Txns |-> {}]
    /\ pending = [t \in Txns |-> [k \in Keys |-> "none"]]
    /\ seen = [t \in Txns |-> [k \in Keys |-> NotRead]]
    /\ writeCh = <<>>
    /\ postLog = <<>>
    /\ acked = {}
    /\ lsm = [k \in Keys |-> {}]
    /\ exposed = {}
-----------------------------------------------------------------------------
(* Snapshots. *)

\* The timestamps of the versions of k that db.get can find at or below ts.
VisibleTs(k, ts) == {v.ts : v \in {w \in lsm[k] : w.ts <= ts}}

\* The largest element of a set of timestamps, 0 ("no version") if there is none.
Newest(S) == IF \E x \in S : \A y \in S : y <= x
             THEN CHOOSE x \in S : \A y \in S : y <= x ELSE 0

\* Mutant: the newest version is returned whatever the timestamp asked for.
DBGetUnversioned(k, ts) == Newest({v.ts : v \in lsm[k]})

\* db.get: the newest version of k at or below ts.
DBGet(k, ts) == Newest(VisibleTs(k, ts))

\* The item an iterator would return: a version that is not a delete marker.
HasItem(k, ts) == \E v \in lsm[k] : v.ts = DBGet(k, ts) /\ ~v.del

(* NewTransaction loads curRead first and registers itself (epoch guard,    *)
(* addRef) afterwards.                                                      *)
LoadReadTs(t, u) ==
    /\ pc[t] = "idle"
    /\ update' = [update EXCEPT ![t] = u]
    /\ readTs' = [readTs EXCEPT ![t] = curRead]
    /\ pc' = [pc EXCEPT ![t] = "loaded"]
    /\ UNCHANGED <<oracleVars, commitTs, reads, pending, seen, pipeVars, exposed>>

AddRef(t) ==
    /\ pc[t] = "loaded"
    /\ refCount' = IF update[t] THEN refCount + 1 ELSE refCount
    /\ pc' = [pc EXCEPT ![t] = "active"]
    /\ UNCHANGED <<curRead, nextCommit, commits, orcLock, writeLock, update,
                   readTs, commitTs, reads, pending, seen, pipeVars, exposed>>

(* Txn.Get: a key the transaction wrote is served from pendingWrites and    *)
(* not tracked; any other key is tracked (update transactions only) and     *)
(* read at readTs.                                                          *)
Get(t, k) ==
    /\ pc[t] = "active"
    /\ pending[t][k] = "none"
    /\ reads' = [reads EXCEPT ![t] = IF update[t] THEN @ \cup {k} ELSE @]
    /\ seen' = [seen EXCEPT ![t][k] = DBGet(k, readTs[t])]
    /\ UNCHANGED <<oracleVars, pc, update, readTs, commitTs, pending, pipeVars,
                   exposed>>

(* A full forward scan with Item called on every item: every key without a  *)
(* pending write is observed at readTs, but Item tracks only the keys the   *)
(* iterator returns: pending puts, and stored versions that are not deleted.*)
Scan(t) ==
    /\ pc[t] = "active"
    /\ LET stored   == Keys \ Writes(t)
           returned == {k \in Keys : pending[t][k] = "set"}
                         \cup {k \in stored : HasItem(k, readTs[t])}
       IN  /\ seen' = [seen EXCEPT ![t] =
                         [k \in Keys |-> IF k \in stored THEN DBGet(k, readTs[t])
                                                         ELSE @[k]]]
           /\ reads' = [reads EXCEPT ![t] = IF update[t] THEN @ \cup returned ELSE @]
    /\ UNCHANGED <<oracleVars, pc, update, readTs, commitTs, pending, pipeVars,
                   exposed>>

(* Txn.SetEntry and Txn.Delete through Txn.modify. *)
Modify(t, k, op) ==
    /\ pc[t] = "active"
    /\ update[t]
    /\ pending' = [pending EXCEPT ![t][k] = op]
    /\ UNCHANGED <<oracleVars, pc, update, readTs, commitTs, reads, seen,
                   pipeVars, exposed>>
-----------------------------------------------------------------------------
(* Commit. *)

\* Commit of a transaction without writes, or a call of Discard.
Abandon(t) ==
    /\ pc[t] = "active"
    /\ pc' = [pc EXCEPT ![t] = "discard"]
    /\ UNCHANGED <<oracleVars, update, readTs, commitTs, reads, pending, seen,
                   pipeVars, exposed>>

\* Commit with writes: the entries are collected, writeLock comes next.
StartCommit(t) ==
    /\ pc[t] = "active"
    /\ Writes(t) # {}
    /\ pc' = [pc EXCEPT ![t] = "commit"]
    /\ UNCHANGED <<oracleVars, update, readTs, commitTs, reads, pending, seen,
                   pipeVars, exposed>>

\* Mutant: newCommitTs and sendToWriteCh are not serialised.
LockWritesShared(t) ==
    /\ pc[t] = "commit"
    /\ writeLock' = t
    /\ pc' = [pc EXCEPT ![t] = "locked"]
    /\ UNCHANGED <<curRead, nextCommit, refCount, commits, orcLock, update,
                   readTs, commitTs, reads, pending, seen, pipeVars, exposed>>

LockWrites(t) ==
    /\ pc[t] = "commit"
    /\ writeLock = NoTxn
    /\ writeLock' = t
    /\ pc' = [pc EXCEPT ![t] = "locked"]
    /\ UNCHANGED <<curRead, nextCommit, refCount, commits, orcLock, update,
                   readTs, commitTs, reads, pending, seen, pipeVars, exposed>>

\* oracle.hasConflict; an absent fingerprint has timestamp 0 here.
HasConflict(t) == \E k \in reads[t] : commits[k] > readTs[t]

(* oracle.newCommitTs: on a conflict Commit releases writeLock and gives up; *)
(* otherwise the timestamp is taken and the written keys are stamped with it.*)
NewCommitTs(t) ==
    /\ pc[t] = "locked"
    /\ orcLock = NoTxn
    /\ IF HasConflict(t)
       THEN /\ writeLock' = NoTxn
            /\ pc' = [pc EXCEPT ![t] = "discard"]
            /\ UNCHANGED <<nextCommit, commits, commitTs>>
       ELSE /\ commitTs' = [commitTs EXCEPT ![t] = nextCommit]
            /\ nextCommit' = nextCommit + 1
            /\ commits' = [k \in Keys |-> IF k \in Writes(t) THEN nextCommit
                                                            ELSE commits[k]]
            /\ pc' = [pc EXCEPT ![t] = "stamped"]
            /\ UNCHANGED writeLock
    /\ UNCHANGED <<curRead, refCount, orcLock, update, readTs, reads, pending,
                   seen, pipeVars, exposed>>

(* sendToWriteCh, still under writeLock, then the unlock. *)
SendToWriteCh(t) ==
    /\ pc[t] = "stamped"
    /\ Len(writeCh) < ChCap
    /\ writeCh' = Append(writeCh, t)
    /\ writeLock' = NoTxn
    /\ pc' = [pc EXCEPT ![t] = "waiting"]
    /\ UNCHANGED <<curRead, nextCommit, refCount, commits, orcLock, update,
                   readTs, commitTs, reads, pending, seen, postLog, acked, lsm,
                   exposed>>

Larger(a, b) == IF a >= b THEN a ELSE b

(* req.Wait returns and doneCommit raises curRead to the commit timestamp. *)
DoneCommit(t) ==
    /\ pc[t] = "waiting"
    /\ t \in acked
    /\ curRead' = Larger(curRead, commitTs[t])
    /\ pc' = [pc EXCEPT ![t] = "discard"]
    /\ UNCHANGED <<nextCommit, refCount, commits, orcLock, writeLock, update,
                   readTs, commitTs, reads, pending, seen, pipeVars, exposed>>
-----------------------------------------------------------------------------
(* Discard and the clearing of the commits map (oracle.decrRef). *)

DecrRef(t) ==
    /\ pc[t] = "discard"
    /\ refCount' = IF update[t] THEN refCount - 1 ELSE refCount
    /\ pc' = [pc EXCEPT ![t] = IF update[t] /\ refCount = 1 THEN "zero" ELSE "done"]
    /\ UNCHANGED <<curRead, nextCommit, commits, orcLock, writeLock, update,
                   readTs, commitTs, reads, pending, seen, pipeVars, exposed>>

CommitsLen == Cardinality({k \in Keys : commits[k] # 0})

\* Mutant: refCount is not read again under the lock.
MayClearStale == CommitsLen >= MapLimit

\* refCount is read again under the lock; a small map is left alone.
MayClear == refCount = 0 /\ CommitsLen >= MapLimit

\* The lock is taken and refCount read again.
RecheckRef(t) ==
    /\ pc[t] = "zero"
    /\ orcLock = NoTxn
    /\ IF MayClear
       THEN /\ orcLock' = t
            /\ pc' = [pc EXCEPT ![t] = "clearing"]
            /\ exposed' = exposed \cup {u \in Txns : pc[u] = "loaded"}
       ELSE /\ pc' = [pc EXCEPT ![t] = "done"]
            /\ UNCHANGED <<orcLock, exposed>>
    /\ UNCHANGED <<curRead, nextCommit, refCount, commits, writeLock, update,
                   readTs, commitTs, reads, pending, seen, pipeVars>>

\* Mutant: the oracle stays locked.
ClearCommitsKeepsLock(t) ==
    /\ pc[t] = "clearing"
    /\ commits' = [k \in Keys |-> 0]
    /\ pc' = [pc EXCEPT ![t] = "done"]
    /\ UNCHANGED <<curRead, nextCommit, refCount, orcLock, writeLock, update, readTs,
                   commitTs, reads, pending, seen, pipeVars, exposed>>

ClearCommits(t) ==
    /\ pc[t] = "clearing"
    /\ commits' = [k \in Keys |-> 0]
    /\ orcLock' = NoTxn
    /\ pc' = [pc EXCEPT ![t] = "done"]
    /\ UNCHANGED <<curRead, nextCommit, refCount, writeLock, update, readTs,
                   commitTs, reads, pending, seen, pipeVars, exposed>>
-----------------------------------------------------------------------------
(* The write pipeline, reduced to its order; module WritePath has it in     *)
(* detail.                                                                  *)

InBatch(b) == {b[i] : i \in 1..Len(b)}

\* runWriteVLog takes everything queued as one batch and logs it.
WriteVLog ==
    /\ writeCh # <<>>
    /\ Len(postLog) < LogCap
    /\ postLog' = Append(postLog, writeCh)
    /\ writeCh' = <<>>
    /\ UNCHANGED <<oracleVars, txnVars, acked, lsm, exposed>>

Applied(t, k) == \E v \in lsm[k] : v.ts = commitTs[t]

Unapplied(t) == {k \in Writes(t) : ~Applied(t, k)}

(* writeLSM applies the requests of the oldest batch in order, and          *)
(* writeToLSM as many entries of one request at a time as fit the memtable. *)
WriteLSM ==
    /\ postLog # <<>>
    /\ \E i \in 1..Len(postLog[1]) :
         LET t == postLog[1][i]
         IN  /\ \A j \in 1..(i - 1) : Unapplied(postLog[1][j]) = {}
             /\ \E group \in SUBSET Unapplied(t) :
                  /\ group # {}
                  /\ lsm' = [k \in Keys |->
                       IF k \in group
                       THEN lsm[k] \cup {[ts |-> commitTs[t],
                                          del |-> pending[t][k] = "delete"]}
                       ELSE lsm[k]]
    /\ UNCHANGED <<oracleVars, txnVars, writeCh, postLog, acked, exposed>>

\* Mutant: the batch is released when its first request is applied.
BatchDoneEarly ==
    /\ postLog # <<>>
    /\ Unapplied(postLog[1][1]) = {}
    /\ acked' = acked \cup InBatch(postLog[1])
    /\ postLog' = Tail(postLog)
    /\ UNCHANGED <<oracleVars, txnVars, writeCh, lsm, exposed>>

\* writeWorker.done releases every request of the batch.
BatchDone ==
    /\ postLog # <<>>
    /\ \A t \in InBatch(postLog[1]) : Unapplied(t) = {}
    /\ acked' = acked \cup InBatch(postLog[1])
    /\ postLog' = Tail(postLog)
    /\ UNCHANGED <<oracleVars, txnVars, writeCh, lsm, exposed>>

\* Nothing is left to do once every transaction is over.
Finished ==
    /\ \A t \in Txns : pc[t] = "done"
    /\ UNCHANGED vars

-----------------------------------------------------------------------------
Begin(t)  == (\E u \in BOOLEAN : LoadReadTs(t, u)) \/ AddRef(t)

Use(t)    == \/ \E k \in Keys : Get(t, k)
             \/ Scan(t)
             \/ \E k \in Keys, op \in {"set", "delete"} : Modify(t, k, op)
             \/ Abandon(t)
             \/ StartCommit(t)

Commit(t) == LockWrites(t) \/ NewCommitTs(t) \/ SendToWriteCh(t) \/ DoneCommit(t)

Discard(t) == DecrRef(t) \/ RecheckRef(t) \/ ClearCommits(t)

Pipeline == WriteVLog \/ WriteLSM \/ BatchDone

Next ==
    \/ \E t \in Txns : Begin(t) \/ Use(t) \/ Commit(t) \/ Discard(t)
    \/ Pipeline
    \/ Finished

Spec == Init /\ [][Next]_vars

(* A goroutine inside Commit or Discard and the write workers are never     *)
(* descheduled for ever; the caller may stop using a transaction whenever   *)
(* it likes. Weak fairness is enough: each transaction takes a lock once.   *)
FairSpec ==
    /\ Spec
    /\ \A t \in Txns : WF_vars(Commit(t)) /\ WF_vars(Discard(t))
    /\ WF_vars(Pipeline)
-----------------------------------------------------------------------------
(* Properties. *)

Committed(k) == {t \in Txns : Stamped(t) /\ k \in Writes(t)}

(* Snapshot isolation: what a transaction observed of a key is the newest   *)
(* version committed at or below its readTs, whichever commits were in      *)
(* flight when it began or have finished since. curRead may only pass a     *)
(* commit timestamp when that transaction and all before it are in the LSM  *)
(* tree (Txn.Get at readTs, doneCommit after req.Wait).                     *)
SnapshotConsistent ==
    \A t \in Txns, k \in Keys :
        seen[t][k] # NotRead =>
            seen[t][k] = Newest({commitTs[u] : u \in
                                   {w \in Committed(k) : commitTs[w] <= readTs[t]}})

(* Conflict detection: no key a committed transaction tracked was written   *)
(* by another one committed between its readTs and its own commit timestamp *)
(* (oracle.hasConflict against the commits map), although decrRef clears    *)
(* the map. Transactions caught between loading readTs and addRef by a      *)
(* clearing are excepted.                                                   *)
ReadsProtected(t) ==
    \A k \in reads[t] : \A u \in Committed(k) \ {t} :
        ~(readTs[t] < commitTs[u] /\ commitTs[u] < commitTs[t])

TrackedReadsProtected ==
    \A t \in Txns \ exposed : Stamped(t) => ReadsProtected(t)

(* A transaction that begins after Commit returned sees that commit: once   *)
(* DoneCommit is past, curRead covers the timestamp and every write of the  *)
(* transactions it covers is in the LSM tree.                               *)
CommittedVisible ==
    \A t \in Txns : Stamped(t) =>
        /\ pc[t] \in {"discard", "zero", "clearing", "done"} => commitTs[t] <= curRead
        /\ commitTs[t] <= curRead => Unapplied(t) = {}

(* "We should never write an entry with an older timestamp for the same     *)
(* key" (DB.get): a lookup stops at the first table holding the key, which  *)
(* is right only if the versions of a key reach the LSM tree in increasing  *)
(* order; writeLock around newCommitTs and sendToWriteCh sees to it.        *)
NewerVersionsOnly ==
    [][\A k \in Keys : \A v \in lsm'[k] \ lsm[k] : \A w \in lsm[k] : v.ts > w.ts]_vars

(* A Commit that was called returns, whatever the other transactions do:    *)
(* nobody waits for writeLock, the oracle or a full channel for ever.       *)
CommitTerminates ==
    \A t \in Txns : pc[t] = "commit" ~> pc[t] = "done"
=============================================================================
