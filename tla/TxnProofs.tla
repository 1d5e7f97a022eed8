----------------------------- MODULE TxnProofs ------------------------------
(***************************************************************************)
(* Proofs about Txn, for any number of transactions and keys, any size of  *)
(* the commits map and any channel capacities: types and the reference     *)
(* count, conflict detection, snapshot isolation with the visibility of    *)
(* finished commits, and the order in which the versions of a key reach    *)
(* the LSM tree.                                                           *)
(***************************************************************************)
EXTENDS Txn, TLAPS, FiniteSetTheorems

-----------------------------------------------------------------------------
(* Types and the reference count. *)

\* The transactions that hold a reference on the oracle.
Holders == {t \in Txns : update[t] /\ pc[t] \in {"active", "commit", "locked",
                                                "stamped", "waiting", "discard"}}

RefInv == refCount = Cardinality(Holders)

TypeInv == TypeOK /\ RefInv

\* What lies above a natural number is not zero.
LEMMA AboveIsPositive == \A m, n \in Nat : m > n => m # 0
OBVIOUS

\* What Append does to a sequence.
LEMMA LongerBatch ==
    ASSUME NEW S, NEW s \in Seq(S), NEW x \in S
    PROVE  /\ Len(s) \in Nat /\ Len(Append(s, x)) = Len(s) + 1
           /\ \A i \in 1..Len(s) : Append(s, x)[i] = s[i]
           /\ Append(s, x)[Len(s) + 1] = x
OBVIOUS

\* Members of a sequence, positions in it, and the empty one.
LEMMA MemberOf ==
    ASSUME NEW S, NEW s \in Seq(S), NEW i \in 1..Len(s)
    PROVE  s[i] \in S
OBVIOUS

LEMMA EarlierIn ==
    ASSUME NEW S, NEW s \in Seq(S), NEW i \in 1..Len(s), NEW j \in 1..(i - 1)
    PROVE  j \in 1..Len(s)
OBVIOUS

LEMMA NothingIn ==
    ASSUME NEW i \in 1..Len(<<>>)
    PROVE  FALSE
OBVIOUS

LEMMA VersionTs ==
    ASSUME NEW a, NEW b
    PROVE  [ts |-> a, del |-> b].ts = a
OBVIOUS

\* Holders is finite, whatever state it is evaluated in.
LEMMA HoldersFinite == IsFiniteSet(Holders)
<1>1. Holders \subseteq Txns
  BY DEF Holders
<1> QED
  BY <1>1, TxnAssumption, FS_Subset

\* A set and the set with one element added or removed.
LEMMA AddOne ==
    ASSUME NEW S, IsFiniteSet(S), NEW x, x \notin S
    PROVE  Cardinality(S \cup {x}) = Cardinality(S) + 1
BY FS_AddElement

LEMMA RemoveOne ==
    ASSUME NEW S, IsFiniteSet(S), NEW x \in S
    PROVE  /\ Cardinality(S) \in Nat \ {0}
           /\ Cardinality(S \ {x}) = Cardinality(S) - 1
<1>1. IsFiniteSet(S \ {x}) /\ x \notin S \ {x} /\ (S \ {x}) \cup {x} = S
  BY FS_RemoveElement
<1>2. Cardinality(S) = Cardinality(S \ {x}) + 1
  BY <1>1, FS_AddElement
<1> QED
  BY <1>1, <1>2, FS_CardinalityType

\* What Get and Scan observe is a timestamp.
LEMMA DBGetType ==
    ASSUME TypeOK, NEW k \in Keys, NEW ts \in Ts
    PROVE  DBGet(k, ts) \in Ts
<1>1. VisibleTs(k, ts) \subseteq Ts
  BY DEF VisibleTs, TypeOK, Version, Ts
<1> QED
  BY <1>1 DEF DBGet, Newest, Ts

LEMMA InitTypeInv == Init => TypeInv
<1> SUFFICES ASSUME Init PROVE TypeInv
  OBVIOUS
<1>1. TypeOK
  BY TxnAssumption DEF Init, TypeOK, Ts, PC, NotRead, Version
<1>2. Holders = {}
  BY DEF Init, Holders
<1> QED
  BY <1>1, <1>2, FS_EmptySet DEF TypeInv, RefInv, Init

LEMMA TypeOKStep == TypeInv /\ [Next]_vars => TypeOK'
<1> SUFFICES ASSUME TypeInv, [Next]_vars PROVE TypeOK'
  OBVIOUS
<1> USE TxnAssumption DEF TypeInv
<1>1. ASSUME NEW t \in Txns, NEW u \in BOOLEAN, LoadReadTs(t, u) PROVE TypeOK'
  BY <1>1 DEF TypeOK, LoadReadTs, oracleVars, pipeVars, Ts, PC
<1>2. ASSUME NEW t \in Txns, AddRef(t) PROVE TypeOK'
  BY <1>2 DEF TypeOK, AddRef, pipeVars, PC
<1>3. ASSUME NEW t \in Txns, NEW k \in Keys, Get(t, k) PROVE TypeOK'
  <2>1. DBGet(k, readTs[t]) \in Ts
    BY DBGetType DEF TypeOK
  <2> QED
    BY <1>3, <2>1 DEF TypeOK, Get, oracleVars, pipeVars
<1>4. ASSUME NEW t \in Txns, Scan(t) PROVE TypeOK'
  <2>1. \A k \in Keys : DBGet(k, readTs[t]) \in Ts
    BY DBGetType DEF TypeOK
  <2>2. seen' \in [Txns -> [Keys -> Ts \cup {NotRead}]]
    BY <1>4, <2>1 DEF TypeOK, Scan
  <2>3. reads' \in [Txns -> SUBSET Keys]
    BY <1>4 DEF TypeOK, Scan
  <2> QED
    BY <1>4, <2>2, <2>3 DEF TypeOK, Scan, oracleVars, pipeVars
<1>5. ASSUME NEW t \in Txns, NEW k \in Keys, NEW op \in {"set", "delete"}, Modify(t, k, op)
      PROVE  TypeOK'
  BY <1>5 DEF TypeOK, Modify, oracleVars, pipeVars
<1>6. ASSUME NEW t \in Txns, Abandon(t) \/ StartCommit(t) PROVE TypeOK'
  BY Zenon, <1>6 DEF TypeOK, Abandon, StartCommit, oracleVars, pipeVars, PC
<1>7. ASSUME NEW t \in Txns, LockWrites(t) PROVE TypeOK'
  BY <1>7 DEF TypeOK, LockWrites, pipeVars, PC
<1>8. ASSUME NEW t \in Txns, NewCommitTs(t) PROVE TypeOK'
  <2>1. CASE HasConflict(t)
    BY Zenon, <1>8, <2>1 DEF TypeOK, NewCommitTs, pipeVars, PC
  <2>2. CASE ~HasConflict(t)
    <3> DEFINE W == Writes(t)
    <3> HIDE DEF W
    <3>0. /\ commits' = [k \in Keys |-> IF k \in W THEN nextCommit ELSE commits[k]]
          /\ commitTs' = [commitTs EXCEPT ![t] = nextCommit]
          /\ nextCommit' = nextCommit + 1
      BY <1>8, <2>2 DEF NewCommitTs, W
    <3>1. /\ commits' \in [Keys -> Ts]
          /\ commitTs' \in [Txns -> Ts]
          /\ nextCommit' \in Ts \ {0}
      BY <3>0 DEF TypeOK, Ts
    <3>2. UNCHANGED <<curRead, refCount, orcLock, writeLock, update, readTs, reads,
                      pending, seen, pipeVars, exposed>>
      BY <1>8, <2>2 DEF NewCommitTs
    <3>3. pc' \in [Txns -> PC]
      BY Zenon, <1>8, <2>2 DEF TypeOK, NewCommitTs, PC
    <3> QED
      BY <3>1, <3>2, <3>3 DEF TypeOK, pipeVars
  <2> QED
    BY <2>1, <2>2
<1>9. ASSUME NEW t \in Txns, SendToWriteCh(t) PROVE TypeOK'
  BY <1>9 DEF TypeOK, SendToWriteCh, PC
<1>10. ASSUME NEW t \in Txns, DoneCommit(t) PROVE TypeOK'
  BY <1>10 DEF TypeOK, DoneCommit, pipeVars, PC, Larger
<1>11. ASSUME NEW t \in Txns, DecrRef(t) PROVE TypeOK'
  <2>1. update[t] => t \in Holders
    BY <1>11 DEF DecrRef, Holders
  <2>2. update[t] => refCount \in Nat \ {0}
    BY Zenon, <2>1, HoldersFinite, RemoveOne DEF RefInv
  <2> QED
    BY <1>11, <2>2 DEF TypeOK, DecrRef, pipeVars, PC
<1>12. ASSUME NEW t \in Txns, RecheckRef(t) PROVE TypeOK'
  BY Zenon, <1>12 DEF TypeOK, RecheckRef, pipeVars, PC
<1>13. ASSUME NEW t \in Txns, ClearCommits(t) PROVE TypeOK'
  BY <1>13 DEF TypeOK, ClearCommits, pipeVars, PC, Ts
<1>14. CASE WriteVLog
  BY <1>14 DEF TypeOK, WriteVLog, oracleVars, txnVars
<1>15. CASE WriteLSM
  <2>1. PICK i \in 1..Len(postLog[1]) :
          \E group \in SUBSET Unapplied(postLog[1][i]) :
            lsm' = [k \in Keys |->
                      IF k \in group
                      THEN lsm[k] \cup {[ts |-> commitTs[postLog[1][i]],
                                         del |-> pending[postLog[1][i]][k] = "delete"]}
                      ELSE lsm[k]]
    BY Zenon, <1>15 DEF WriteLSM
  <2>2. postLog[1][i] \in Txns
    BY <1>15 DEF WriteLSM, TypeOK
  <2>3. \A k \in Keys : [ts |-> commitTs[postLog[1][i]],
                         del |-> pending[postLog[1][i]][k] = "delete"] \in Version
    <3>1. \A k \in Keys : (pending[postLog[1][i]][k] = "delete") \in BOOLEAN
      OBVIOUS
    <3>2. commitTs[postLog[1][i]] \in Ts
      BY <2>2 DEF TypeOK
    <3> QED
      BY <3>1, <3>2, Zenon DEF Version
  <2>4. lsm' \in [Keys -> SUBSET Version]
    BY <2>1, <2>3 DEF TypeOK
  <2> QED
    BY <1>15, <2>4 DEF TypeOK, WriteLSM, oracleVars, txnVars
<1>16. CASE BatchDone
  BY <1>16 DEF TypeOK, BatchDone, oracleVars, txnVars, InBatch
<1>17. CASE UNCHANGED vars
  BY <1>17 DEF TypeOK, vars, oracleVars, txnVars, pipeVars
<1> QED
  BY <1>1, <1>2, <1>3, <1>4, <1>5, <1>6, <1>7, <1>8, <1>9, <1>10, <1>11, <1>12,
     <1>13, <1>14, <1>15, <1>16, <1>17
     DEF Next, Begin, Use, Commit, Discard, Pipeline, Finished

\* No other step moves a transaction into or out of Holders.
LEMMA RefInvStep == TypeInv /\ [Next]_vars => RefInv'
<1> SUFFICES ASSUME TypeInv, [Next]_vars PROVE RefInv'
  OBVIOUS
<1> USE DEF TypeInv, RefInv
<1>1. ASSUME NEW t \in Txns, AddRef(t) PROVE RefInv'
  <2>1. CASE update[t]
    <3>1. Holders' = Holders \cup {t} /\ t \notin Holders
      BY <1>1, <2>1 DEF AddRef, Holders, TypeOK
    <3> QED
      BY <1>1, <2>1, <3>1, HoldersFinite, AddOne DEF AddRef
  <2>2. CASE ~update[t]
    <3>1. Holders' = Holders
      BY <1>1, <2>2 DEF AddRef, Holders, TypeOK
    <3> QED
      BY <1>1, <2>2, <3>1 DEF AddRef
  <2> QED
    BY <2>1, <2>2
<1>2. ASSUME NEW t \in Txns, DecrRef(t) PROVE RefInv'
  <2>1. CASE update[t]
    <3>1. Holders' = Holders \ {t} /\ t \in Holders
      BY <1>2, <2>1 DEF DecrRef, Holders, TypeOK
    <3> QED
      BY <1>2, <2>1, <3>1, HoldersFinite, RemoveOne DEF DecrRef
  <2>2. CASE ~update[t]
    <3>1. Holders' = Holders
      BY <1>2, <2>2 DEF DecrRef, Holders, TypeOK
    <3> QED
      BY <1>2, <2>2, <3>1 DEF DecrRef
  <2> QED
    BY <2>1, <2>2
<1>3. ASSUME NEW t \in Txns, NEW u \in BOOLEAN, LoadReadTs(t, u) PROVE RefInv'
  <2>1. Holders' = Holders
    BY <1>3 DEF LoadReadTs, Holders, TypeOK
  <2> QED
    BY <1>3, <2>1 DEF LoadReadTs, oracleVars
<1>4. ASSUME NEW t \in Txns,
             \/ \E k \in Keys : Get(t, k)
             \/ Scan(t)
             \/ \E k \in Keys, op \in {"set", "delete"} : Modify(t, k, op)
      PROVE  RefInv'
  <2>1. UNCHANGED <<pc, update, refCount>>
    BY <1>4 DEF Get, Scan, Modify, oracleVars
  <2> QED
    BY <2>1 DEF Holders
<1>5. ASSUME NEW t \in Txns,
             \/ Abandon(t) \/ StartCommit(t) \/ LockWrites(t) \/ NewCommitTs(t)
             \/ SendToWriteCh(t) \/ DoneCommit(t)
      PROVE  RefInv'
  <2>1. PICK p \in {"commit", "locked", "stamped", "waiting", "discard"} :
          pc' = [pc EXCEPT ![t] = p]
    BY <1>5 DEF Abandon, StartCommit, LockWrites, NewCommitTs, SendToWriteCh, DoneCommit
  <2>2. pc[t] \in {"active", "commit", "locked", "stamped", "waiting"}
    BY <1>5 DEF Abandon, StartCommit, LockWrites, NewCommitTs, SendToWriteCh, DoneCommit
  <2>3. UNCHANGED <<update, refCount>>
    BY <1>5 DEF Abandon, StartCommit, LockWrites, NewCommitTs, SendToWriteCh,
               DoneCommit, oracleVars
  <2>4. Holders' = Holders
    BY <2>1, <2>2, <2>3 DEF Holders, TypeOK
  <2> QED
    BY <2>3, <2>4
<1>6. ASSUME NEW t \in Txns, RecheckRef(t) \/ ClearCommits(t) PROVE RefInv'
  <2>1. PICK p \in {"clearing", "done"} : pc' = [pc EXCEPT ![t] = p]
    BY <1>6 DEF RecheckRef, ClearCommits
  <2>2. Holders' = Holders
    BY <1>6, <2>1 DEF RecheckRef, ClearCommits, Holders, TypeOK
  <2> QED
    BY <1>6, <2>2 DEF RecheckRef, ClearCommits
<1>7. CASE Pipeline \/ UNCHANGED vars
  <2>1. UNCHANGED <<pc, update, refCount>>
    BY <1>7 DEF Pipeline, WriteVLog, WriteLSM, BatchDone, oracleVars, txnVars, vars
  <2> QED
    BY <2>1 DEF Holders
<1> QED
  BY <1>1, <1>2, <1>3, <1>4, <1>5, <1>6, <1>7
     DEF Next, Begin, Use, Commit, Discard, Finished

(* Type correctness: in particular oracle.refCount never goes negative, and *)
(* it counts exactly the update transactions between addRef and decrRef.    *)
THEOREM TypeCorrect == Spec => [](TypeOK /\ RefInv)
<1>1. TypeInv /\ [Next]_vars => TypeInv'
  BY TypeOKStep, RefInvStep DEF TypeInv
<1> QED
  BY <1>1, InitTypeInv, PTL DEF Spec, TypeInv

-----------------------------------------------------------------------------
(***************************************************************************)
(* Conflict detection for any number of transactions and keys, any size of *)
(* the commits map and any channel capacities.                             *)
(***************************************************************************)

(* Timestamps and program points. *)

Begun == {"active", "commit", "locked", "stamped", "waiting", "discard", "zero",
          "clearing", "done"}

NoStamp == {"idle", "loaded", "active", "commit", "locked"}

Ended == {"discard", "zero", "clearing", "done"}

(* Timestamps are handed out once and in order, curRead stays behind        *)
(* nextCommit, and a transaction has one exactly when Commit got past       *)
(* newCommitTs; a commit that is over is covered by curRead.                *)
TsInv ==
    /\ curRead < nextCommit
    /\ \A t \in Txns :
         /\ commitTs[t] < nextCommit
         /\ readTs[t] <= curRead
         /\ pc[t] \in NoStamp => commitTs[t] = 0
         /\ pc[t] \in {"stamped", "waiting"} => commitTs[t] # 0
         /\ Writes(t) # {} => update[t] /\ pc[t] \in Begun
         /\ pc[t] \in {"commit", "locked"} => Writes(t) # {}
         /\ commitTs[t] # 0 => update[t]
         /\ commitTs[t] # 0 /\ pc[t] \in Ended => commitTs[t] <= curRead
         /\ pc[t] \in {"idle", "loaded"} => seen[t] = [k \in Keys |-> NotRead]
    /\ \A t, u \in Txns : commitTs[t] = commitTs[u] /\ commitTs[t] # 0 => t = u

LEMMA InitTsInv == Init => TsInv
BY TxnAssumption DEF Init, TsInv, NoStamp, Begun, Ended, Writes

LEMMA TsInvStep == TypeOK /\ TsInv /\ [Next]_vars => TsInv'
<1> SUFFICES ASSUME TypeOK, TsInv, [Next]_vars PROVE TsInv'
  OBVIOUS
<1> USE DEF TsInv, NoStamp, Begun, Ended, Writes, Ts
<1>1. ASSUME NEW t \in Txns, NEW u \in BOOLEAN, LoadReadTs(t, u) PROVE TsInv'
  BY <1>1 DEF TypeOK, LoadReadTs, oracleVars
<1>2. ASSUME NEW t \in Txns, AddRef(t) PROVE TsInv'
  BY <1>2 DEF TypeOK, AddRef
<1>3. ASSUME NEW t \in Txns, NEW k \in Keys, Get(t, k) PROVE TsInv'
  BY <1>3 DEF TypeOK, Get, oracleVars
<1>4. ASSUME NEW t \in Txns, Scan(t) PROVE TsInv'
  <2>1. \A u \in Txns : u # t => seen'[u] = seen[u]
    BY <1>4 DEF TypeOK, Scan
  <2> QED
    BY <1>4, <2>1 DEF TypeOK, Scan, oracleVars
<1>5. ASSUME NEW t \in Txns, NEW k \in Keys, NEW op \in {"set", "delete"}, Modify(t, k, op)
      PROVE  TsInv'
  BY <1>5 DEF TypeOK, Modify, oracleVars
<1>6. ASSUME NEW t \in Txns, Abandon(t) PROVE TsInv'
  BY <1>6 DEF TypeOK, Abandon, oracleVars
<1>7. ASSUME NEW t \in Txns, StartCommit(t) PROVE TsInv'
  BY <1>7 DEF TypeOK, StartCommit, oracleVars
<1>8. ASSUME NEW t \in Txns, LockWrites(t) PROVE TsInv'
  BY <1>8 DEF TypeOK, LockWrites
<1>9. ASSUME NEW t \in Txns, NewCommitTs(t) PROVE TsInv'
  <2>1. CASE HasConflict(t)
    BY <1>9, <2>1 DEF TypeOK, NewCommitTs
  <2>2. CASE ~HasConflict(t)
    <3>1. /\ pc[t] = "locked"
          /\ pc' = [pc EXCEPT ![t] = "stamped"]
          /\ commitTs' = [commitTs EXCEPT ![t] = nextCommit]
          /\ nextCommit' = nextCommit + 1
          /\ UNCHANGED <<curRead, update, readTs, pending, seen>>
      BY <1>9, <2>2 DEF NewCommitTs
    <3>2. /\ curRead \in Nat /\ nextCommit \in Nat /\ nextCommit # 0
          /\ \A u \in Txns : commitTs[u] \in Nat /\ commitTs[u] < nextCommit
          /\ commitTs'[t] = nextCommit /\ pc'[t] = "stamped"
          /\ \A u \in Txns : u # t => commitTs'[u] = commitTs[u] /\ pc'[u] = pc[u]
      BY <3>1 DEF TypeOK
    <3>3. \A u, v \in Txns : commitTs'[u] = commitTs'[v] /\ commitTs'[u] # 0 => u = v
      BY <3>2
    <3>4. Writes(t) # {} /\ update[t]
      BY <3>1
    <3> QED
      BY <3>1, <3>2, <3>3, <3>4
  <2> QED
    BY Zenon, <2>1, <2>2
<1>10. ASSUME NEW t \in Txns, SendToWriteCh(t) PROVE TsInv'
  BY <1>10 DEF TypeOK, SendToWriteCh
<1>11. ASSUME NEW t \in Txns, DoneCommit(t) PROVE TsInv'
  BY <1>11 DEF TypeOK, DoneCommit, Larger
<1>12. ASSUME NEW t \in Txns, DecrRef(t) PROVE TsInv'
  BY <1>12 DEF TypeOK, DecrRef
<1>13. ASSUME NEW t \in Txns, RecheckRef(t) \/ ClearCommits(t) PROVE TsInv'
  <2>1. /\ pc[t] \in {"zero", "clearing"}
        /\ \E p \in {"clearing", "done"} : pc' = [pc EXCEPT ![t] = p]
        /\ UNCHANGED <<curRead, nextCommit, update, readTs, commitTs, pending, seen>>
    BY <1>13 DEF RecheckRef, ClearCommits
  <2> QED
    BY <2>1 DEF TypeOK
<1>14. CASE Pipeline \/ UNCHANGED vars
  BY <1>14 DEF Pipeline, WriteVLog, WriteLSM, BatchDone, oracleVars, txnVars, vars
<1> QED
  BY Zenon, <1>1, <1>2, <1>3, <1>4, <1>5, <1>6, <1>7, <1>8, <1>9, <1>10, <1>11, <1>12,
     <1>13, <1>14 DEF Next, Begin, Use, Commit, Discard, Finished
-----------------------------------------------------------------------------
(* Conflict detection. *)

\* Transactions that may still run hasConflict and rely on the commits map.
Live(t) == t \notin exposed /\ update[t] /\ pc[t] \in {"loaded", "active", "commit", "locked"}

(* The map knows every commit some transaction may have to be told of: the  *)
(* ones after curRead, for transactions to come, and the ones after its     *)
(* readTs for every live transaction. While the map is being cleared there  *)
(* is no such commit.                                                       *)
MapInv ==
    /\ \A u \in Txns : \A k \in Writes(u) :
         commitTs[u] > curRead => commits[k] >= commitTs[u]
    /\ \A t, u \in Txns : \A k \in Writes(u) :
         Live(t) /\ commitTs[u] > readTs[t] => commits[k] >= commitTs[u]
    /\ \A c \in Txns : pc[c] = "clearing" =>
         /\ orcLock = c
         /\ \A u \in Txns : /\ commitTs[u] <= curRead
                            /\ \A t \in Txns : Live(t) => commitTs[u] <= readTs[t]
    /\ TrackedReadsProtected

LEMMA InitMapInv == Init => MapInv
BY TxnAssumption DEF Init, MapInv, Live, Writes, TrackedReadsProtected, Stamped

\* Steps that leave the map, the oracle's mutex and all timestamps alone.
LEMMA MapFrame ==
    ASSUME TypeOK, TsInv, MapInv,
           UNCHANGED <<commits, orcLock, commitTs, readTs, update, exposed>>,
           curRead' \in Nat, curRead' >= curRead,
           \A t \in Txns : /\ pc'[t] = "clearing" => pc[t] = "clearing"
                           /\ Live(t)' => Live(t)
                           /\ commitTs[t] # 0 => /\ Writes(t)' = Writes(t)
                                                 /\ reads'[t] = reads[t]
    PROVE  MapInv'
<1> USE DEF MapInv, Ts
<1>1. \A u \in Txns : \A k \in Writes(u)' : commitTs[u] > curRead' => commits[k] >= commitTs[u]
  <2> SUFFICES ASSUME NEW u \in Txns, NEW k \in Writes(u)', commitTs[u] > curRead'
               PROVE  commits[k] >= commitTs[u]
    BY Zenon
  <2>1. commitTs[u] \in Nat /\ curRead \in Nat
    BY DEF TypeOK
  <2>2. commitTs[u] # 0 /\ commitTs[u] > curRead
    BY <2>1
  <2>3. k \in Writes(u)
    BY <2>2
  <2> QED
    BY Zenon, <2>2, <2>3
<1>2. \A t, u \in Txns : \A k \in Writes(u)' :
        Live(t)' /\ commitTs[u] > readTs[t] => commits[k] >= commitTs[u]
  <2> SUFFICES ASSUME NEW t \in Txns, NEW u \in Txns, NEW k \in Writes(u)',
                      Live(t)', commitTs[u] > readTs[t]
               PROVE  commits[k] >= commitTs[u]
    OBVIOUS
  <2>1. commitTs[u] \in Nat /\ readTs[t] \in Nat
    BY DEF TypeOK
  <2>2. commitTs[u] # 0
    BY Zenon, <2>1, AboveIsPositive
  <2>3. k \in Writes(u) /\ Live(t)
    BY Zenon, <2>2
  <2> QED
    BY <2>3
<1>3. \A c \in Txns : pc'[c] = "clearing" =>
         /\ orcLock = c
         /\ \A u \in Txns : /\ commitTs[u] <= curRead'
                            /\ \A t \in Txns : Live(t)' => commitTs[u] <= readTs[t]
  BY DEF TypeOK
<1>4. TrackedReadsProtected'
  BY DEF TrackedReadsProtected, ReadsProtected, Committed, Stamped, TypeOK
<1> QED
  BY Zenon, <1>1, <1>2, <1>3, <1>4

\* A transaction that begins finds all later commits in the map.
LEMMA MapLoadReadTs ==
    ASSUME TypeOK, TsInv, MapInv, NEW t \in Txns, NEW b \in BOOLEAN, LoadReadTs(t, b)
    PROVE  MapInv'
<1> USE DEF MapInv, Ts
<1>1. /\ UNCHANGED <<commits, orcLock, commitTs, curRead, exposed, pending, reads>>
      /\ pc' = [pc EXCEPT ![t] = "loaded"] /\ pc[t] = "idle"
      /\ readTs' = [readTs EXCEPT ![t] = curRead]
      /\ \A x \in Txns : x # t => update'[x] = update[x]
  BY DEF LoadReadTs, oracleVars, TypeOK
<1>2. \A x \in Txns : Writes(x)' = Writes(x)
  BY <1>1 DEF Writes
<1>3. \A x \in Txns : x # t => (Live(x)' => Live(x)) /\ readTs'[x] = readTs[x]
  BY <1>1 DEF Live, TypeOK
<1>4. readTs'[t] = curRead
  BY <1>1 DEF TypeOK
<1>5. \A x, u \in Txns : \A k \in Writes(u) :
        Live(x)' /\ commitTs[u] > readTs'[x] => commits[k] >= commitTs[u]
  BY <1>3, <1>4
<1>6. \A c \in Txns : pc'[c] = "clearing" =>
         /\ orcLock = c
         /\ \A u \in Txns : /\ commitTs[u] <= curRead
                            /\ \A x \in Txns : Live(x)' => commitTs[u] <= readTs'[x]
  BY <1>1, <1>3, <1>4 DEF TypeOK
<1>7. commitTs[t] = 0
  BY <1>1 DEF TsInv, NoStamp
<1>8. TrackedReadsProtected'
  BY <1>1, <1>2, <1>3, <1>7 DEF TrackedReadsProtected, ReadsProtected, Committed, Stamped
<1> QED
  BY Zenon, <1>1, <1>2, <1>5, <1>6, <1>8

\* hasConflict found nothing, so the map vouches for every tracked key.
LEMMA MapNewCommitTs ==
    ASSUME TypeOK, TsInv, MapInv, NEW t \in Txns, NewCommitTs(t), ~HasConflict(t)
    PROVE  MapInv'
<1> USE DEF MapInv, Ts
<1>1. /\ UNCHANGED <<orcLock, curRead, readTs, update, exposed, pending, reads>>
      /\ pc' = [pc EXCEPT ![t] = "stamped"] /\ pc[t] = "locked"
      /\ commitTs' = [commitTs EXCEPT ![t] = nextCommit]
      /\ orcLock = NoTxn
  BY DEF NewCommitTs
<1>2. \A k \in Keys : commits'[k] = IF k \in Writes(t) THEN nextCommit ELSE commits[k]
  BY DEF NewCommitTs
<1>3. \A x \in Txns : Writes(x)' = Writes(x) /\ Writes(x) \subseteq Keys
  BY <1>1 DEF Writes
<1>4. \A x \in Txns : /\ x # t => commitTs'[x] = commitTs[x]
                      /\ commitTs[x] < nextCommit
                      /\ commitTs[x] \in Nat /\ readTs[x] \in Nat
                      /\ Live(x)' => Live(x)
  BY <1>1 DEF TypeOK, TsInv, Live
<1>5. commitTs'[t] = nextCommit /\ commitTs[t] = 0 /\ Live(t) = (t \notin exposed)
  BY <1>1 DEF TypeOK, TsInv, NoStamp, Live
<1>6. nextCommit \in Nat /\ curRead \in Nat /\ \A k \in Keys : commits[k] \in Nat
  BY DEF TypeOK
<1>7. \A u \in Txns : \A k \in Writes(u) :
        commitTs'[u] > curRead => commits'[k] >= commitTs'[u]
  BY <1>2, <1>3, <1>4, <1>5, <1>6
<1>8. \A x, u \in Txns : \A k \in Writes(u) :
        Live(x)' /\ commitTs'[u] > readTs[x] => commits'[k] >= commitTs'[u]
  BY <1>2, <1>3, <1>4, <1>5, <1>6
<1>9. \A c \in Txns : pc'[c] # "clearing"
  BY <1>1, TxnAssumption DEF TypeOK
<1>10. TrackedReadsProtected'
  <2> SUFFICES ASSUME NEW x \in Txns, x \notin exposed, commitTs'[x] # 0,
                      NEW k \in reads[x], NEW u \in Txns, u # x,
                      commitTs'[u] # 0, k \in Writes(u),
                      readTs[x] < commitTs'[u], commitTs'[u] < commitTs'[x]
               PROVE  FALSE
    BY <1>1, <1>3 DEF TrackedReadsProtected, ReadsProtected, Committed, Stamped
  <2>1. u # t
    BY <1>4, <1>5, <1>6
  <2>2. CASE x = t
    <3>1. commits[k] >= commitTs[u] /\ commitTs[u] > readTs[t]
      BY Zenon, <2>1, <2>2, <1>4, <1>5
    <3>2. commits[k] <= readTs[t]
      BY <2>2, <1>3, <1>4, <1>6 DEF HasConflict
    <3>3. k \in Keys
      BY <1>3
    <3> QED
      BY <3>1, <3>2, <3>3, <1>4, <1>6
  <2>3. CASE x # t
    BY <2>1, <2>3, <1>4 DEF TrackedReadsProtected, ReadsProtected, Committed, Stamped
  <2> QED
    BY Zenon, <2>2, <2>3
<1> QED
  BY Zenon, <1>1, <1>3, <1>7, <1>8, <1>9, <1>10

(* With no reference left every commit is over, so below curRead, and the   *)
(* only transactions that have begun are the exposed ones.                  *)
LEMMA MapRecheckRef ==
    ASSUME TypeInv, TsInv, MapInv, NEW t \in Txns, RecheckRef(t), MayClear
    PROVE  MapInv'
<1> USE DEF MapInv, Ts, TypeInv
<1>1. /\ UNCHANGED <<commits, curRead, commitTs, readTs, update, pending, reads>>
      /\ pc' = [pc EXCEPT ![t] = "clearing"] /\ pc[t] = "zero"
      /\ orcLock' = t /\ orcLock = NoTxn
      /\ exposed' = exposed \cup {u \in Txns : pc[u] = "loaded"}
  BY Zenon DEF RecheckRef
<1>2. Holders = {}
  BY Zenon, HoldersFinite, FS_EmptySet DEF RefInv, MayClear
<1>3. \A x \in Txns : ~Live(x)'
  BY <1>1, <1>2 DEF Live, Holders, TypeOK
<1>4. \A u \in Txns : commitTs[u] <= curRead
  <2> SUFFICES ASSUME NEW u \in Txns, commitTs[u] # 0 PROVE commitTs[u] <= curRead
    BY DEF TypeOK
  <2>1. pc[u] \in Ended
    BY <1>2 DEF TsInv, Holders, NoStamp, Ended, TypeOK, PC
  <2> QED
    BY <2>1 DEF TsInv
<1>5. \A c \in Txns : pc'[c] = "clearing" => c = t
  BY <1>1, TxnAssumption DEF TypeOK
<1>6. \A x \in Txns : Writes(x)' = Writes(x)
  BY <1>1 DEF Writes
<1>7. TrackedReadsProtected'
  BY <1>1, <1>6 DEF TrackedReadsProtected, ReadsProtected, Committed, Stamped
<1>8. \A c \in Txns : pc'[c] = "clearing" =>
         /\ orcLock' = c
         /\ \A u \in Txns : /\ commitTs'[u] <= curRead'
                            /\ \A x \in Txns : Live(x)' => commitTs'[u] <= readTs'[x]
  BY Zenon, <1>1, <1>3, <1>4, <1>5
<1>9. \A u \in Txns : \A k \in Writes(u)' : commitTs'[u] > curRead' => commits'[k] >= commitTs'[u]
  BY <1>1, <1>6
<1>10. \A x, u \in Txns : \A k \in Writes(u)' :
         Live(x)' /\ commitTs'[u] > readTs'[x] => commits'[k] >= commitTs'[u]
  BY <1>3
<1> QED
  BY <1>7, <1>8, <1>9, <1>10

\* Nobody needs what the map forgets.
LEMMA MapClearCommits ==
    ASSUME TypeOK, TsInv, MapInv, NEW t \in Txns, ClearCommits(t)
    PROVE  MapInv'
<1> USE DEF MapInv, Ts
<1>1. /\ UNCHANGED <<curRead, commitTs, readTs, update, pending, reads, exposed>>
      /\ pc' = [pc EXCEPT ![t] = "done"] /\ pc[t] = "clearing"
  BY DEF ClearCommits
<1>2. \A x \in Txns : /\ Writes(x)' = Writes(x)
                      /\ Live(x)' => Live(x)
  BY <1>1 DEF Writes, Live, TypeOK
<1>3. \A u \in Txns : /\ commitTs[u] <= curRead
                      /\ \A x \in Txns : Live(x)' => commitTs[u] <= readTs[x]
  BY Zenon, <1>1, <1>2
<1>4. \A c \in Txns : pc'[c] # "clearing"
  BY <1>1 DEF TypeOK
<1>5. TrackedReadsProtected'
  BY <1>1, <1>2 DEF TrackedReadsProtected, ReadsProtected, Committed, Stamped
<1>6. curRead \in Nat /\ \A x \in Txns : commitTs[x] \in Nat /\ readTs[x] \in Nat
  BY DEF TypeOK
<1>7. \A u \in Txns : ~(commitTs[u] > curRead)
  BY <1>3, <1>6
<1>8. \A x, u \in Txns : ~(Live(x)' /\ commitTs[u] > readTs[x])
  BY <1>3, <1>6
<1> QED
  BY <1>1, <1>4, <1>5, <1>7, <1>8

LEMMA MapInvStep == TypeInv /\ TsInv /\ MapInv /\ [Next]_vars => MapInv'
<1> SUFFICES ASSUME TypeInv, TsInv, MapInv, [Next]_vars PROVE MapInv'
  OBVIOUS
<1>0. TypeOK /\ curRead \in Nat
  BY DEF TypeInv, TypeOK, Ts
<1>1. ASSUME NEW t \in Txns, NEW u \in BOOLEAN, LoadReadTs(t, u) PROVE MapInv'
  BY <1>0, <1>1, MapLoadReadTs
<1>2. ASSUME NEW t \in Txns,
             \/ AddRef(t) \/ Abandon(t) \/ StartCommit(t) \/ LockWrites(t)
             \/ (NewCommitTs(t) /\ HasConflict(t)) \/ SendToWriteCh(t) \/ DecrRef(t)
             \/ (RecheckRef(t) /\ ~MayClear)
      PROVE  MapInv'
  <2>1. /\ UNCHANGED <<commits, orcLock, commitTs, readTs, update, exposed, curRead,
                       pending, reads>>
        /\ pc[t] # "idle"
        /\ \E p \in {"active", "commit", "locked", "waiting", "discard", "zero", "done"} :
             pc' = [pc EXCEPT ![t] = p]
        /\ pc[t] \notin {"loaded", "active", "commit", "locked"}
             => pc'[t] \notin {"loaded", "active", "commit", "locked"}
    BY Zenon, <1>0, <1>2 DEF AddRef, Abandon, StartCommit, LockWrites, NewCommitTs, SendToWriteCh,
       DecrRef, RecheckRef, oracleVars, TypeOK
  <2>2. \A x \in Txns : /\ pc'[x] = "clearing" => pc[x] = "clearing"
                        /\ Live(x)' => Live(x)
                        /\ Writes(x)' = Writes(x)
    BY <1>0, <2>1 DEF Live, Writes, TypeOK
  <2> QED
    BY <1>0, <2>1, <2>2, MapFrame DEF Ts
<1>3. ASSUME NEW t \in Txns,
             \/ \E k \in Keys : Get(t, k)
             \/ Scan(t)
             \/ \E k \in Keys, op \in {"set", "delete"} : Modify(t, k, op)
      PROVE  MapInv'
  <2>1. /\ UNCHANGED <<commits, orcLock, commitTs, readTs, update, exposed, curRead, pc>>
        /\ pc[t] = "active"
        /\ \A x \in Txns : x # t => reads'[x] = reads[x] /\ pending'[x] = pending[x]
    BY <1>0, <1>3 DEF Get, Scan, Modify, oracleVars, TypeOK
  <2>2. commitTs[t] = 0
    BY Zenon, <2>1 DEF TsInv, NoStamp
  <2>3. \A x \in Txns : /\ Live(x)' => Live(x)
                        /\ commitTs[x] # 0 => /\ Writes(x)' = Writes(x)
                                              /\ reads'[x] = reads[x]
    BY <2>1, <2>2 DEF Live, Writes
  <2> QED
    BY <1>0, <2>1, <2>3, MapFrame DEF Ts
<1>4. ASSUME NEW t \in Txns, NewCommitTs(t), ~HasConflict(t) PROVE MapInv'
  BY <1>0, <1>4, MapNewCommitTs
<1>5. ASSUME NEW t \in Txns, DoneCommit(t) PROVE MapInv'
  <2>1. /\ UNCHANGED <<commits, orcLock, commitTs, readTs, update, exposed, pending, reads>>
        /\ pc' = [pc EXCEPT ![t] = "discard"]
        /\ curRead' \in Nat /\ curRead' >= curRead
    BY <1>0, <1>5 DEF DoneCommit, Larger, TypeOK, Ts
  <2>2. \A x \in Txns : /\ pc'[x] = "clearing" => pc[x] = "clearing"
                        /\ Live(x)' => Live(x)
                        /\ Writes(x)' = Writes(x)
    BY <1>0, <2>1 DEF Live, Writes, TypeOK
  <2> QED
    BY <1>0, <2>1, <2>2, MapFrame
<1>6. ASSUME NEW t \in Txns, RecheckRef(t), MayClear PROVE MapInv'
  BY <1>6, MapRecheckRef
<1>7. ASSUME NEW t \in Txns, ClearCommits(t) PROVE MapInv'
  BY <1>0, <1>7, MapClearCommits
<1>8. CASE Pipeline \/ UNCHANGED vars
  <2>1. UNCHANGED <<commits, orcLock, commitTs, readTs, update, exposed, curRead, pc,
                    pending, reads>>
    BY <1>8 DEF Pipeline, WriteVLog, WriteLSM, BatchDone, oracleVars, txnVars, vars
  <2>2. \A x \in Txns : (Live(x)' => Live(x)) /\ Writes(x)' = Writes(x)
    BY <2>1 DEF Live, Writes
  <2> QED
    BY <1>0, <2>1, <2>2, MapFrame
<1> QED
  BY <1>1, <1>2, <1>3, <1>4, <1>5, <1>6, <1>7, <1>8
     DEF Next, Begin, Use, Commit, Discard, Finished

(* Conflict detection is sound for any number of transactions and keys: no  *)
(* key a committed transaction tracked was overwritten between its readTs   *)
(* and its commit timestamp, whenever decrRef clears the commits map;       *)
(* transactions caught before addRef by a clearing are excepted.            *)
THEOREM ConflictsDetected == Spec => []TrackedReadsProtected
<1>1. Init => TypeInv /\ TsInv /\ MapInv
  BY InitTypeInv, InitTsInv, InitMapInv
<1>2. TypeInv /\ TsInv /\ MapInv /\ [Next]_vars => (TypeInv /\ TsInv /\ MapInv)'
  BY TypeOKStep, RefInvStep, TsInvStep, MapInvStep DEF TypeInv
<1>3. MapInv => TrackedReadsProtected
  BY DEF MapInv
<1> QED
  BY <1>1, <1>2, <1>3, PTL DEF Spec

-----------------------------------------------------------------------------
(***************************************************************************)
(* Snapshot isolation for any number of transactions and keys: the order   *)
(* in which requests travel through the write pipeline, what curRead       *)
(* covers, and what a transaction therefore observes.                      *)
(***************************************************************************)

InCh == InBatch(writeCh)

InLog(p) == InBatch(postLog[p])

\* Requests that have been handed to the pipeline.
Sent(u) == u \in InCh \/ (\E p \in 1..Len(postLog) : u \in InLog(p)) \/ u \in acked

\* Where a transaction is in the pipeline.
PipeTxn(u) ==
    /\ commitTs[u] # 0 => pc[u] = "stamped" \/ Sent(u)
    /\ Sent(u) => commitTs[u] # 0 /\ pc[u] # "stamped"
    /\ pc[u] \in {"locked", "stamped"} => writeLock = u
    /\ pc[u] = "stamped" => \A t \in Txns : commitTs[t] <= commitTs[u]
    /\ commitTs[u] # 0 /\ commitTs[u] <= curRead => u \in acked
    /\ u \in acked => Unapplied(u) = {}

LogOrder ==
    /\ \A p, q \in 1..Len(postLog) : p < q =>
         \A t \in InLog(p), u \in InLog(q) : commitTs[t] < commitTs[u]
    /\ \A p \in 1..Len(postLog) :
         \A t \in InLog(p), u \in InCh : commitTs[t] < commitTs[u]

AckClosed ==
    \A t \in acked, u \in Txns :
        commitTs[u] # 0 /\ commitTs[u] <= commitTs[t] => u \in acked

(* Every stamped transaction is about to be sent, holding writeLock and the *)
(* largest timestamp, or in the pipeline, whose parts are ordered by        *)
(* timestamp: acknowledged, then batch by batch, then queued. Timestamps up *)
(* to curRead are acknowledged ones, and what is acknowledged is applied.   *)
PipeInv == (\A u \in Txns : PipeTxn(u)) /\ LogOrder /\ AckClosed

\* Every version in the LSM tree was written by a stamped transaction.
LsmInv ==
    \A k \in Keys : \A v \in lsm[k] :
        \E u \in Txns : commitTs[u] # 0 /\ commitTs[u] = v.ts /\ k \in Writes(u)

LEMMA InitPipeInv == Init => PipeInv /\ LsmInv
<1> SUFFICES ASSUME Init PROVE PipeInv /\ LsmInv
  OBVIOUS
<1>1. InCh = {} /\ Len(postLog) = 0
  BY DEF Init, InCh, InBatch
<1>2. \A u \in Txns : ~Sent(u)
  BY <1>1 DEF Init, Sent
<1> QED
  BY <1>1, <1>2, TxnAssumption DEF Init, PipeInv, PipeTxn, LogOrder, AckClosed, LsmInv

\* The range of a function that agrees with another except at one point.
LEMMA RangeOneMore ==
    ASSUME NEW b, NEW c, NEW t, NEW E, NEW m, \A i \in E : c[i] = b[i], c[m] = t
    PROVE  {c[i] : i \in E \cup {m}} = {b[i] : i \in E} \cup {t}
<1>1. ASSUME NEW u \in {c[i] : i \in E \cup {m}} PROVE u \in {b[i] : i \in E} \cup {t}
  BY Zenon
<1>2. ASSUME NEW u \in {b[i] : i \in E} \cup {t} PROVE u \in {c[i] : i \in E \cup {m}}
  BY Zenon
<1> QED
  BY Zenon, <1>1, <1>2

\* A request added to a batch is the only new one in it.
LEMMA BatchLonger ==
    ASSUME NEW b \in Seq(Txns), NEW t \in Txns, NEW c, NEW n \in Nat, n = Len(b), Len(c) = n + 1,
           \A i \in 1..n : c[i] = b[i], c[n + 1] = t
    PROVE  InBatch(c) = InBatch(b) \cup {t}
<1> DEFINE D == 1..(n + 1)
           E == 1..n
           m == n + 1
<1>1. D = E \cup {m}
  OBVIOUS
<1>2. InBatch(b) = {b[i] : i \in E}
  BY Zenon DEF InBatch
<1>3. InBatch(c) = {c[i] : i \in D}
  BY Zenon DEF InBatch
<1>4. (\A i \in E : c[i] = b[i]) /\ c[m] = t
  OBVIOUS
<1> HIDE DEF D, E, m
<1>5. {c[i] : i \in E \cup {m}} = {b[i] : i \in E} \cup {t}
  BY <1>4, RangeOneMore
<1> QED
  BY Zenon, <1>1, <1>2, <1>3, <1>5

\* Append adds its request to the batch.
LEMMA BatchAppend ==
    ASSUME NEW b \in Seq(Txns), NEW t \in Txns
    PROVE  InBatch(Append(b, t)) = InBatch(b) \cup {t}
<1>1. /\ Len(b) \in Nat /\ Len(Append(b, t)) = Len(b) + 1
      /\ \A i \in 1..Len(b) : Append(b, t)[i] = b[i]
      /\ Append(b, t)[Len(b) + 1] = t
  BY LongerBatch, Zenon
<1> QED
  BY Zenon, <1>1, BatchLonger

\* What is logged first.
LEMMA FirstOf ==
    ASSUME NEW S, NEW s \in Seq(S), s # <<>>
    PROVE  1 \in 1..Len(s) /\ s[1] \in S
OBVIOUS

LEMMA BatchTxns ==
    ASSUME NEW b \in Seq(Txns)
    PROVE  InBatch(b) \subseteq Txns
BY DEF InBatch

\* Steps that touch neither the pipeline nor a stamped transaction's writes.
LEMMA PipeFrame ==
    ASSUME TypeOK, TsInv, PipeInv, LsmInv,
           UNCHANGED <<writeCh, postLog, acked, lsm, commitTs>>,
           curRead' = curRead,
           \A u \in Txns : /\ (pc'[u] = "stamped") = (pc[u] = "stamped")
                           /\ pc'[u] \in {"locked", "stamped"} => writeLock' = u
                           /\ commitTs[u] # 0 => Writes(u)' = Writes(u)
    PROVE  PipeInv' /\ LsmInv'
<1>1. InCh' = InCh /\ \A p \in 1..Len(postLog) : InLog(p)' = InLog(p)
  BY DEF InCh, InLog, InBatch
<1>2. \A u \in Txns : Sent(u)' = Sent(u)
  BY <1>1 DEF Sent
<1>3. \A u \in Txns : u \in acked => Unapplied(u)' = {}
  BY DEF PipeInv, PipeTxn, LogOrder, AckClosed, Unapplied, Applied, Sent
<1>4. LsmInv'
  BY DEF LsmInv
<1>5. ASSUME NEW u \in Txns PROVE PipeTxn(u)'
  <2>1. PipeTxn(u)
    BY DEF PipeInv
  <2>2. Sent(u)' = Sent(u) /\ (u \in acked => Unapplied(u)' = {})
    BY <1>2, <1>3
  <2> QED
    BY <2>1, <2>2 DEF PipeTxn
<1>6. LogOrder'
  BY <1>1 DEF PipeInv, LogOrder
<1>7. AckClosed'
  BY Zenon DEF PipeInv, AckClosed
<1> QED
  BY Zenon, <1>4, <1>5, <1>6, <1>7 DEF PipeInv

\* A new timestamp is larger than all others and not in the pipeline yet.
LEMMA PipeNewCommitTs ==
    ASSUME TypeOK, TsInv, PipeInv, LsmInv, NEW t \in Txns, NewCommitTs(t), ~HasConflict(t)
    PROVE  PipeInv' /\ LsmInv'
<1>1. /\ UNCHANGED <<writeCh, postLog, acked, lsm, curRead, pending, writeLock>>
      /\ pc' = [pc EXCEPT ![t] = "stamped"] /\ pc[t] = "locked"
      /\ commitTs' = [commitTs EXCEPT ![t] = nextCommit]
  BY Zenon DEF NewCommitTs, pipeVars
<1>2. InCh' = InCh /\ (\A p \in 1..Len(postLog) : InLog(p)' = InLog(p))
  BY <1>1 DEF InCh, InLog, InBatch
<1>3. \A u \in Txns : Sent(u)' = Sent(u) /\ Writes(u)' = Writes(u)
  BY Zenon, <1>1, <1>2 DEF Sent, Writes
<1>4. \A u \in Txns : commitTs[u] \in Nat /\ commitTs[u] < nextCommit
  BY DEF TypeOK, TsInv, Ts
<1>5. /\ commitTs[t] = 0 /\ commitTs'[t] = nextCommit
      /\ nextCommit \in Nat \ {0} /\ curRead \in Nat /\ curRead < nextCommit
      /\ \A u \in Txns : u # t => commitTs'[u] = commitTs[u]
  BY <1>1 DEF TypeOK, TsInv, NoStamp, Ts
<1>6. ~Sent(t) /\ t \notin acked
  BY Zenon, <1>5 DEF PipeInv, PipeTxn, LogOrder, AckClosed, Sent
<1>7. \A u \in Txns : u \in acked => Unapplied(u)' = {}
  <2> SUFFICES ASSUME NEW u \in Txns, u \in acked PROVE Unapplied(u)' = {}
    OBVIOUS
  <2>1. Unapplied(u) = {}
    BY Zenon DEF PipeInv, PipeTxn
  <2>2. Writes(u)' = Writes(u) /\ commitTs'[u] = commitTs[u] /\ lsm' = lsm
    BY Zenon, <1>1, <1>3, <1>5, <1>6
  <2> QED
    BY Zenon, <2>1, <2>2 DEF Unapplied, Applied
<1>8. \A u \in Txns : u # t => pc[u] # "stamped"
  BY <1>1 DEF PipeInv, PipeTxn, LogOrder, AckClosed
<1>9. /\ InCh \subseteq Txns /\ acked \subseteq Txns
      /\ \A p \in 1..Len(postLog) : InLog(p) \subseteq Txns
  BY BatchTxns DEF TypeOK, InCh, InLog
<1>10. /\ \A p, q \in 1..Len(postLog) : p < q =>
            \A x \in InLog(p), u \in InLog(q) : commitTs'[x] < commitTs'[u]
       /\ \A p \in 1..Len(postLog) : \A x \in InLog(p), u \in InCh : commitTs'[x] < commitTs'[u]
  <2>1. \A p \in 1..Len(postLog) : \A x \in InLog(p) : commitTs'[x] = commitTs[x]
    BY Zenon, <1>5, <1>6, <1>9 DEF Sent
  <2>2. \A u \in InCh : commitTs'[u] = commitTs[u]
    BY Zenon, <1>5, <1>6, <1>9 DEF Sent
  <2> QED
    BY Zenon, <2>1, <2>2 DEF PipeInv, LogOrder
<1>11. \A x \in acked, u \in Txns :
         commitTs'[u] # 0 /\ commitTs'[u] <= commitTs'[x] => u \in acked
  <2> SUFFICES ASSUME NEW x \in acked, NEW u \in Txns,
                      commitTs'[u] # 0, commitTs'[u] <= commitTs'[x]
               PROVE  u \in acked
    BY Zenon
  <2>1. x \in Txns /\ commitTs'[x] = commitTs[x] /\ commitTs[x] \in Nat /\ commitTs[x] < nextCommit
    BY Zenon, <1>4, <1>5, <1>6, <1>9
  <2>2. u # t
    BY <1>5, <2>1
  <2> QED
    BY Zenon, <1>5, <2>1, <2>2 DEF PipeInv, AckClosed
<1>12. \A u \in Txns :
         /\ commitTs'[u] # 0 => pc'[u] = "stamped" \/ Sent(u)
         /\ Sent(u) => commitTs'[u] # 0 /\ pc'[u] # "stamped"
         /\ pc'[u] \in {"locked", "stamped"} => writeLock = u
         /\ pc'[u] = "stamped" => \A x \in Txns : commitTs'[x] <= commitTs'[u]
         /\ commitTs'[u] # 0 /\ commitTs'[u] <= curRead => u \in acked
  <2> SUFFICES ASSUME NEW u \in Txns
               PROVE  /\ commitTs'[u] # 0 => pc'[u] = "stamped" \/ Sent(u)
                      /\ Sent(u) => commitTs'[u] # 0 /\ pc'[u] # "stamped"
                      /\ pc'[u] \in {"locked", "stamped"} => writeLock = u
                      /\ pc'[u] = "stamped" => \A x \in Txns : commitTs'[x] <= commitTs'[u]
                      /\ commitTs'[u] # 0 /\ commitTs'[u] <= curRead => u \in acked
    OBVIOUS
  <2>1. CASE u = t
    BY <1>1, <1>4, <1>5, <1>6, <2>1 DEF PipeInv, PipeTxn, LogOrder, AckClosed, TypeOK
  <2>2. CASE u # t
    BY <1>1, <1>5, <1>8, <2>2 DEF PipeInv, PipeTxn, LogOrder, AckClosed, TypeOK
  <2> QED
    BY Zenon, <2>1, <2>2
<1>13. LsmInv'
  <2> SUFFICES ASSUME NEW k \in Keys, NEW v \in lsm[k]
               PROVE  \E u \in Txns : commitTs'[u] # 0 /\ commitTs'[u] = v.ts /\ k \in Writes(u)'
    BY Zenon, <1>1 DEF LsmInv
  <2>1. PICK u \in Txns : commitTs[u] # 0 /\ commitTs[u] = v.ts /\ k \in Writes(u)
    BY Zenon DEF LsmInv
  <2> QED
    BY Zenon, <1>3, <1>5, <2>1
<1>14. LogOrder' /\ AckClosed'
  <2>1. postLog' = postLog /\ acked' = acked
    BY <1>1
  <2>2. LogOrder'
    BY <2>1, <1>2, <1>10 DEF LogOrder
  <2>3. AckClosed'
    BY <2>1, <1>11 DEF AckClosed
  <2> QED
    BY <2>2, <2>3
<1>15. \A u \in Txns : PipeTxn(u)'
  <2>1. curRead' = curRead /\ acked' = acked /\ writeLock' = writeLock
    BY <1>1
  <2> QED
    BY Zenon, <2>1, <1>3, <1>7, <1>12 DEF PipeTxn
<1> QED
  BY <1>13, <1>14, <1>15 DEF PipeInv

\* The request sent has the largest timestamp, so the queue stays in order.
LEMMA PipeSend ==
    ASSUME TypeOK, TsInv, PipeInv, LsmInv, NEW t \in Txns, SendToWriteCh(t)
    PROVE  PipeInv' /\ LsmInv'
<1>1. /\ UNCHANGED <<postLog, acked, lsm, curRead, pending, commitTs>>
      /\ pc' = [pc EXCEPT ![t] = "waiting"] /\ pc[t] = "stamped"
      /\ writeCh' = Append(writeCh, t)
  BY DEF SendToWriteCh
<1>2. InCh' = InCh \cup {t} /\ (\A p \in 1..Len(postLog) : InLog(p)' = InLog(p))
  <2>1. InCh' = InCh \cup {t}
    BY <1>1, BatchAppend DEF InCh, TypeOK
  <2>2. \A p \in 1..Len(postLog) : InLog(p)' = InLog(p)
    BY <1>1 DEF InLog
  <2> QED
    BY <2>1, <2>2
<1>3. \A u \in Txns : Sent(u)' = (Sent(u) \/ u = t)
  BY <1>1, <1>2 DEF Sent
<1>4. \A u \in Txns : Unapplied(u)' = Unapplied(u)
  BY <1>1 DEF Unapplied, Applied, Writes
<1>5. \A u \in Txns : u # t => pc'[u] = pc[u] /\ pc[u] \notin {"locked", "stamped"}
  BY <1>1 DEF PipeInv, PipeTxn, LogOrder, AckClosed, TypeOK
<1>6. pc'[t] = "waiting" /\ commitTs[t] # 0 /\ ~Sent(t)
  BY <1>1 DEF PipeInv, PipeTxn, LogOrder, AckClosed, TypeOK, TsInv
<1>7. \A p \in 1..Len(postLog) : \A x \in InLog(p) : commitTs[x] < commitTs[t]
  <2> SUFFICES ASSUME NEW p \in 1..Len(postLog), NEW x \in InLog(p)
               PROVE  commitTs[x] < commitTs[t]
    OBVIOUS
  <2>1. x \in Txns /\ x # t
    BY <1>6, BatchTxns DEF TypeOK, InLog, Sent
  <2>2. commitTs[x] <= commitTs[t] /\ commitTs[x] # commitTs[t]
    BY Zenon, <1>1, <1>6, <2>1 DEF PipeInv, PipeTxn, LogOrder, AckClosed, TsInv
  <2> QED
    BY <2>1, <2>2 DEF TypeOK, Ts
<1>8. LsmInv'
  BY <1>1 DEF LsmInv, Writes
<1>9. LogOrder' /\ AckClosed'
  BY <1>1, <1>2, <1>7 DEF PipeInv, LogOrder, AckClosed
<1>10. \A u \in Txns : PipeTxn(u)'
  BY Zenon, <1>1, <1>3, <1>4, <1>5, <1>6 DEF PipeInv, PipeTxn
<1> QED
  BY <1>8, <1>9, <1>10 DEF PipeInv

\* What is acknowledged reaches down to the smallest timestamp.
LEMMA PipeDoneCommit ==
    ASSUME TypeOK, TsInv, PipeInv, LsmInv, NEW t \in Txns, DoneCommit(t)
    PROVE  PipeInv' /\ LsmInv'
<1>1. /\ UNCHANGED <<writeCh, postLog, acked, lsm, pending, commitTs, writeLock>>
      /\ pc' = [pc EXCEPT ![t] = "discard"] /\ pc[t] = "waiting" /\ t \in acked
      /\ curRead' \in {curRead, commitTs[t]}
  BY Zenon DEF DoneCommit, pipeVars, Larger
<1>2. InCh' = InCh /\ (\A p \in 1..Len(postLog) : InLog(p)' = InLog(p))
  BY Zenon, <1>1 DEF InCh, InLog, InBatch
<1>3. \A u \in Txns : Sent(u)' = Sent(u) /\ Unapplied(u)' = Unapplied(u)
  BY Zenon, <1>1, <1>2 DEF Sent, Unapplied, Applied, Writes
<1>4. \A u \in Txns : commitTs[u] # 0 /\ commitTs[u] <= curRead' => u \in acked
  BY <1>1 DEF PipeInv, PipeTxn, LogOrder, AckClosed
<1>5. \A u \in Txns : pc'[u] \in {"locked", "stamped"} => pc'[u] = pc[u]
  BY <1>1 DEF TypeOK
<1>6. \A u \in Txns : (pc'[u] = "stamped") = (pc[u] = "stamped")
  BY <1>1 DEF TypeOK
<1>7. LsmInv'
  BY Zenon, <1>1 DEF LsmInv, Writes
<1> QED
  BY <1>1, <1>2, <1>3, <1>4, <1>5, <1>6, <1>7 DEF PipeInv, PipeTxn, LogOrder, AckClosed

\* The whole queue becomes the last batch.
LEMMA PipeWriteVLog ==
    ASSUME TypeOK, TsInv, PipeInv, LsmInv, WriteVLog
    PROVE  PipeInv' /\ LsmInv'
<1>1. /\ UNCHANGED <<acked, lsm, curRead, pending, commitTs, pc, writeLock>>
      /\ postLog' = Append(postLog, writeCh) /\ writeCh' = <<>>
      /\ postLog \in Seq(Seq(Txns)) /\ writeCh \in Seq(Txns)
  BY DEF WriteVLog, oracleVars, txnVars, TypeOK
<1>0. PICK n \in Nat : n = Len(postLog)
  BY <1>1
<1>2. /\ Len(postLog') = n + 1
      /\ \A p \in 1..n : postLog'[p] = postLog[p]
      /\ postLog'[n + 1] = writeCh
  BY <1>0, <1>1
<1>3. InCh' = {} /\ InLog(n + 1)' = InCh /\ \A p \in 1..n : InLog(p)' = InLog(p)
  BY <1>1, <1>2 DEF InCh, InLog, InBatch
<1>4. \A u \in Txns : Sent(u)' = Sent(u)
  <2>1. \A u \in Txns : (\E p \in 1..(n + 1) : u \in InLog(p)')
                           <=> u \in InCh \/ (\E p \in 1..n : u \in InLog(p))
    BY <1>2, <1>3
  <2> QED
    BY <1>0, <1>1, <1>2, <1>3, <2>1 DEF Sent
<1>5. \A u \in Txns : Unapplied(u)' = Unapplied(u)
  BY <1>1 DEF Unapplied, Applied, Writes
<1>6. LogOrder'
  <2>1. \A p, q \in 1..(n + 1) : p < q =>
          \A t \in InLog(p)', u \in InLog(q)' : commitTs[t] < commitTs[u]
    <3> SUFFICES ASSUME NEW p \in 1..(n + 1), NEW q \in 1..(n + 1), p < q,
                        NEW t \in InLog(p)', NEW u \in InLog(q)'
                 PROVE  commitTs[t] < commitTs[u]
      OBVIOUS
    <3>1. p \in 1..n /\ InLog(p)' = InLog(p)
      BY <1>2, <1>3
    <3>2. CASE q \in 1..n
      BY <1>0, <1>3, <3>1, <3>2 DEF PipeInv, LogOrder
    <3>3. CASE q = n + 1
      BY <1>0, <1>3, <3>1, <3>3 DEF PipeInv, LogOrder
    <3> QED
      BY <1>2, <3>2, <3>3
  <2> QED
    BY <1>1, <1>2, <1>3, <2>1 DEF LogOrder
<1>7. AckClosed' /\ LsmInv'
  BY <1>1 DEF PipeInv, AckClosed, LsmInv, Writes
<1>8. \A u \in Txns : PipeTxn(u)'
  BY <1>1, <1>4, <1>5 DEF PipeInv, PipeTxn
<1> QED
  BY <1>6, <1>7, <1>8 DEF PipeInv

\* The LSM tree only grows, by versions of transactions in the first batch.
LEMMA PipeWriteLSM ==
    ASSUME TypeOK, TsInv, PipeInv, LsmInv, WriteLSM
    PROVE  PipeInv' /\ LsmInv'
<1>1. UNCHANGED <<acked, writeCh, postLog, curRead, pending, commitTs, pc, writeLock>>
  BY Zenon DEF WriteLSM, oracleVars, txnVars
<1>2. PICK i \in 1..Len(postLog[1]) :
        \E group \in SUBSET Unapplied(postLog[1][i]) :
          lsm' = [k \in Keys |->
                    IF k \in group
                    THEN lsm[k] \cup {[ts |-> commitTs[postLog[1][i]],
                                       del |-> pending[postLog[1][i]][k] = "delete"]}
                    ELSE lsm[k]]
  BY Zenon DEF WriteLSM
<1> DEFINE t == postLog[1][i]
<1>3. t \in InLog(1) /\ 1 \in 1..Len(postLog)
  <2>1. 1 \in 1..Len(postLog)
    BY Zenon, FirstOf DEF WriteLSM, TypeOK
  <2> QED
    BY Zenon, <2>1 DEF InLog, InBatch
<1>4. t \in Txns /\ Sent(t)
  <2>1. postLog[1] \in Seq(Txns)
    BY Zenon, FirstOf DEF WriteLSM, TypeOK
  <2>2. t \in Txns
    BY <2>1, <1>3, BatchTxns DEF InLog
  <2> QED
    BY Zenon, <1>3, <2>2 DEF Sent
<1>5. commitTs[t] # 0
  BY Zenon, <1>4 DEF PipeInv, PipeTxn
<1>6. PICK group \in SUBSET Unapplied(t) :
        lsm' = [k \in Keys |->
                  IF k \in group
                  THEN lsm[k] \cup {[ts |-> commitTs[t], del |-> pending[t][k] = "delete"]}
                  ELSE lsm[k]]
  BY Zenon, <1>2
<1> HIDE DEF t
<1>7. \A k \in Keys : /\ lsm[k] \subseteq lsm'[k]
                      /\ \A v \in lsm'[k] : v \in lsm[k] \/ (v.ts = commitTs[t] /\ k \in Writes(t))
  BY <1>6 DEF Unapplied
<1>8. LsmInv'
  BY <1>1, <1>4, <1>5, <1>7 DEF LsmInv, Writes
<1>9. \A u \in Txns : u \in acked => Unapplied(u)' = {}
  <2> SUFFICES ASSUME NEW u \in Txns, u \in acked PROVE Unapplied(u)' = {}
    OBVIOUS
  <2>1. Unapplied(u) = {}
    BY Zenon DEF PipeInv, PipeTxn
  <2>2. Writes(u)' = Writes(u) /\ Writes(u) \subseteq Keys
    BY <1>1 DEF Writes
  <2>3. \A k \in Keys : Applied(u, k) => Applied(u, k)'
    BY <1>1, <1>7 DEF Applied
  <2> QED
    BY Zenon, <2>1, <2>2, <2>3 DEF Unapplied
<1>10. InCh' = InCh /\ (\A p \in 1..Len(postLog) : InLog(p)' = InLog(p))
  BY <1>1 DEF InCh, InLog
<1>11. \A u \in Txns : Sent(u)' = Sent(u)
  BY <1>1, <1>10 DEF Sent
<1>12. LogOrder' /\ AckClosed'
  BY <1>1, <1>10 DEF PipeInv, LogOrder, AckClosed
<1>13. \A u \in Txns : PipeTxn(u)'
  BY <1>1, <1>9, <1>11 DEF PipeInv, PipeTxn
<1> QED
  BY <1>8, <1>12, <1>13 DEF PipeInv

\* The first batch holds the smallest timestamps not acknowledged yet.
LEMMA PipeBatchDone ==
    ASSUME TypeOK, TsInv, PipeInv, LsmInv, BatchDone
    PROVE  PipeInv' /\ LsmInv'
<1>1. /\ UNCHANGED <<writeCh, lsm, curRead, pending, commitTs, pc, writeLock>>
      /\ acked' = acked \cup InLog(1)
      /\ postLog' = Tail(postLog) /\ postLog # <<>>
      /\ \A t \in InLog(1) : Unapplied(t) = {}
      /\ postLog \in Seq(Seq(Txns))
  BY DEF BatchDone, oracleVars, txnVars, InLog, TypeOK
<1>0. PICK n \in Nat : n = Len(postLog) /\ n >= 1
  BY <1>1
<1>2. /\ Len(postLog') = n - 1
      /\ \A p \in 1..(n - 1) : postLog'[p] = postLog[p + 1]
  BY <1>0, <1>1
<1>3. InCh' = InCh /\ \A p \in 1..(n - 1) : InLog(p)' = InLog(p + 1)
  BY <1>1, <1>2 DEF InCh, InLog
<1>4. \A u \in Txns : Sent(u)' = Sent(u)
  <2>1. \A u : (\E p \in 1..n : u \in InLog(p))
                 <=> u \in InLog(1) \/ (\E p \in 1..(n - 1) : u \in InLog(p + 1))
    <3> SUFFICES ASSUME NEW u, NEW p \in 1..n, u \in InLog(p)
                 PROVE  u \in InLog(1) \/ (\E q \in 1..(n - 1) : u \in InLog(q + 1))
      BY <1>0
    <3>1. CASE p = 1
      BY <3>1
    <3>2. CASE p # 1
      <4>1. p - 1 \in 1..(n - 1) /\ (p - 1) + 1 = p
        BY <1>0, <3>2
      <4> QED
        BY <4>1
    <3> QED
      BY <3>1, <3>2
  <2>2. \A u : (\E p \in 1..Len(postLog') : u \in InLog(p)')
                 <=> (\E p \in 1..(n - 1) : u \in InLog(p + 1))
    BY Zenon, <1>2, <1>3
  <2> QED
    BY Zenon, <1>0, <1>1, <1>3, <2>1, <2>2 DEF Sent
<1>5. \A u \in Txns : Unapplied(u)' = Unapplied(u)
  BY <1>1 DEF Unapplied, Applied, Writes
<1>6. LogOrder'
  <2>1. \A p, q \in 1..(n - 1) : p < q =>
          \A t \in InLog(p + 1), u \in InLog(q + 1) : commitTs[t] < commitTs[u]
    BY <1>0 DEF PipeInv, LogOrder
  <2>2. \A p \in 1..(n - 1) : \A t \in InLog(p + 1), u \in InCh : commitTs[t] < commitTs[u]
    BY <1>0 DEF PipeInv, LogOrder
  <2>3. \A p, q \in 1..(n - 1) : p < q =>
          \A t \in InLog(p)', u \in InLog(q)' : commitTs[t] < commitTs[u]
    BY <1>3, <2>1
  <2>4. \A p \in 1..(n - 1) : \A t \in InLog(p)', u \in InCh' : commitTs[t] < commitTs[u]
    BY <1>3, <2>2
  <2>5. commitTs' = commitTs
    BY <1>1
  <2> QED
    BY <1>2, <2>3, <2>4, <2>5 DEF LogOrder
<1>7. AckClosed'
  <2> SUFFICES ASSUME NEW t \in InLog(1), NEW u \in Txns,
                      commitTs[u] # 0, commitTs[u] <= commitTs[t]
               PROVE  u \in acked \cup InLog(1)
    BY <1>1 DEF PipeInv, AckClosed
  <2>1. t \in Txns /\ commitTs[t] \in Nat /\ commitTs[u] \in Nat
    BY <1>0, BatchTxns DEF InLog, TypeOK, Ts
  <2>2. CASE pc[u] = "stamped"
    <3>1. commitTs[t] <= commitTs[u]
      BY Zenon, <2>1, <2>2 DEF PipeInv, PipeTxn
    <3>2. commitTs[t] = commitTs[u]
      BY <2>1, <3>1
    <3> QED
      BY Zenon, <2>1, <3>2 DEF TsInv
  <2>3. CASE u \in InCh
    BY <1>0, <2>1, <2>3 DEF PipeInv, LogOrder
  <2>4. ASSUME NEW p \in 1..n, u \in InLog(p) PROVE u \in InLog(1)
    BY <1>0, <2>1, <2>4 DEF PipeInv, LogOrder
  <2> QED
    BY <1>0, <2>2, <2>3, <2>4 DEF PipeInv, PipeTxn, Sent
<1>8. LsmInv'
  BY <1>1 DEF LsmInv, Writes
<1>9. \A u \in Txns : PipeTxn(u)'
  BY <1>1, <1>4, <1>5 DEF PipeInv, PipeTxn
<1> QED
  BY <1>6, <1>7, <1>8, <1>9 DEF PipeInv

LEMMA PipeInvStep == TypeOK /\ TsInv /\ PipeInv /\ LsmInv /\ [Next]_vars => PipeInv' /\ LsmInv'
<1> SUFFICES ASSUME TypeOK, TsInv, PipeInv, LsmInv, [Next]_vars PROVE PipeInv' /\ LsmInv'
  OBVIOUS
<1>1. ASSUME NEW t \in Txns,
             \/ \E b \in BOOLEAN : LoadReadTs(t, b)
             \/ AddRef(t) \/ Abandon(t) \/ StartCommit(t) \/ LockWrites(t)
             \/ (NewCommitTs(t) /\ HasConflict(t)) \/ DecrRef(t)
             \/ RecheckRef(t) \/ ClearCommits(t)
      PROVE  PipeInv' /\ LsmInv'
  <2>1. /\ UNCHANGED <<writeCh, postLog, acked, lsm, commitTs, curRead, pending>>
        /\ pc[t] \notin {"stamped", "waiting"}
        /\ \E p \in PC \ {"stamped", "waiting"} : pc' = [pc EXCEPT ![t] = p]
    BY Zenon, <1>1 DEF LoadReadTs, AddRef, Abandon, StartCommit, LockWrites, NewCommitTs,
       DecrRef, RecheckRef, ClearCommits, oracleVars, pipeVars, PC
  <2>2. \A u \in Txns : /\ (pc'[u] = "stamped") = (pc[u] = "stamped")
                        /\ Writes(u)' = Writes(u)
    BY <2>1 DEF TypeOK, Writes
  <2>3. \A u \in Txns : pc'[u] \in {"locked", "stamped"} => writeLock' = u
    <3>1. CASE LockWrites(t)
      BY <3>1, TxnAssumption DEF LockWrites, PipeInv, PipeTxn, TypeOK
    <3>2. CASE NewCommitTs(t) /\ HasConflict(t)
      BY Zenon, <3>2 DEF NewCommitTs, PipeInv, PipeTxn, TypeOK
    <3>3. CASE ~LockWrites(t) /\ ~(NewCommitTs(t) /\ HasConflict(t))
      <4>1. writeLock' = writeLock /\ pc'[t] \notin {"locked", "stamped"}
        BY Zenon, <1>1, <3>3 DEF LoadReadTs, AddRef, Abandon, StartCommit, DecrRef,
           RecheckRef, ClearCommits, oracleVars, TypeOK
      <4> QED
        BY <2>1, <4>1 DEF PipeInv, PipeTxn, TypeOK
    <3> QED
      BY <3>1, <3>2, <3>3
  <2> QED
    BY Zenon, <2>1, <2>2, <2>3, PipeFrame
<1>2. ASSUME NEW t \in Txns,
             \/ \E k \in Keys : Get(t, k)
             \/ Scan(t)
             \/ \E k \in Keys, op \in {"set", "delete"} : Modify(t, k, op)
      PROVE  PipeInv' /\ LsmInv'
  <2>1. /\ UNCHANGED <<writeCh, postLog, acked, lsm, commitTs, curRead, pc, writeLock>>
        /\ pc[t] = "active"
        /\ \A x \in Txns : x # t => pending'[x] = pending[x]
    <3>1. CASE (\E k \in Keys : Get(t, k)) \/ Scan(t)
      BY Zenon, <3>1 DEF Get, Scan, oracleVars, pipeVars
    <3>2. CASE \E k \in Keys, op \in {"set", "delete"} : Modify(t, k, op)
      BY <3>2 DEF Modify, oracleVars, pipeVars, TypeOK
    <3> QED
      BY Zenon, <1>2, <3>1, <3>2
  <2>2. commitTs[t] = 0
    BY Zenon, <2>1 DEF TsInv, NoStamp
  <2>3. \A u \in Txns : commitTs[u] # 0 => Writes(u)' = Writes(u)
    BY <2>1, <2>2 DEF Writes
  <2>4. \A u \in Txns : pc'[u] \in {"locked", "stamped"} => writeLock' = u
    BY <2>1 DEF PipeInv, PipeTxn
  <2> QED
    BY Zenon, <2>1, <2>3, <2>4, PipeFrame
<1>3. ASSUME NEW t \in Txns, NewCommitTs(t), ~HasConflict(t) PROVE PipeInv' /\ LsmInv'
  BY <1>3, PipeNewCommitTs
<1>4. ASSUME NEW t \in Txns, SendToWriteCh(t) PROVE PipeInv' /\ LsmInv'
  BY <1>4, PipeSend
<1>5. ASSUME NEW t \in Txns, DoneCommit(t) PROVE PipeInv' /\ LsmInv'
  BY <1>5, PipeDoneCommit
<1>6. CASE Pipeline
  BY <1>6, PipeWriteVLog, PipeWriteLSM, PipeBatchDone DEF Pipeline
<1>7. CASE UNCHANGED vars
  <2>1. UNCHANGED <<writeCh, postLog, acked, lsm, commitTs, curRead, pc, writeLock, pending>>
    BY <1>7 DEF vars, oracleVars, txnVars, pipeVars
  <2>2. \A u \in Txns : Writes(u)' = Writes(u)
    BY <2>1 DEF Writes
  <2>3. \A u \in Txns : pc'[u] \in {"locked", "stamped"} => writeLock' = u
    BY <2>1 DEF PipeInv, PipeTxn
  <2> QED
    BY <2>1, <2>2, <2>3, PipeFrame
<1> QED
  BY <1>1, <1>2, <1>3, <1>4, <1>5, <1>6, <1>7
     DEF Next, Begin, Use, Commit, Discard, Finished
-----------------------------------------------------------------------------
(* Snapshots. *)

\* The timestamps a snapshot at ts has to offer of k.
Offered(k, ts) == {commitTs[u] : u \in {w \in Committed(k) : commitTs[w] <= ts}}

\* Up to curRead, the LSM tree holds exactly the committed versions.
LEMMA VisibleIsOffered ==
    ASSUME TypeOK, PipeInv, LsmInv, NEW k \in Keys, NEW ts \in Nat, ts <= curRead
    PROVE  VisibleTs(k, ts) = Offered(k, ts)
<1>1. ASSUME NEW x \in VisibleTs(k, ts) PROVE x \in Offered(k, ts)
  <2>1. PICK v \in lsm[k] : v.ts = x /\ v.ts <= ts
    BY <1>1 DEF VisibleTs
  <2>2. PICK u \in Txns : commitTs[u] # 0 /\ commitTs[u] = v.ts /\ k \in Writes(u)
    BY <2>1 DEF LsmInv
  <2> QED
    BY <2>1, <2>2 DEF Offered, Committed, Stamped
<1>2. ASSUME NEW x \in Offered(k, ts) PROVE x \in VisibleTs(k, ts)
  <2>1. PICK u \in Txns : commitTs[u] # 0 /\ k \in Writes(u) /\ commitTs[u] <= ts /\ x = commitTs[u]
    BY <1>2 DEF Offered, Committed, Stamped
  <2>2. commitTs[u] <= curRead
    BY <2>1 DEF TypeOK, Ts
  <2>3. Unapplied(u) = {}
    BY Zenon, <2>1, <2>2 DEF PipeInv, PipeTxn
  <2>4. Applied(u, k)
    BY <2>1, <2>3 DEF Unapplied
  <2> QED
    BY <2>1, <2>4 DEF Applied, VisibleTs
<1> QED
  BY <1>1, <1>2

\* What is offered at or below curRead does not change any more.
LEMMA OfferedStable ==
    ASSUME TypeOK, TsInv, [Next]_vars, NEW k \in Keys, NEW ts \in Nat, ts <= curRead
    PROVE  Offered(k, ts)' = Offered(k, ts)
<1> DEFINE Kept == \A u \in Txns :
             /\ commitTs[u] # 0 => commitTs'[u] = commitTs[u] /\ pending'[u] = pending[u]
             /\ commitTs'[u] = commitTs[u] \/ commitTs'[u] = nextCommit
<1>1. ASSUME NEW t \in Txns, NewCommitTs(t) PROVE Kept
  BY Zenon, <1>1 DEF NewCommitTs, TypeOK, TsInv, NoStamp
<1>2. ASSUME NEW t \in Txns, NEW j \in Keys, NEW op \in {"set", "delete"}, Modify(t, j, op)
      PROVE  Kept
  BY <1>2 DEF Modify, TypeOK, TsInv, NoStamp
<1>3. ASSUME NEW t \in Txns,
             \/ Begin(t) \/ (\E j \in Keys : Get(t, j)) \/ Scan(t) \/ Abandon(t)
             \/ StartCommit(t) \/ LockWrites(t) \/ SendToWriteCh(t) \/ DoneCommit(t)
             \/ Discard(t)
      PROVE  Kept
  <2>1. UNCHANGED <<commitTs, pending>>
    BY Zenon, <1>3 DEF Begin, LoadReadTs, AddRef, Get, Scan, Abandon, StartCommit, LockWrites,
       SendToWriteCh, DoneCommit, Discard, DecrRef, RecheckRef, ClearCommits
  <2> QED
    BY <2>1
<1>4. ASSUME Pipeline \/ UNCHANGED vars PROVE Kept
  <2>1. UNCHANGED <<commitTs, pending>>
    BY Zenon, <1>4 DEF Pipeline, WriteVLog, WriteLSM, BatchDone, vars, txnVars
  <2> QED
    BY <2>1
<1>5. Kept
  BY Zenon, <1>1, <1>2, <1>3, <1>4 DEF Next, Use, Commit, Finished
<1>6. curRead \in Nat /\ nextCommit \in Nat /\ curRead < nextCommit
  BY DEF TypeOK, TsInv, Ts
<1>7. \A u \in Txns : (u \in Committed(k) /\ commitTs[u] <= ts)
                         <=> (u \in Committed(k)' /\ commitTs'[u] <= ts)
  <2> SUFFICES ASSUME NEW u \in Txns
               PROVE  (u \in Committed(k) /\ commitTs[u] <= ts)
                         <=> (u \in Committed(k)' /\ commitTs'[u] <= ts)
    BY Zenon
  <2>1. CASE commitTs[u] # 0
    BY Zenon, <1>5, <2>1 DEF Committed, Stamped, Writes
  <2>2. CASE commitTs[u] = 0
    <3>1. commitTs'[u] = 0 \/ commitTs'[u] = nextCommit
      BY Zenon, <1>5, <2>2
    <3>2. commitTs'[u] # 0 => ~(commitTs'[u] <= ts)
      BY <1>6, <3>1
    <3> QED
      BY Zenon, <2>2, <3>2 DEF Committed, Stamped
  <2> QED
    BY Zenon, <2>1, <2>2
<1>8. \A u \in Txns : u \in Committed(k) => commitTs'[u] = commitTs[u]
  BY <1>5 DEF Committed, Stamped
<1> QED
  BY Zenon, <1>7, <1>8 DEF Offered, Committed

(* A step leaves an observation alone, or makes it afresh at readTs, or      *)
(* belongs to a transaction that has observed nothing.                       *)
LEMMA SeenStep ==
    ASSUME TypeOK, TsInv, [Next]_vars, NEW t \in Txns, NEW k \in Keys,
           seen'[t][k] # NotRead
    PROVE  /\ readTs'[t] = readTs[t]
           /\ seen'[t][k] \in {seen[t][k], DBGet(k, readTs[t])}
<1>1. ASSUME NEW x \in Txns, NEW b \in BOOLEAN, LoadReadTs(x, b)
      PROVE  x # t /\ readTs'[t] = readTs[t] /\ seen' = seen
  <2>1. pc[x] = "idle" /\ seen' = seen /\ readTs' = [readTs EXCEPT ![x] = curRead]
    BY Zenon, <1>1 DEF LoadReadTs
  <2>2. x # t
    <3>1. pc[t] = "idle" => seen[t] = [j \in Keys |-> NotRead]
      BY Zenon DEF TsInv
    <3> QED
      BY Zenon, <2>1, <3>1
  <2>3. readTs'[t] = readTs[t]
    BY Zenon, <2>1, <2>2 DEF TypeOK
  <2> QED
    BY Zenon, <2>1, <2>2, <2>3
<1>2. ASSUME NEW x \in Txns, NEW j \in Keys, Get(x, j)
      PROVE  readTs' = readTs /\ seen'[t][k] \in {seen[t][k], DBGet(k, readTs[t])}
  BY Zenon, <1>2 DEF Get, TypeOK
<1>3. ASSUME NEW x \in Txns, Scan(x)
      PROVE  readTs' = readTs /\ seen'[t][k] \in {seen[t][k], DBGet(k, readTs[t])}
  BY Zenon, <1>3 DEF Scan, TypeOK
<1>4. ASSUME NEW x \in Txns,
             \/ AddRef(x)
             \/ \E j \in Keys, op \in {"set", "delete"} : Modify(x, j, op)
             \/ Abandon(x) \/ StartCommit(x) \/ Commit(x) \/ Discard(x)
      PROVE  readTs' = readTs /\ seen' = seen
  BY Zenon, <1>4 DEF AddRef, Modify, Abandon, StartCommit, Commit, Discard, LockWrites, NewCommitTs,
     SendToWriteCh, DoneCommit, DecrRef, RecheckRef, ClearCommits
<1>5. Pipeline \/ Finished \/ UNCHANGED vars => readTs' = readTs /\ seen' = seen
  BY Zenon DEF Pipeline, WriteVLog, WriteLSM, BatchDone, Finished, vars, txnVars
<1> QED
  BY Zenon, <1>1, <1>2, <1>3, <1>4, <1>5 DEF Next, Begin, Use

LEMMA SnapshotStep ==
    TypeOK /\ TsInv /\ PipeInv /\ LsmInv /\ SnapshotConsistent /\ [Next]_vars
        => SnapshotConsistent'
<1> SUFFICES ASSUME TypeOK, TsInv, PipeInv, LsmInv, SnapshotConsistent, [Next]_vars,
                    NEW t \in Txns, NEW k \in Keys, seen'[t][k] # NotRead
             PROVE  seen'[t][k] = Newest({commitTs'[u] : u \in
                                    {w \in Committed(k)' : commitTs'[w] <= readTs'[t]}})
  BY Zenon DEF SnapshotConsistent
<1>0. PICK ts \in Nat : ts = readTs[t] /\ ts <= curRead
  BY Zenon DEF TypeOK, TsInv, Ts
<1>1. readTs'[t] = ts /\ seen'[t][k] \in {seen[t][k], DBGet(k, ts)}
  BY Zenon, <1>0, SeenStep
<1>2. {commitTs'[u] : u \in {w \in Committed(k)' : commitTs'[w] <= ts}} = Offered(k, ts)
  BY Zenon, <1>0, OfferedStable DEF Offered
<1>3. DBGet(k, ts) = Newest(Offered(k, ts))
  BY <1>0, VisibleIsOffered DEF DBGet
<1>4. seen[t][k] # NotRead => seen[t][k] = Newest(Offered(k, ts))
  BY Zenon, <1>0 DEF SnapshotConsistent, Offered
<1> QED
  BY Zenon, <1>1, <1>2, <1>3, <1>4

AllInv == TypeInv /\ TsInv /\ PipeInv /\ LsmInv /\ SnapshotConsistent

LEMMA AllInvariant == Spec => []AllInv
<1>1. Init => SnapshotConsistent
  <2> SUFFICES ASSUME Init PROVE SnapshotConsistent
    OBVIOUS
  <2>1. \A t \in Txns, k \in Keys : seen[t][k] = NotRead
    BY DEF Init
  <2> QED
    BY Zenon, <2>1 DEF SnapshotConsistent
<1>2. Init => AllInv
  BY <1>1, InitTypeInv, InitTsInv, InitPipeInv DEF AllInv
<1>3. AllInv /\ [Next]_vars => AllInv'
  BY TypeOKStep, RefInvStep, TsInvStep, PipeInvStep, SnapshotStep DEF AllInv, TypeInv
<1> QED
  BY <1>2, <1>3, PTL DEF Spec

(* Snapshot isolation: whatever is in flight, what a transaction observes   *)
(* of a key is the newest version committed at or below its readTs.         *)
THEOREM SnapshotIsolation == Spec => []SnapshotConsistent
<1>1. AllInv => SnapshotConsistent
  BY DEF AllInv
<1> QED
  BY <1>1, AllInvariant, PTL

(* Read your own commits: a transaction that begins after Commit returned   *)
(* has a readTs covering it, and all that curRead covers is in the LSM tree.*)
THEOREM CommitsVisible == Spec => []CommittedVisible
<1>1. AllInv => CommittedVisible
  <2> SUFFICES ASSUME AllInv, NEW t \in Txns, commitTs[t] # 0
               PROVE  /\ pc[t] \in Ended => commitTs[t] <= curRead
                      /\ commitTs[t] <= curRead => Unapplied(t) = {}
    BY Zenon DEF CommittedVisible, Stamped, Ended
  <2>1. pc[t] \in Ended => commitTs[t] <= curRead
    BY Zenon DEF AllInv, TsInv
  <2>2. commitTs[t] <= curRead => Unapplied(t) = {}
    BY Zenon DEF AllInv, PipeInv, PipeTxn
  <2> QED
    BY <2>1, <2>2
<1> QED
  BY <1>1, AllInvariant, PTL
-----------------------------------------------------------------------------
(* The order in which versions reach the LSM tree. *)

\* The requests of a batch have increasing timestamps.
Ascending(b) == \A i, j \in 1..Len(b) : i < j => commitTs[b[i]] < commitTs[b[j]]

\* The requests before the i-th of the first batch are applied.
Passed(i) == \A j \in 1..(i - 1) : Unapplied(postLog[1][j]) = {}

\* A request some versions of which may be in the LSM tree.
Reached(u) ==
    \/ u \in acked
    \/ postLog # <<>> /\ \E i \in 1..Len(postLog[1]) : postLog[1][i] = u /\ Passed(i)

\* Every version is one of a request that writeToLSM has reached.
Versions == \A k \in Keys : \A v \in lsm[k] :
               \E u \in Txns : commitTs[u] # 0 /\ commitTs[u] = v.ts /\ Reached(u)

(* Queue and batches are in the order of the timestamps, and the requests   *)
(* of the first batch are applied one after the other.                      *)
OrderInv ==
    /\ Ascending(writeCh)
    /\ \A p \in 1..Len(postLog) : Ascending(postLog[p])
    /\ Versions

\* Nothing is queued, logged or applied at first.
LEMMA InitOrder == Init => OrderInv
<1> SUFFICES ASSUME Init PROVE OrderInv
  OBVIOUS
<1>1. writeCh = <<>> /\ postLog = <<>> /\ \A k \in Keys : lsm[k] = {}
  BY Zenon DEF Init
<1>2. Ascending(writeCh)
  BY Zenon, <1>1, NothingIn DEF Ascending
<1>3. \A p \in 1..Len(postLog) : Ascending(postLog[p])
  BY Zenon, <1>1, NothingIn
<1>4. Versions
  BY Zenon, <1>1 DEF Versions
<1> QED
  BY Zenon, <1>2, <1>3, <1>4 DEF OrderInv

\* The members of the queue, of the batches and of acked are stamped transactions.
LEMMA SentStamped ==
    ASSUME TypeOK, PipeInv
    PROVE  /\ \A i \in 1..Len(writeCh) : writeCh[i] \in Txns /\ commitTs[writeCh[i]] # 0
           /\ \A p \in 1..Len(postLog) : \A i \in 1..Len(postLog[p]) :
                postLog[p][i] \in Txns /\ commitTs[postLog[p][i]] # 0
           /\ \A u \in acked : u \in Txns /\ commitTs[u] # 0
<1>1. \A u \in Txns : Sent(u) => commitTs[u] # 0
  BY Zenon DEF PipeInv, PipeTxn
<1>2. ASSUME NEW i \in 1..Len(writeCh) PROVE writeCh[i] \in Txns /\ commitTs[writeCh[i]] # 0
  <2>1. writeCh[i] \in Txns
    BY Zenon, MemberOf DEF TypeOK
  <2>2. Sent(writeCh[i])
    BY Zenon DEF Sent, InCh, InBatch
  <2> QED
    BY Zenon, <1>1, <2>1, <2>2
<1>3. ASSUME NEW p \in 1..Len(postLog), NEW i \in 1..Len(postLog[p])
      PROVE  postLog[p][i] \in Txns /\ commitTs[postLog[p][i]] # 0
  <2>1. postLog[p] \in Seq(Txns)
    BY Zenon, MemberOf DEF TypeOK
  <2>2. postLog[p][i] \in Txns
    BY Zenon, <2>1, MemberOf
  <2>3. Sent(postLog[p][i])
    BY Zenon DEF Sent, InLog, InBatch
  <2> QED
    BY Zenon, <1>1, <2>2, <2>3
<1>4. ASSUME NEW u \in acked PROVE u \in Txns /\ commitTs[u] # 0
  <2>1. u \in Txns
    BY Zenon DEF TypeOK
  <2>2. Sent(u)
    BY Zenon DEF Sent
  <2> QED
    BY Zenon, <1>1, <2>1, <2>2
<1> QED
  BY Zenon, <1>2, <1>3, <1>4

\* Applied requests stay applied while their timestamps and writes stay and the LSM tree grows.
LEMMA StaysApplied ==
    ASSUME NEW u, commitTs'[u] = commitTs[u], Writes(u)' = Writes(u),
           \A k \in Keys : lsm[k] \subseteq lsm'[k], Unapplied(u) = {}
    PROVE  Unapplied(u)' = {}
<1>1. ASSUME NEW k \in Writes(u) PROVE Applied(u, k)'
  <2>1. Applied(u, k) /\ k \in Keys
    BY Zenon DEF Unapplied, Writes
  <2> QED
    BY Zenon, <2>1 DEF Applied
<1> QED
  BY Zenon, <1>1 DEF Unapplied

\* The first batch stays, and so do what precedes a request of it.
LEMMA PassedStays ==
    ASSUME TypeOK, PipeInv, postLog # <<>>, postLog'[1] = postLog[1],
           \A u \in Txns : commitTs[u] # 0 => commitTs'[u] = commitTs[u] /\ Writes(u)' = Writes(u),
           \A k \in Keys : lsm[k] \subseteq lsm'[k]
    PROVE  \A i \in 1..Len(postLog[1]) : Passed(i) => Passed(i)'
<1> SUFFICES ASSUME NEW i \in 1..Len(postLog[1]), Passed(i), NEW j \in 1..(i - 1)
             PROVE  Unapplied(postLog[1][j])'  = {}
  BY Zenon DEF Passed
<1>0. PICK u : u = postLog[1][j]
  OBVIOUS
<1>1. 1 \in 1..Len(postLog) /\ postLog[1] \in Seq(Txns)
  BY Zenon, FirstOf DEF TypeOK
<1>2. j \in 1..Len(postLog[1])
  BY Zenon, <1>1, EarlierIn
<1>3. u \in Txns /\ commitTs[u] # 0
  BY Zenon, <1>0, <1>1, <1>2, SentStamped
<1>4. Unapplied(u) = {}
  BY Zenon, <1>0 DEF Passed
<1>5. Unapplied(u)' = {}
  BY Zenon, <1>3, <1>4, StaysApplied
<1>6. postLog'[1][j] = u
  BY Zenon, <1>0
<1> QED
  BY Zenon, <1>5, <1>6 DEF Unapplied, Applied, Writes

\* Steps that leave the pipeline and the stamped transactions alone.
LEMMA OrderFrame ==
    ASSUME TypeOK, PipeInv, OrderInv, UNCHANGED <<writeCh, postLog, acked, lsm>>,
           \A u \in Txns : commitTs[u] # 0 => commitTs'[u] = commitTs[u] /\ Writes(u)' = Writes(u)
    PROVE  OrderInv'
<1>1. Ascending(writeCh)'
  BY Zenon, SentStamped DEF OrderInv, Ascending
<1>2. ASSUME NEW p \in 1..Len(postLog') PROVE Ascending(postLog[p])'
  <2>1. \A i \in 1..Len(postLog[p]) : commitTs'[postLog[p][i]] = commitTs[postLog[p][i]]
    BY Zenon, SentStamped
  <2>2. Ascending(postLog[p])
    BY Zenon DEF OrderInv
  <2> QED
    BY Zenon, <2>1, <2>2 DEF Ascending
<1>3. ASSUME NEW u, Reached(u) PROVE Reached(u)'
  BY <1>3, PassedStays DEF Reached
<1>4. Versions'
  <2> SUFFICES ASSUME NEW k \in Keys, NEW v \in lsm[k]
               PROVE  \E u \in Txns : commitTs'[u] # 0 /\ commitTs'[u] = v.ts /\ Reached(u)'
    BY Zenon DEF Versions
  <2>1. PICK u \in Txns : commitTs[u] # 0 /\ commitTs[u] = v.ts /\ Reached(u)
    BY Zenon DEF OrderInv, Versions
  <2> QED
    BY Zenon, <1>3, <2>1
<1> QED
  BY Zenon, <1>1, <1>2, <1>4 DEF OrderInv

\* The request sent has the largest timestamp: it goes behind all the others.
LEMMA OrderSend ==
    ASSUME TypeOK, TsInv, PipeInv, OrderInv, NEW t \in Txns, SendToWriteCh(t)
    PROVE  OrderInv'
<1>1. /\ UNCHANGED <<postLog, acked, lsm, pending, commitTs>>
      /\ writeCh' = Append(writeCh, t) /\ pc[t] = "stamped"
      /\ writeCh \in Seq(Txns)
  BY Zenon DEF SendToWriteCh, TypeOK
<1>2. PICK n \in Nat : n = Len(writeCh)
  BY <1>1
<1>3. /\ Len(writeCh') = n + 1 /\ writeCh'[n + 1] = t
      /\ \A i \in 1..n : writeCh'[i] = writeCh[i]
  BY <1>1, <1>2
<1>4. ~Sent(t) /\ commitTs[t] # 0 /\ \A x \in Txns : commitTs[x] <= commitTs[t]
  BY Zenon, <1>1 DEF PipeInv, PipeTxn, TsInv
<1>5. ASSUME NEW i \in 1..n PROVE commitTs[writeCh[i]] < commitTs[t]
  <2> DEFINE x == writeCh[i]
  <2>1. x \in Txns /\ x \in InCh
    BY <1>1, <1>2 DEF InCh, InBatch
  <2>2. x # t
    BY Zenon, <1>4, <2>1 DEF Sent
  <2>3. commitTs[x] # commitTs[t] /\ commitTs[x] <= commitTs[t]
    BY Zenon, <1>4, <2>1, <2>2 DEF TsInv
  <2>4. commitTs[x] \in Nat /\ commitTs[t] \in Nat
    BY Zenon, <2>1 DEF TypeOK, Ts
  <2> HIDE DEF x
  <2>5. commitTs[x] < commitTs[t]
    BY <2>3, <2>4
  <2> QED
    BY <2>5 DEF x
<1>6. \A i, j \in 1..n : i < j => commitTs[writeCh[i]] < commitTs[writeCh[j]]
  BY Zenon, <1>2 DEF OrderInv, Ascending
<1>7. ASSUME NEW i \in 1..(n + 1), NEW j \in 1..(n + 1), i < j
      PROVE  commitTs[writeCh'[i]] < commitTs[writeCh'[j]]
  <2>1. i \in 1..n /\ (j = n + 1 \/ j \in 1..n)
    BY <1>7
  <2>2. CASE j = n + 1
    BY Zenon, <1>3, <1>5, <2>1, <2>2
  <2>3. CASE j \in 1..n
    BY Zenon, <1>3, <1>6, <1>7, <2>1, <2>3
  <2> QED
    BY Zenon, <2>1, <2>2, <2>3
<1>8. Ascending(writeCh)'
  BY Zenon, <1>1, <1>3, <1>7 DEF Ascending
<1>9. \A p \in 1..Len(postLog') : Ascending(postLog[p])'
  BY Zenon, <1>1 DEF OrderInv, Ascending
<1>10. Versions'
  <2>1. \A u : Unapplied(u)' = Unapplied(u)
    BY <1>1 DEF Unapplied, Applied, Writes
  <2>2. \A i : Passed(i)' = Passed(i)
    BY Zenon, <1>1, <2>1 DEF Passed
  <2>3. \A u : Reached(u) => Reached(u)'
    BY Zenon, <1>1, <2>2 DEF Reached
  <2> QED
    BY Zenon, <1>1, <2>3 DEF OrderInv, Versions
<1> QED
  BY Zenon, <1>8, <1>9, <1>10 DEF OrderInv

\* The queue, in order, becomes the last batch; the first one stays.
LEMMA OrderWriteVLog ==
    ASSUME TypeOK, PipeInv, OrderInv, WriteVLog
    PROVE  OrderInv'
<1>1. /\ UNCHANGED <<acked, lsm, pending, commitTs>>
      /\ postLog' = Append(postLog, writeCh) /\ writeCh' = <<>>
      /\ postLog \in Seq(Seq(Txns)) /\ writeCh \in Seq(Txns)
  BY DEF WriteVLog, txnVars, TypeOK
<1>2. PICK n \in Nat : n = Len(postLog)
  BY <1>1
<1>3. /\ Len(postLog') = n + 1 /\ postLog'[n + 1] = writeCh
      /\ \A p \in 1..n : postLog'[p] = postLog[p]
  BY <1>1, <1>2
<1>4. Ascending(writeCh)'
  BY <1>1 DEF Ascending
<1>5. ASSUME NEW p \in 1..Len(postLog') PROVE Ascending(postLog[p])'
  <2>1. p = n + 1 \/ p \in 1..n
    BY <1>3
  <2>2. CASE p = n + 1
    BY Zenon, <1>1, <1>3, <2>2 DEF OrderInv, Ascending
  <2>3. CASE p \in 1..n
    BY Zenon, <1>1, <1>2, <1>3, <2>3 DEF OrderInv, Ascending
  <2> QED
    BY Zenon, <2>1, <2>2, <2>3
<1>6. ASSUME NEW u, Reached(u) PROVE Reached(u)'
  <2>1. CASE u \in acked
    BY Zenon, <1>1, <2>1 DEF Reached
  <2>2. CASE u \notin acked
    <3>1. postLog # <<>>
      BY Zenon, <1>6, <2>2 DEF Reached
    <3>2. 1 \in 1..n
      BY Zenon, <1>1, <1>2, <3>1, FirstOf
    <3>3. postLog'[1] = postLog[1] /\ postLog' # <<>>
      BY <1>1, <1>2, <1>3, <3>2
    <3>4. \A i : Passed(i)' = Passed(i)
      <4>1. \A w : Unapplied(w)' = Unapplied(w)
        BY <1>1 DEF Unapplied, Applied, Writes
      <4> QED
        BY Zenon, <3>3, <4>1 DEF Passed
    <3> QED
      BY Zenon, <1>6, <2>2, <3>3, <3>4 DEF Reached
  <2> QED
    BY Zenon, <2>1, <2>2
<1>7. Versions'
  BY Zenon, <1>1, <1>6 DEF OrderInv, Versions
<1> QED
  BY Zenon, <1>4, <1>5, <1>7 DEF OrderInv

\* What a step of writeToLSM adds, and for which request.
LEMMA LsmAdded ==
    ASSUME TypeOK, PipeInv, WriteLSM
    PROVE  /\ UNCHANGED <<acked, writeCh, postLog, pending, commitTs>>
           /\ postLog # <<>>
           /\ \E i \in 1..Len(postLog[1]) : \E t \in Txns :
                /\ t = postLog[1][i] /\ commitTs[t] # 0 /\ Passed(i)
                /\ \A k \in Keys :
                     /\ lsm[k] \subseteq lsm'[k]
                     /\ \A v \in lsm'[k] \ lsm[k] : v.ts = commitTs[t] /\ k \in Unapplied(t)
<1>1. UNCHANGED <<acked, writeCh, postLog, pending, commitTs>> /\ postLog # <<>>
  BY Zenon DEF WriteLSM, oracleVars, txnVars
<1>2. PICK i \in 1..Len(postLog[1]) :
        /\ \A j \in 1..(i - 1) : Unapplied(postLog[1][j]) = {}
        /\ \E group \in SUBSET Unapplied(postLog[1][i]) :
             lsm' = [k \in Keys |->
                       IF k \in group
                       THEN lsm[k] \cup {[ts |-> commitTs[postLog[1][i]],
                                          del |-> pending[postLog[1][i]][k] = "delete"]}
                       ELSE lsm[k]]
  BY Zenon DEF WriteLSM
<1>3. PICK t : t = postLog[1][i]
  OBVIOUS
<1>4. t \in Txns /\ commitTs[t] # 0
  <2>1. 1 \in 1..Len(postLog)
    BY Zenon, <1>1, FirstOf DEF TypeOK
  <2> QED
    BY Zenon, <1>3, <2>1, SentStamped
<1>5. PICK group \in SUBSET Unapplied(t) :
        lsm' = [k \in Keys |->
                  IF k \in group
                  THEN lsm[k] \cup {[ts |-> commitTs[t], del |-> pending[t][k] = "delete"]}
                  ELSE lsm[k]]
  BY Zenon, <1>2, <1>3
<1>6. ASSUME NEW k \in Keys
      PROVE  /\ lsm[k] \subseteq lsm'[k]
             /\ \A v \in lsm'[k] \ lsm[k] : v.ts = commitTs[t] /\ k \in Unapplied(t)
  <2>1. CASE k \in group
    <3>1. lsm'[k] = lsm[k] \cup {[ts |-> commitTs[t], del |-> pending[t][k] = "delete"]}
      BY Zenon, <1>5, <2>1
    <3>2. [ts |-> commitTs[t], del |-> pending[t][k] = "delete"].ts = commitTs[t]
      BY Zenon, VersionTs
    <3> QED
      BY Zenon, <2>1, <3>1, <3>2
  <2>2. CASE k \notin group
    <3>1. lsm'[k] = lsm[k]
      BY Zenon, <1>5, <2>2
    <3> QED
      BY Zenon, <3>1
  <2> QED
    BY Zenon, <2>1, <2>2
<1> QED
  BY Zenon, <1>1, <1>2, <1>3, <1>4, <1>6 DEF Passed

\* The versions added are of a request all predecessors of which are applied.
LEMMA OrderWriteLSM ==
    ASSUME TypeOK, PipeInv, OrderInv, WriteLSM
    PROVE  OrderInv'
<1>1. /\ UNCHANGED <<acked, writeCh, postLog, pending, commitTs>> /\ postLog # <<>>
  BY Zenon, LsmAdded
<1>2. PICK i \in 1..Len(postLog[1]), t \in Txns :
        /\ t = postLog[1][i] /\ commitTs[t] # 0 /\ Passed(i)
        /\ \A k \in Keys :
             /\ lsm[k] \subseteq lsm'[k]
             /\ \A v \in lsm'[k] \ lsm[k] : v.ts = commitTs[t] /\ k \in Unapplied(t)
  BY Zenon, LsmAdded
<1>3. \A m \in 1..Len(postLog[1]) : Passed(m) => Passed(m)'
  BY Zenon, <1>1, <1>2, PassedStays DEF Writes
<1>4. \A u : Reached(u) => Reached(u)'
  BY Zenon, <1>1, <1>3 DEF Reached
<1>5. Reached(t)'
  BY Zenon, <1>1, <1>2, <1>3 DEF Reached
<1>6. Versions'
  <2> SUFFICES ASSUME NEW k \in Keys, NEW v \in lsm'[k]
               PROVE  \E u \in Txns : commitTs'[u] # 0 /\ commitTs'[u] = v.ts /\ Reached(u)'
    BY Zenon DEF Versions
  <2>1. CASE v \in lsm[k]
    <3>1. PICK u \in Txns : commitTs[u] # 0 /\ commitTs[u] = v.ts /\ Reached(u)
      BY Zenon, <2>1 DEF OrderInv, Versions
    <3> QED
      BY Zenon, <1>1, <1>4, <3>1
  <2>2. CASE v \notin lsm[k]
    <3>1. v.ts = commitTs[t]
      BY Zenon, <1>2, <2>2
    <3> QED
      BY Zenon, <1>1, <1>2, <1>5, <3>1
  <2> QED
    BY Zenon, <2>1, <2>2
<1>7. Ascending(writeCh)' /\ \A p \in 1..Len(postLog') : Ascending(postLog[p])'
  BY Zenon, <1>1 DEF OrderInv, Ascending
<1> QED
  BY Zenon, <1>6, <1>7 DEF OrderInv

\* The requests of the first batch are acknowledged, the others move up.
LEMMA OrderBatchDone ==
    ASSUME TypeOK, PipeInv, OrderInv, BatchDone
    PROVE  OrderInv'
<1>1. /\ UNCHANGED <<writeCh, lsm, pending, commitTs>>
      /\ acked' = acked \cup InBatch(postLog[1])
      /\ postLog' = Tail(postLog) /\ postLog # <<>>
      /\ postLog \in Seq(Seq(Txns))
  BY Zenon DEF BatchDone, oracleVars, txnVars, TypeOK
<1>2. PICK n \in Nat : n = Len(postLog) /\ n >= 1
  BY <1>1
<1>3. Len(postLog') = n - 1 /\ \A p \in 1..(n - 1) : postLog'[p] = postLog[p + 1]
  BY <1>1, <1>2
<1>4. \A u : Reached(u) => Reached(u)'
  BY Zenon, <1>1 DEF Reached, InBatch
<1>5. Versions'
  BY Zenon, <1>1, <1>4 DEF OrderInv, Versions
<1>6. Ascending(writeCh)'
  BY Zenon, <1>1 DEF OrderInv, Ascending
<1>7. ASSUME NEW p \in 1..Len(postLog') PROVE Ascending(postLog[p])'
  <2>1. p \in 1..(n - 1) /\ p + 1 \in 1..n
    BY <1>2, <1>3
  <2>2. Ascending(postLog[p + 1])
    BY Zenon, <1>2, <2>1 DEF OrderInv
  <2> QED
    BY Zenon, <1>1, <1>3, <2>1, <2>2 DEF Ascending
<1> QED
  BY Zenon, <1>5, <1>6, <1>7 DEF OrderInv

\* Every step keeps the pipeline in the order of the timestamps.
LEMMA OrderInvStep == TypeOK /\ TsInv /\ PipeInv /\ OrderInv /\ [Next]_vars => OrderInv'
<1> SUFFICES ASSUME TypeOK, TsInv, PipeInv, OrderInv, [Next]_vars PROVE OrderInv'
  OBVIOUS
<1>1. ASSUME NEW t \in Txns,
             \/ \E b \in BOOLEAN : LoadReadTs(t, b)
             \/ AddRef(t) \/ Abandon(t) \/ StartCommit(t) \/ LockWrites(t)
             \/ (NewCommitTs(t) /\ HasConflict(t)) \/ DecrRef(t)
             \/ RecheckRef(t) \/ ClearCommits(t) \/ DoneCommit(t)
             \/ \E k \in Keys : Get(t, k)
             \/ Scan(t)
      PROVE  OrderInv'
  <2>1. UNCHANGED <<writeCh, postLog, acked, lsm, commitTs, pending>>
    BY Zenon, <1>1 DEF LoadReadTs, AddRef, Abandon, StartCommit, LockWrites, NewCommitTs,
       DecrRef, RecheckRef, ClearCommits, DoneCommit, Get, Scan, oracleVars, pipeVars
  <2> QED
    BY Zenon, <2>1, OrderFrame DEF Writes
<1>2. ASSUME NEW t \in Txns, NEW k \in Keys, NEW op \in {"set", "delete"}, Modify(t, k, op)
      PROVE  OrderInv'
  <2>1. /\ UNCHANGED <<writeCh, postLog, acked, lsm, commitTs>>
        /\ pc[t] = "active"
        /\ \A x \in Txns : x # t => pending'[x] = pending[x]
    BY Zenon, <1>2 DEF Modify, oracleVars, pipeVars, TypeOK
  <2>2. commitTs[t] = 0
    BY Zenon, <2>1 DEF TsInv, NoStamp
  <2>3. \A u \in Txns : commitTs[u] # 0 => commitTs'[u] = commitTs[u] /\ Writes(u)' = Writes(u)
    BY Zenon, <2>1, <2>2 DEF Writes
  <2> QED
    BY Zenon, <2>1, <2>3, OrderFrame
<1>3. ASSUME NEW t \in Txns, NewCommitTs(t), ~HasConflict(t) PROVE OrderInv'
  <2>1. /\ UNCHANGED <<writeCh, postLog, acked, lsm, pending>> /\ pc[t] = "locked"
        /\ commitTs' = [commitTs EXCEPT ![t] = nextCommit]
    BY Zenon, <1>3 DEF NewCommitTs, pipeVars
  <2>2. commitTs[t] = 0
    BY Zenon, <2>1 DEF TsInv, NoStamp
  <2>3. \A u \in Txns : commitTs[u] # 0 => commitTs'[u] = commitTs[u] /\ Writes(u)' = Writes(u)
    BY <2>1, <2>2 DEF Writes, TypeOK
  <2> QED
    BY Zenon, <2>1, <2>3, OrderFrame
<1>4. ASSUME NEW t \in Txns, SendToWriteCh(t) PROVE OrderInv'
  BY Zenon, <1>4, OrderSend
<1>5. CASE Pipeline
  BY Zenon, <1>5, OrderWriteVLog, OrderWriteLSM, OrderBatchDone DEF Pipeline
<1>6. CASE UNCHANGED vars
  <2>1. UNCHANGED <<writeCh, postLog, acked, lsm, commitTs, pending>>
    BY Zenon, <1>6 DEF vars, oracleVars, txnVars, pipeVars
  <2> QED
    BY Zenon, <2>1, OrderFrame DEF Writes
<1> QED
  BY <1>1, <1>2, <1>3, <1>4, <1>5, <1>6
     DEF Next, Begin, Use, Commit, Discard, Finished

\* The request being applied is newer than all whose versions are there.
LEMMA NewerThanReached ==
    ASSUME TypeOK, TsInv, PipeInv, OrderInv, postLog # <<>>,
           NEW i \in 1..Len(postLog[1]), NEW t \in Txns, t = postLog[1][i], commitTs[t] # 0,
           NEW u \in Txns, commitTs[u] # 0, Reached(u), u # t, Unapplied(t) # {}
    PROVE  commitTs[u] < commitTs[t]
<1>1. commitTs[u] \in Nat /\ commitTs[t] \in Nat
  BY Zenon DEF TypeOK, Ts
<1>2. 1 \in 1..Len(postLog) /\ postLog[1] \in Seq(Txns)
  BY Zenon, FirstOf DEF TypeOK
<1>3. CASE u \in acked
  <2>1. t \notin acked
    BY Zenon DEF PipeInv, PipeTxn
  <2>2. ~(commitTs[t] <= commitTs[u])
    BY Zenon, <1>3, <2>1 DEF PipeInv, AckClosed
  <2> QED
    BY <1>1, <2>2
<1>4. ASSUME NEW m \in 1..Len(postLog[1]), postLog[1][m] = u, Passed(m)
      PROVE  commitTs[u] < commitTs[t]
  <2>1. m \in Nat /\ i \in Nat /\ m # i
    BY <1>2, <1>4
  <2>2. CASE m < i
    BY Zenon, <1>2, <1>4, <2>2 DEF OrderInv, Ascending
  <2>3. CASE m > i
    <3>1. i \in 1..(m - 1)
      BY <1>2, <2>3
    <3> QED
      BY Zenon, <1>4, <3>1 DEF Passed
  <2> QED
    BY <2>1, <2>2, <2>3
<1> QED
  BY Zenon, <1>3, <1>4 DEF Reached

\* Only writeToLSM adds versions, and only newer ones.
LEMMA NewerStep ==
    ASSUME TypeOK, TsInv, PipeInv, OrderInv, [Next]_vars
    PROVE  \A k \in Keys : \A v \in lsm'[k] \ lsm[k] : \A w \in lsm[k] : v.ts > w.ts
<1>1. CASE WriteLSM
  <2>1. postLog # <<>>
    BY Zenon, <1>1, LsmAdded
  <2>2. PICK i \in 1..Len(postLog[1]), t \in Txns :
          /\ t = postLog[1][i] /\ commitTs[t] # 0 /\ Passed(i)
          /\ \A k \in Keys :
               /\ lsm[k] \subseteq lsm'[k]
               /\ \A v \in lsm'[k] \ lsm[k] : v.ts = commitTs[t] /\ k \in Unapplied(t)
    BY Zenon, <1>1, LsmAdded
  <2> SUFFICES ASSUME NEW k \in Keys, NEW v \in lsm'[k] \ lsm[k], NEW w \in lsm[k]
               PROVE  v.ts > w.ts
    BY Zenon
  <2>3. v.ts = commitTs[t] /\ k \in Unapplied(t)
    BY Zenon, <2>2
  <2>4. PICK u \in Txns : commitTs[u] # 0 /\ commitTs[u] = w.ts /\ Reached(u)
    BY Zenon DEF OrderInv, Versions
  <2>5. u # t
    BY Zenon, <2>3, <2>4 DEF Unapplied, Applied
  <2>6. Unapplied(t) # {}
    BY Zenon, <2>3
  <2>7. commitTs[u] < commitTs[t]
    BY Zenon, <2>1, <2>2, <2>4, <2>5, <2>6, NewerThanReached
  <2>8. commitTs[u] \in Nat /\ commitTs[t] \in Nat
    BY Zenon DEF TypeOK, Ts
  <2> QED
    BY Zenon, <2>3, <2>4, <2>7, <2>8
<1>2. CASE ~WriteLSM
  <2>1. lsm' = lsm
    <3>1. ASSUME NEW t \in Txns,
                 \/ \E b \in BOOLEAN : LoadReadTs(t, b)
                 \/ AddRef(t) \/ Abandon(t) \/ StartCommit(t) \/ LockWrites(t)
                 \/ NewCommitTs(t) \/ SendToWriteCh(t) \/ DecrRef(t)
                 \/ RecheckRef(t) \/ ClearCommits(t) \/ DoneCommit(t)
                 \/ \E k \in Keys : Get(t, k)
                 \/ Scan(t)
                 \/ \E k \in Keys, op \in {"set", "delete"} : Modify(t, k, op)
          PROVE  lsm' = lsm
      BY Zenon, <3>1 DEF LoadReadTs, AddRef, Abandon, StartCommit, LockWrites, NewCommitTs,
         SendToWriteCh, DecrRef, RecheckRef, ClearCommits, DoneCommit, Get, Scan, Modify,
         oracleVars, pipeVars
    <3>2. CASE WriteVLog \/ BatchDone
      BY Zenon, <3>2 DEF WriteVLog, BatchDone
    <3>3. CASE UNCHANGED vars
      BY Zenon, <3>3 DEF vars, pipeVars
    <3> QED
      BY <1>2, <3>1, <3>2, <3>3
         DEF Next, Begin, Use, Commit, Discard, Finished, Pipeline
  <2> QED
    BY Zenon, <2>1
<1> QED
  BY Zenon, <1>1, <1>2

\* The pipeline is in the order of the timestamps in every reachable state.
LEMMA OrderInvariant == Spec => []OrderInv
<1>1. AllInv /\ OrderInv /\ [Next]_vars => OrderInv'
  BY Zenon, OrderInvStep DEF AllInv, TypeInv
<1> QED
  BY <1>1, InitOrder, AllInvariant, PTL DEF Spec

(* "We should never write an entry with an older timestamp for the same     *)
(* key" (DB.get): because writeLock is held from newCommitTs to             *)
(* sendToWriteCh, and the pipeline applies batches and requests in the      *)
(* order of the channel, every version added to the LSM tree is newer than  *)
(* the versions of its key already there.                                   *)
THEOREM VersionsAscend == Spec => NewerVersionsOnly
<1>1. AllInv /\ OrderInv /\ [Next]_vars
        => [\A k \in Keys : \A v \in lsm'[k] \ lsm[k] : \A w \in lsm[k] : v.ts > w.ts]_vars
  BY Zenon, NewerStep DEF AllInv, TypeInv
<1> QED
  BY <1>1, AllInvariant, OrderInvariant, PTL DEF Spec, NewerVersionsOnly
=============================================================================
