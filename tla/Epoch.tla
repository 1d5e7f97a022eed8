------------------------------- MODULE Epoch -------------------------------
(***************************************************************************)
(* Epoch-based reclamation (epoch/manager.go, list.go, epoch.go) with the  *)
(* safe-timestamp inspector it carries (safeTsTracker in db.go).           *)
(*                                                                         *)
(* A guard pins the tables its owner may hold. Whoever unlinks a table     *)
(* from the shared structures hands it to Guard.Delete, and the collector  *)
(* frees it two epochs later. On the way the collector inspects the readTs *)
(* carried by transactions' guards and derives the timestamp below which   *)
(* compaction may drop versions.                                           *)
(*                                                                         *)
(* Epochs are only ever compared by difference (epoch.sub), so the model   *)
(* keeps each stored epoch as its age: currentEpoch minus the epoch,       *)
(* saturated at 2, which no comparison in the code tells from more. Each   *)
(* element of Guards is one guard, used once.                              *)
(***************************************************************************)
EXTENDS Integers, Sequences, FiniteSets

CONSTANTS
    Guards,     \* guards ever acquired
    Resources,  \* tables, memtables and blob files
    NoGuard,
    InitRead,   \* oracle.curRead at Open
    MaxRead,    \* bound: largest curRead reached
    MaxTs       \* math.MaxUint64

ASSUME EpochAssumption ==
    /\ NoGuard \notin Guards
    /\ InitRead \in Nat /\ MaxRead \in Nat /\ MaxTs \in Nat
    /\ InitRead <= MaxRead /\ MaxRead < MaxTs

VARIABLES
    curRead,      \* oracle.curRead, raised by commits
    phase,        \* where each guard is in its life
    age,          \* age of Guard.localEpoch
    payload,      \* Guard.payload: a readTs, or Nil
    held,         \* resources the guard's owner may still dereference
    list,         \* guardList from head to tail
    state,        \* life of each resource
    delBy,        \* guard in whose deletions a resource is
    delAge,       \* age of deletion.epoch
    scanning,     \* the collector is inside collect
    todo,         \* guards iterate has still to visit
    atHead,       \* iterate has visited nobody: loc is &l.head
    canAdvance,   \* local of collect
    minActive,    \* safeTsTracker.minActive
    maxInactive,  \* safeTsTracker.maxInactive
    safeTs,       \* safeTsTracker.safeTs
    exposed       \* history: running guards whose readTs was loaded, but which were
                  \* not listed yet, when some collection read the list head

guardVars   == <<phase, age, payload, held>>
resVars     == <<state, delBy, delAge>>
collectVars == <<scanning, todo, atHead, canAdvance>>
safeVars    == <<minActive, maxInactive, safeTs>>
vars        == <<curRead, guardVars, list, resVars, collectVars, safeVars, exposed>>

Nil == -1

Ts == 0..MaxTs

TypeOK ==
    /\ curRead \in InitRead..MaxRead
    /\ phase \in [Guards -> {"idle", "stamped", "loaded", "active", "inactive"}]
    /\ age \in [Guards -> 0..2]
    /\ payload \in [Guards -> Ts \cup {Nil}]
    /\ held \in [Guards -> SUBSET Resources]
    /\ list \in Seq(Guards)
    /\ state \in [Resources -> {"linked", "unlinked", "deleted", "freed"}]
    /\ delBy \in [Resources -> Guards \cup {NoGuard}]
    /\ delAge \in [Resources -> 0..2]
    /\ scanning \in BOOLEAN
    /\ todo \in Seq(Guards)
    /\ atHead \in BOOLEAN
    /\ canAdvance \in BOOLEAN
    /\ minActive \in Ts
    /\ maxInactive \in Ts
    /\ safeTs \in Ts
    /\ exposed \subseteq Guards

Init ==
    /\ curRead = InitRead
    /\ phase = [g \in Guards |-> "idle"]
    /\ age = [g \in Guards |-> 0]
    /\ payload = [g \in Guards |-> Nil]
    /\ held = [g \in Guards |-> {}]
    /\ list = <<>>
    /\ state = [r \in Resources |-> "linked"]
    /\ delBy = [r \in Resources |-> NoGuard]
    /\ delAge = [r \in Resources |-> 0]
    /\ scanning = FALSE
    /\ todo = <<>>
    /\ atHead = TRUE
    /\ canAdvance = TRUE
    /\ minActive = 0
    /\ maxInactive = 0
    /\ safeTs = 0
    /\ exposed = {}
-----------------------------------------------------------------------------
(* The owner of a guard. *)

\* NewTransaction reads curRead before it acquires its guard.
LoadReadTs(g) ==
    /\ phase[g] = "idle"
    /\ payload' = [payload EXCEPT ![g] = curRead]
    /\ phase' = [phase EXCEPT ![g] = "stamped"]
    /\ UNCHANGED <<curRead, age, held, list, resVars, collectVars, safeVars, exposed>>

(* AcquireWithPayload: currentEpoch is loaded into localEpoch. A guard that *)
(* is still idle belongs to a worker and has no payload (Acquire).          *)
LoadEpoch(g) ==
    /\ phase[g] \in {"idle", "stamped"}
    /\ age' = [age EXCEPT ![g] = 0]
    /\ phase' = [phase EXCEPT ![g] = "loaded"]
    /\ UNCHANGED <<curRead, payload, held, list, resVars, collectVars, safeVars,
                   exposed>>

\* guardList.add, then Acquire returns.
Add(g) ==
    /\ phase[g] = "loaded"
    /\ list' = <<g>> \o list
    /\ phase' = [phase EXCEPT ![g] = "active"]
    /\ UNCHANGED <<curRead, age, payload, held, resVars, collectVars, safeVars,
                   exposed>>

\* The owner finds a table through the shared structures.
Use(g, r) ==
    /\ phase[g] = "active"
    /\ state[r] = "linked"
    /\ held' = [held EXCEPT ![g] = @ \cup {r}]
    /\ UNCHANGED <<curRead, phase, age, payload, list, resVars, collectVars,
                   safeVars, exposed>>

(* The flusher, a compaction, DeleteFilesInRange or blob GC takes a table   *)
(* out of the shared structures ...                                         *)
Unlink(g, r) ==
    /\ phase[g] = "active"
    /\ state[r] = "linked"
    /\ state' = [state EXCEPT ![r] = "unlinked"]
    /\ delBy' = [delBy EXCEPT ![r] = g]
    /\ UNCHANGED <<curRead, guardVars, list, delAge, collectVars, safeVars, exposed>>

\* ... and hands it to Guard.Delete, which loads currentEpoch.
Delete(g, r) ==
    /\ phase[g] = "active"
    /\ state[r] = "unlinked" /\ delBy[r] = g
    /\ state' = [state EXCEPT ![r] = "deleted"]
    /\ delAge' = [delAge EXCEPT ![r] = 0]
    /\ UNCHANGED <<curRead, guardVars, list, delBy, collectVars, safeVars, exposed>>

(* Guard.Done: called when the owner is finished, Delete included. The      *)
(* epoch of an inactive guard is never compared again: its age is kept 0.   *)
Done(g) ==
    /\ phase[g] = "active"
    /\ ~\E r \in Resources : state[r] = "unlinked" /\ delBy[r] = g
    /\ phase' = [phase EXCEPT ![g] = "inactive"]
    /\ age' = [age EXCEPT ![g] = 0]
    /\ held' = [held EXCEPT ![g] = {}]
    /\ exposed' = exposed \ {g}
    /\ UNCHANGED <<curRead, payload, list, resVars, collectVars, safeVars>>

\* A commit finishes and raises curRead.
AdvanceRead ==
    /\ curRead < MaxRead
    /\ curRead' = curRead + 1
    /\ UNCHANGED <<guardVars, list, resVars, collectVars, safeVars, exposed>>
-----------------------------------------------------------------------------
(* The collector (collectLoop, collect, guardList.iterate). *)

\* collect loads currentEpoch, Begin resets minActive, iterate loads the head.
BeginCollect ==
    /\ ~scanning
    /\ scanning' = TRUE
    /\ todo' = list
    /\ atHead' = TRUE
    /\ canAdvance' = TRUE
    /\ minActive' = MaxTs
    /\ exposed' = exposed \cup {g \in Guards : /\ payload[g] # Nil
                                               /\ phase[g] \in {"stamped", "loaded"}}
    /\ UNCHANGED <<curRead, guardVars, list, resVars, maxInactive, safeTs>>

\* safeTsTracker.Inspect.
Inspect(g, active) ==
    /\ minActive' = IF active /\ payload[g] # Nil /\ payload[g] < minActive
                    THEN payload[g] ELSE minActive
    /\ maxInactive' = IF ~active /\ payload[g] # Nil /\ payload[g] > maxInactive
                      THEN payload[g] ELSE maxInactive
    /\ UNCHANGED safeTs

Deletions(g) == {r \in Resources : state[r] = "deleted" /\ delBy[r] = g}

\* Mutant: deletions are freed one epoch too early.
ExpiredEarly(g) == {r \in Deletions(g) : delAge[r] >= 1}

\* Mutant: the guard at the head is skipped altogether.
ExpiredNotHead(g) == {r \in Deletions(g) : ~atHead /\ delAge[r] >= 2}

\* Guard.collect: which deletions of g are old enough to be freed.
Expired(g) == {r \in Deletions(g) : delAge[r] >= 2}

\* The list without g: its predecessor's next pointer skips it.
Others(g) ==
    LET at == CHOOSE i \in 1..Len(list) : list[i] = g
    IN  [i \in 1..(Len(list) - 1) |-> IF i < at THEN list[i] ELSE list[i + 1]]

\* Mutant: l.head itself is overwritten when the first guard visited goes.
UnlinkedHead(g) ==
    IF Deletions(g) # Expired(g) THEN list
    ELSE IF atHead THEN Tail(todo) ELSE Others(g)

(* guardList.iterate: a finished guard leaves the list when all its         *)
(* deletions are freed, unless it is the first one visited: the head may    *)
(* have moved.                                                              *)
Unlinked(g) == IF Deletions(g) = Expired(g) /\ ~atHead THEN Others(g) ELSE list

\* The callback of collect on one guard.
Visit ==
    /\ scanning
    /\ todo # <<>>
    /\ LET g == Head(todo)
           active == phase[g] = "active"
       IN  /\ Inspect(g, active)
           /\ IF active
              THEN /\ canAdvance' = (canAdvance /\ age[g] = 0)
                   /\ UNCHANGED <<state, list>>
              ELSE /\ state' = [r \in Resources |->
                                  IF r \in Expired(g) THEN "freed" ELSE state[r]]
                   /\ list' = Unlinked(g)
                   /\ UNCHANGED canAdvance
    /\ todo' = Tail(todo)
    /\ atHead' = FALSE
    /\ UNCHANGED <<curRead, guardVars, delBy, delAge, scanning, exposed>>

\* uint64 arithmetic: minActive - 1 wraps at 0.
Decrement(ts) == IF ts = 0 THEN MaxTs ELSE ts - 1

\* Mutant: running transactions are not taken into account.
SafeIgnoresActive == maxInactive

Safe == IF minActive = MaxTs THEN maxInactive ELSE Decrement(minActive)

Older(a) == IF a < 2 THEN a + 1 ELSE 2

\* safeTsTracker.End, then currentEpoch moves on if no guard lags behind.
EndCollect ==
    /\ scanning
    /\ todo = <<>>
    /\ scanning' = FALSE
    /\ atHead' = TRUE /\ canAdvance' = TRUE   \* locals of iterate and collect
    /\ safeTs' = IF Safe > safeTs THEN Safe ELSE safeTs
    /\ age' = IF canAdvance
              THEN [g \in Guards |-> IF phase[g] \in {"loaded", "active"}
                                     THEN Older(age[g]) ELSE age[g]]
              ELSE age
    /\ delAge' = IF canAdvance
                 THEN [r \in Resources |-> IF state[r] = "deleted"
                                           THEN Older(delAge[r]) ELSE delAge[r]]
                 ELSE delAge
    /\ UNCHANGED <<curRead, phase, payload, held, list, state, delBy, todo, minActive,
                   maxInactive, exposed>>

-----------------------------------------------------------------------------
Acquire(g) == LoadReadTs(g) \/ LoadEpoch(g) \/ Add(g)

Collect == BeginCollect \/ Visit \/ EndCollect

Next ==
    \/ \E g \in Guards : \/ Acquire(g)
                         \/ \E r \in Resources : Use(g, r) \/ Unlink(g, r) \/ Delete(g, r)
                         \/ Done(g)
    \/ AdvanceRead
    \/ Collect

Spec == Init /\ [][Next]_vars

(* The ticker keeps the collector running. Whoever acquires a guard        *)
(* finishes acquiring it, deletes what it unlinked and releases it          *)
(* ("absolutely essential to call Discard()", NewTransaction; workers       *)
(* release theirs at the end of each round).                                *)
FairSpec ==
    /\ Spec
    /\ WF_vars(Collect)
    /\ \A g \in Guards : /\ WF_vars(Add(g))
                         /\ WF_vars(Done(g))
                         /\ \A r \in Resources : WF_vars(Delete(g, r))
-----------------------------------------------------------------------------
(* Properties. *)

(* No use after free: a resource some guard's owner may still dereference   *)
(* is not freed, although a guard loads its epoch before it is listed and   *)
(* the collector frees while guards come and go (Guard.collect waits two    *)
(* epochs).                                                                 *)
NoUseAfterFree ==
    \A g \in Guards : \A r \in held[g] : state[r] # "freed"

(* Compaction never drops what a running transaction may read: safeTs stays *)
(* at or below the readTs of every transaction from the moment it has       *)
(* loaded it ("We should never discard any versions starting from above     *)
(* this timestamp", prepareCompactionDef). Excepted are the transactions    *)
(* between reading curRead and being listed when a collection starts.       *)
SafeTsBelowReaders ==
    \A g \in Guards \ exposed :
        payload[g] # Nil /\ phase[g] # "inactive" => safeTs <= payload[g]

(* Reclamation: a resource handed to Guard.Delete is freed in the end, once *)
(* the guards that were around are released; the guard at the head of the   *)
(* list, which iterate never unlinks, does not hold it up.                  *)
DeletedGetsFreed ==
    \A r \in Resources : state[r] = "deleted" ~> state[r] = "freed"

(* iterate unlinks guards while others are being pushed: a guard that may   *)
(* still pin or free something is never lost from the list.                 *)
NoGuardLost ==
    \A g \in Guards :
        phase[g] = "active" \/ (\E r \in Resources : state[r] = "deleted" /\ delBy[r] = g)
            => \E i \in 1..Len(list) : list[i] = g
=============================================================================
