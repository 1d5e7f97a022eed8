----------------------------- MODULE DurableLog -----------------------------
(***************************************************************************)
(* What a crash may do to the store: the promise Recovery is shown to      *)
(* keep. The store holds whole transactions, known by their versions. A    *)
(* transaction enters when Commit is answered. A crash may keep besides    *)
(* the transactions that were on their way; it loses nothing if SyncWrites *)
(* is on, and otherwise only the newest. Opening again changes nothing.    *)
(***************************************************************************)
EXTENDS Integers

CONSTANT Versions

VARIABLES
    open,      \* the store is open and serves
    store,     \* versions of the transactions it holds
    durable,   \* SyncWrites
    excused    \* the store is in a case where it keeps no promise

vars == <<open, store, durable, excused>>

Init ==
    /\ open = TRUE
    /\ store = {}
    /\ durable \in BOOLEAN
    /\ excused = FALSE

\* A transaction is answered; its version is above every other.
Answered(old, new) ==
    \E v \in Versions : new = old \cup {v} /\ \A w \in old : w < v

\* What a stop may leave: an initial part of what there was and was on its way.
Kept(old, new) ==
    /\ new \subseteq Versions
    /\ \A v \in new \ old, w \in old : w < v
    /\ \A v \in new, w \in old : w < v => w \in new
    /\ durable => old \subseteq new

Commit ==
    /\ open /\ open'
    /\ UNCHANGED <<durable, excused>>
    /\ \E before \in {store}, after \in {store'} : Answered(before, after)

\* A crash or a Close.
Stop ==
    /\ open /\ ~open'
    /\ UNCHANGED <<durable, excused>>
    /\ \E before \in {store}, after \in {store'} : Kept(before, after)

Open ==
    /\ ~open /\ open'
    /\ UNCHANGED <<store, durable, excused>>

\* Once excused, anything may happen.
Excuse == excused' /\ durable' = durable

Next ==
    \/ Excuse
    \/ Commit
    \/ Stop
    \/ Open

Spec == Init /\ [][Next]_vars
=============================================================================
