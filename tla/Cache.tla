-------------------------------- MODULE Cache --------------------------------
(***************************************************************************)
(* The block cache: cache.Cache with its policy, the references that       *)
(* readers take of blocks (sstable block.add, block.done), and the         *)
(* deletion of a table's blocks (sstable Table.Delete).                    *)
(*                                                                         *)
(* Readers call Table.block for a key; processItems, the only goroutine    *)
(* that takes from setBuf, admits blocks and evicts others; a deleter      *)
(* deletes the blocks of a table that no reader can reach any more         *)
(* (Epoch). The counters of tinyLFU may have any value, so which keys the  *)
(* policy prefers is open. Set and Clear are not called by the store.      *)
(***************************************************************************)
EXTENDS Integers, Sequences, FiniteSets, FiniteSetsExt

CONSTANTS
    Keys,        \* keys of blocks
    Cost,        \* cost of the block of a key
    MaxCost,     \* Config.MaxCost
    SetBufSize,  \* setBufSize
    Readers,
    Doomed,      \* keys of the table that is deleted
    MaxItems     \* bound on the items that store.GetOrNew makes

VARIABLES
    store,     \* store: the item of a key, or 0
    items,     \* the items ever made: key, dead, who has locked it, and its value, a block, if it is
               \* loaded: the references and how often the buffer was given back
    setBuf,    \* Cache.setBuf
    policy,    \* keys of sampledLFU.keyCosts
    processor, \* processItems
    reader,    \* the readers
    deleter,   \* Table.Delete
    loose      \* items that the policy dropped when it rejected another one

vars == <<store, items, setBuf, policy, processor, reader, deleter, loose>>

Free == "free"

NewItem(k) == [key |-> k, dead |-> FALSE, lock |-> Free, loaded |-> FALSE, ref |-> 0, freed |-> 0]

CostOf(ks) == FoldSet(LAMBDA k, sum : Cost[k] + sum, 0, ks)

Idle == [pc |-> "idle"]

Init ==
    /\ store = [k \in Keys |-> 0]
    /\ items = <<>>
    /\ setBuf = <<>>
    /\ policy = {}
    /\ processor = Idle
    /\ reader = [r \in Readers |-> Idle]
    /\ deleter = [pc |-> "idle", gone |-> {}]
    /\ loose = {}

\* block.done: the last reference gives the buffer back.
Done(i) == items' = [items EXCEPT ![i].ref = @ - 1, ![i].freed = IF items[i].ref = 1 THEN @ + 1 ELSE @]

\* item.del of an item that is not dead.
DelItem(i) ==
    /\ items' = [items EXCEPT ![i].dead = TRUE]
    /\ store' = [store EXCEPT ![items[i].key] = 0]

-----------------------------------------------------------------------------
(* Table.block: GetOrCompute, then a reference. *)

\* store.GetOrNew: i is the item of the key, found or new.
GetOrNew(k, i) ==
    /\ i = IF store[k] = 0 THEN Len(items) + 1 ELSE store[k]
    /\ items' = IF store[k] = 0 THEN Append(items, NewItem(k)) ELSE items
    /\ store' = [store EXCEPT ![k] = i]

\* GetOrCompute up to the load of the value.
Lookup(r) ==
    /\ reader[r].pc = "lookup"
    /\ LET k == reader[r].key
       IN \E i \in 1 .. MaxItems :
          /\ GetOrNew(k, i)
          /\ reader' = [reader EXCEPT ![r] =
                           [pc |-> IF items'[i].loaded THEN "add" ELSE "compute", key |-> k, item |-> i]]
    /\ UNCHANGED <<setBuf, policy, processor, deleter, loose>>

\* compute when loadBlock returns an error: the item stays in the store without a value.
ComputeFails(r) ==
    /\ reader[r].pc = "compute"
    /\ items[reader[r].item].lock = Free
    /\ ~items[reader[r].item].dead
    /\ ~items[reader[r].item].loaded
    /\ reader' = [reader EXCEPT ![r] = Idle]
    /\ UNCHANGED <<store, items, setBuf, policy, processor, deleter, loose>>

\* compute up to the event: another reader may have been faster, or the item is dead and the loop begins again.
Compute(r) ==
    /\ reader[r].pc = "compute"
    /\ LET k == reader[r].key
           i == reader[r].item
       IN /\ items[i].lock = Free
          /\ IF items[i].dead
             THEN /\ reader' = [reader EXCEPT ![r] = [pc |-> "lookup", key |-> k]]
                  /\ items' = items
             ELSE IF items[i].loaded
             THEN /\ reader' = [reader EXCEPT ![r].pc = "add"]
                  /\ items' = items
             ELSE /\ items' = [items EXCEPT ![i].loaded = TRUE, ![i].ref = 1, ![i].lock = r]
                  /\ reader' = [reader EXCEPT ![r].pc = "send"]
    /\ UNCHANGED <<store, setBuf, policy, processor, deleter, loose>>

\* Mutant: the item stays locked.
SendLocked(r) ==
    /\ reader[r].pc = "send"
    /\ Len(setBuf) < SetBufSize
    /\ setBuf' = Append(setBuf, [del |-> FALSE, key |-> items[reader[r].item].key])
    /\ reader' = [reader EXCEPT ![r].pc = "add"]
    /\ UNCHANGED <<store, items, policy, processor, deleter, loose>>

\* The event of compute, sent with the item locked.
Send(r) ==
    /\ reader[r].pc = "send"
    /\ Len(setBuf) < SetBufSize
    /\ LET i == reader[r].item
       IN /\ setBuf' = Append(setBuf, [del |-> FALSE, key |-> items[i].key])
          /\ items' = [items EXCEPT ![i].lock = Free]
          /\ reader' = [reader EXCEPT ![r].pc = "add"]
    /\ UNCHANGED <<store, policy, processor, deleter, loose>>

\* Mutant: the reference is taken whatever is left of the block.
AddAlways(r) ==
    /\ reader[r].pc = "add"
    /\ items' = [items EXCEPT ![reader[r].item].ref = @ + 1]
    /\ reader' = [reader EXCEPT ![r].pc = "using"]
    /\ UNCHANGED <<store, setBuf, policy, processor, deleter, loose>>

\* block.add: the read fails when the block was evicted in between.
Add(r) ==
    /\ reader[r].pc = "add"
    /\ LET i == reader[r].item
       IN IF items[i].ref = 0
          THEN reader' = [reader EXCEPT ![r] = Idle] /\ items' = items
          ELSE /\ items' = [items EXCEPT ![i].ref = @ + 1]
               /\ reader' = [reader EXCEPT ![r].pc = "using"]
    /\ UNCHANGED <<store, setBuf, policy, processor, deleter, loose>>

\* A reader comes for a block of a table it can reach, and leaves.
ReadBegin(r, k) ==
    /\ reader[r].pc = "idle" /\ k \notin deleter.gone
    /\ reader' = [reader EXCEPT ![r] = [pc |-> "lookup", key |-> k]]
    /\ UNCHANGED <<store, items, setBuf, policy, processor, deleter, loose>>

ReadEnd(r) ==
    /\ reader[r].pc = "using"
    /\ Done(reader[r].item)
    /\ reader' = [reader EXCEPT ![r] = Idle]
    /\ UNCHANGED <<store, setBuf, policy, processor, deleter, loose>>

-----------------------------------------------------------------------------
(* processItems *)

\* policy.Add: the victims, and whether the key is added. Victims are deleted until there is room or
\* one is used more than the new key.
Admissions(k) ==
    IF Cost[k] > MaxCost THEN {[victims |-> {}, added |-> FALSE]}
    ELSE IF k \in policy \/ CostOf(policy) + Cost[k] <= MaxCost THEN {[victims |-> {}, added |-> TRUE]}
    ELSE {[victims |-> v, added |-> CostOf(policy \ v) + Cost[k] <= MaxCost] :
            v \in {v \in SUBSET policy : \A x \in v : CostOf(policy \ (v \ {x})) + Cost[k] > MaxCost}}

\* An event is taken: a deletion, or handleNewItem up to the end of policy.Add.
TakeEvent ==
    /\ processor.pc = "idle" /\ setBuf # <<>>
    /\ setBuf' = Tail(setBuf)
    /\ LET e == Head(setBuf)
       IN IF e.del
          THEN policy' = policy \ {e.key} /\ UNCHANGED <<processor, loose>>
          ELSE IF store[e.key] = 0 THEN UNCHANGED <<policy, processor, loose>>
          ELSE \E a \in Admissions(e.key) :
                 /\ policy' = (policy \ a.victims) \cup (IF a.added THEN {e.key} ELSE {})
                 /\ processor' = IF a.added THEN [pc |-> "victims", left |-> a.victims]
                                 ELSE [pc |-> "reject", key |-> e.key, item |-> store[e.key]]
                 /\ loose' = IF a.added THEN loose ELSE loose \cup {store[v] : v \in a.victims}
    /\ UNCHANGED <<store, items, reader, deleter>>

\* Mutant: a rejected item stays in the store.
RejectKeeps ==
    /\ processor.pc = "reject"
    /\ processor' = Idle
    /\ UNCHANGED <<store, items, setBuf, policy, reader, deleter, loose>>

\* The rejected item, if it is still the one in the store.
Reject ==
    /\ processor.pc = "reject"
    /\ processor' = IF store[processor.key] # processor.item THEN Idle
                    ELSE [pc |-> "lock", item |-> processor.item, rejected |-> TRUE, left |-> {}]
    /\ UNCHANGED <<store, items, setBuf, policy, reader, deleter, loose>>

\* The next victim.
Victim ==
    /\ processor.pc = "victims"
    /\ IF processor.left = {} THEN processor' = Idle
       ELSE \E v \in processor.left :
              processor' = IF store[v] = 0 THEN [processor EXCEPT !.left = @ \ {v}]
                           ELSE [pc |-> "lock", item |-> store[v], rejected |-> FALSE,
                                 left |-> processor.left \ {v}]
    /\ UNCHANGED <<store, items, setBuf, policy, reader, deleter, loose>>

\* The item is deleted under its lock.
EvictLocked ==
    /\ processor.pc = "lock"
    /\ items[processor.item].lock = Free
    /\ IF items[processor.item].dead
       THEN /\ processor' = [pc |-> "victims", left |-> processor.left]
            /\ UNCHANGED <<items, store>>
       ELSE DelItem(processor.item) /\ processor' = [processor EXCEPT !.pc = "evict"]
    /\ UNCHANGED <<setBuf, policy, reader, deleter, loose>>

\* onEvict. For a rejected item it gets the holder of the value instead of the value, and does nothing.
OnEvict ==
    /\ processor.pc = "evict"
    /\ IF items[processor.item].loaded /\ ~processor.rejected THEN Done(processor.item) ELSE items' = items
    /\ processor' = [pc |-> "victims", left |-> processor.left]
    /\ UNCHANGED <<store, setBuf, policy, reader, deleter, loose>>

-----------------------------------------------------------------------------
(* Table.Delete on one block *)

DeleteBegin(k) ==
    /\ deleter.pc = "idle" /\ k \in Doomed \ deleter.gone
    /\ \A r \in Readers : reader[r].pc # "idle" => reader[r].key # k
    /\ deleter' = [pc |-> "get", gone |-> deleter.gone \cup {k}, key |-> k]
    /\ UNCHANGED <<store, items, setBuf, policy, processor, reader, loose>>

\* blockCache.Get and done.
DeleteGet ==
    /\ deleter.pc = "get"
    /\ LET i == store[deleter.key]
           loaded == IF i = 0 THEN FALSE ELSE items[i].loaded
       IN /\ IF loaded THEN Done(i) ELSE items' = items
          /\ deleter' = IF i = 0 THEN [pc |-> "idle", gone |-> deleter.gone] ELSE [deleter EXCEPT !.pc = "find"]
    /\ UNCHANGED <<store, setBuf, policy, processor, reader, loose>>

\* Cache.Del looks for the item again.
DeleteFind ==
    /\ deleter.pc = "find"
    /\ LET i == store[deleter.key]
       IN deleter' = IF i = 0 THEN [pc |-> "idle", gone |-> deleter.gone]
                     ELSE [pc |-> "del", gone |-> deleter.gone, item |-> i]
    /\ UNCHANGED <<store, items, setBuf, policy, processor, reader, loose>>

DeleteLocked ==
    /\ deleter.pc = "del"
    /\ LET i == deleter.item
       IN /\ items[i].lock = Free
          /\ IF items[i].dead
             THEN /\ deleter' = [pc |-> "idle", gone |-> deleter.gone]
                  /\ UNCHANGED <<items, store>>
             ELSE /\ items' = [items EXCEPT ![i].dead = TRUE, ![i].lock = "deleter"]
                  /\ store' = [store EXCEPT ![items[i].key] = 0]
                  /\ deleter' = [deleter EXCEPT !.pc = "send"]
    /\ UNCHANGED <<setBuf, policy, processor, reader, loose>>

\* The event, the second store.Del, and the unlock.
DeleteSend ==
    /\ deleter.pc = "send"
    /\ Len(setBuf) < SetBufSize
    /\ LET i == deleter.item
       IN /\ setBuf' = Append(setBuf, [del |-> TRUE, key |-> items[i].key])
          /\ store' = [store EXCEPT ![items[i].key] = 0]
          /\ items' = [items EXCEPT ![i].lock = Free]
    /\ deleter' = [pc |-> "idle", gone |-> deleter.gone]
    /\ UNCHANGED <<policy, processor, reader, loose>>

Next ==
    \/ \E r \in Readers : \/ \E k \in Keys : ReadBegin(r, k)
                          \/ Lookup(r)
                          \/ Compute(r)
                          \/ ComputeFails(r)
                          \/ Send(r)
                          \/ Add(r)
                          \/ ReadEnd(r)
    \/ TakeEvent
    \/ Reject
    \/ Victim
    \/ EvictLocked
    \/ OnEvict
    \/ \E k \in Keys : DeleteBegin(k)
    \/ DeleteGet
    \/ DeleteFind
    \/ DeleteLocked
    \/ DeleteSend

Spec == Init /\ [][Next]_vars

-----------------------------------------------------------------------------

\* The buffer of a block is not given back while a reader uses it, and never twice: eviction,
\* Table.Delete and the readers agree on the last reference (sstable block.add, block.done).
BufferSafe ==
    /\ \A r \in Readers : reader[r].pc = "using" => items[reader[r].item].freed = 0
    /\ \A i \in DOMAIN items : items[i].freed <= 1

\* The store and the policy know the same blocks, but for those on their way. A block that the
\* policy does not know has an event that waits or is about to be sent, or is being deleted;
\* otherwise it would be kept in the cache for ever. A key that only the policy knows is about to be
\* deleted from it (cache.go, handleNewItem, on items that dangle). The exception are the loose items.
NoDanglingItem ==
    \A k \in Keys :
        LET i == store[k]
            sent(del) == \E e \in DOMAIN setBuf : setBuf[e] = [del |-> del, key |-> k]
            stored == IF i = 0 THEN FALSE ELSE items[i].loaded
        IN /\ stored /\ k \notin policy =>
                \/ i \in loose
                \/ sent(FALSE)
                \/ items[i].lock \in Readers
                \/ processor.pc = "reject" /\ processor.item = i
                \/ processor.pc = "lock" /\ processor.item = i
                \/ processor.pc \in {"victims", "lock", "evict"} /\ k \in processor.left
           /\ k \in policy /\ i = 0 =>
                \/ sent(TRUE)
                \/ deleter.pc = "send" /\ items[deleter.item].key = k

\* processItems never waits for the lock of an item whose holder waits for room in setBuf, which
\* only processItems makes: readers are never deadlocked (cache.go sends with the item locked). The
\* exception is the deleter.
NoReaderDeadlock ==
    processor.pc = "lock" => items[processor.item].lock \notin Readers
=============================================================================
