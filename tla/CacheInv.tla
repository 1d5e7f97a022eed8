------------------------------ MODULE CacheInv ------------------------------
(***************************************************************************)
(* The two inductive invariants of Cache. BufferInv is about the           *)
(* references to the blocks. StageInv is about the way of a block, from    *)
(* compute through the policy and out of the store, and who may lock its   *)
(* item meanwhile.                                                         *)
(***************************************************************************)
EXTENDS Cache

Item == [key : Keys, dead : BOOLEAN, lock : Readers \cup {Free, "deleter"}, loaded : BOOLEAN,
         ref : Int, freed : Int]

HasItem == {"compute", "send", "add", "using"}

Reading == [pc : {"idle"}] \cup [pc : {"lookup"}, key : Keys] \cup [pc : HasItem, key : Keys, item : Nat]

Processing ==
    [pc : {"idle"}] \cup [pc : {"reject"}, key : Keys, item : Nat] \cup [pc : {"victims"}, left : SUBSET Keys]
    \cup [pc : {"lock", "evict"}, item : Nat, rejected : BOOLEAN, left : SUBSET Keys]

Deleting ==
    [pc : {"idle"}, gone : SUBSET Keys] \cup [pc : {"get", "find"}, gone : SUBSET Keys, key : Keys]
    \cup [pc : {"del", "send"}, gone : SUBSET Keys, item : Nat]

Typed ==
    /\ store \in [Keys -> Nat]
    /\ items \in Seq(Item)
    /\ setBuf \in Seq([del : BOOLEAN, key : Keys])
    /\ policy \in SUBSET Keys
    /\ processor \in Processing
    /\ reader \in [Readers -> Reading]
    /\ deleter \in Deleting

\* Everybody's item is one that was made, of the key in question; a key is deleted when no reader
\* is at it, and none comes back.
Links ==
    /\ \A k \in Keys : store[k] # 0 => store[k] \in 1..Len(items) /\ items[store[k]].key = k
    /\ \A r \in Readers : reader[r].pc \in HasItem =>
          /\ reader[r].item \in 1..Len(items)
          /\ items[reader[r].item].key = reader[r].key
          /\ reader[r].pc # "compute" => items[reader[r].item].loaded
    /\ \A r \in Readers : reader[r].pc # "idle" => reader[r].key \notin deleter.gone
    /\ processor.pc \in {"reject", "lock", "evict"} => processor.item \in 1..Len(items)
    /\ processor.pc = "evict" => items[processor.item].dead
    /\ deleter.pc \in {"get", "find"} => deleter.key \in deleter.gone
    /\ deleter.pc \in {"del", "send"} => deleter.item \in 1..Len(items)

\* The readers that use the block of an item.
Users(i) == {r \in Readers : reader[r].pc = "using" /\ reader[r].item = i}

Unloaded(i) == ~items[i].loaded /\ items[i].ref = 0 /\ items[i].freed = 0 /\ Users(i) = {}

\* The cache has its reference.
Held(i) == items[i].loaded /\ items[i].ref = Cardinality(Users(i)) + 1 /\ items[i].freed = 0

\* onEvict has given the reference back, and will not do it again.
Evicted(i) ==
    /\ items[i].loaded /\ items[i].dead
    /\ ~(processor.pc = "evict" /\ processor.item = i)
    /\ items[i].ref = Cardinality(Users(i))
    /\ items[i].freed = IF items[i].ref = 0 THEN 1 ELSE 0

\* Table.Delete and eviction may both give the reference back, but there are no readers.
Deserted(i) ==
    /\ items[i].loaded /\ items[i].key \in deleter.gone
    /\ Users(i) = {}
    /\ items[i].freed \in {0, 1}
    /\ items[i].ref >= 1 => items[i].freed = 0

Counts(i) == Unloaded(i) \/ Held(i) \/ Evicted(i) \/ Deserted(i)

Counted == \A i \in 1..Len(items) : Counts(i)

BufferInv == Typed /\ Links /\ Counted

-----------------------------------------------------------------------------
(* Where a block is on its way from compute to the policy and out of the   *)
(* store.                                                                  *)

\* A reader has locked the item and is about to send its event.
Locked(i) == items[i].lock \in Readers

Sent(del, k) == \E e \in 1..Len(setBuf) : setBuf[e] = [del |-> del, key |-> k]

Rejecting(k) == processor.pc = "reject" /\ processor.key = k

Waiting(k) == processor.pc \in {"victims", "lock", "evict"} /\ k \in processor.left

Evicting(k) == processor.pc = "lock" /\ items[processor.item].key = k

\* processItems is to delete the block of the key from the store.
Leaving(k) == Rejecting(k) \/ Waiting(k) \/ Evicting(k)

\* The event of compute was sent, and the block is not out of the policy and the store.
Entered(k) == k \in policy \/ Sent(FALSE, k) \/ Leaving(k)

\* Readers hold the lock of an item exactly while they send.
Owners ==
    /\ \A i \in 1..Len(items) : Locked(i) =>
          /\ reader[items[i].lock].pc = "send" /\ reader[items[i].lock].item = i
          /\ ~items[i].dead
    /\ \A r \in Readers : reader[r].pc = "send" => items[reader[r].item].lock = r

\* An item is in the store until it dies, but for keys that are deleted.
Alive ==
    /\ \A k \in Keys : store[k] # 0 => ~items[store[k]].dead
    /\ \A i \in 1..Len(items) :
          ~items[i].dead /\ items[i].key \notin deleter.gone => store[items[i].key] = i

\* What is known of the keys that processItems and Table.Delete are at.
KeysKnown ==
    /\ deleter.pc \in {"del", "send"} => items[deleter.item].key \in deleter.gone
    /\ \A k \in Keys : Sent(TRUE, k) => k \in deleter.gone /\ store[k] = 0
    /\ processor.pc = "reject" => items[processor.item].key = processor.key
    /\ processor.pc = "lock" => items[processor.item].key \notin processor.left
    /\ \A k \in policy : ~(Cost[k] > MaxCost)

\* The event of a block is sent once before the block leaves.
Once ==
    \A e, f \in 1..Len(setBuf) :
        e # f /\ setBuf[e] = setBuf[f] => setBuf[e].del \/ setBuf[e].key \in deleter.gone

\* A block leaves the policy before processItems deletes it from the store. The block of a key that
\* is not deleted is at one place of its way, and in the store, loaded and not locked by its
\* reader.
Way ==
    /\ \A k \in Keys : Leaving(k) => k \notin policy
    /\ \A k \in Keys \ deleter.gone : Entered(k) =>
          /\ Sent(FALSE, k) => k \notin policy /\ ~Leaving(k)
          /\ store[k] # 0 /\ items[store[k]].loaded /\ ~Locked(store[k])

\* A block of the store that the policy does not know is about to be one or the other.
Kept(k) ==
    store[k] # 0 /\ items[store[k]].loaded /\ k \notin policy =>
        \/ store[k] \in loose
        \/ Sent(FALSE, k)
        \/ Locked(store[k])
        \/ processor.pc \in {"reject", "lock"} /\ processor.item = store[k]
        \/ Waiting(k)

\* A key of the policy that is not in the store is about to be deleted from it.
Dropped(k) ==
    k \in policy /\ store[k] = 0 =>
        Sent(TRUE, k) \/ (deleter.pc = "send" /\ items[deleter.item].key = k)

Known == \A k \in Keys : Kept(k) /\ Dropped(k)

StageInv == Owners /\ Alive /\ KeysKnown /\ Once /\ Way /\ Known
=============================================================================
