---------------------------- MODULE CacheProofs -----------------------------
(***************************************************************************)
(* BufferInv is inductive: one lemma per action, on what it does to the    *)
(* links and to the counts. With StageInv it has the three theorems.       *)
(***************************************************************************)
EXTENDS CacheStageProofs, FiniteSetTheorems

LEMMA InitBuffer == Init => BufferInv
<1> SUFFICES ASSUME Init PROVE BufferInv
  OBVIOUS
<1>1. Typed
  BY DEF Init, Typed, Idle, Processing, Reading, Deleting
<1>2. Links /\ Counted
  BY DEF Init, Links, Counted, Idle, HasItem
<1> QED
  BY <1>1, <1>2 DEF BufferInv

\* A reader that neither was at a block nor is at one now changes no users.
LEMMA SameUsers ==
    ASSUME NEW r \in Readers, reader[r].pc # "using", reader'[r].pc # "using",
           \A q \in Readers : q # r => reader'[q] = reader[q]
    PROVE  \A i : Users(i)' = Users(i)
BY DEF Users

\* The items that a step does not touch stay counted.
LEMMA OthersCounted ==
    ASSUME Counted, NEW i, items' = items \/ OnlyItem(i), deleter.gone \subseteq deleter'.gone,
           \A j \in 1..Len(items) : j # i => Users(j)' = Users(j),
           processor'.pc = "evict" =>
               processor'.item = i \/ (processor.pc = "evict" /\ processor.item = processor'.item)
    PROVE  \A j \in 1..Len(items) : j # i => Counts(j)'
<1> SUFFICES ASSUME NEW j \in 1..Len(items), j # i PROVE Counts(j)'
  OBVIOUS
<1>1. items'[j] = items[j] /\ Users(j)' = Users(j)
  BY DEF OnlyItem
<1>2. Unloaded(j) => Unloaded(j)'
  BY <1>1 DEF Unloaded
<1>3. Held(j) => Held(j)'
  BY <1>1 DEF Held
<1>4. Evicted(j) => Evicted(j)'
  BY <1>1 DEF Evicted
<1>5. Deserted(j) => Deserted(j)'
  BY <1>1 DEF Deserted
<1> QED
  BY <1>2, <1>3, <1>4, <1>5 DEF Counts, Counted

\* A step that changes no item and no users.
LEMMA AllCounted ==
    ASSUME Counted, items' = items, deleter.gone \subseteq deleter'.gone, \A j : Users(j)' = Users(j),
           processor'.pc = "evict" => processor' = processor
    PROVE  Counted'
<1>1. ASSUME NEW j \in 1..Len(items) PROVE Counts(j)'
  <2>1. Users(j)' = Users(j)
    OBVIOUS
  <2>2. Unloaded(j) => Unloaded(j)'
    BY <2>1 DEF Unloaded
  <2>3. Held(j) => Held(j)'
    BY <2>1 DEF Held
  <2>4. Evicted(j) => Evicted(j)'
    BY <2>1 DEF Evicted
  <2>5. Deserted(j) => Deserted(j)'
    BY <2>1 DEF Deserted
  <2> QED
    BY <2>2, <2>3, <2>4, <2>5 DEF Counts, Counted
<1> QED
  BY <1>1 DEF Counted, Counts

-----------------------------------------------------------------------------
(* The readers. *)

LEMMA ReadBeginInv ==
    ASSUME BufferInv, NEW r \in Readers, NEW k \in Keys, ReadBegin(r, k)
    PROVE  BufferInv'
<1> USE DEF BufferInv
<1>1. /\ UNCHANGED <<store, items, setBuf, policy, processor, deleter>>
      /\ reader[r].pc = "idle" /\ k \notin deleter.gone
      /\ reader' = [reader EXCEPT ![r] = [pc |-> "lookup", key |-> k]]
  BY DEF ReadBegin
<1>2. reader' \in [Readers -> Reading]
  BY <1>1 DEF Typed, Reading
<1>3. /\ reader'[r].pc = "lookup" /\ reader'[r].key = k
      /\ \A q \in Readers : q # r => reader'[q] = reader[q]
  BY <1>1 DEF Typed
<1>4. Typed'
  BY <1>1, <1>2 DEF Typed
<1>5. Links'
  BY <1>1, <1>3 DEF Links, HasItem
<1>6. \A j : Users(j)' = Users(j)
  BY <1>1, <1>3, SameUsers
<1>7. Counted'
  BY <1>1, <1>6, AllCounted
<1> QED
  BY <1>4, <1>5, <1>7

\* store.GetOrNew adds an item without a value, or nothing.
LEMMA LookupInv ==
    ASSUME BufferInv, NEW r \in Readers, Lookup(r)
    PROVE  BufferInv'
<1> USE DEF BufferInv
<1> DEFINE k == reader[r].key
<1>1. PICK i \in 1..MaxItems :
          /\ GetOrNew(k, i)
          /\ reader' = [reader EXCEPT ![r] =
                           [pc |-> IF items'[i].loaded THEN "add" ELSE "compute", key |-> k, item |-> i]]
  BY Zenon DEF Lookup
<1>2. UNCHANGED <<setBuf, policy, processor, deleter>> /\ reader[r].pc = "lookup"
  BY DEF Lookup
<1>3. k \in Keys /\ reader[r] \in Reading
  BY <1>2 DEF Typed, Reading, HasItem
<1> HIDE DEF k
<1>4. i \in Nat /\ store' \in [Keys -> Nat] /\ store'[k] = i /\ \A q \in Keys : q # k => store'[q] = store[q]
  BY <1>1, <1>3 DEF GetOrNew, Typed
<1>5. /\ items' \in Seq(Item) /\ i \in 1..Len(items') /\ items'[i].key = k
      /\ Len(items) <= Len(items') /\ \A j \in 1..Len(items) : items'[j] = items[j]
  <2>1. CASE store[k] = 0
    <3>1. NewItem(k) \in Item /\ NewItem(k).key = k
      BY <1>3 DEF NewItem, Item
    <3>2. items' = Append(items, NewItem(k)) /\ i = Len(items) + 1
      BY <1>1, <2>1 DEF GetOrNew
    <3> QED
      BY <3>1, <3>2 DEF Typed
  <2>2. CASE store[k] # 0
    BY <1>1, <1>3, <2>2 DEF GetOrNew, Typed, Links
  <2> QED
    BY <2>1, <2>2
<1>6. ASSUME NEW j \in 1..Len(items'), j \notin 1..Len(items)
      PROVE  ~items'[j].loaded /\ items'[j].ref = 0 /\ items'[j].freed = 0 /\ Users(j) = {}
  <2>1. store[k] = 0 /\ items' = Append(items, NewItem(k)) /\ j = Len(items) + 1
    BY <1>1, <1>6 DEF GetOrNew, Typed
  <2>2. items'[j] = NewItem(k)
    BY <2>1 DEF Typed
  <2>3. Users(j) = {}
    BY <1>6 DEF Users, Links, HasItem
  <2> QED
    BY <2>2, <2>3 DEF NewItem
<1>7. reader' \in [Readers -> Reading]
  <2> DEFINE x == [pc |-> IF items'[i].loaded THEN "add" ELSE "compute", key |-> k, item |-> i]
  <2>1. x \in [pc : HasItem, key : Keys, item : Nat]
    BY <1>3, <1>4 DEF HasItem
  <2>2. x \in Reading
    BY <2>1 DEF Reading
  <2> HIDE DEF x
  <2> QED
    BY <1>1, <2>2 DEF Typed, x
<1>8. /\ reader'[r].pc = (IF items'[i].loaded THEN "add" ELSE "compute")
      /\ reader'[r].key = k /\ reader'[r].item = i
      /\ \A q \in Readers : q # r => reader'[q] = reader[q]
  BY <1>1 DEF Typed
<1>9. Typed'
  BY <1>2, <1>4, <1>5, <1>7 DEF Typed
<1>10. Links'
  <2>1. \A q \in Keys : store'[q] # 0 => store'[q] \in 1..Len(items') /\ items'[store'[q]].key = q
    <3> TAKE q \in Keys
    <3>1. CASE q = k
      BY <1>4, <1>5, <3>1
    <3>2. CASE q # k
      <4>1. store'[q] = store[q]
        BY <1>4, <3>2
      <4>2. store[q] # 0 => store[q] \in 1..Len(items) /\ items[store[q]].key = q
        BY DEF Links
      <4> QED
        BY <1>5, <4>1, <4>2 DEF Typed
    <3> QED
      BY <3>1, <3>2
  <2>2. \A q \in Readers : reader'[q].pc \in HasItem =>
          /\ reader'[q].item \in 1..Len(items')
          /\ items'[reader'[q].item].key = reader'[q].key
          /\ reader'[q].pc # "compute" => items'[reader'[q].item].loaded
    <3> TAKE q \in Readers
    <3>1. CASE q = r
      BY <1>5, <1>8, <3>1
    <3>2. CASE q # r
      <4>1. reader'[q] = reader[q]
        BY <1>8, <3>2
      <4>2. reader[q].pc \in HasItem =>
              /\ reader[q].item \in 1..Len(items)
              /\ items[reader[q].item].key = reader[q].key
              /\ reader[q].pc # "compute" => items[reader[q].item].loaded
        BY DEF Links
      <4> QED
        BY <1>5, <4>1, <4>2 DEF Typed
    <3> QED
      BY <3>1, <3>2
  <2>3. \A q \in Readers : reader'[q].pc # "idle" => reader'[q].key \notin deleter'.gone
    BY <1>2, <1>8 DEF Links, k
  <2>4. /\ processor'.pc \in {"reject", "lock", "evict"} => processor'.item \in 1..Len(items')
        /\ processor'.pc = "evict" => items'[processor'.item].dead
        /\ deleter'.pc \in {"get", "find"} => deleter'.key \in deleter'.gone
        /\ deleter'.pc \in {"del", "send"} => deleter'.item \in 1..Len(items')
    BY <1>2, <1>5 DEF Links, Typed
  <2> QED
    BY <2>1, <2>2, <2>3, <2>4 DEF Links
<1>11. \A j : Users(j)' = Users(j)
  <2>1. reader'[r].pc # "using" /\ reader[r].pc # "using"
    BY <1>2, <1>8
  <2> QED
    BY <1>8, <2>1, SameUsers
<1>12. Counted'
  <2>1. ASSUME NEW j \in 1..Len(items'), j \notin 1..Len(items) PROVE Counts(j)'
    BY <1>6, <1>11, <2>1 DEF Counts, Unloaded
  <2>2. ASSUME NEW j \in 1..Len(items) PROVE Counts(j)'
    <3>1. items'[j] = items[j] /\ Users(j)' = Users(j)
      BY <1>5, <1>11
    <3>2. /\ Unloaded(j) => Unloaded(j)'
          /\ Held(j) => Held(j)'
      BY <3>1 DEF Unloaded, Held
    <3>3. /\ Evicted(j) => Evicted(j)'
          /\ Deserted(j) => Deserted(j)'
      BY <1>2, <3>1 DEF Evicted, Deserted
    <3> QED
      BY <3>2, <3>3 DEF Counted, Counts
  <2> QED
    BY <2>1, <2>2 DEF Counted, Counts
<1> QED
  BY <1>9, <1>10, <1>12

\* No step but Lookup makes items, and none takes back that one is loaded or dead.
Grows ==
    /\ Len(items') = Len(items)
    /\ \A j \in 1..Len(items) : /\ items'[j].key = items[j].key
                                /\ items[j].loaded => items'[j].loaded
                                /\ items[j].dead => items'[j].dead

LEMMA ReaderLinks ==
    ASSUME Links, Grows, UNCHANGED <<store, processor, deleter>>, NEW r \in Readers,
           \A q \in Readers : q # r => reader'[q] = reader[q],
           \/ reader'[r].pc = "idle"
           \/ reader'[r].pc = "lookup" /\ reader[r].pc # "idle" /\ reader'[r].key = reader[r].key
           \/ /\ reader'[r].pc \in HasItem /\ reader[r].pc \in HasItem
              /\ reader'[r].key = reader[r].key /\ reader'[r].item = reader[r].item
              /\ reader'[r].pc # "compute" => items'[reader[r].item].loaded
    PROVE  Links'
<1>1. ASSUME NEW q \in Readers, reader'[q].pc \in HasItem
      PROVE  /\ reader'[q].item \in 1..Len(items')
             /\ items'[reader'[q].item].key = reader'[q].key
             /\ reader'[q].pc # "compute" => items'[reader'[q].item].loaded
  <2>1. CASE q # r
    BY <1>1, <2>1 DEF Links, Grows
  <2>2. CASE q = r
    BY <1>1, <2>2 DEF Links, Grows, HasItem
  <2> QED
    BY <2>1, <2>2
<1>2. \A q \in Readers : reader'[q].pc # "idle" => reader'[q].key \notin deleter'.gone
  BY DEF Links, HasItem
<1>3. \A k \in Keys : store'[k] # 0 => store'[k] \in 1..Len(items') /\ items'[store'[k]].key = k
  BY DEF Links, Grows
<1>4. /\ processor'.pc \in {"reject", "lock", "evict"} => processor'.item \in 1..Len(items')
      /\ processor'.pc = "evict" => items'[processor'.item].dead
      /\ deleter'.pc \in {"get", "find"} => deleter'.key \in deleter'.gone
      /\ deleter'.pc \in {"del", "send"} => deleter'.item \in 1..Len(items')
  BY DEF Links, Grows
<1> QED
  BY <1>1, <1>2, <1>3, <1>4 DEF Links

LEMMA OtherLinks ==
    ASSUME Links, Grows, reader' = reader, \A k \in Keys : store'[k] \in {store[k], 0},
           \A q \in Readers : reader[q].pc # "idle" => reader[q].key \notin deleter'.gone,
           processor'.pc \in {"reject", "lock", "evict"} => processor'.item \in 1..Len(items),
           processor'.pc = "evict" => items'[processor'.item].dead,
           deleter'.pc \in {"get", "find"} => deleter'.key \in deleter'.gone,
           deleter'.pc \in {"del", "send"} => deleter'.item \in 1..Len(items)
    PROVE  Links'
<1>1. \A q \in Readers : reader'[q].pc \in HasItem =>
          /\ reader'[q].item \in 1..Len(items')
          /\ items'[reader'[q].item].key = reader'[q].key
          /\ reader'[q].pc # "compute" => items'[reader'[q].item].loaded
  BY DEF Links, Grows
<1>2. \A k \in Keys : store'[k] # 0 => store'[k] \in 1..Len(items') /\ items'[store'[k]].key = k
  BY DEF Links, Grows
<1> QED
  BY <1>1, <1>2 DEF Links, Grows

\* What the steps of processItems and of Table.Delete must show.
LEMMA ProcessorLinks ==
    ASSUME Links, Grows, UNCHANGED <<reader, deleter>>, \A k \in Keys : store'[k] \in {store[k], 0},
           processor'.pc \in {"reject", "lock", "evict"} => processor'.item \in 1..Len(items),
           processor'.pc = "evict" => items'[processor'.item].dead
    PROVE  Links'
<1>1. /\ \A q \in Readers : reader[q].pc # "idle" => reader[q].key \notin deleter'.gone
      /\ deleter'.pc \in {"get", "find"} => deleter'.key \in deleter'.gone
      /\ deleter'.pc \in {"del", "send"} => deleter'.item \in 1..Len(items)
  BY DEF Links
<1> QED
  BY <1>1, OtherLinks

LEMMA DeleterLinks ==
    ASSUME Links, Grows, UNCHANGED <<reader, processor>>, \A k \in Keys : store'[k] \in {store[k], 0},
           \A q \in Readers : reader[q].pc # "idle" => reader[q].key \notin deleter'.gone,
           deleter'.pc \in {"get", "find"} => deleter'.key \in deleter'.gone,
           deleter'.pc \in {"del", "send"} => deleter'.item \in 1..Len(items)
    PROVE  Links'
<1>1. processor'.pc \in {"reject", "lock", "evict"} => processor'.item \in 1..Len(items)
  BY DEF Links
<1>2. processor'.pc = "evict" => items'[processor'.item].dead
  BY DEF Links, Grows
<1> QED
  BY <1>1, <1>2, OtherLinks

LEMMA DeleterLinksSame ==
    ASSUME Links, Grows, UNCHANGED <<reader, processor>>, \A k \in Keys : store'[k] \in {store[k], 0},
           deleter'.gone = deleter.gone,
           deleter'.pc \in {"get", "find"} => deleter'.key \in deleter'.gone,
           deleter'.pc \in {"del", "send"} => deleter'.item \in 1..Len(items)
    PROVE  Links'
<1>1. \A q \in Readers : reader[q].pc # "idle" => reader[q].key \notin deleter'.gone
  BY DEF Links
<1> QED
  BY <1>1, DeleterLinks

LEMMA LinksSame ==
    ASSUME Links, Grows, UNCHANGED <<reader, processor, deleter>>,
           \A k \in Keys : store'[k] \in {store[k], 0}
    PROVE  Links'
<1>1. /\ deleter'.pc \in {"get", "find"} => deleter'.key \in deleter'.gone
      /\ deleter'.pc \in {"del", "send"} => deleter'.item \in 1..Len(items)
  BY DEF Links
<1> QED
  BY <1>1, DeleterLinksSame

-----------------------------------------------------------------------------
(***************************************************************************)
(* Proof about Cache for any keys, costs, readers and sizes: the buffer of *)
(* a block is given back once at most, and never under a reader.           *)
(***************************************************************************)

(* The readers. *)

LEMMA ComputeFailsInv ==
    ASSUME BufferInv, NEW r \in Readers, ComputeFails(r)
    PROVE  BufferInv'
<1> USE DEF BufferInv
<1>1. /\ UNCHANGED <<store, items, setBuf, policy, processor, deleter>>
      /\ reader[r].pc = "compute" /\ reader' = [reader EXCEPT ![r] = Idle]
  BY DEF ComputeFails
<1>2. reader' \in [Readers -> Reading]
  BY <1>1 DEF Typed, Reading, Idle
<1>3. reader'[r].pc = "idle" /\ \A q \in Readers : q # r => reader'[q] = reader[q]
  BY <1>1 DEF Typed, Idle
<1>4. Typed' /\ Grows
  BY <1>1, <1>2 DEF Typed, Grows
<1>5. Links'
  BY <1>1, <1>3, <1>4, ReaderLinks
<1>6. \A j : Users(j)' = Users(j)
  BY <1>1, <1>3, SameUsers
<1>7. Counted'
  BY <1>1, <1>6, AllCounted
<1> QED
  BY <1>4, <1>5, <1>7

\* The first reference is that of the cache.
LEMMA ComputeInv ==
    ASSUME BufferInv, NEW r \in Readers, Compute(r)
    PROVE  BufferInv'
<1> USE DEF BufferInv
<1>0. PICK i : i = reader[r].item
  OBVIOUS
<1>1. UNCHANGED <<store, setBuf, policy, processor, deleter>> /\ reader[r].pc = "compute"
  BY DEF Compute
<1>2. reader[r].pc \in HasItem /\ reader[r].pc # "using" /\ i \in 1..Len(items)
  BY <1>0, <1>1 DEF Links, HasItem
<1>3. reader[r].key \in Keys
  BY <1>1 DEF Typed, Reading, HasItem
<1>4. CASE items[i].dead
  <2>1. items' = items /\ reader' = [reader EXCEPT ![r] = [pc |-> "lookup", key |-> reader[r].key]]
    BY <1>0, <1>4 DEF Compute
  <2>2. reader' \in [Readers -> Reading]
    BY <1>3, <2>1 DEF Typed, Reading
  <2>3. /\ reader'[r].pc = "lookup" /\ reader'[r].key = reader[r].key
        /\ \A q \in Readers : q # r => reader'[q] = reader[q]
    BY <2>1 DEF Typed
  <2>4. Typed' /\ Grows
    BY <1>1, <2>1, <2>2 DEF Typed, Grows
  <2>5. Links'
    BY <1>1, <2>3, <2>4, ReaderLinks
  <2>6. Counted'
    BY <1>1, <2>1, <2>3, SameUsers, AllCounted
  <2> QED
    BY <2>4, <2>5, <2>6
<1>5. CASE ~items[i].dead /\ items[i].loaded
  <2>1. items' = items /\ reader' = [reader EXCEPT ![r].pc = "add"]
    BY <1>0, <1>5 DEF Compute
  <2>2. /\ reader' \in [Readers -> Reading]
        /\ reader'[r].pc = "add" /\ reader'[r].key = reader[r].key /\ reader'[r].item = i
        /\ \A q \in Readers : q # r => reader'[q] = reader[q]
    BY Zenon, <1>2, <2>1, <1>0, ReaderFact DEF Typed, HasItem
  <2>3. Typed' /\ Grows
    BY <1>1, <2>1, <2>2 DEF Typed, Grows
  <2>4. Links'
    BY <1>1, <1>2, <1>5, <2>1, <2>2, <2>3, <1>0, ReaderLinks DEF HasItem
  <2>5. Counted'
    BY <1>1, <2>1, <2>2, SameUsers, AllCounted
  <2> QED
    BY <2>3, <2>4, <2>5
<1>6. CASE ~items[i].dead /\ ~items[i].loaded
  <2>1. /\ items' = [items EXCEPT ![i].loaded = TRUE, ![i].ref = 1, ![i].lock = r]
        /\ reader' = [reader EXCEPT ![r].pc = "send"]
    BY <1>0, <1>6 DEF Compute
  <2>2. /\ reader' \in [Readers -> Reading]
        /\ reader'[r].pc = "send" /\ reader'[r].key = reader[r].key /\ reader'[r].item = i
        /\ \A q \in Readers : q # r => reader'[q] = reader[q]
    BY Zenon, <1>2, <2>1, <1>0, ReaderFact DEF Typed, HasItem
  <2>3. /\ OnlyItem(i) /\ items'[i].loaded /\ items'[i].dead = items[i].dead
        /\ items'[i].ref = 1 /\ items'[i].freed = items[i].freed
    BY Zenon, <1>2, <2>1, UpdateFact DEF Typed, Locks
  <2>4. Typed' /\ Grows
    BY Zenon, <1>1, <2>2, <2>3 DEF Typed, Grows, OnlyItem
  <2>5. Links'
    BY <1>1, <1>2, <2>2, <2>3, <2>4, <1>0, ReaderLinks DEF HasItem
  <2>6. \A j : Users(j)' = Users(j)
    BY <1>2, <2>2, SameUsers
  <2>7. Unloaded(i)
    BY <1>2, <1>6 DEF Counted, Counts, Held, Evicted, Deserted
  <2>8. Counts(i)'
    BY <2>3, <2>6, <2>7, FS_EmptySet DEF Counts, Held, Unloaded
  <2>9. \A j \in 1..Len(items) : j # i => Counts(j)'
    BY <1>1, <2>3, <2>6, OthersCounted
  <2>10. Counted'
    BY <2>3, <2>8, <2>9 DEF Counted, Counts, OnlyItem
  <2> QED
    BY <2>4, <2>5, <2>10
<1> QED
  BY <1>4, <1>5, <1>6

LEMMA SendInv ==
    ASSUME BufferInv, NEW r \in Readers, Send(r)
    PROVE  BufferInv'
<1> USE DEF BufferInv
<1>0. PICK i : i = reader[r].item
  OBVIOUS
<1>1. /\ UNCHANGED <<store, policy, processor, deleter>> /\ reader[r].pc = "send"
      /\ setBuf' = Append(setBuf, [del |-> FALSE, key |-> items[i].key])
      /\ items' = [items EXCEPT ![i].lock = Free]
      /\ reader' = [reader EXCEPT ![r].pc = "add"]
  BY <1>0 DEF Send
<1>2. reader[r].pc \in HasItem /\ reader[r].pc # "using" /\ i \in 1..Len(items) /\ items[i].loaded
  BY <1>0, <1>1 DEF Links, HasItem
<1>3. /\ reader' \in [Readers -> Reading]
      /\ reader'[r].pc = "add" /\ reader'[r].key = reader[r].key /\ reader'[r].item = i
      /\ \A q \in Readers : q # r => reader'[q] = reader[q]
  BY Zenon, <1>1, <1>2, <1>0, ReaderFact DEF Typed, HasItem
<1>4. /\ OnlyItem(i) /\ items'[i].loaded = items[i].loaded /\ items'[i].dead = items[i].dead
      /\ items'[i].ref = items[i].ref /\ items'[i].freed = items[i].freed
  BY Zenon, <1>1, <1>2, UpdateFact DEF Typed, Locks
<1>5. setBuf' \in Seq([del : BOOLEAN, key : Keys])
  <2>1. items[i] \in Item
    BY <1>2 DEF Typed
  <2>2. [del |-> FALSE, key |-> items[i].key] \in [del : BOOLEAN, key : Keys]
    BY <2>1 DEF Item
  <2> QED
    BY <1>1, <2>2 DEF Typed
<1>6. Typed' /\ Grows
  BY <1>1, <1>3, <1>4, <1>5 DEF Typed, Grows, OnlyItem
<1>7. Links'
  BY <1>1, <1>2, <1>3, <1>4, <1>6, <1>0, ReaderLinks DEF HasItem
<1>8. \A j : Users(j)' = Users(j)
  BY <1>2, <1>3, SameUsers
<1>9. Counts(i)'
  BY <1>1, <1>2, <1>4, <1>8 DEF Counted, Counts, Unloaded, Held, Evicted, Deserted, OnlyItem
<1>10. \A j \in 1..Len(items) : j # i => Counts(j)'
  BY <1>1, <1>4, <1>8, OthersCounted
<1> QED
  BY <1>4, <1>6, <1>7, <1>9, <1>10 DEF Counted, Counts, OnlyItem

LEMMA UsersFinite ==
    ASSUME IsFiniteSet(Readers), NEW i
    PROVE  IsFiniteSet(Users(i)) /\ Cardinality(Users(i)) \in Nat
<1>1. Users(i) \in SUBSET Readers
  BY DEF Users
<1> QED
  BY <1>1, FS_Subset, FS_CardinalityType

\* A reader takes a reference only where one is left.
LEMMA AddInv ==
    ASSUME IsFiniteSet(Readers), BufferInv, NEW r \in Readers, Add(r)
    PROVE  BufferInv'
<1> USE DEF BufferInv
<1>0. PICK i : i = reader[r].item
  OBVIOUS
<1>1. UNCHANGED <<store, setBuf, policy, processor, deleter>> /\ reader[r].pc = "add"
  BY DEF Add
<1>2. /\ reader[r].pc \in HasItem /\ reader[r].pc # "using" /\ i \in 1..Len(items)
      /\ items[i].loaded /\ items[i].key \notin deleter.gone
  BY <1>0, <1>1 DEF Links, HasItem
<1>3. CASE items[i].ref = 0
  <2>1. items' = items /\ reader' = [reader EXCEPT ![r] = Idle]
    BY <1>0, <1>3 DEF Add
  <2>2. reader' \in [Readers -> Reading]
    BY <2>1 DEF Typed, Reading, Idle
  <2>3. reader'[r].pc = "idle" /\ \A q \in Readers : q # r => reader'[q] = reader[q]
    BY <2>1 DEF Typed, Idle
  <2>4. Typed' /\ Grows
    BY <1>1, <2>1, <2>2 DEF Typed, Grows
  <2>5. Links'
    BY <1>1, <2>3, <2>4, ReaderLinks
  <2>6. Counted'
    BY <1>1, <2>1, <2>3, SameUsers, AllCounted
  <2> QED
    BY <2>4, <2>5, <2>6
<1>4. CASE items[i].ref # 0
  <2>1. items' = [items EXCEPT ![i].ref = @ + 1] /\ reader' = [reader EXCEPT ![r].pc = "using"]
    BY <1>0, <1>4 DEF Add
  <2>2. /\ reader' \in [Readers -> Reading]
        /\ reader'[r].pc = "using" /\ reader'[r].key = reader[r].key /\ reader'[r].item = i
        /\ \A q \in Readers : q # r => reader'[q] = reader[q]
    BY Zenon, <1>0, <1>2, <2>1, ReaderFact DEF Typed, HasItem
  <2>3. /\ OnlyItem(i) /\ items'[i].loaded = items[i].loaded /\ items'[i].dead = items[i].dead
        /\ items'[i].ref = items[i].ref + 1 /\ items'[i].freed = items[i].freed
    BY Zenon, <1>2, <2>1, UpdateFact DEF Typed, Locks
  <2>4. Typed' /\ Grows
    BY Zenon, <1>1, <2>2, <2>3 DEF Typed, Grows, OnlyItem
  <2>5. Links'
    BY Zenon, <1>0, <1>1, <1>2, <2>2, <2>3, <2>4, ReaderLinks DEF HasItem
  <2>6. \A j : j # i => Users(j)' = Users(j)
    BY <1>2, <2>2 DEF Users
  <2>7. Users(i)' = Users(i) \cup {r} /\ r \notin Users(i)
    BY <1>2, <2>2 DEF Users
  <2>8. Cardinality(Users(i)') = Cardinality(Users(i)) + 1 /\ Cardinality(Users(i)) \in Nat
    BY Zenon, <2>7, UsersFinite, FS_AddElement
  <2>9. Held(i) \/ Evicted(i)
    BY <1>2 DEF Counted, Counts, Unloaded, Deserted
  <2>10. Counts(i)'
    <3>1. CASE Held(i)
      BY <2>3, <2>8, <3>1 DEF Counts, Held
    <3>2. CASE Evicted(i)
      BY <1>1, <1>4, <2>3, <2>8, <3>2 DEF Counts, Evicted
    <3> QED
      BY <2>9, <3>1, <3>2
  <2>11. \A j \in 1..Len(items) : j # i => Counts(j)'
    BY <1>1, <2>3, <2>6, OthersCounted
  <2>12. Counted'
    BY <2>3, <2>10, <2>11 DEF Counted, OnlyItem
  <2> QED
    BY <2>4, <2>5, <2>12
<1> QED
  BY <1>3, <1>4

\* The reader's reference was counted, so the cache's one, if it is left, is not the one that goes.
LEMMA ReadEndInv ==
    ASSUME IsFiniteSet(Readers), BufferInv, NEW r \in Readers, ReadEnd(r)
    PROVE  BufferInv'
<1> USE DEF BufferInv
<1>0. PICK i : i = reader[r].item
  OBVIOUS
<1>1. /\ UNCHANGED <<store, setBuf, policy, processor, deleter>> /\ reader[r].pc = "using"
      /\ Done(i) /\ reader' = [reader EXCEPT ![r] = Idle]
  BY <1>0 DEF ReadEnd, Done
<1>2. reader[r].pc \in HasItem /\ i \in 1..Len(items) /\ items[i].loaded
  BY <1>0, <1>1 DEF Links, HasItem
<1>3. reader' \in [Readers -> Reading]
  BY <1>1 DEF Typed, Reading, Idle
<1>4. reader'[r].pc = "idle" /\ \A q \in Readers : q # r => reader'[q] = reader[q]
  BY <1>1 DEF Typed, Idle
<1>5. /\ OnlyItem(i) /\ items'[i].loaded = items[i].loaded /\ items'[i].dead = items[i].dead
      /\ items'[i].ref = items[i].ref - 1
      /\ items'[i].freed = IF items[i].ref = 1 THEN items[i].freed + 1 ELSE items[i].freed
  BY Zenon, <1>1, <1>2, DoneFact DEF Typed
<1>6. Typed' /\ Grows
  BY <1>1, <1>3, <1>5 DEF Typed, Grows, OnlyItem
<1>7. Links'
  BY <1>1, <1>4, <1>6, ReaderLinks
<1>8. \A j : j # i => Users(j)' = Users(j)
  BY <1>0, <1>4 DEF Users
<1>9. Users(i)' = Users(i) \ {r} /\ r \in Users(i)
  BY <1>0, <1>1, <1>4 DEF Users
<1>10. /\ Cardinality(Users(i)') = Cardinality(Users(i)) - 1
       /\ Cardinality(Users(i)) \in Nat /\ Cardinality(Users(i)') \in Nat
  <2>1. IsFiniteSet(Users(i)') /\ Cardinality(Users(i)') = Cardinality(Users(i)) - 1
    BY <1>9, UsersFinite, FS_RemoveElement
  <2> QED
    BY <2>1, UsersFinite, FS_CardinalityType
<1>11. Held(i) \/ Evicted(i)
  BY <1>2, <1>9 DEF Counted, Counts, Unloaded, Deserted
<1>12. Counts(i)'
  <2>1. CASE Held(i)
    BY <1>5, <1>10, <2>1 DEF Counts, Held
  <2>2. CASE Evicted(i)
    BY <1>1, <1>5, <1>10, <2>2 DEF Counts, Evicted
  <2> QED
    BY <1>11, <2>1, <2>2
<1>13. \A j \in 1..Len(items) : j # i => Counts(j)'
  BY <1>1, <1>5, <1>8, OthersCounted
<1> QED
  BY <1>5, <1>6, <1>7, <1>12, <1>13 DEF Counted, OnlyItem

-----------------------------------------------------------------------------
(* processItems. *)

\* A step that changes no item, no reader and not what onEvict is called for.
LEMMA ItemsSame ==
    ASSUME Counted, items' = items, reader' = reader, deleter.gone \subseteq deleter'.gone,
           processor'.pc = "evict" => processor' = processor
    PROVE  Grows /\ Counted'
<1>1. \A j : Users(j)' = Users(j)
  BY DEF Users
<1>2. Grows
  BY DEF Grows
<1> QED
  BY <1>1, <1>2, AllCounted

LEMMA VictimsKnown ==
    ASSUME NEW k \in Keys, policy \in SUBSET Keys, NEW a \in Admissions(k)
    PROVE  a.victims \in SUBSET Keys
<1>1. CASE a.victims = {}
  BY <1>1
<1>2. ASSUME NEW v \in SUBSET policy, NEW b, a = [victims |-> v, added |-> b]
      PROVE  a.victims \in SUBSET Keys
  BY <1>2
<1> QED
  BY Zenon, <1>1, <1>2 DEF Admissions

LEMMA TakeEventInv ==
    ASSUME BufferInv, TakeEvent
    PROVE  BufferInv'
<1> USE DEF BufferInv
<1>0. PICK e : e = Head(setBuf)
  OBVIOUS
<1>1. UNCHANGED <<store, items, reader, deleter>> /\ setBuf # <<>> /\ setBuf' = Tail(setBuf)
  BY DEF TakeEvent
<1>2. e \in [del : BOOLEAN, key : Keys] /\ setBuf' \in Seq([del : BOOLEAN, key : Keys])
  <2>1. setBuf \in Seq([del : BOOLEAN, key : Keys]) /\ setBuf # <<>>
    BY <1>1 DEF Typed
  <2> DEFINE Event == [del : BOOLEAN, key : Keys]
  <2> HIDE DEF Event
  <2>2. setBuf \in Seq(Event)
    BY <2>1 DEF Event
  <2>3. Head(setBuf) \in Event /\ Tail(setBuf) \in Seq(Event)
    BY <2>1, <2>2
  <2> QED
    BY <1>0, <1>1, <2>3 DEF Event
<1>3. e.key \in Keys
  BY <1>2
<1>4. CASE processor' = processor /\ policy' \in SUBSET policy
  <2>1. Grows /\ Counted'
    BY <1>1, <1>4, ItemsSame
  <2>2. Typed'
    BY <1>1, <1>2, <1>4 DEF Typed
  <2>3. Links'
    BY <1>1, <1>4, <2>1, LinksSame
  <2> QED
    BY <2>1, <2>2, <2>3
<1>5. ASSUME store[e.key] # 0, NEW a \in Admissions(e.key),
             policy' = (policy \ a.victims) \cup (IF a.added THEN {e.key} ELSE {}),
             processor' = IF a.added THEN [pc |-> "victims", left |-> a.victims]
                          ELSE [pc |-> "reject", key |-> e.key, item |-> store[e.key]]
      PROVE  BufferInv'
  <2>1. a.victims \in SUBSET Keys /\ policy' \in SUBSET Keys
    BY Zenon, <1>3, <1>5, VictimsKnown DEF Typed
  <2>2. store[e.key] \in 1..Len(items) /\ store[e.key] \in Nat
    BY <1>3, <1>5 DEF Links, Typed
  <2>3. /\ processor' \in Processing /\ processor'.pc \in {"victims", "reject"}
        /\ processor'.pc = "reject" => processor'.item = store[e.key]
    BY <1>3, <1>5, <2>1, <2>2 DEF Processing
  <2>4. Grows /\ Counted'
    BY <1>1, <2>3, ItemsSame
  <2>5. Typed'
    BY <1>1, <1>2, <2>1, <2>3 DEF Typed
  <2>6. Links'
    BY <1>1, <2>2, <2>3, <2>4, ProcessorLinks
  <2> QED
    BY <2>4, <2>5, <2>6
<1> QED
  BY <1>0, <1>4, <1>5 DEF TakeEvent

LEMMA RejectInv ==
    ASSUME BufferInv, Reject
    PROVE  BufferInv'
<1> USE DEF BufferInv
<1>1. UNCHANGED <<store, items, setBuf, policy, reader, deleter>> /\ processor.pc = "reject"
  BY DEF Reject
<1>2. processor.item \in 1..Len(items) /\ processor.item \in Nat
  BY <1>1 DEF Links
<1>3. /\ processor' \in Processing /\ processor'.pc \in {"idle", "lock"}
      /\ processor'.pc = "lock" => processor'.item = processor.item
  BY <1>2 DEF Reject, Processing, Idle
<1>4. Grows /\ Counted'
  BY <1>1, <1>3, ItemsSame
<1>5. Typed'
  BY <1>1, <1>3 DEF Typed
<1>6. Links'
  BY <1>1, <1>2, <1>3, <1>4, ProcessorLinks
<1> QED
  BY <1>4, <1>5, <1>6

LEMMA VictimInv ==
    ASSUME BufferInv, Victim
    PROVE  BufferInv'
<1> USE DEF BufferInv
<1>1. UNCHANGED <<store, items, setBuf, policy, reader, deleter>> /\ processor.pc = "victims"
  BY DEF Victim
<1>2. processor \in [pc : {"victims"}, left : SUBSET Keys]
  BY <1>1 DEF Typed, Processing
<1>3. /\ processor' \in Processing /\ processor'.pc \in {"idle", "victims", "lock"}
      /\ processor'.pc = "lock" => processor'.item \in 1..Len(items)
  <2>1. CASE processor' = Idle
    BY <2>1 DEF Processing, Idle
  <2>2. ASSUME NEW v \in processor.left,
               processor' = IF store[v] = 0 THEN [processor EXCEPT !.left = @ \ {v}]
                            ELSE [pc |-> "lock", item |-> store[v], rejected |-> FALSE,
                                  left |-> processor.left \ {v}]
        PROVE  /\ processor' \in Processing /\ processor'.pc \in {"idle", "victims", "lock"}
               /\ processor'.pc = "lock" => processor'.item \in 1..Len(items)
    <3>1. v \in Keys /\ store[v] \in Nat /\ processor.left \ {v} \in SUBSET Keys
      BY <1>2 DEF Typed
    <3>2. CASE store[v] = 0
      BY <1>2, <2>2, <3>1, <3>2 DEF Processing
    <3>3. CASE store[v] # 0
      <4>1. store[v] \in 1..Len(items)
        BY <3>1, <3>3 DEF Links
      <4> QED
        BY <2>2, <3>1, <3>3, <4>1 DEF Processing
    <3> QED
      BY <3>2, <3>3
  <2> QED
    BY <2>1, <2>2 DEF Victim
<1>4. Grows /\ Counted'
  BY <1>1, <1>3, ItemsSame
<1>5. Typed'
  BY <1>1, <1>3 DEF Typed
<1>6. Links'
  BY <1>1, <1>3, <1>4, ProcessorLinks
<1> QED
  BY <1>4, <1>5, <1>6

\* The processor at an item, and where it goes.
LEMMA ProcessorAt ==
    ASSUME processor \in Processing, processor.pc \in {"lock", "evict"}
    PROVE  /\ processor.left \in SUBSET Keys
           /\ [pc |-> "victims", left |-> processor.left] \in Processing
           /\ [processor EXCEPT !.pc = "evict"] \in Processing
           /\ [processor EXCEPT !.pc = "evict"].pc = "evict"
           /\ [processor EXCEPT !.pc = "evict"].item = processor.item
<1>1. processor \in [pc : {"lock", "evict"}, item : Nat, rejected : BOOLEAN, left : SUBSET Keys]
  BY DEF Processing
<1> QED
  BY <1>1 DEF Processing

\* An item leaves the store when it dies.
LEMMA StoreFact ==
    ASSUME store \in [Keys -> Nat], NEW k, store' = [store EXCEPT ![k] = 0]
    PROVE  store' \in [Keys -> Nat] /\ \A x \in Keys : store'[x] \in {store[x], 0}
BY Zenon

\* The item was not dead, so that onEvict has not been called for it.
LEMMA EvictLockedInv ==
    ASSUME BufferInv, EvictLocked
    PROVE  BufferInv'
<1> USE DEF BufferInv
<1>0. PICK i : i = processor.item
  OBVIOUS
<1>1. UNCHANGED <<setBuf, policy, reader, deleter>> /\ processor.pc = "lock"
  BY DEF EvictLocked
<1>2. i \in 1..Len(items)
  BY <1>0, <1>1 DEF Links
<1>3. processor \in Processing
  BY DEF Typed
<1>4. CASE items[i].dead
  <2>1. processor' = [pc |-> "victims", left |-> processor.left] /\ UNCHANGED <<items, store>>
    BY <1>0, <1>4 DEF EvictLocked
  <2>2. processor' \in Processing /\ processor'.pc = "victims"
    BY <1>1, <1>3, <2>1, ProcessorAt
  <2>3. Grows /\ Counted'
    BY <1>1, <2>1, <2>2, ItemsSame
  <2>4. Typed'
    BY <1>1, <2>1, <2>2 DEF Typed
  <2>5. Links'
    BY <1>1, <2>1, <2>2, <2>3, ProcessorLinks
  <2> QED
    BY <2>3, <2>4, <2>5
<1>5. CASE ~items[i].dead
  <2>1. /\ items' = [items EXCEPT ![i].dead = TRUE]
        /\ store' = [store EXCEPT ![items[i].key] = 0]
        /\ processor' = [processor EXCEPT !.pc = "evict"]
    BY <1>0, <1>5 DEF EvictLocked, DelItem
  <2>2. processor' \in Processing /\ processor'.pc = "evict" /\ processor'.item = i
    BY <1>0, <1>1, <1>3, <2>1, ProcessorAt
  <2>3. store' \in [Keys -> Nat] /\ \A x \in Keys : store'[x] \in {store[x], 0}
    BY Zenon, <2>1, StoreFact DEF Typed
  <2>4. /\ OnlyItem(i) /\ items'[i].loaded = items[i].loaded /\ items'[i].dead
        /\ items'[i].ref = items[i].ref /\ items'[i].freed = items[i].freed
    BY Zenon, <1>2, <2>1, UpdateFact DEF Typed, Locks
  <2>5. Typed' /\ Grows
    BY <1>1, <2>2, <2>3, <2>4 DEF Typed, Grows, OnlyItem
  <2>6. Links'
    BY <1>1, <1>2, <2>2, <2>3, <2>4, <2>5, ProcessorLinks
  <2>7. \A j : Users(j)' = Users(j)
    BY <1>1 DEF Users
  <2>8. Unloaded(i) \/ Held(i) \/ Deserted(i)
    BY <1>2, <1>5 DEF Counted, Counts, Evicted
  <2>9. Counts(i)'
    BY <1>1, <2>4, <2>7, <2>8 DEF Counts, Unloaded, Held, Deserted, OnlyItem
  <2>10. \A j \in 1..Len(items) : j # i => Counts(j)'
    BY <1>1, <2>2, <2>4, <2>7, OthersCounted
  <2>11. Counted'
    BY <2>4, <2>9, <2>10 DEF Counted, OnlyItem
  <2> QED
    BY <2>5, <2>6, <2>11
<1> QED
  BY <1>4, <1>5

\* onEvict gives back the reference of the cache, which is there unless the table is deleted.
LEMMA OnEvictInv ==
    ASSUME IsFiniteSet(Readers), BufferInv, OnEvict
    PROVE  BufferInv'
<1> USE DEF BufferInv
<1>0. PICK i : i = processor.item
  OBVIOUS
<1>1. /\ UNCHANGED <<store, setBuf, policy, reader, deleter>> /\ processor.pc = "evict"
      /\ processor' = [pc |-> "victims", left |-> processor.left]
  BY DEF OnEvict
<1>2. i \in 1..Len(items) /\ items[i].dead
  BY <1>0, <1>1 DEF Links
<1>3. processor' \in Processing /\ processor'.pc = "victims"
  BY <1>1, ProcessorAt DEF Typed
<1>4. \A j : Users(j)' = Users(j)
  BY <1>1 DEF Users
<1>5. CASE items' = items
  <2>1. Grows /\ Counted'
    BY <1>1, <1>3, <1>5, ItemsSame
  <2>2. Typed'
    BY <1>1, <1>3, <1>5 DEF Typed
  <2>3. Links'
    BY <1>1, <1>3, <2>1, ProcessorLinks
  <2> QED
    BY <2>1, <2>2, <2>3
<1>6. CASE items[i].loaded /\ Done(i)
  <2>1. /\ OnlyItem(i) /\ items'[i].loaded = items[i].loaded /\ items'[i].dead = items[i].dead
        /\ items'[i].ref = items[i].ref - 1
        /\ items'[i].freed = IF items[i].ref = 1 THEN items[i].freed + 1 ELSE items[i].freed
    BY Zenon, <1>2, <1>6, DoneFact DEF Typed
  <2>2. Typed' /\ Grows
    BY Zenon, <1>1, <1>3, <2>1 DEF Typed, Grows, OnlyItem
  <2>3. Links'
    BY <1>1, <1>3, <2>2, ProcessorLinks
  <2>4. Held(i) \/ Deserted(i)
    BY <1>0, <1>1, <1>2, <1>6 DEF Counted, Counts, Unloaded, Evicted
  <2>5. Cardinality(Users(i)) \in Nat /\ items[i].ref \in Int
    <3>1. items[i] \in Item
      BY <1>2 DEF Typed
    <3> QED
      BY <3>1, UsersFinite DEF Item
  <2>6. Counts(i)'
    <3>1. CASE Held(i)
      BY <1>2, <1>3, <1>4, <2>1, <2>5, <3>1 DEF Counts, Held, Evicted
    <3>2. CASE Deserted(i)
      BY <1>1, <1>4, <2>1, <2>5, <3>2 DEF Counts, Deserted, OnlyItem
    <3> QED
      BY <2>4, <3>1, <3>2
  <2>7. \A j \in 1..Len(items) : j # i => Counts(j)'
    BY <1>1, <1>3, <1>4, <2>1, OthersCounted
  <2>8. Counted'
    BY <2>1, <2>6, <2>7 DEF Counted, OnlyItem
  <2> QED
    BY <2>2, <2>3, <2>8
<1> QED
  BY <1>0, <1>5, <1>6 DEF OnEvict

-----------------------------------------------------------------------------
(* Table.Delete. *)

\* Nobody reads a block whose table is deleted.
LEMMA GoneDeserted ==
    ASSUME Links, NEW i, items[i].key \in deleter.gone
    PROVE  Users(i) = {}
<1> SUFFICES ASSUME NEW r \in Users(i) PROVE FALSE
  OBVIOUS
<1>1. r \in Readers /\ reader[r].pc = "using" /\ reader[r].item = i
  BY DEF Users
<1> QED
  BY <1>1 DEF Links, HasItem

LEMMA DeleteBeginInv ==
    ASSUME BufferInv, NEW k \in Keys, DeleteBegin(k)
    PROVE  BufferInv'
<1> USE DEF BufferInv
<1>1. /\ UNCHANGED <<store, items, setBuf, policy, processor, reader>>
      /\ deleter' = [pc |-> "get", gone |-> deleter.gone \cup {k}, key |-> k]
      /\ \A r \in Readers : reader[r].pc # "idle" => reader[r].key # k
  BY DEF DeleteBegin
<1>2. deleter.gone \in SUBSET Keys
  BY DeleterAt DEF Typed
<1>3. deleter' \in Deleting
  BY <1>1, <1>2 DEF Deleting
<1>4. Typed'
  BY <1>1, <1>3 DEF Typed
<1>5. Grows /\ Counted'
  BY <1>1, ItemsSame
<1>6. \A q \in Readers : reader[q].pc # "idle" => reader[q].key \notin deleter'.gone
  BY <1>1 DEF Links
<1>7. Links'
  BY <1>1, <1>5, <1>6, DeleterLinks
<1> QED
  BY <1>4, <1>5, <1>7

\* Table.Delete gives a reference back without having taken one.
LEMMA DeleteGetInv ==
    ASSUME IsFiniteSet(Readers), BufferInv, DeleteGet
    PROVE  BufferInv'
<1> USE DEF BufferInv
<1>0. PICK i : i = store[deleter.key]
  OBVIOUS
<1>1. UNCHANGED <<store, setBuf, policy, processor, reader>> /\ deleter.pc = "get"
  BY DEF DeleteGet
<1>2. deleter.key \in deleter.gone /\ deleter.key \in Keys
  BY <1>1, DeleterAt DEF Links, Typed
<1>3. deleter' = IF i = 0 THEN [pc |-> "idle", gone |-> deleter.gone] ELSE [deleter EXCEPT !.pc = "find"]
  BY <1>0 DEF DeleteGet
<1>4. /\ deleter' \in Deleting /\ deleter'.pc \in {"idle", "find"} /\ deleter'.gone = deleter.gone
      /\ deleter'.pc = "find" => deleter'.key = deleter.key
  BY <1>1, <1>3, DeleterAt DEF Typed
<1>5. \A j : Users(j)' = Users(j)
  BY <1>1 DEF Users
<1>6. CASE items' = items
  <2>1. Grows /\ Counted'
    BY <1>1, <1>4, <1>6, AllCounted, <1>5 DEF Grows
  <2>2. Typed'
    BY <1>1, <1>4, <1>6 DEF Typed
  <2>3. Links'
    BY <1>1, <1>2, <1>4, <1>6, <2>1, DeleterLinksSame
  <2> QED
    BY <2>1, <2>2, <2>3
<1>7. CASE i # 0 /\ items[i].loaded /\ Done(i)
  <2>1. i \in 1..Len(items) /\ items[i].key \in deleter.gone
    BY <1>0, <1>2, <1>7 DEF Links
  <2>2. Users(i) = {}
    BY <2>1, GoneDeserted
  <2>3. /\ OnlyItem(i) /\ items'[i].loaded = items[i].loaded /\ items'[i].dead = items[i].dead
        /\ items'[i].ref = items[i].ref - 1
        /\ items'[i].freed = IF items[i].ref = 1 THEN items[i].freed + 1 ELSE items[i].freed
    BY Zenon, <1>7, <2>1, DoneFact DEF Typed
  <2>4. Typed' /\ Grows
    BY <1>1, <1>4, <2>3 DEF Typed, Grows, OnlyItem
  <2>5. Links'
    BY <1>1, <1>2, <1>4, <2>4, DeleterLinksSame
  <2>6. Cardinality(Users(i)) = 0
    BY <2>2, FS_EmptySet
  <2>7. Held(i) \/ Evicted(i) \/ Deserted(i)
    BY <1>7, <2>1 DEF Counted, Counts, Unloaded
  <2>8. items[i].ref \in Int
    <3>1. items[i] \in Item
      BY <2>1 DEF Typed
    <3> QED
      BY <3>1 DEF Item
  <2>9. items[i].freed \in {0, 1} /\ (items[i].ref >= 1 => items[i].freed = 0)
    BY <2>6, <2>7, <2>8 DEF Held, Evicted, Deserted
  <2>10. Deserted(i)'
    BY <1>4, <1>5, <1>7, <2>1, <2>2, <2>3, <2>8, <2>9 DEF Deserted, OnlyItem
  <2>11. \A j \in 1..Len(items) : j # i => Counts(j)'
    BY <1>1, <1>4, <1>5, <2>3, OthersCounted
  <2>12. Counted'
    BY <2>3, <2>10, <2>11 DEF Counted, Counts, OnlyItem
  <2> QED
    BY <2>4, <2>5, <2>12
<1> QED
  BY <1>0, <1>6, <1>7 DEF DeleteGet

LEMMA DeleteFindInv ==
    ASSUME BufferInv, DeleteFind
    PROVE  BufferInv'
<1> USE DEF BufferInv
<1>0. PICK i : i = store[deleter.key]
  OBVIOUS
<1>1. /\ UNCHANGED <<store, items, setBuf, policy, processor, reader>> /\ deleter.pc = "find"
      /\ deleter' = IF i = 0 THEN [pc |-> "idle", gone |-> deleter.gone]
                    ELSE [pc |-> "del", gone |-> deleter.gone, item |-> i]
  BY <1>0 DEF DeleteFind
<1>2. deleter.key \in Keys /\ deleter.gone \in SUBSET Keys
  BY <1>1, DeleterAt DEF Links, Typed
<1>3. i \in Nat /\ (i # 0 => i \in 1..Len(items))
  BY <1>0, <1>2 DEF Links, Typed
<1>4. /\ deleter' \in Deleting /\ deleter'.pc \in {"idle", "del"} /\ deleter'.gone = deleter.gone
      /\ deleter'.pc = "del" => deleter'.item \in 1..Len(items)
  BY <1>1, <1>2, <1>3 DEF Deleting
<1>5. Typed'
  BY <1>1, <1>4 DEF Typed
<1>6. Grows /\ Counted'
  BY <1>1, <1>4, ItemsSame
<1>7. Links'
  BY <1>1, <1>4, <1>6, DeleterLinksSame
<1> QED
  BY <1>5, <1>6, <1>7

LEMMA DeleteLockedInv ==
    ASSUME BufferInv, DeleteLocked
    PROVE  BufferInv'
<1> USE DEF BufferInv
<1>0. PICK i : i = deleter.item
  OBVIOUS
<1>1. UNCHANGED <<setBuf, policy, processor, reader>> /\ deleter.pc = "del"
  BY DEF DeleteLocked
<1>2. i \in 1..Len(items)
  BY <1>0, <1>1 DEF Links
<1>3. CASE items[i].dead
  <2>1. deleter' = [pc |-> "idle", gone |-> deleter.gone] /\ UNCHANGED <<items, store>>
    BY <1>0, <1>3 DEF DeleteLocked
  <2>2. deleter' \in Deleting /\ deleter'.pc = "idle" /\ deleter'.gone = deleter.gone
    BY <2>1, DeleterAt DEF Typed
  <2>3. Grows /\ Counted'
    BY <1>1, <2>1, <2>2, ItemsSame
  <2>4. Typed'
    BY <1>1, <2>1, <2>2 DEF Typed
  <2>5. Links'
    BY <1>1, <2>1, <2>2, <2>3, DeleterLinksSame
  <2> QED
    BY <2>3, <2>4, <2>5
<1>4. CASE ~items[i].dead
  <2>1. /\ items' = [items EXCEPT ![i].dead = TRUE, ![i].lock = "deleter"]
        /\ store' = [store EXCEPT ![items[i].key] = 0]
        /\ deleter' = [deleter EXCEPT !.pc = "send"]
    BY <1>0, <1>4 DEF DeleteLocked
  <2>2. deleter' \in Deleting /\ deleter'.pc = "send" /\ deleter'.gone = deleter.gone /\ deleter'.item = i
    BY <1>0, <1>1, <2>1, DeleterAt DEF Typed
  <2>3. store' \in [Keys -> Nat] /\ \A x \in Keys : store'[x] \in {store[x], 0}
    BY Zenon, <2>1, StoreFact DEF Typed
  <2>4. /\ OnlyItem(i) /\ items'[i].loaded = items[i].loaded /\ items'[i].dead
        /\ items'[i].ref = items[i].ref /\ items'[i].freed = items[i].freed
    BY Zenon, <1>2, <2>1, UpdateFact DEF Typed, Locks
  <2>5. Typed' /\ Grows
    BY <1>1, <2>2, <2>3, <2>4 DEF Typed, Grows, OnlyItem
  <2>6. Links'
    BY <1>1, <1>2, <2>2, <2>3, <2>5, DeleterLinksSame
  <2>7. \A j : Users(j)' = Users(j)
    BY <1>1 DEF Users
  <2>8. Counts(i)'
    BY <1>1, <1>2, <1>4, <2>2, <2>4, <2>7 DEF Counted, Counts, Unloaded, Held, Evicted, Deserted, OnlyItem
  <2>9. \A j \in 1..Len(items) : j # i => Counts(j)'
    BY <1>1, <2>2, <2>4, <2>7, OthersCounted
  <2>10. Counted'
    BY <2>4, <2>8, <2>9 DEF Counted, OnlyItem
  <2> QED
    BY <2>5, <2>6, <2>10
<1> QED
  BY <1>3, <1>4

LEMMA DeleteSendInv ==
    ASSUME BufferInv, DeleteSend
    PROVE  BufferInv'
<1> USE DEF BufferInv
<1>0. PICK i : i = deleter.item
  OBVIOUS
<1>1. /\ UNCHANGED <<policy, processor, reader>> /\ deleter.pc = "send"
      /\ setBuf' = Append(setBuf, [del |-> TRUE, key |-> items[i].key])
      /\ store' = [store EXCEPT ![items[i].key] = 0]
      /\ items' = [items EXCEPT ![i].lock = Free]
      /\ deleter' = [pc |-> "idle", gone |-> deleter.gone]
  BY <1>0 DEF DeleteSend
<1>2. i \in 1..Len(items)
  BY <1>0, <1>1 DEF Links
<1>3. deleter' \in Deleting /\ deleter'.pc = "idle" /\ deleter'.gone = deleter.gone
  BY <1>1, DeleterAt DEF Typed
<1>4. store' \in [Keys -> Nat] /\ \A x \in Keys : store'[x] \in {store[x], 0}
  BY Zenon, <1>1, StoreFact DEF Typed
<1>5. /\ OnlyItem(i) /\ items'[i].loaded = items[i].loaded /\ items'[i].dead = items[i].dead
      /\ items'[i].ref = items[i].ref /\ items'[i].freed = items[i].freed
  BY Zenon, <1>1, <1>2, UpdateFact DEF Typed, Locks
<1>6. setBuf' \in Seq([del : BOOLEAN, key : Keys])
  <2>1. items[i] \in Item
    BY <1>2 DEF Typed
  <2>2. [del |-> TRUE, key |-> items[i].key] \in [del : BOOLEAN, key : Keys]
    BY <2>1 DEF Item
  <2> QED
    BY <1>1, <2>2 DEF Typed
<1>7. Typed' /\ Grows
  BY <1>1, <1>3, <1>4, <1>5, <1>6 DEF Typed, Grows, OnlyItem
<1>8. Links'
  BY <1>1, <1>3, <1>4, <1>7, DeleterLinksSame
<1>9. \A j : Users(j)' = Users(j)
  BY <1>1 DEF Users
<1>10. Counts(i)'
  BY <1>1, <1>2, <1>3, <1>5, <1>9 DEF Counted, Counts, Unloaded, Held, Evicted, Deserted, OnlyItem
<1>11. \A j \in 1..Len(items) : j # i => Counts(j)'
  BY <1>1, <1>3, <1>5, <1>9, OthersCounted
<1> QED
  BY <1>5, <1>7, <1>8, <1>10, <1>11 DEF Counted, OnlyItem

-----------------------------------------------------------------------------

LEMMA BufferInductive ==
    ASSUME IsFiniteSet(Readers)
    PROVE  BufferInv /\ [Next]_vars => BufferInv'
<1> SUFFICES ASSUME BufferInv, [Next]_vars PROVE BufferInv'
  OBVIOUS
<1>1. CASE UNCHANGED vars
  <2>1. UNCHANGED <<store, items, setBuf, policy, processor, reader, deleter>>
    BY <1>1 DEF vars
  <2>2. Grows /\ Counted'
    BY <2>1, ItemsSame DEF BufferInv
  <2>3. Typed'
    BY <2>1 DEF BufferInv, Typed
  <2>4. Links'
    BY <2>1, <2>2, LinksSame DEF BufferInv
  <2> QED
    BY <2>2, <2>3, <2>4 DEF BufferInv
<1>2. ASSUME NEW r \in Readers,
             \/ \E k \in Keys : ReadBegin(r, k)
             \/ Lookup(r) \/ Compute(r) \/ ComputeFails(r) \/ Send(r) \/ Add(r) \/ ReadEnd(r)
      PROVE  BufferInv'
  BY <1>2, ReadBeginInv, LookupInv, ComputeInv, ComputeFailsInv, SendInv, AddInv, ReadEndInv
<1>3. CASE TakeEvent \/ Reject \/ Victim \/ EvictLocked \/ OnEvict
  BY <1>3, TakeEventInv, RejectInv, VictimInv, EvictLockedInv, OnEvictInv
<1>4. CASE \E k \in Keys : DeleteBegin(k)
  BY <1>4, DeleteBeginInv
<1>5. CASE DeleteGet \/ DeleteFind \/ DeleteLocked \/ DeleteSend
  BY <1>5, DeleteGetInv, DeleteFindInv, DeleteLockedInv, DeleteSendInv
<1> QED
  BY <1>1, <1>2, <1>3, <1>4, <1>5 DEF Next

LEMMA BufferInvSafe ==
    ASSUME IsFiniteSet(Readers), BufferInv
    PROVE  BufferSafe
<1>1. \A i \in 1..Len(items) : items[i].freed <= 1 /\ (Users(i) # {} => items[i].freed = 0)
  <2> TAKE i \in 1..Len(items)
  <2>1. Counts(i)
    BY DEF BufferInv, Counted
  <2>2. Users(i) # {} => Cardinality(Users(i)) # 0
    BY UsersFinite, FS_EmptySet
  <2> QED
    BY <2>1, <2>2 DEF Counts, Unloaded, Held, Evicted, Deserted
<1>2. \A r \in Readers : reader[r].pc = "using" =>
          reader[r].item \in 1..Len(items) /\ Users(reader[r].item) # {}
  BY DEF BufferInv, Links, HasItem, Users
<1>3. DOMAIN items = 1..Len(items)
  BY DEF BufferInv, Typed
<1> QED
  BY <1>1, <1>2, <1>3 DEF BufferSafe

\* The buffer of a block is given back once at most and never while a reader uses it, whatever the
\* order in which readers, processItems and Table.Delete come (cache.go, sstable block.add and
\* block.done), for any finite set of readers and any keys, costs and sizes of setBuf.
THEOREM BuffersSafe ==
    ASSUME IsFiniteSet(Readers)
    PROVE  Spec => []BufferSafe
<1>1. Init => BufferInv
  BY InitBuffer
<1>2. BufferInv /\ [Next]_vars => BufferInv'
  BY BufferInductive
<1>3. BufferInv => BufferSafe
  BY BufferInvSafe
<1> QED
  BY <1>1, <1>2, <1>3, PTL DEF Spec

\* No block dangles: the store and the policy know the same blocks but for those on their way and
\* the loose ones, for any readers, keys, costs and sizes of setBuf (cache.go, GetOrCompute,
\* handleNewItem and Del). The hypotheses say that the readers are neither the deleter nor nobody.
THEOREM NothingDangles ==
    ASSUME IsFiniteSet(Readers), Free \notin Readers, "deleter" \notin Readers
    PROVE  Spec => []NoDanglingItem
<1>1. Init => BufferInv /\ StageInv
  BY InitBuffer, InitStage
<1>2. BufferInv /\ StageInv /\ [Next]_vars => (BufferInv /\ StageInv)'
  BY BufferInductive, StageInductive
<1>3. BufferInv /\ StageInv => NoDanglingItem
  BY KnownItem DEF StageInv
<1> QED
  BY <1>1, <1>2, <1>3, PTL DEF Spec

\* processItems never waits for an item whose reader waits for room in setBuf, so that readers and
\* processItems never wait for each other (cache.go, compute and handleNewItem).
THEOREM ReadersNotDeadlocked ==
    ASSUME IsFiniteSet(Readers), Free \notin Readers, "deleter" \notin Readers
    PROVE  Spec => []NoReaderDeadlock
<1>1. Init => BufferInv /\ StageInv
  BY InitBuffer, InitStage
<1>2. BufferInv /\ StageInv /\ [Next]_vars => (BufferInv /\ StageInv)'
  BY BufferInductive, StageInductive
<1>3. BufferInv /\ StageInv => NoReaderDeadlock
  BY StageUnlocked
<1> QED
  BY <1>1, <1>2, <1>3, PTL DEF Spec
=============================================================================
