-------------------------- MODULE CacheStageProofs --------------------------
(***************************************************************************)
(* StageInv is inductive: one lemma per action. The lemmas about what the  *)
(* steps do to an item and to a reader come first.                         *)
(***************************************************************************)
EXTENDS CacheInv, TLAPS

-----------------------------------------------------------------------------
(* What the steps do to an item and to a reader. *)

\* Only item i is another, with the same key.
OnlyItem(i) ==
    /\ items' \in Seq(Item) /\ Len(items') = Len(items)
    /\ items'[i].key = items[i].key
    /\ \A j \in 1..Len(items) : j # i => items'[j] = items[j]

LEMMA SetItem ==
    ASSUME items \in Seq(Item), NEW i \in 1..Len(items), NEW x \in Item, x.key = items[i].key,
           items' = [items EXCEPT ![i] = x]
    PROVE  OnlyItem(i) /\ items'[i] = x
BY DEF OnlyItem

Locks == Readers \cup {Free, "deleter"}

LEMMA SetField ==
    ASSUME NEW y \in Item
    PROVE  /\ \A b \in BOOLEAN : [y EXCEPT !.dead = b] \in Item /\ [y EXCEPT !.loaded = b] \in Item
           /\ \A l \in Locks : [y EXCEPT !.lock = l] \in Item
           /\ \A n \in Int : [y EXCEPT !.ref = n] \in Item /\ [y EXCEPT !.freed = n] \in Item
<1>1. ASSUME NEW b \in BOOLEAN PROVE [y EXCEPT !.dead = b] \in Item
  BY DEF Item
<1>2. ASSUME NEW b \in BOOLEAN PROVE [y EXCEPT !.loaded = b] \in Item
  BY DEF Item
<1>3. ASSUME NEW l \in Locks PROVE [y EXCEPT !.lock = l] \in Item
  BY DEF Item, Locks
<1>4. ASSUME NEW n \in Int PROVE [y EXCEPT !.ref = n] \in Item
  BY DEF Item
<1>5. ASSUME NEW n \in Int PROVE [y EXCEPT !.freed = n] \in Item
  BY DEF Item
<1> QED
  BY <1>1, <1>2, <1>3, <1>4, <1>5

\* block.done.
LEMMA DoneFact ==
    ASSUME items \in Seq(Item), NEW i \in 1..Len(items), Done(i)
    PROVE  /\ OnlyItem(i)
           /\ items'[i].loaded = items[i].loaded /\ items'[i].dead = items[i].dead
           /\ items'[i].ref = items[i].ref - 1
           /\ items'[i].freed = IF items[i].ref = 1 THEN items[i].freed + 1 ELSE items[i].freed
<1> DEFINE f == IF items[i].ref = 1 THEN items[i].freed + 1 ELSE items[i].freed
           y == [items[i] EXCEPT !.ref = @ - 1]
           x == [y EXCEPT !.freed = f]
<1>1. items[i] \in Item
  OBVIOUS
<1>2. f \in Int /\ items[i].ref - 1 \in Int
  BY <1>1 DEF Item
<1>3. items' = [items EXCEPT ![i] = x]
  BY Zenon, <1>1 DEF Done, Item
<1> HIDE DEF f
<1>4. y \in Item /\ x \in Item
  <2>1. y \in Item
    BY Zenon, <1>1, <1>2, SetField
  <2> QED
    BY Zenon, <1>2, <2>1, SetField
<1>5. x.key = items[i].key /\ x.loaded = items[i].loaded /\ x.dead = items[i].dead
  BY <1>1 DEF Item
<1>6. x.ref = items[i].ref - 1 /\ x.freed = f
  BY <1>1 DEF Item
<1> HIDE DEF x
<1>7. OnlyItem(i) /\ items'[i] = x
  BY Zenon, <1>3, <1>4, <1>5, SetItem
<1> QED
  BY <1>5, <1>6, <1>7 DEF f

\* The other steps with an item.
LEMMA UpdateFact ==
    ASSUME items \in Seq(Item), NEW i \in 1..Len(items), NEW l \in Locks
    PROVE  /\ items' = [items EXCEPT ![i].lock = l] =>
                 /\ OnlyItem(i) /\ items'[i].loaded = items[i].loaded /\ items'[i].dead = items[i].dead
                 /\ items'[i].ref = items[i].ref /\ items'[i].freed = items[i].freed
           /\ items' = [items EXCEPT ![i].dead = TRUE] =>
                 /\ OnlyItem(i) /\ items'[i].loaded = items[i].loaded /\ items'[i].dead
                 /\ items'[i].ref = items[i].ref /\ items'[i].freed = items[i].freed
           /\ items' = [items EXCEPT ![i].dead = TRUE, ![i].lock = l] =>
                 /\ OnlyItem(i) /\ items'[i].loaded = items[i].loaded /\ items'[i].dead
                 /\ items'[i].ref = items[i].ref /\ items'[i].freed = items[i].freed
           /\ items' = [items EXCEPT ![i].ref = @ + 1] =>
                 /\ OnlyItem(i) /\ items'[i].loaded = items[i].loaded /\ items'[i].dead = items[i].dead
                 /\ items'[i].ref = items[i].ref + 1 /\ items'[i].freed = items[i].freed
           /\ items' = [items EXCEPT ![i].loaded = TRUE, ![i].ref = 1, ![i].lock = l] =>
                 /\ OnlyItem(i) /\ items'[i].loaded /\ items'[i].dead = items[i].dead
                 /\ items'[i].ref = 1 /\ items'[i].freed = items[i].freed
<1>1. items[i] \in Item /\ items[i].ref + 1 \in Int
  <2>1. items[i] \in Item
    OBVIOUS
  <2> QED
    BY <2>1 DEF Item
<1>2. ASSUME items' = [items EXCEPT ![i].lock = l]
      PROVE  /\ OnlyItem(i) /\ items'[i].loaded = items[i].loaded /\ items'[i].dead = items[i].dead
             /\ items'[i].ref = items[i].ref /\ items'[i].freed = items[i].freed
  <2> DEFINE x == [items[i] EXCEPT !.lock = l]
  <2>1. items' = [items EXCEPT ![i] = x]
    BY <1>1, <1>2 DEF Item
  <2>2. x \in Item
    BY <1>1, SetField
  <2>3. x.key = items[i].key /\ x.loaded = items[i].loaded /\ x.dead = items[i].dead
    BY <1>1 DEF Item
  <2>4. x.ref = items[i].ref /\ x.freed = items[i].freed
    BY <1>1 DEF Item
  <2> HIDE DEF x
  <2>5. OnlyItem(i) /\ items'[i] = x
    BY Zenon, <2>1, <2>2, <2>3, SetItem
  <2> QED
    BY <2>3, <2>4, <2>5
<1>3. ASSUME items' = [items EXCEPT ![i].dead = TRUE]
      PROVE  /\ OnlyItem(i) /\ items'[i].loaded = items[i].loaded /\ items'[i].dead
             /\ items'[i].ref = items[i].ref /\ items'[i].freed = items[i].freed
  <2> DEFINE x == [items[i] EXCEPT !.dead = TRUE]
  <2>1. items' = [items EXCEPT ![i] = x]
    BY <1>1, <1>3 DEF Item
  <2>2. x \in Item
    BY Zenon, <1>1, SetField
  <2>3. x.key = items[i].key /\ x.loaded = items[i].loaded /\ x.dead
    BY <1>1 DEF Item
  <2>4. x.ref = items[i].ref /\ x.freed = items[i].freed
    BY <1>1 DEF Item
  <2> HIDE DEF x
  <2>5. OnlyItem(i) /\ items'[i] = x
    BY Zenon, <2>1, <2>2, <2>3, SetItem
  <2> QED
    BY <2>3, <2>4, <2>5
<1>4. ASSUME items' = [items EXCEPT ![i].dead = TRUE, ![i].lock = l]
      PROVE  /\ OnlyItem(i) /\ items'[i].loaded = items[i].loaded /\ items'[i].dead
             /\ items'[i].ref = items[i].ref /\ items'[i].freed = items[i].freed
  <2> DEFINE u == [items[i] EXCEPT !.dead = TRUE]
             x == [u EXCEPT !.lock = l]
  <2>1. items' = [items EXCEPT ![i] = x]
    BY Zenon, <1>1, <1>4 DEF Item
  <2>2. u \in Item
    BY Zenon, <1>1, SetField
  <2>3. x \in Item
    BY Zenon, <1>1, <2>2, SetField
  <2>4. x.key = items[i].key /\ x.loaded = items[i].loaded /\ x.dead
    BY <1>1 DEF Item
  <2>5. x.ref = items[i].ref /\ x.freed = items[i].freed
    BY <1>1 DEF Item
  <2> HIDE DEF x
  <2>6. OnlyItem(i) /\ items'[i] = x
    BY Zenon, <2>1, <2>3, <2>4, SetItem
  <2> QED
    BY <2>4, <2>5, <2>6
<1>5. ASSUME items' = [items EXCEPT ![i].ref = @ + 1]
      PROVE  /\ OnlyItem(i) /\ items'[i].loaded = items[i].loaded /\ items'[i].dead = items[i].dead
             /\ items'[i].ref = items[i].ref + 1 /\ items'[i].freed = items[i].freed
  <2> DEFINE x == [items[i] EXCEPT !.ref = @ + 1]
  <2>1. items' = [items EXCEPT ![i] = x]
    BY <1>1, <1>5 DEF Item
  <2>2. x \in Item
    BY Zenon, <1>1, SetField
  <2>3. x.key = items[i].key /\ x.loaded = items[i].loaded /\ x.dead = items[i].dead
    BY <1>1 DEF Item
  <2>4. x.ref = items[i].ref + 1 /\ x.freed = items[i].freed
    BY <1>1 DEF Item
  <2> HIDE DEF x
  <2>5. OnlyItem(i) /\ items'[i] = x
    BY Zenon, <2>1, <2>2, <2>3, SetItem
  <2> QED
    BY <2>3, <2>4, <2>5
<1>6. ASSUME items' = [items EXCEPT ![i].loaded = TRUE, ![i].ref = 1, ![i].lock = l]
      PROVE  /\ OnlyItem(i) /\ items'[i].loaded /\ items'[i].dead = items[i].dead
             /\ items'[i].ref = 1 /\ items'[i].freed = items[i].freed
  <2> DEFINE u == [items[i] EXCEPT !.loaded = TRUE]
             v == [u EXCEPT !.ref = 1]
             x == [v EXCEPT !.lock = l]
  <2>1. items' = [items EXCEPT ![i] = x]
    BY Zenon, <1>1, <1>6 DEF Item
  <2>2. u \in Item
    BY Zenon, <1>1, SetField
  <2>3. v \in Item
    <3> HIDE DEF u
    <3>1. 1 \in Int
      OBVIOUS
    <3> QED
      BY <2>2, <3>1, SetField, Zenon
  <2>4. x \in Item
    BY Zenon, <1>1, <2>3, SetField
  <2>5. x.key = items[i].key /\ x.loaded /\ x.dead = items[i].dead
    BY <1>1 DEF Item
  <2>6. x.ref = 1 /\ x.freed = items[i].freed
    BY <1>1 DEF Item
  <2> HIDE DEF x
  <2>7. OnlyItem(i) /\ items'[i] = x
    BY Zenon, <2>1, <2>4, <2>5, SetItem
  <2> QED
    BY <2>5, <2>6, <2>7
<1> QED
  BY Zenon, <1>2, <1>3, <1>4, <1>5, <1>6

\* A reader goes on with its item.
LEMMA ReaderFact ==
    ASSUME reader \in [Readers -> Reading], NEW r \in Readers, reader[r].pc \in HasItem, NEW p \in HasItem,
           reader' = [reader EXCEPT ![r].pc = p]
    PROVE  /\ reader' \in [Readers -> Reading]
           /\ reader'[r].pc = p /\ reader'[r].key = reader[r].key /\ reader'[r].item = reader[r].item
           /\ \A q \in Readers : q # r => reader'[q] = reader[q]
<1> DEFINE x == [reader[r] EXCEPT !.pc = p]
<1>1. reader[r] \in [pc : HasItem, key : Keys, item : Nat]
  BY DEF Reading, HasItem
<1>2. x \in [pc : HasItem, key : Keys, item : Nat]
  BY <1>1
<1>3. x.pc = p /\ x.key = reader[r].key /\ x.item = reader[r].item
  BY <1>1
<1>4. reader' = [reader EXCEPT ![r] = x]
  BY <1>1
<1>5. x \in Reading
  BY <1>2 DEF Reading
<1> HIDE DEF x
<1> QED
  BY <1>3, <1>4, <1>5

LEMMA DeleterAt ==
    ASSUME deleter \in Deleting
    PROVE  /\ deleter.gone \in SUBSET Keys
           /\ [pc |-> "idle", gone |-> deleter.gone] \in Deleting
           /\ deleter.pc = "get" =>
                 LET d == [deleter EXCEPT !.pc = "find"]
                 IN d \in Deleting /\ d.pc = "find" /\ d.gone = deleter.gone /\ d.key = deleter.key
           /\ deleter.pc = "del" =>
                 LET d == [deleter EXCEPT !.pc = "send"]
                 IN d \in Deleting /\ d.pc = "send" /\ d.gone = deleter.gone /\ d.item = deleter.item
<1>1. deleter.gone \in SUBSET Keys
  BY DEF Deleting
<1>2. [pc |-> "idle", gone |-> deleter.gone] \in Deleting
  BY <1>1 DEF Deleting
<1>3. ASSUME deleter.pc = "get"
      PROVE  LET d == [deleter EXCEPT !.pc = "find"]
             IN d \in Deleting /\ d.pc = "find" /\ d.gone = deleter.gone /\ d.key = deleter.key
  <2>1. deleter \in [pc : {"get", "find"}, gone : SUBSET Keys, key : Keys]
    BY <1>3 DEF Deleting
  <2> QED
    BY <2>1 DEF Deleting
<1>4. ASSUME deleter.pc = "del"
      PROVE  LET d == [deleter EXCEPT !.pc = "send"]
             IN d \in Deleting /\ d.pc = "send" /\ d.gone = deleter.gone /\ d.item = deleter.item
  <2>1. deleter \in [pc : {"del", "send"}, gone : SUBSET Keys, item : Nat]
    BY <1>4 DEF Deleting
  <2> QED
    BY <2>1 DEF Deleting
<1> QED
  BY <1>1, <1>2, <1>3, <1>4

-----------------------------------------------------------------------------
(* The way of a block. *)

LEMMA InitStage == Init => StageInv
<1> SUFFICES ASSUME Init PROVE StageInv
  OBVIOUS
<1>1. Owners /\ Alive /\ Once
  BY DEF Init, Owners, Alive, Once, Idle
<1>2. \A k : ~Sent(FALSE, k) /\ ~Sent(TRUE, k) /\ ~Leaving(k)
  BY DEF Init, Idle, Sent, Leaving, Rejecting, Waiting, Evicting
<1>3. KeysKnown
  BY Zenon, <1>2 DEF Init, Idle, KeysKnown
<1>4. Way /\ Known
  BY Zenon, <1>2 DEF Init, Way, Entered, Known, Kept, Dropped
<1> QED
  BY <1>1, <1>3, <1>4 DEF StageInv

\* What a step does to the lock of an item.
LEMMA LockFact ==
    ASSUME items \in Seq(Item), NEW i \in 1..Len(items), NEW l \in Locks
    PROVE  /\ items' = [items EXCEPT ![i].lock = l] => items'[i].lock = l
           /\ items' = [items EXCEPT ![i].dead = TRUE, ![i].lock = l] => items'[i].lock = l
           /\ items' = [items EXCEPT ![i].loaded = TRUE, ![i].ref = 1, ![i].lock = l] => items'[i].lock = l
           /\ items' = [items EXCEPT ![i].dead = TRUE] => items'[i].lock = items[i].lock
           /\ items' = [items EXCEPT ![i].ref = @ + 1] => items'[i].lock = items[i].lock
           /\ Done(i) => items'[i].lock = items[i].lock
<1>1. items[i] \in Item
  OBVIOUS
<1>2. ASSUME items' = [items EXCEPT ![i].lock = l] PROVE items'[i].lock = l
  BY <1>1, <1>2 DEF Item
<1>3. ASSUME items' = [items EXCEPT ![i].dead = TRUE, ![i].lock = l] PROVE items'[i].lock = l
  BY <1>1, <1>3 DEF Item
<1>4. ASSUME items' = [items EXCEPT ![i].loaded = TRUE, ![i].ref = 1, ![i].lock = l] PROVE items'[i].lock = l
  BY <1>1, <1>4 DEF Item
<1>5. ASSUME items' = [items EXCEPT ![i].dead = TRUE] PROVE items'[i].lock = items[i].lock
  BY <1>1, <1>5 DEF Item
<1>6. ASSUME items' = [items EXCEPT ![i].ref = @ + 1] PROVE items'[i].lock = items[i].lock
  BY <1>1, <1>6 DEF Item
<1>7. ASSUME Done(i) PROVE items'[i].lock = items[i].lock
  BY <1>1, <1>7 DEF Item, Done
<1> QED
  BY Zenon, <1>2, <1>3, <1>4, <1>5, <1>6, <1>7

\* The item is the same but for its references.
SameFace(i) ==
    /\ items'[i].key = items[i].key /\ items'[i].dead = items[i].dead
    /\ items'[i].lock = items[i].lock /\ items'[i].loaded = items[i].loaded

SameFaces == Len(items') = Len(items) /\ \A i \in 1..Len(items) : SameFace(i)

LEMMA CountFaces ==
    ASSUME items \in Seq(Item), NEW i \in 1..Len(items), Done(i) \/ items' = [items EXCEPT ![i].ref = @ + 1]
    PROVE  SameFaces
<1>1. Free \in Locks
  BY DEF Locks
<1>2. OnlyItem(i) /\ items'[i].loaded = items[i].loaded /\ items'[i].dead = items[i].dead
  BY Zenon, <1>1, DoneFact, UpdateFact
<1>3. items'[i].lock = items[i].lock
  BY Zenon, <1>1, LockFact
<1> QED
  BY Zenon, <1>2, <1>3 DEF SameFaces, SameFace, OnlyItem

LEMMA OwnersSame ==
    ASSUME Links, Owners, SameFaces,
           \A r \in Readers : reader[r].pc = "send" \/ reader'[r].pc = "send" => reader'[r] = reader[r]
    PROVE  Owners'
<1>1. ASSUME NEW i \in 1..Len(items'), Locked(i)'
      PROVE  /\ reader'[items'[i].lock].pc = "send" /\ reader'[items'[i].lock].item = i
             /\ ~items'[i].dead
  <2>1. i \in 1..Len(items) /\ SameFace(i) /\ Locked(i) /\ items[i].lock \in Readers
    BY <1>1 DEF SameFaces, SameFace, Locked
  <2>2. reader[items[i].lock].pc = "send" /\ reader[items[i].lock].item = i /\ ~items[i].dead
    BY Zenon, <2>1 DEF Owners
  <2> QED
    BY Zenon, <2>1, <2>2 DEF SameFace
<1>2. ASSUME NEW r \in Readers, reader'[r].pc = "send"
      PROVE  items'[reader'[r].item].lock = r
  <2>1. reader'[r] = reader[r] /\ items[reader[r].item].lock = r /\ reader[r].item \in 1..Len(items)
    BY <1>2 DEF Owners, Links, HasItem
  <2> QED
    BY Zenon, <2>1 DEF SameFaces, SameFace
<1> QED
  BY Zenon, <1>1, <1>2 DEF Owners

LEMMA AliveSame ==
    ASSUME Links, Alive, SameFaces, store' = store, deleter.gone \subseteq deleter'.gone
    PROVE  Alive'
<1>1. ASSUME NEW k \in Keys, store'[k] # 0 PROVE ~items'[store'[k]].dead
  BY Zenon, <1>1 DEF Links, Alive, SameFaces, SameFace
<1>2. ASSUME NEW i \in 1..Len(items'), ~items'[i].dead, items'[i].key \notin deleter'.gone
      PROVE  store'[items'[i].key] = i
  <2>1. i \in 1..Len(items)
    BY Zenon, <1>2 DEF SameFaces
  <2> QED
    BY Zenon, <1>2, <2>1 DEF Alive, SameFaces, SameFace
<1> QED
  BY Zenon, <1>1, <1>2 DEF Alive

Events == [del : BOOLEAN, key : Keys]

\* An event is sent.
LEMMA SentMore ==
    ASSUME setBuf \in Seq(Events), NEW d \in BOOLEAN, NEW k \in Keys,
           setBuf' = Append(setBuf, [del |-> d, key |-> k])
    PROVE  /\ \A b \in BOOLEAN, x \in Keys : Sent(b, x)' <=> Sent(b, x) \/ (b = d /\ x = k)
           /\ Once /\ deleter'.gone = deleter.gone /\ (d \/ ~Sent(d, k)) => Once'
<1> DEFINE x == [del |-> d, key |-> k]
<1>1. x \in Events /\ x.del = d
  BY DEF Events
<1>2. /\ Len(setBuf') = Len(setBuf) + 1 /\ setBuf'[Len(setBuf) + 1] = x
      /\ \A e \in 1..Len(setBuf) : setBuf'[e] = setBuf[e]
  BY <1>1
<1>3. ASSUME NEW b \in BOOLEAN, NEW y \in Keys
      PROVE  Sent(b, y)' <=> Sent(b, y) \/ (b = d /\ y = k)
  <2> DEFINE z == [del |-> b, key |-> y]
  <2>1. z = x <=> b = d /\ y = k
    OBVIOUS
  <2>2. Sent(b, y)' <=> \E e \in 1..Len(setBuf') : setBuf'[e] = z
    BY DEF Sent
  <2>3. Sent(b, y) <=> \E e \in 1..Len(setBuf) : setBuf[e] = z
    BY DEF Sent
  <2> HIDE DEF x, z
  <2>4. (\E e \in 1..Len(setBuf') : setBuf'[e] = z) <=> (\E e \in 1..Len(setBuf) : setBuf[e] = z) \/ x = z
    BY <1>2
  <2> QED
    BY <2>1, <2>2, <2>3, <2>4
<1>4. ASSUME Once, deleter'.gone = deleter.gone, d \/ ~Sent(d, k)
      PROVE  Once'
  <2>1. d \/ \A e \in 1..Len(setBuf) : setBuf[e] # x
    BY <1>4 DEF Sent
  <2> HIDE DEF x
  <2> SUFFICES ASSUME NEW e \in 1..Len(setBuf'), NEW f \in 1..Len(setBuf'), e # f, setBuf'[e] = setBuf'[f]
               PROVE  setBuf'[e].del \/ setBuf'[e].key \in deleter'.gone
    BY Zenon DEF Once
  <2>2. (e \in 1..Len(setBuf) \/ e = Len(setBuf) + 1) /\ (f \in 1..Len(setBuf) \/ f = Len(setBuf) + 1)
    BY <1>2
  <2>3. CASE e \in 1..Len(setBuf) /\ f \in 1..Len(setBuf)
    BY Zenon, <1>2, <1>4, <2>3 DEF Once
  <2>4. CASE e = Len(setBuf) + 1 \/ f = Len(setBuf) + 1
    BY <1>1, <1>2, <2>1, <2>2, <2>4
  <2> QED
    BY <2>2, <2>3, <2>4
<1> QED
  BY Zenon, <1>3, <1>4

\* processItems takes the first event.
LEMMA SentLess ==
    ASSUME setBuf \in Seq(Events), setBuf # <<>>, setBuf' = Tail(setBuf), deleter' = deleter, Once
    PROVE  LET h == Head(setBuf)
           IN /\ h \in Events /\ Sent(h.del, h.key)
              /\ \A b \in BOOLEAN, x \in Keys : Sent(b, x)' => Sent(b, x)
              /\ \A b \in BOOLEAN, x \in Keys : Sent(b, x) => Sent(b, x)' \/ (b = h.del /\ x = h.key)
              /\ \A x \in Keys : ~h.del /\ x = h.key /\ Sent(FALSE, x)' => x \in deleter.gone
              /\ Once'
<1> DEFINE h == Head(setBuf)
<1>1. h \in Events /\ 1 \in 1..Len(setBuf) /\ h = setBuf[1]
  OBVIOUS
<1>2. h = [del |-> h.del, key |-> h.key] /\ h.key \in Keys
  BY <1>1 DEF Events
<1>3. Sent(h.del, h.key)
  BY <1>1, <1>2 DEF Sent
<1>4. Len(setBuf') = Len(setBuf) - 1 /\ \A e \in 1..Len(setBuf') : setBuf'[e] = setBuf[e + 1]
  OBVIOUS
<1> HIDE DEF h
<1>5. ASSUME NEW b \in BOOLEAN, NEW x \in Keys
      PROVE  (Sent(b, x)' => Sent(b, x)) /\ (Sent(b, x) => Sent(b, x)' \/ (b = h.del /\ x = h.key))
  <2> DEFINE z == [del |-> b, key |-> x]
  <2>1. z = h <=> b = h.del /\ x = h.key
    BY <1>2
  <2>2. Sent(b, x)' <=> \E e \in 1..Len(setBuf') : setBuf'[e] = z
    BY DEF Sent
  <2>3. Sent(b, x) <=> \E e \in 1..Len(setBuf) : setBuf[e] = z
    BY DEF Sent
  <2> HIDE DEF z
  <2>4. Len(setBuf) \in Nat
    OBVIOUS
  <2>5. ASSUME NEW e \in 1..Len(setBuf'), setBuf'[e] = z PROVE \E f \in 1..Len(setBuf) : setBuf[f] = z
    BY <1>4, <2>4, <2>5
  <2>6. ASSUME NEW e \in 1..Len(setBuf), setBuf[e] = z
        PROVE  h = z \/ \E f \in 1..Len(setBuf') : setBuf'[f] = z
    <3>1. CASE e = 1
      BY <1>1, <2>6, <3>1
    <3>2. CASE e # 1
      <4>1. e - 1 \in 1..Len(setBuf') /\ (e - 1) + 1 = e
        BY <1>4, <2>4, <3>2
      <4> QED
        BY Zenon, <1>4, <2>6, <4>1
    <3> QED
      BY <3>1, <3>2
  <2> QED
    BY <2>1, <2>2, <2>3, <2>5, <2>6
<1>6. ASSUME NEW x \in Keys, ~h.del, x = h.key, Sent(FALSE, x)' PROVE x \in deleter.gone
  <2>1. PICK e \in 1..Len(setBuf') : setBuf'[e] = [del |-> FALSE, key |-> x]
    BY <1>6 DEF Sent
  <2>2. h = [del |-> FALSE, key |-> x]
    BY Zenon, <1>1, <1>6 DEF Events
  <2>3. e + 1 \in 1..Len(setBuf) /\ e + 1 # 1 /\ setBuf[e + 1] = h
    BY <1>4, <2>1, <2>2
  <2> QED
    BY <1>1, <1>6, <2>3 DEF Once
<1>7. Once'
  <2> SUFFICES ASSUME NEW e \in 1..Len(setBuf'), NEW f \in 1..Len(setBuf'), e # f, setBuf'[e] = setBuf'[f]
               PROVE  setBuf'[e].del \/ setBuf'[e].key \in deleter'.gone
    BY Zenon DEF Once
  <2>1. e + 1 \in 1..Len(setBuf) /\ f + 1 \in 1..Len(setBuf) /\ e + 1 # f + 1
    BY <1>4
  <2> QED
    BY <1>4, <2>1 DEF Once
<1> QED
  BY Zenon, <1>1, <1>3, <1>5, <1>6, <1>7 DEF h

\* The stored item of a key is the same but for its references.
LEMMA StoredSame ==
    ASSUME Links, SameFaces, store' = store, NEW k \in Keys, store[k] # 0
    PROVE  items'[store'[k]].loaded = items[store[k]].loaded /\ (Locked(store[k])' <=> Locked(store[k]))
<1>1. store[k] \in 1..Len(items)
  BY Zenon DEF Links
<1>2. SameFace(store[k])
  BY Zenon, <1>1 DEF SameFaces
<1> QED
  BY Zenon, <1>2 DEF SameFace, Locked

LEMMA KeptSame ==
    ASSUME NEW q \in Keys, Kept(q), store'[q] = store[q],
           store[q] # 0 =>
               items'[store'[q]].loaded = items[store[q]].loaded /\ (Locked(store[q])' <=> Locked(store[q])),
           q \in policy => q \in policy', store[q] \in loose => store[q] \in loose',
           Sent(FALSE, q) => Sent(FALSE, q)',
           processor.pc \in {"reject", "lock"} /\ processor.item = store[q] => processor' = processor,
           Waiting(q) => Waiting(q)'
    PROVE  Kept(q)'
<1> SUFFICES ASSUME store'[q] # 0, items'[store'[q]].loaded, q \notin policy'
             PROVE  \/ store'[q] \in loose'
                    \/ Sent(FALSE, q)'
                    \/ Locked(store[q])'
                    \/ processor'.pc \in {"reject", "lock"} /\ processor'.item = store'[q]
                    \/ Waiting(q)'
  BY Zenon DEF Kept
<1>1. \/ store[q] \in loose
      \/ Sent(FALSE, q)
      \/ Locked(store[q])
      \/ processor.pc \in {"reject", "lock"} /\ processor.item = store[q]
      \/ Waiting(q)
  BY Zenon DEF Kept
<1> QED
  BY Zenon, <1>1

\* Steps that change neither the store, nor the events, nor the policy.
LEMMA QuietStep ==
    ASSUME BufferInv, StageInv, SameFaces, UNCHANGED <<store, setBuf, policy, loose>>,
           \A r \in Readers : reader[r].pc = "send" \/ reader'[r].pc = "send" => reader'[r] = reader[r],
           processor' = processor
               \/ (processor.pc = "evict" /\ processor' = [pc |-> "victims", left |-> processor.left]),
           deleter.gone \subseteq deleter'.gone,
           deleter.pc = "send" => deleter' = deleter,
           deleter'.pc \in {"del", "send"} =>
               deleter'.item \in 1..Len(items) /\ items[deleter'.item].key \in deleter'.gone
    PROVE  StageInv'
<1> USE DEF BufferInv, StageInv
<1>1. Owners' /\ Alive'
  BY Zenon, OwnersSame, AliveSame
<1>2. \A b, k : Sent(b, k)' <=> Sent(b, k)
  BY DEF Sent
<1>3. /\ processor'.pc = "reject" => processor.pc = "reject" /\ processor' = processor
      /\ processor'.pc = "lock" => processor.pc = "lock" /\ processor' = processor
  OBVIOUS
<1>4. processor.pc \in {"reject", "lock"} => items'[processor.item].key = items[processor.item].key
  BY DEF Links, SameFaces, SameFace
<1>5. \A k : (Rejecting(k)' <=> Rejecting(k)) /\ (Waiting(k)' <=> Waiting(k)) /\ (Evicting(k)' <=> Evicting(k))
  <2>1. \A k : Rejecting(k)' <=> Rejecting(k)
    BY DEF Rejecting
  <2>2. \A k : Waiting(k)' <=> Waiting(k)
    BY DEF Waiting
  <2>3. \A k : Evicting(k)' <=> Evicting(k)
    BY <1>3, <1>4 DEF Evicting
  <2> QED
    BY Zenon, <2>1, <2>2, <2>3
<1>6. KeysKnown'
  <2>1. deleter'.pc \in {"del", "send"} => items'[deleter'.item].key \in deleter'.gone
    BY Zenon DEF SameFaces, SameFace
  <2>2. \A k \in Keys : Sent(TRUE, k)' => k \in deleter'.gone /\ store'[k] = 0
    BY Zenon, <1>2 DEF KeysKnown
  <2>3. /\ processor'.pc = "reject" => items'[processor'.item].key = processor'.key
        /\ processor'.pc = "lock" => items'[processor'.item].key \notin processor'.left
    BY <1>3, <1>4 DEF KeysKnown
  <2>4. \A k \in policy' : ~(Cost[k] > MaxCost)
    BY DEF KeysKnown
  <2> QED
    BY Zenon, <2>1, <2>2, <2>3, <2>4 DEF KeysKnown
<1>7. Once'
  BY DEF Once
<1>8. \A k \in Keys : store[k] # 0 =>
          items'[store'[k]].loaded = items[store[k]].loaded /\ (Locked(store[k])' <=> Locked(store[k]))
  BY Zenon, StoredSame
<1>9. Way'
  <2>1. \A k : (Leaving(k)' <=> Leaving(k)) /\ (Entered(k)' <=> Entered(k))
    BY Zenon, <1>2, <1>5 DEF Leaving, Entered
  <2> QED
    BY Zenon, <1>2, <1>8, <2>1 DEF Way
<1>10. Known'
  <2>1. ASSUME NEW k \in Keys PROVE Kept(k)'
    <3>1. Kept(k)
      BY DEF Known
    <3>2. processor.pc \in {"reject", "lock"} => processor' = processor
      OBVIOUS
    <3> QED
      BY Zenon, <1>2, <1>5, <1>8, <3>1, <3>2, KeptSame
  <2>2. ASSUME NEW k \in Keys PROVE Dropped(k)'
    <3>1. Dropped(k)
      BY DEF Known
    <3>2. deleter.pc = "send" => deleter' = deleter /\ items'[deleter.item].key = items[deleter.item].key
      BY DEF SameFaces, SameFace
    <3> QED
      BY Zenon, <1>2, <3>1, <3>2 DEF Dropped
  <2> QED
    BY Zenon, <2>1, <2>2 DEF Known
<1> QED
  BY Zenon, <1>1, <1>6, <1>7, <1>9, <1>10

\* A reader that neither was about to send nor is so now.
LEMMA QuietReader ==
    ASSUME BufferInv, StageInv, NEW r \in Readers, NEW x, reader' = [reader EXCEPT ![r] = x],
           reader[r].pc # "send", x.pc # "send", SameFaces,
           UNCHANGED <<store, setBuf, policy, processor, deleter, loose>>
    PROVE  StageInv'
<1>1. \A q \in Readers : reader[q].pc = "send" \/ reader'[q].pc = "send" => reader'[q] = reader[q]
  BY DEF BufferInv, Typed
<1>2. deleter'.pc \in {"del", "send"} =>
          deleter'.item \in 1..Len(items) /\ items[deleter'.item].key \in deleter'.gone
  BY DEF BufferInv, StageInv, Links, KeysKnown
<1> QED
  BY <1>1, <1>2, QuietStep

LEMMA NoItemFaces == items' = items => SameFaces
BY DEF SameFaces, SameFace

LEMMA ReadBeginStage ==
    ASSUME BufferInv, StageInv, NEW r \in Readers, NEW k \in Keys, ReadBegin(r, k)
    PROVE  StageInv'
<1> DEFINE x == [pc |-> "lookup", key |-> k]
<1>1. x.pc # "send" /\ reader[r].pc # "send" /\ reader' = [reader EXCEPT ![r] = x]
  BY DEF ReadBegin
<1>2. UNCHANGED <<store, items, setBuf, policy, processor, deleter, loose>> /\ SameFaces
  BY NoItemFaces DEF ReadBegin
<1> HIDE DEF x
<1> QED
  BY Zenon, <1>1, <1>2, QuietReader

LEMMA ComputeFailsStage ==
    ASSUME BufferInv, StageInv, NEW r \in Readers, ComputeFails(r)
    PROVE  StageInv'
<1>1. Idle.pc # "send" /\ reader[r].pc # "send" /\ reader' = [reader EXCEPT ![r] = Idle]
  BY DEF ComputeFails, Idle
<1>2. UNCHANGED <<store, items, setBuf, policy, processor, deleter, loose>> /\ SameFaces
  BY NoItemFaces DEF ComputeFails
<1> QED
  BY Zenon, <1>1, <1>2, QuietReader

LEMMA AddStage ==
    ASSUME BufferInv, StageInv, NEW r \in Readers, Add(r)
    PROVE  StageInv'
<1> DEFINE i == reader[r].item
           x == [reader[r] EXCEPT !.pc = "using"]
<1>1. reader[r].pc = "add" /\ reader[r] \in Reading /\ i \in 1..Len(items)
  BY DEF Add, BufferInv, Typed, Links, HasItem
<1>2. UNCHANGED <<store, setBuf, policy, processor, deleter, loose>>
  BY DEF Add
<1>3. CASE items[i].ref = 0
  <2>1. Idle.pc # "send" /\ reader' = [reader EXCEPT ![r] = Idle] /\ SameFaces
    BY <1>3, NoItemFaces DEF Add, Idle
  <2> QED
    BY Zenon, <1>1, <1>2, <2>1, QuietReader
<1>4. CASE items[i].ref # 0
  <2>1. items' = [items EXCEPT ![i].ref = @ + 1] /\ reader' = [reader EXCEPT ![r].pc = "using"]
    BY Zenon, <1>4 DEF Add
  <2>2. reader' = [reader EXCEPT ![r] = x] /\ x.pc # "send"
    BY <1>1, <2>1 DEF Reading, HasItem
  <2> HIDE DEF i, x
  <2>3. SameFaces
    BY Zenon, <1>1, <2>1, CountFaces DEF BufferInv, Typed
  <2> QED
    BY Zenon, <1>1, <1>2, <2>2, <2>3, QuietReader
<1> QED
  BY Zenon, <1>3, <1>4

LEMMA ReadEndStage ==
    ASSUME BufferInv, StageInv, NEW r \in Readers, ReadEnd(r)
    PROVE  StageInv'
<1> DEFINE i == reader[r].item
<1>1. reader[r].pc = "using" /\ i \in 1..Len(items) /\ Done(i)
  BY DEF ReadEnd, BufferInv, Links, HasItem
<1>2. UNCHANGED <<store, setBuf, policy, processor, deleter, loose>> /\ reader' = [reader EXCEPT ![r] = Idle]
  BY DEF ReadEnd
<1> HIDE DEF i
<1>3. SameFaces
  BY Zenon, <1>1, CountFaces DEF BufferInv, Typed
<1>4. Idle.pc # "send" /\ reader[r].pc # "send"
  BY <1>1 DEF Idle
<1> QED
  BY Zenon, <1>2, <1>3, <1>4, QuietReader

LEMMA OnEvictStage ==
    ASSUME BufferInv, StageInv, OnEvict
    PROVE  StageInv'
<1>1. /\ processor.pc = "evict" /\ processor' = [pc |-> "victims", left |-> processor.left]
      /\ UNCHANGED <<store, setBuf, policy, reader, deleter, loose>>
  BY DEF OnEvict
<1>2. PICK i : i = processor.item
  OBVIOUS
<1>3. i \in 1..Len(items) /\ (items' = items \/ Done(i))
  BY <1>1, <1>2 DEF OnEvict, BufferInv, Links
<1>4. SameFaces
  BY Zenon, <1>3, CountFaces, NoItemFaces DEF BufferInv, Typed
<1>5. deleter'.pc \in {"del", "send"} =>
          deleter'.item \in 1..Len(items) /\ items[deleter'.item].key \in deleter'.gone
  BY <1>1 DEF BufferInv, StageInv, Links, KeysKnown
<1> QED
  BY <1>1, <1>4, <1>5, QuietStep

LEMMA DeleteBeginStage ==
    ASSUME BufferInv, StageInv, NEW k \in Keys, DeleteBegin(k)
    PROVE  StageInv'
<1>1. /\ UNCHANGED <<store, items, setBuf, policy, processor, reader, loose>>
      /\ deleter.pc = "idle" /\ deleter' = [pc |-> "get", gone |-> deleter.gone \cup {k}, key |-> k]
  BY DEF DeleteBegin
<1>2. deleter.gone \subseteq deleter'.gone /\ deleter'.pc \notin {"del", "send"} /\ deleter.pc # "send"
  BY <1>1
<1> QED
  BY Zenon, <1>1, <1>2, NoItemFaces, QuietStep

LEMMA DeleteGetStage ==
    ASSUME BufferInv, StageInv, DeleteGet
    PROVE  StageInv'
<1>1. /\ UNCHANGED <<store, setBuf, policy, processor, reader, loose>> /\ deleter.pc = "get"
      /\ deleter' = [pc |-> "idle", gone |-> deleter.gone] \/ deleter' = [deleter EXCEPT !.pc = "find"]
  BY Zenon DEF DeleteGet
<1>2. deleter'.gone = deleter.gone /\ deleter'.pc \notin {"del", "send"} /\ deleter.pc # "send"
  <2>1. deleter \in Deleting
    BY DEF BufferInv, Typed
  <2>2. CASE deleter' = [pc |-> "idle", gone |-> deleter.gone]
    BY <1>1, <2>2
  <2>3. CASE deleter' = [deleter EXCEPT !.pc = "find"]
    BY <1>1, <2>1, <2>3, DeleterAt
  <2> QED
    BY Zenon, <1>1, <2>2, <2>3
<1>3. PICK i : i = store[deleter.key]
  OBVIOUS
<1>4. items' = items \/ (i # 0 /\ Done(i))
  BY <1>3 DEF DeleteGet
<1>5. i # 0 => i \in 1..Len(items)
  BY <1>1, <1>3, DeleterAt DEF BufferInv, Typed, Links
<1>6. SameFaces
  BY Zenon, <1>4, <1>5, CountFaces, NoItemFaces DEF BufferInv, Typed
<1> QED
  BY Zenon, <1>1, <1>2, <1>6, QuietStep

LEMMA DeleteFindStage ==
    ASSUME BufferInv, StageInv, DeleteFind
    PROVE  StageInv'
<1>1. PICK i : i = store[deleter.key]
  OBVIOUS
<1>2. /\ UNCHANGED <<store, items, setBuf, policy, processor, reader, loose>> /\ deleter.pc = "find"
      /\ deleter' = IF i = 0 THEN [pc |-> "idle", gone |-> deleter.gone]
                    ELSE [pc |-> "del", gone |-> deleter.gone, item |-> i]
  BY <1>1 DEF DeleteFind
<1>3. deleter'.gone = deleter.gone /\ deleter.pc # "send"
  BY <1>2
<1>4. i # 0 => i \in 1..Len(items) /\ items[i].key \in deleter.gone
  BY <1>1, <1>2, DeleterAt DEF BufferInv, Typed, Links
<1>5. deleter'.pc \in {"del", "send"} =>
          deleter'.item \in 1..Len(items) /\ items[deleter'.item].key \in deleter'.gone
  BY <1>2, <1>4
<1> QED
  BY Zenon, <1>2, <1>3, <1>5, NoItemFaces, QuietStep

\* What holds of a key that is not deleted when an item of it is not loaded, or locked by a reader.
LEMMA NotEntered ==
    ASSUME BufferInv, StageInv, NEW i \in 1..Len(items), ~items[i].dead,
           items[i].key \notin deleter.gone, ~items[i].loaded \/ Locked(i)
    PROVE  items[i].key \in Keys /\ store[items[i].key] = i /\ ~Entered(items[i].key)
<1>1. items[i].key \in Keys
  <2>1. items[i] \in Item
    BY DEF BufferInv, Typed
  <2> QED
    BY <2>1 DEF Item
<1>2. store[items[i].key] = i
  BY Zenon DEF StageInv, Alive
<1> QED
  BY Zenon, <1>1, <1>2 DEF StageInv, Way

\* store.GetOrNew makes an item for a key that has none; the item is not loaded.
LEMMA LookupStage ==
    ASSUME Free \notin Readers, BufferInv, StageInv, NEW r \in Readers, Lookup(r)
    PROVE  StageInv'
<1> USE DEF BufferInv
<1>0. PICK k : k = reader[r].key
  OBVIOUS
<1>1. PICK i \in 1..MaxItems :
          /\ GetOrNew(k, i)
          /\ reader' = [reader EXCEPT ![r] =
                           [pc |-> IF items'[i].loaded THEN "add" ELSE "compute", key |-> k, item |-> i]]
  BY Zenon, <1>0 DEF Lookup
<1>2. UNCHANGED <<setBuf, policy, processor, deleter, loose>> /\ reader[r].pc = "lookup"
  BY DEF Lookup
<1>3. k \in Keys /\ k \notin deleter.gone
  BY <1>0, <1>2 DEF Typed, Reading, HasItem, Links
<1>4. reader'[r].pc # "send" /\ \A q \in Readers : q # r => reader'[q] = reader[q]
  BY <1>1 DEF Typed
<1>5. CASE store[k] # 0
  <2> DEFINE x == [pc |-> IF items'[i].loaded THEN "add" ELSE "compute", key |-> k, item |-> i]
  <2>1. items' = items /\ store' = [store EXCEPT ![k] = store[k]]
    BY <1>1, <1>5 DEF GetOrNew
  <2>2. store' = store
    BY <2>1 DEF Typed
  <2>3. x.pc # "send" /\ reader[r].pc # "send"
    BY <1>2
  <2>4. reader' = [reader EXCEPT ![r] = x]
    BY <1>1
  <2> HIDE DEF x
  <2> QED
    BY Zenon, <1>2, <2>1, <2>2, <2>3, <2>4, NoItemFaces, QuietReader
<1>6. CASE store[k] = 0
  <2>1. items' = Append(items, NewItem(k)) /\ i = Len(items) + 1 /\ store' = [store EXCEPT ![k] = i]
    BY <1>1, <1>6 DEF GetOrNew
  <2>2. /\ Len(items') = Len(items) + 1 /\ items'[i] = NewItem(k)
        /\ \A j \in 1..Len(items) : items'[j] = items[j]
    <3>1. NewItem(k) \in Item
      BY <1>3 DEF NewItem, Item
    <3> QED
      BY <2>1, <3>1 DEF Typed
  <2>3. items'[i].key = k /\ ~items'[i].dead /\ items'[i].lock = Free /\ ~items'[i].loaded
    BY <2>2 DEF NewItem
  <2>4. i # 0 /\ store'[k] = i /\ \A q \in Keys : q # k => store'[q] = store[q]
    BY <1>3, <2>1 DEF Typed
  <2>5. \A j \in 1..Len(items') : j \in 1..Len(items) \/ j = i
    BY <2>1, <2>2
  <2>6. Owners'
    <3>1. ASSUME NEW j \in 1..Len(items'), Locked(j)'
          PROVE  /\ reader'[items'[j].lock].pc = "send" /\ reader'[items'[j].lock].item = j
                 /\ ~items'[j].dead
      <4>1. j \in 1..Len(items) /\ items'[j] = items[j] /\ items[j].lock \in Readers /\ Locked(j)
        BY <2>2, <2>3, <2>5, <3>1 DEF Locked
      <4>2. reader[items[j].lock].pc = "send" /\ reader[items[j].lock].item = j /\ ~items[j].dead
        BY Zenon, <4>1 DEF StageInv, Owners
      <4> QED
        BY <1>2, <1>4, <4>1, <4>2
    <3>2. ASSUME NEW q \in Readers, reader'[q].pc = "send" PROVE items'[reader'[q].item].lock = q
      <4>1. q # r /\ reader'[q] = reader[q]
        BY <1>4, <3>2
      <4>2. items[reader[q].item].lock = q /\ reader[q].item \in 1..Len(items)
        BY <3>2, <4>1 DEF StageInv, Owners, Links, HasItem
      <4> QED
        BY Zenon, <2>2, <4>1, <4>2
    <3> QED
      BY Zenon, <3>1, <3>2 DEF Owners
  <2>7. Alive'
    <3>1. ASSUME NEW q \in Keys, store'[q] # 0 PROVE ~items'[store'[q]].dead
      BY <2>2, <2>3, <2>4, <3>1 DEF StageInv, Alive, Links
    <3>2. ASSUME NEW j \in 1..Len(items'), ~items'[j].dead, items'[j].key \notin deleter'.gone
          PROVE  store'[items'[j].key] = j
      <4>1. CASE j = i
        BY Zenon, <2>3, <2>4, <4>1
      <4>2. CASE j \in 1..Len(items)
        <5>1. items[j] \in Item /\ items'[j] = items[j]
          BY <2>2, <4>2 DEF Typed
        <5>2. store[items[j].key] = j /\ items[j].key \in Keys /\ j # 0
          BY <1>2, <3>2, <4>2, <5>1 DEF StageInv, Alive, Item
        <5> QED
          BY <1>6, <2>4, <5>1, <5>2
      <4> QED
        BY Zenon, <2>5, <4>1, <4>2
    <3> QED
      BY Zenon, <3>1, <3>2 DEF Alive
  <2>8. \A b, q : Sent(b, q)' <=> Sent(b, q)
    BY <1>2 DEF Sent
  <2>9. processor.pc \in {"reject", "lock"} => items'[processor.item].key = items[processor.item].key
    BY <2>2 DEF Links
  <2>10. \A q : (Leaving(q)' <=> Leaving(q)) /\ (Waiting(q)' <=> Waiting(q))
    BY <1>2, <2>9 DEF Leaving, Rejecting, Waiting, Evicting
  <2>11. ~Entered(k)
    BY Zenon, <1>3, <1>6 DEF StageInv, Way
  <2>12. KeysKnown'
    <3>1. deleter'.pc \in {"del", "send"} => items'[deleter'.item].key \in deleter'.gone
      BY <1>2, <2>2 DEF StageInv, KeysKnown, Links
    <3>2. \A q \in Keys : Sent(TRUE, q)' => q \in deleter'.gone /\ store'[q] = 0
      BY Zenon, <1>2, <1>3, <2>4, <2>8 DEF StageInv, KeysKnown
    <3>3. /\ processor'.pc = "reject" => items'[processor'.item].key = processor'.key
          /\ processor'.pc = "lock" => items'[processor'.item].key \notin processor'.left
          /\ \A q \in policy' : ~(Cost[q] > MaxCost)
      BY <1>2, <2>9 DEF StageInv, KeysKnown
    <3> QED
      BY Zenon, <3>1, <3>2, <3>3 DEF KeysKnown
  <2>13. Once'
    BY <1>2 DEF StageInv, Once
  <2>14. ASSUME NEW q \in Keys, q # k, store[q] # 0
         PROVE  items'[store'[q]] = items[store[q]] /\ (Locked(store[q])' <=> Locked(store[q]))
    BY <2>2, <2>4, <2>14 DEF Links, Locked
  <2>15. Way'
    <3>1. \A q : Entered(q)' <=> Entered(q)
      BY Zenon, <1>2, <2>8, <2>10 DEF Entered
    <3>2. \A q \in Keys : Leaving(q)' => q \notin policy'
      BY <1>2, <2>10 DEF StageInv, Way
    <3>3. ASSUME NEW q \in Keys \ deleter'.gone, Entered(q)'
          PROVE  /\ Sent(FALSE, q)' => q \notin policy' /\ ~Leaving(q)'
                 /\ store'[q] # 0 /\ items'[store'[q]].loaded /\ ~Locked(store[q])'
      <4>1. q # k /\ q \in Keys \ deleter.gone /\ Entered(q)
        BY <1>2, <2>11, <3>1, <3>3
      <4>2. /\ Sent(FALSE, q) => q \notin policy /\ ~Leaving(q)
            /\ store[q] # 0 /\ items[store[q]].loaded /\ ~Locked(store[q])
        BY Zenon, <4>1 DEF StageInv, Way
      <4> QED
        BY Zenon, <1>2, <2>4, <2>8, <2>10, <2>14, <4>1, <4>2
    <3> QED
      BY Zenon, <3>2, <3>3 DEF Way
  <2>16. Known'
    <3>1. Kept(k)'
      BY <2>3, <2>4 DEF Kept
    <3>2. ASSUME NEW q \in Keys, q # k PROVE Kept(q)'
      <4>1. Kept(q) /\ store'[q] = store[q]
        BY <2>4, <3>2 DEF StageInv, Known
      <4> QED
        BY Zenon, <1>2, <2>8, <2>10, <2>14, <3>2, <4>1, KeptSame
    <3>3. ASSUME NEW q \in Keys PROVE Dropped(q)'
      <4>1. Dropped(q)
        BY DEF StageInv, Known
      <4>2. deleter.pc = "send" => items'[deleter.item].key = items[deleter.item].key
        BY <2>2 DEF Links
      <4> QED
        BY Zenon, <1>2, <2>4, <2>8, <4>1, <4>2 DEF Dropped
    <3> QED
      BY Zenon, <3>1, <3>2, <3>3 DEF Known
  <2> QED
    BY Zenon, <2>6, <2>7, <2>12, <2>13, <2>15, <2>16 DEF StageInv
<1> QED
  BY Zenon, <1>5, <1>6

\* Readers that do not change hold the items that do not change.
LEMMA OwnersOthers ==
    ASSUME Links, Owners, NEW i \in 1..Len(items), OnlyItem(i), NEW r \in Readers,
           \A q \in Readers : q # r => reader'[q] = reader[q],
           reader[r].pc = "send" => reader[r].item = i,
           items[i].lock \in Readers => items[i].lock = r,
           IF items'[i].lock \in Readers
           THEN items'[i].lock = r /\ reader'[r].pc = "send" /\ reader'[r].item = i /\ ~items'[i].dead
           ELSE reader'[r].pc # "send"
    PROVE  Owners'
<1>1. ASSUME NEW j \in 1..Len(items'), Locked(j)'
      PROVE  /\ reader'[items'[j].lock].pc = "send" /\ reader'[items'[j].lock].item = j
             /\ ~items'[j].dead
  <2>1. CASE j = i
    BY Zenon, <1>1, <2>1 DEF Locked
  <2>2. CASE j # i
    <3>1. j \in 1..Len(items) /\ items'[j] = items[j] /\ items[j].lock \in Readers /\ Locked(j)
      BY Zenon, <1>1, <2>2 DEF OnlyItem, Locked
    <3>2. reader[items[j].lock].pc = "send" /\ reader[items[j].lock].item = j /\ ~items[j].dead
      BY Zenon, <3>1 DEF Owners
    <3>3. items[j].lock # r
      BY Zenon, <2>2, <3>2
    <3> QED
      BY Zenon, <3>1, <3>2, <3>3
  <2> QED
    BY Zenon, <2>1, <2>2
<1>2. ASSUME NEW q \in Readers, reader'[q].pc = "send" PROVE items'[reader'[q].item].lock = q
  <2>1. CASE q = r
    BY Zenon, <1>2, <2>1
  <2>2. CASE q # r
    <3>1. reader'[q] = reader[q] /\ reader[q].pc = "send"
      BY Zenon, <1>2, <2>2
    <3>2. items[reader[q].item].lock = q /\ reader[q].item \in 1..Len(items)
      BY <3>1 DEF Owners, Links, HasItem
    <3>3. reader[q].item # i
      BY Zenon, <2>2, <3>2
    <3> QED
      BY Zenon, <3>1, <3>2, <3>3 DEF OnlyItem
  <2> QED
    BY Zenon, <2>1, <2>2
<1> QED
  BY Zenon, <1>1, <1>2 DEF Owners

LEMMA AliveOthers ==
    ASSUME Links, Alive, NEW i \in 1..Len(items), OnlyItem(i), items'[i].dead = items[i].dead,
           store' = store, deleter' = deleter
    PROVE  Alive'
<1>1. ASSUME NEW j \in 1..Len(items)
      PROVE  items'[j].dead = items[j].dead /\ items'[j].key = items[j].key
  BY Zenon DEF OnlyItem
<1>2. ASSUME NEW q \in Keys, store'[q] # 0 PROVE ~items'[store'[q]].dead
  BY Zenon, <1>1, <1>2 DEF Alive, Links
<1>3. ASSUME NEW j \in 1..Len(items'), ~items'[j].dead, items'[j].key \notin deleter'.gone
      PROVE  store'[items'[j].key] = j
  <2>1. j \in 1..Len(items)
    BY Zenon, <1>3 DEF OnlyItem
  <2> QED
    BY Zenon, <1>1, <1>3, <2>1 DEF Alive
<1> QED
  BY Zenon, <1>2, <1>3 DEF Alive

\* compute locks an item that is not loaded, so that its key is at no place of the way.
LEMMA ComputeStage ==
    ASSUME Free \notin Readers, BufferInv, StageInv, NEW r \in Readers, Compute(r)
    PROVE  StageInv'
<1> USE DEF BufferInv
<1>0. PICK i, k : i = reader[r].item /\ k = reader[r].key
  OBVIOUS
<1>1. /\ UNCHANGED <<store, setBuf, policy, processor, deleter, loose>>
      /\ reader[r].pc = "compute" /\ items[i].lock = Free
  BY <1>0 DEF Compute
<1>2. i \in 1..Len(items) /\ items[i].key = k /\ k \notin deleter.gone /\ k \in Keys
  BY <1>0, <1>1 DEF Links, HasItem, Typed, Reading
<1>3. CASE items[i].dead
  <2> DEFINE x == [pc |-> "lookup", key |-> k]
  <2>1. reader' = [reader EXCEPT ![r] = x] /\ items' = items
    BY <1>0, <1>3 DEF Compute
  <2>2. x.pc # "send" /\ reader[r].pc # "send"
    BY <1>1
  <2> HIDE DEF x
  <2> QED
    BY Zenon, <1>1, <2>1, <2>2, NoItemFaces, QuietReader
<1>4. CASE ~items[i].dead /\ items[i].loaded
  <2> DEFINE x == [reader[r] EXCEPT !.pc = "add"]
  <2>1. reader' = [reader EXCEPT ![r].pc = "add"] /\ items' = items
    BY <1>0, <1>4 DEF Compute
  <2>2. reader' = [reader EXCEPT ![r] = x] /\ x.pc # "send" /\ reader[r].pc # "send"
    <3>1. reader[r] \in Reading
      BY DEF Typed
    <3> QED
      BY <1>1, <2>1, <3>1 DEF Reading, HasItem
  <2> HIDE DEF x
  <2> QED
    BY Zenon, <1>1, <2>1, <2>2, NoItemFaces, QuietReader
<1>5. CASE ~items[i].dead /\ ~items[i].loaded
  <2>1. /\ items' = [items EXCEPT ![i].loaded = TRUE, ![i].ref = 1, ![i].lock = r]
        /\ reader' = [reader EXCEPT ![r].pc = "send"]
    BY <1>0, <1>5 DEF Compute
  <2>2. OnlyItem(i) /\ items'[i].loaded /\ items'[i].dead = items[i].dead /\ items'[i].lock = r
    <3>1. r \in Locks
      BY DEF Locks
    <3>2. items \in Seq(Item)
      BY DEF Typed
    <3>3. items'[i].lock = r
      BY Zenon, <1>2, <2>1, <3>1, <3>2, LockFact
    <3> QED
      BY Zenon, <1>2, <2>1, <3>1, <3>2, <3>3, UpdateFact
  <2>3. /\ reader'[r].pc = "send" /\ reader'[r].item = i
        /\ \A q \in Readers : q # r => reader'[q] = reader[q]
    <3>1. reader[r].pc \in HasItem /\ "send" \in HasItem
      BY <1>1 DEF HasItem
    <3> QED
      BY Zenon, <1>0, <2>1, <3>1, ReaderFact DEF Typed
  <2>4. store[k] = i /\ ~Entered(k)
    BY Zenon, <1>2, <1>5, NotEntered
  <2>5. Owners'
    BY Zenon, <1>1, <1>2, <1>5, <2>2, <2>3, OwnersOthers, "send" # "compute" DEF StageInv
  <2>6. Alive'
    BY Zenon, <1>1, <1>2, <2>2, AliveOthers DEF StageInv
  <2>7. \A b, q : Sent(b, q)' <=> Sent(b, q)
    BY <1>1 DEF Sent
  <2>8. /\ processor.pc \in {"reject", "lock"} => items'[processor.item].key = items[processor.item].key
        /\ deleter.pc \in {"del", "send"} => items'[deleter.item].key = items[deleter.item].key
    BY <2>2 DEF Links, OnlyItem
  <2>9. \A q : (Leaving(q)' <=> Leaving(q)) /\ (Waiting(q)' <=> Waiting(q))
    BY <1>1, <2>8 DEF Leaving, Rejecting, Waiting, Evicting
  <2>10. KeysKnown'
    BY Zenon, <1>1, <2>7, <2>8 DEF StageInv, KeysKnown
  <2>11. Once'
    BY <1>1 DEF StageInv, Once
  <2>12. ASSUME NEW q \in Keys, q # k, store[q] # 0
         PROVE  items'[store'[q]] = items[store[q]] /\ (Locked(store[q])' <=> Locked(store[q]))
    <3>1. store[q] \in 1..Len(items) /\ store[q] # i
      BY <1>2, <2>12 DEF Links
    <3> QED
      BY <1>1, <2>2, <3>1 DEF OnlyItem, Locked
  <2>13. Way'
    <3>1. \A q : Entered(q)' <=> Entered(q)
      BY Zenon, <1>1, <2>7, <2>9 DEF Entered
    <3>2. \A q \in Keys : Leaving(q)' => q \notin policy'
      BY <1>1, <2>9 DEF StageInv, Way
    <3>3. ASSUME NEW q \in Keys \ deleter'.gone, Entered(q)'
          PROVE  /\ Sent(FALSE, q)' => q \notin policy' /\ ~Leaving(q)'
                 /\ store'[q] # 0 /\ items'[store'[q]].loaded /\ ~Locked(store[q])'
      <4>1. q # k /\ q \in Keys \ deleter.gone /\ Entered(q)
        BY <1>1, <2>4, <3>1, <3>3
      <4>2. /\ Sent(FALSE, q) => q \notin policy /\ ~Leaving(q)
            /\ store[q] # 0 /\ items[store[q]].loaded /\ ~Locked(store[q])
        BY Zenon, <4>1 DEF StageInv, Way
      <4> QED
        BY Zenon, <1>1, <2>7, <2>9, <2>12, <4>1, <4>2
    <3> QED
      BY Zenon, <3>2, <3>3 DEF Way
  <2>14. Known'
    <3>1. Kept(k)'
      BY Zenon, <1>1, <2>2, <2>4 DEF Kept, Locked
    <3>2. ASSUME NEW q \in Keys, q # k PROVE Kept(q)'
      <4>1. Kept(q)
        BY <3>2 DEF StageInv, Known
      <4> QED
        BY Zenon, <1>1, <2>7, <2>9, <2>12, <3>2, <4>1, KeptSame
    <3>3. ASSUME NEW q \in Keys PROVE Dropped(q)'
      <4>1. Dropped(q)
        BY DEF StageInv, Known
      <4> QED
        BY Zenon, <1>1, <2>7, <2>8, <4>1 DEF Dropped
    <3> QED
      BY Zenon, <3>1, <3>2, <3>3 DEF Known
  <2> QED
    BY Zenon, <2>5, <2>6, <2>10, <2>11, <2>13, <2>14 DEF StageInv
<1> QED
  BY Zenon, <1>3, <1>4, <1>5

\* The item stays the store's, loaded; its key enters when the lock is given up.
LEMMA SendStage ==
    ASSUME Free \notin Readers, BufferInv, StageInv, NEW r \in Readers, Send(r)
    PROVE  StageInv'
<1> USE DEF BufferInv
<1>0. PICK i, k : i = reader[r].item /\ k = reader[r].key
  OBVIOUS
<1>1. /\ UNCHANGED <<store, policy, processor, deleter, loose>> /\ reader[r].pc = "send"
      /\ setBuf' = Append(setBuf, [del |-> FALSE, key |-> items[i].key])
      /\ items' = [items EXCEPT ![i].lock = Free]
      /\ reader' = [reader EXCEPT ![r].pc = "add"]
  BY <1>0 DEF Send
<1>2. i \in 1..Len(items) /\ items[i].key = k /\ k \notin deleter.gone /\ k \in Keys /\ items[i].loaded
  BY <1>0, <1>1 DEF Links, HasItem, Typed, Reading
<1>3. items[i].lock = r /\ Locked(i) /\ ~items[i].dead
  BY <1>0, <1>1, <1>2 DEF StageInv, Owners, Locked
<1>4. store[k] = i /\ ~Entered(k)
  BY Zenon, <1>2, <1>3, NotEntered
<1>5. OnlyItem(i) /\ items'[i].loaded = items[i].loaded /\ items'[i].dead = items[i].dead /\ items'[i].lock = Free
  <2>1. Free \in Locks
    BY DEF Locks
  <2>2. items \in Seq(Item)
    BY DEF Typed
  <2>3. items'[i].lock = Free
    BY Zenon, <1>1, <1>2, <2>1, <2>2, LockFact
  <2> QED
    BY Zenon, <1>1, <1>2, <2>1, <2>2, <2>3, UpdateFact
<1>6. reader'[r].pc = "add" /\ \A q \in Readers : q # r => reader'[q] = reader[q]
  <2>1. reader[r].pc \in HasItem /\ "add" \in HasItem
    BY <1>1 DEF HasItem
  <2> QED
    BY Zenon, <1>1, <2>1, ReaderFact DEF Typed
<1>7. Owners'
  <2>1. reader'[r].pc # "send" /\ items'[i].lock \notin Readers
    BY <1>5, <1>6
  <2> QED
    BY Zenon, <1>0, <1>2, <1>3, <1>5, <1>6, <2>1, OwnersOthers DEF StageInv
<1>8. Alive'
  BY Zenon, <1>1, <1>2, <1>5, AliveOthers DEF StageInv
<1>9. setBuf \in Seq(Events) /\ setBuf' = Append(setBuf, [del |-> FALSE, key |-> k]) /\ ~Sent(FALSE, k)
  BY Zenon, <1>1, <1>2, <1>4 DEF Typed, Events, Entered
<1>10. \A b \in BOOLEAN, q \in Keys : Sent(b, q)' <=> Sent(b, q) \/ (b = FALSE /\ q = k)
  BY Zenon, <1>2, <1>9, SentMore
<1>11. Once'
  BY Zenon, <1>1, <1>2, <1>9, SentMore DEF StageInv
<1>12. /\ processor.pc \in {"reject", "lock"} => items'[processor.item].key = items[processor.item].key
       /\ deleter.pc \in {"del", "send"} => items'[deleter.item].key = items[deleter.item].key
  BY <1>5 DEF Links, OnlyItem
<1>13. \A q : (Leaving(q)' <=> Leaving(q)) /\ (Waiting(q)' <=> Waiting(q))
  BY <1>1, <1>12 DEF Leaving, Rejecting, Waiting, Evicting
<1>14. KeysKnown'
  BY Zenon, <1>1, <1>10, <1>12 DEF StageInv, KeysKnown
<1>15. ASSUME NEW q \in Keys, q # k, store[q] # 0
       PROVE  items'[store'[q]] = items[store[q]] /\ (Locked(store[q])' <=> Locked(store[q]))
  <2>1. store[q] \in 1..Len(items) /\ store[q] # i
    BY <1>2, <1>15 DEF Links
  <2> QED
    BY <1>1, <1>5, <2>1 DEF OnlyItem, Locked
<1>16. Way'
  <2>1. \A q \in Keys : Leaving(q)' => q \notin policy'
    BY <1>1, <1>13 DEF StageInv, Way
  <2>2. ASSUME NEW q \in Keys \ deleter'.gone, Entered(q)'
        PROVE  /\ Sent(FALSE, q)' => q \notin policy' /\ ~Leaving(q)'
               /\ store'[q] # 0 /\ items'[store'[q]].loaded /\ ~Locked(store[q])'
    <3>1. CASE q = k
      <4>1. k \notin policy' /\ ~Leaving(k)'
        BY Zenon, <1>1, <1>4, <1>13 DEF Entered
      <4>2. store'[k] = i /\ i # 0 /\ items'[i].loaded /\ ~Locked(store[k])'
        BY <1>1, <1>2, <1>4, <1>5 DEF Locked
      <4> QED
        BY Zenon, <3>1, <4>1, <4>2
    <3>2. CASE q # k
      <4>1. q \in Keys \ deleter.gone /\ Entered(q)
        BY Zenon, <1>1, <1>10, <1>13, <2>2, <3>2 DEF Entered
      <4>2. /\ Sent(FALSE, q) => q \notin policy /\ ~Leaving(q)
            /\ store[q] # 0 /\ items[store[q]].loaded /\ ~Locked(store[q])
        BY Zenon, <4>1 DEF StageInv, Way
      <4> QED
        BY Zenon, <1>1, <1>10, <1>13, <1>15, <3>2, <4>1, <4>2
    <3> QED
      BY Zenon, <3>1, <3>2
  <2> QED
    BY Zenon, <2>1, <2>2 DEF Way
<1>17. Known'
  <2>1. Kept(k)'
    BY Zenon, <1>2, <1>10 DEF Kept
  <2>2. ASSUME NEW q \in Keys, q # k PROVE Kept(q)'
    <3>1. Kept(q)
      BY <2>2 DEF StageInv, Known
    <3> QED
      BY Zenon, <1>1, <1>10, <1>13, <1>15, <2>2, <3>1, KeptSame
  <2>3. ASSUME NEW q \in Keys PROVE Dropped(q)'
    <3>1. Dropped(q)
      BY DEF StageInv, Known
    <3> QED
      BY Zenon, <1>1, <1>10, <1>12, <3>1 DEF Dropped
  <2> QED
    BY Zenon, <2>1, <2>2, <2>3 DEF Known
<1> QED
  BY Zenon, <1>7, <1>8, <1>11, <1>14, <1>16, <1>17 DEF StageInv

LEMMA OwnersUnlocked ==
    ASSUME Links, Owners, NEW i \in 1..Len(items), OnlyItem(i), items[i].lock \notin Readers,
           items'[i].lock \notin Readers, reader' = reader
    PROVE  Owners'
<1>1. ASSUME NEW j \in 1..Len(items'), Locked(j)'
      PROVE  /\ reader'[items'[j].lock].pc = "send" /\ reader'[items'[j].lock].item = j
             /\ ~items'[j].dead
  <2>1. j # i /\ j \in 1..Len(items) /\ items'[j] = items[j]
    BY Zenon, <1>1 DEF OnlyItem, Locked
  <2> QED
    BY Zenon, <1>1, <2>1 DEF Owners, Locked
<1>2. ASSUME NEW q \in Readers, reader'[q].pc = "send" PROVE items'[reader'[q].item].lock = q
  <2>1. items[reader[q].item].lock = q /\ reader[q].item \in 1..Len(items)
    BY <1>2 DEF Owners, Links, HasItem
  <2>2. reader[q].item # i
    BY Zenon, <2>1
  <2> QED
    BY Zenon, <2>1, <2>2 DEF OnlyItem
<1> QED
  BY Zenon, <1>1, <1>2 DEF Owners

\* An item leaves the store when it dies, or its key is deleted.
LEMMA AliveDead ==
    ASSUME Typed, Links, Alive, NEW i \in 1..Len(items), OnlyItem(i),
           items[i].key \in deleter.gone \/ (~items[i].dead /\ items'[i].dead), deleter'.gone = deleter.gone,
           store'[items[i].key] = 0, \A q \in Keys : q # items[i].key => store'[q] = store[q]
    PROVE  Alive'
<1>1. ASSUME NEW q \in Keys, store'[q] # 0 PROVE ~items'[store'[q]].dead
  <2>1. q # items[i].key /\ store'[q] = store[q]
    BY Zenon, <1>1
  <2>2. store[q] \in 1..Len(items) /\ items[store[q]].key = q /\ ~items[store[q]].dead
    BY Zenon, <1>1, <2>1 DEF Alive, Links
  <2>3. store[q] # i
    BY Zenon, <2>1, <2>2
  <2> QED
    BY Zenon, <2>1, <2>2, <2>3 DEF OnlyItem
<1>2. ASSUME NEW j \in 1..Len(items'), ~items'[j].dead, items'[j].key \notin deleter'.gone
      PROVE  store'[items'[j].key] = j
  <2>1. j # i /\ j \in 1..Len(items) /\ items'[j] = items[j]
    BY Zenon, <1>2 DEF OnlyItem
  <2>2. store[items[j].key] = j
    BY Zenon, <1>2, <2>1 DEF Alive
  <2>3. items[j].key # items[i].key
    BY Zenon, <1>2, <2>1, <2>2 DEF Alive
  <2>4. items[j] \in Item
    BY <2>1 DEF Typed
  <2>5. items[j].key \in Keys
    BY <2>4 DEF Item
  <2> QED
    BY Zenon, <2>1, <2>2, <2>3, <2>5
<1> QED
  BY Zenon, <1>1, <1>2 DEF Alive

LEMMA OtherStored ==
    ASSUME Links, NEW i \in 1..Len(items), OnlyItem(i), NEW q \in Keys, q # items[i].key,
           store'[q] = store[q], store[q] # 0
    PROVE  items'[store'[q]] = items[store[q]] /\ (Locked(store[q])' <=> Locked(store[q]))
<1>1. store[q] \in 1..Len(items) /\ items[store[q]].key = q
  BY Zenon DEF Links
<1>2. store[q] # i
  BY Zenon, <1>1
<1> QED
  BY Zenon, <1>1, <1>2 DEF OnlyItem, Locked

LEMMA StoreWithout ==
    ASSUME store \in [Keys -> Nat], NEW k \in Keys, store' = [store EXCEPT ![k] = 0]
    PROVE  store'[k] = 0 /\ \A q \in Keys : q # k => store'[q] = store[q]
OBVIOUS

\* Table.Delete: the key is deleted, so that nothing is promised of its item but that the policy is told.
LEMMA DeleteLockedStage ==
    ASSUME Free \notin Readers, "deleter" \notin Readers, BufferInv, StageInv, DeleteLocked
    PROVE  StageInv'
<1> USE DEF BufferInv
<1>0. PICK i : i = deleter.item
  OBVIOUS
<1>1. UNCHANGED <<setBuf, policy, processor, reader, loose>> /\ deleter.pc = "del" /\ items[i].lock = Free
  BY <1>0 DEF DeleteLocked
<1>2. i \in 1..Len(items) /\ items[i].key \in deleter.gone
  BY <1>0, <1>1 DEF Links, StageInv, KeysKnown
<1>3. CASE items[i].dead
  <2>1. deleter' = [pc |-> "idle", gone |-> deleter.gone] /\ UNCHANGED <<items, store>>
    BY <1>0, <1>3 DEF DeleteLocked
  <2>2. deleter'.gone = deleter.gone /\ deleter'.pc \notin {"del", "send"} /\ deleter.pc # "send"
    BY <1>1, <2>1
  <2> QED
    BY Zenon, <1>1, <2>1, <2>2, NoItemFaces, QuietStep
<1>4. CASE ~items[i].dead
  <2>0. PICK k : k = items[i].key
    OBVIOUS
  <2>1. /\ items' = [items EXCEPT ![i].dead = TRUE, ![i].lock = "deleter"]
        /\ store' = [store EXCEPT ![k] = 0]
        /\ deleter' = [deleter EXCEPT !.pc = "send"]
    BY <1>0, <1>4, <2>0 DEF DeleteLocked
  <2>2. k \in Keys /\ deleter.gone \in SUBSET Keys
    BY <1>2, <2>0, DeleterAt DEF Typed
  <2>3. deleter'.pc = "send" /\ deleter'.gone = deleter.gone /\ deleter'.item = i
    BY <1>0, <1>1, <2>1, DeleterAt DEF Typed
  <2>4. store'[k] = 0 /\ \A q \in Keys : q # k => store'[q] = store[q]
    BY Zenon, <2>1, <2>2, StoreWithout DEF Typed
  <2>5. OnlyItem(i) /\ items'[i].dead /\ items'[i].lock = "deleter"
    <3>1. "deleter" \in Locks /\ items \in Seq(Item)
      BY DEF Locks, Typed
    <3>2. items'[i].lock = "deleter"
      BY Zenon, <1>2, <2>1, <3>1, LockFact
    <3> QED
      BY Zenon, <1>2, <2>1, <3>1, <3>2, UpdateFact
  <2>6. Owners'
    BY Zenon, <1>1, <1>2, <2>5, OwnersUnlocked DEF StageInv
  <2>7. Alive'
    BY Zenon, <1>2, <2>0, <2>3, <2>4, <2>5, AliveDead DEF StageInv
  <2>8. \A b, q : Sent(b, q)' <=> Sent(b, q)
    BY <1>1 DEF Sent
  <2>9. processor.pc \in {"reject", "lock"} => items'[processor.item].key = items[processor.item].key
    BY <2>5 DEF Links, OnlyItem
  <2>10. \A q : (Leaving(q)' <=> Leaving(q)) /\ (Waiting(q)' <=> Waiting(q))
    BY <1>1, <2>9 DEF Leaving, Rejecting, Waiting, Evicting
  <2>11. items'[deleter'.item].key = k /\ k \in deleter'.gone
    BY Zenon, <1>2, <2>0, <2>3, <2>5 DEF OnlyItem
  <2>12. KeysKnown'
    BY Zenon, <1>1, <2>3, <2>4, <2>8, <2>9, <2>11 DEF StageInv, KeysKnown
  <2>13. Once'
    BY <1>1, <2>3 DEF StageInv, Once
  <2>14. ASSUME NEW q \in Keys, q # k, store[q] # 0
         PROVE  items'[store'[q]] = items[store[q]] /\ (Locked(store[q])' <=> Locked(store[q]))
    BY Zenon, <1>2, <2>0, <2>4, <2>5, <2>14, OtherStored
  <2>15. Way'
    <3>1. \A q : Entered(q)' <=> Entered(q)
      BY Zenon, <1>1, <2>8, <2>10 DEF Entered
    <3>2. \A q \in Keys : Leaving(q)' => q \notin policy'
      BY <1>1, <2>10 DEF StageInv, Way
    <3>3. ASSUME NEW q \in Keys \ deleter'.gone, Entered(q)'
          PROVE  /\ Sent(FALSE, q)' => q \notin policy' /\ ~Leaving(q)'
                 /\ store'[q] # 0 /\ items'[store'[q]].loaded /\ ~Locked(store[q])'
      <4>1. q # k /\ q \in Keys \ deleter.gone /\ Entered(q)
        BY <2>3, <2>11, <3>1, <3>3
      <4>2. /\ Sent(FALSE, q) => q \notin policy /\ ~Leaving(q)
            /\ store[q] # 0 /\ items[store[q]].loaded /\ ~Locked(store[q])
        BY Zenon, <4>1 DEF StageInv, Way
      <4> QED
        BY Zenon, <1>1, <2>4, <2>8, <2>10, <2>14, <4>1, <4>2
    <3> QED
      BY Zenon, <3>2, <3>3 DEF Way
  <2>16. Known'
    <3>1. Kept(k)'
      BY <2>4 DEF Kept
    <3>2. ASSUME NEW q \in Keys, q # k PROVE Kept(q)'
      <4>1. Kept(q) /\ store'[q] = store[q]
        BY <2>4, <3>2 DEF StageInv, Known
      <4> QED
        BY Zenon, <1>1, <2>8, <2>10, <2>14, <3>2, <4>1, KeptSame
    <3>3. Dropped(k)'
      BY Zenon, <2>3, <2>11 DEF Dropped
    <3>4. ASSUME NEW q \in Keys, q # k PROVE Dropped(q)'
      <4>1. Dropped(q)
        BY <3>4 DEF StageInv, Known
      <4> QED
        BY Zenon, <1>1, <2>4, <2>8, <3>4, <4>1 DEF Dropped
    <3> QED
      BY Zenon, <3>1, <3>2, <3>3, <3>4 DEF Known
  <2> QED
    BY Zenon, <2>6, <2>7, <2>12, <2>13, <2>15, <2>16 DEF StageInv
<1> QED
  BY Zenon, <1>3, <1>4

\* The policy is told of a key that is not in the store.
LEMMA DeleteSendStage ==
    ASSUME Free \notin Readers, BufferInv, StageInv, DeleteSend
    PROVE  StageInv'
<1> USE DEF BufferInv
<1>0. PICK i, k : i = deleter.item /\ k = items[i].key
  OBVIOUS
<1>1. /\ UNCHANGED <<policy, processor, reader, loose>> /\ deleter.pc = "send"
      /\ setBuf' = Append(setBuf, [del |-> TRUE, key |-> k])
      /\ store' = [store EXCEPT ![k] = 0]
      /\ items' = [items EXCEPT ![i].lock = Free]
      /\ deleter' = [pc |-> "idle", gone |-> deleter.gone]
  BY <1>0 DEF DeleteSend
<1>2. i \in 1..Len(items) /\ k \in deleter.gone /\ k \in Keys
  BY <1>0, <1>1, DeleterAt DEF Links, Typed, StageInv, KeysKnown
<1>3. items[i].lock \notin Readers
  <2> SUFFICES ASSUME items[i].lock \in Readers PROVE FALSE
    OBVIOUS
  <2>1. reader[items[i].lock].pc = "send" /\ reader[items[i].lock].item = i
    BY Zenon, <1>2 DEF StageInv, Owners, Locked
  <2> QED
    BY <1>0, <1>2, <2>1 DEF Links, HasItem
<1>4. deleter'.pc = "idle" /\ deleter'.gone = deleter.gone
  BY <1>1
<1>5. store'[k] = 0 /\ \A q \in Keys : q # k => store'[q] = store[q]
  BY Zenon, <1>1, <1>2, StoreWithout DEF Typed
<1>6. OnlyItem(i) /\ items'[i].lock = Free
  <2>1. Free \in Locks /\ items \in Seq(Item)
    BY DEF Locks, Typed
  <2>2. items'[i].lock = Free
    BY Zenon, <1>1, <1>2, <2>1, LockFact
  <2> QED
    BY Zenon, <1>1, <1>2, <2>1, <2>2, UpdateFact
<1>7. Owners'
  BY Zenon, <1>1, <1>2, <1>3, <1>6, OwnersUnlocked DEF StageInv
<1>8. Alive'
  BY Zenon, <1>0, <1>2, <1>4, <1>5, <1>6, AliveDead DEF StageInv
<1>9. \A b \in BOOLEAN, q \in Keys : Sent(b, q)' <=> Sent(b, q) \/ (b = TRUE /\ q = k)
  <2>1. setBuf \in Seq(Events)
    BY DEF Typed, Events
  <2> QED
    BY Zenon, <1>1, <1>2, <2>1, SentMore
<1>10. Once'
  <2>1. setBuf \in Seq(Events) /\ TRUE \in BOOLEAN
    BY DEF Typed, Events
  <2> QED
    BY Zenon, <1>1, <1>2, <1>4, <2>1, SentMore DEF StageInv
<1>11. processor.pc \in {"reject", "lock"} => items'[processor.item].key = items[processor.item].key
  BY <1>6 DEF Links, OnlyItem
<1>12. \A q : (Leaving(q)' <=> Leaving(q)) /\ (Waiting(q)' <=> Waiting(q))
  BY <1>1, <1>11 DEF Leaving, Rejecting, Waiting, Evicting
<1>13. KeysKnown'
  <2>1. \A q \in Keys : Sent(TRUE, q)' => q \in deleter'.gone /\ store'[q] = 0
    BY Zenon, <1>2, <1>4, <1>5, <1>9 DEF StageInv, KeysKnown
  <2> QED
    BY Zenon, <1>1, <1>4, <1>11, <2>1 DEF StageInv, KeysKnown
<1>14. ASSUME NEW q \in Keys, q # k, store[q] # 0
       PROVE  items'[store'[q]] = items[store[q]] /\ (Locked(store[q])' <=> Locked(store[q]))
  BY Zenon, <1>0, <1>2, <1>5, <1>6, <1>14, OtherStored
<1>15. \A q \in Keys : Sent(FALSE, q)' <=> Sent(FALSE, q)
  BY Zenon, <1>9
<1>16. Way'
  <2>1. \A q \in Keys : Entered(q)' <=> Entered(q)
    BY Zenon, <1>1, <1>12, <1>15 DEF Entered
  <2>2. \A q \in Keys : Leaving(q)' => q \notin policy'
    BY <1>1, <1>12 DEF StageInv, Way
  <2>3. ASSUME NEW q \in Keys \ deleter'.gone, Entered(q)'
        PROVE  /\ Sent(FALSE, q)' => q \notin policy' /\ ~Leaving(q)'
               /\ store'[q] # 0 /\ items'[store'[q]].loaded /\ ~Locked(store[q])'
    <3>1. q # k /\ q \in Keys \ deleter.gone /\ Entered(q)
      BY <1>2, <1>4, <2>1, <2>3
    <3>2. /\ Sent(FALSE, q) => q \notin policy /\ ~Leaving(q)
          /\ store[q] # 0 /\ items[store[q]].loaded /\ ~Locked(store[q])
      BY Zenon, <3>1 DEF StageInv, Way
    <3> QED
      BY Zenon, <1>1, <1>5, <1>12, <1>14, <1>15, <3>1, <3>2
  <2> QED
    BY Zenon, <2>2, <2>3 DEF Way
<1>17. Known'
  <2>1. Kept(k)'
    BY <1>5 DEF Kept
  <2>2. ASSUME NEW q \in Keys, q # k PROVE Kept(q)'
    <3>1. Kept(q) /\ store'[q] = store[q]
      BY <1>5, <2>2 DEF StageInv, Known
    <3> QED
      BY Zenon, <1>1, <1>12, <1>14, <1>15, <2>2, <3>1, KeptSame
  <2>3. Dropped(k)'
    BY Zenon, <1>2, <1>9 DEF Dropped
  <2>4. ASSUME NEW q \in Keys, q # k PROVE Dropped(q)'
    <3>1. Dropped(q)
      BY <2>4 DEF StageInv, Known
    <3> QED
      BY Zenon, <1>0, <1>1, <1>5, <1>9, <2>4, <3>1 DEF Dropped
  <2> QED
    BY Zenon, <2>1, <2>2, <2>3, <2>4 DEF Known
<1> QED
  BY Zenon, <1>7, <1>8, <1>10, <1>13, <1>16, <1>17 DEF StageInv

\* processItems goes on with the keys it is to delete.
LEMMA ProcessorMoves ==
    ASSUME BufferInv, StageInv, UNCHANGED <<store, items, setBuf, policy, reader, deleter, loose>>,
           \A q \in Keys : Leaving(q)' => Leaving(q),
           processor'.pc # "reject",
           processor'.pc = "lock" => items[processor'.item].key \notin processor'.left,
           \A q \in Keys : store[q] # 0 /\ (Waiting(q)
                              \/ (processor.pc \in {"reject", "lock"} /\ processor.item = store[q])) =>
               Waiting(q)' \/ (processor'.pc \in {"reject", "lock"} /\ processor'.item = store[q])
    PROVE  StageInv'
<1> USE DEF BufferInv, StageInv
<1>1. SameFaces
  BY NoItemFaces
<1>2. Owners' /\ Alive'
  BY <1>1, OwnersSame, AliveSame
<1>3. \A b, q : Sent(b, q)' <=> Sent(b, q)
  BY DEF Sent
<1>4. \A j : Locked(j)' <=> Locked(j)
  BY DEF Locked
<1>5. KeysKnown'
  BY Zenon, <1>3 DEF KeysKnown
<1>6. Once'
  BY DEF Once
<1>7. Way'
  <2>1. \A q \in Keys : Entered(q)' => Entered(q)
    BY Zenon, <1>3 DEF Entered
  <2>2. \A q \in Keys : Leaving(q)' => q \notin policy'
    BY Zenon DEF Way
  <2>3. ASSUME NEW q \in Keys \ deleter'.gone, Entered(q)'
        PROVE  /\ Sent(FALSE, q)' => q \notin policy' /\ ~Leaving(q)'
               /\ store'[q] # 0 /\ items'[store'[q]].loaded /\ ~Locked(store[q])'
    BY Zenon, <1>3, <2>1, <2>3 DEF Way, Locked
  <2> QED
    BY Zenon, <2>2, <2>3 DEF Way
<1>8. Known'
  <2>1. ASSUME NEW q \in Keys PROVE Kept(q)'
    <3>1. Kept(q)
      BY DEF Known
    <3> QED
      BY Zenon, <1>3, <3>1 DEF Kept, Locked
  <2>2. ASSUME NEW q \in Keys PROVE Dropped(q)'
    <3>1. Dropped(q)
      BY DEF Known
    <3> QED
      BY Zenon, <1>3, <3>1 DEF Dropped
  <2> QED
    BY Zenon, <2>1, <2>2 DEF Known
<1> QED
  BY Zenon, <1>2, <1>5, <1>6, <1>7, <1>8

LEMMA RejectStage ==
    ASSUME BufferInv, StageInv, Reject
    PROVE  StageInv'
<1>1. /\ UNCHANGED <<store, items, setBuf, policy, reader, deleter, loose>> /\ processor.pc = "reject"
      /\ processor' = IF store[processor.key] # processor.item THEN Idle
                      ELSE [pc |-> "lock", item |-> processor.item, rejected |-> TRUE, left |-> {}]
  BY DEF Reject
<1>2. items[processor.item].key = processor.key
  BY <1>1 DEF StageInv, KeysKnown
<1>3. \A q \in Keys : store[q] # 0 => items[store[q]].key = q
  BY DEF BufferInv, Links
<1>4. CASE store[processor.key] # processor.item
  <2>1. processor'.pc = "idle"
    BY <1>1, <1>4 DEF Idle
  <2>2. \A q : ~Leaving(q)'
    BY <2>1 DEF Leaving, Rejecting, Waiting, Evicting
  <2>3. \A q \in Keys : store[q] # 0 => ~Waiting(q) /\ processor.item # store[q]
    BY <1>1, <1>2, <1>3, <1>4 DEF Waiting
  <2> QED
    BY <1>1, <2>1, <2>2, <2>3, ProcessorMoves
<1>5. CASE store[processor.key] = processor.item
  <2>1. processor'.pc = "lock" /\ processor'.item = processor.item /\ processor'.left = {}
    BY <1>1, <1>5
  <2>2. \A q : Leaving(q)' => Leaving(q)
    BY <1>1, <1>2, <2>1 DEF Leaving, Rejecting, Waiting, Evicting
  <2>3. \A q : ~Waiting(q)
    BY <1>1 DEF Waiting
  <2> QED
    BY <1>1, <2>1, <2>2, <2>3, ProcessorMoves
<1> QED
  BY Zenon, <1>4, <1>5

LEMMA VictimStage ==
    ASSUME BufferInv, StageInv, Victim
    PROVE  StageInv'
<1>1. UNCHANGED <<store, items, setBuf, policy, reader, deleter, loose>> /\ processor.pc = "victims"
  BY DEF Victim
<1>2. processor \in [pc : {"victims"}, left : SUBSET Keys]
  BY <1>1 DEF BufferInv, Typed, Processing
<1>3. CASE processor.left = {}
  <2>1. processor'.pc = "idle"
    BY <1>3 DEF Victim, Idle
  <2>2. \A q : ~Leaving(q)' /\ ~Waiting(q)
    BY <1>3, <2>1 DEF Leaving, Rejecting, Waiting, Evicting
  <2> QED
    BY <1>1, <2>1, <2>2, ProcessorMoves
<1>4. CASE processor.left # {}
  <2>1. PICK v \in processor.left :
            processor' = IF store[v] = 0 THEN [processor EXCEPT !.left = @ \ {v}]
                         ELSE [pc |-> "lock", item |-> store[v], rejected |-> FALSE,
                               left |-> processor.left \ {v}]
    BY <1>4 DEF Victim
  <2>2. v \in Keys
    BY <1>2, <2>1
  <2>3. CASE store[v] = 0
    <3>1. processor'.pc = "victims" /\ processor'.left = processor.left \ {v}
      BY <1>2, <2>1, <2>3
    <3>2. \A q : Leaving(q)' => Leaving(q)
      BY <1>1, <3>1 DEF Leaving, Rejecting, Waiting, Evicting
    <3>3. \A q \in Keys : store[q] # 0 /\ Waiting(q) => Waiting(q)'
      BY <1>1, <2>3, <3>1 DEF Waiting
    <3> QED
      BY <1>1, <3>1, <3>2, <3>3, ProcessorMoves
  <2>4. CASE store[v] # 0
    <3>1. processor'.pc = "lock" /\ processor'.left = processor.left \ {v} /\ processor'.item = store[v]
      BY <2>1, <2>4
    <3>2. items[store[v]].key = v
      BY <2>2, <2>4 DEF BufferInv, Links
    <3>3. \A q : Leaving(q)' => Leaving(q)
      BY <1>1, <2>1, <3>1, <3>2 DEF Leaving, Rejecting, Waiting, Evicting
    <3>4. \A q \in Keys : Waiting(q) => Waiting(q)' \/ processor'.item = store[q]
      BY <1>1, <3>1 DEF Waiting
    <3> QED
      BY <1>1, <3>1, <3>2, <3>3, <3>4, ProcessorMoves
  <2> QED
    BY Zenon, <2>3, <2>4
<1> QED
  BY Zenon, <1>3, <1>4

\* The key of an item that dies was taken from the policy before, and its event is not waiting.
LEMMA EvictLockedStage ==
    ASSUME Free \notin Readers, BufferInv, StageInv, EvictLocked
    PROVE  StageInv'
<1> USE DEF BufferInv
<1>0. PICK i, k : i = processor.item /\ k = items[i].key
  OBVIOUS
<1>1. UNCHANGED <<setBuf, policy, reader, deleter, loose>> /\ processor.pc = "lock" /\ items[i].lock = Free
  BY <1>0 DEF EvictLocked
<1>2. i \in 1..Len(items) /\ k \in Keys
  <2>1. i \in 1..Len(items)
    BY <1>0, <1>1 DEF Links
  <2>2. items[i] \in Item
    BY <2>1 DEF Typed
  <2> QED
    BY <1>0, <2>1, <2>2 DEF Item
<1>3. CASE items[i].dead
  <2>1. processor' = [pc |-> "victims", left |-> processor.left] /\ UNCHANGED <<items, store>>
    BY <1>0, <1>3 DEF EvictLocked
  <2>2. processor'.pc = "victims" /\ processor'.left = processor.left
    BY <2>1
  <2>3. \A q : (Leaving(q)' => Leaving(q)) /\ (Waiting(q) => Waiting(q)')
    BY <1>1, <2>2 DEF Leaving, Rejecting, Waiting, Evicting
  <2>4. \A q \in Keys : store[q] # 0 => processor.item # store[q]
    BY <1>0, <1>3 DEF StageInv, Alive
  <2> QED
    BY <1>1, <2>1, <2>2, <2>3, <2>4, ProcessorMoves
<1>4. CASE ~items[i].dead
  <2>1. /\ processor' = [processor EXCEPT !.pc = "evict"] /\ items' = [items EXCEPT ![i].dead = TRUE]
        /\ store' = [store EXCEPT ![k] = 0]
    BY <1>0, <1>4 DEF EvictLocked, DelItem
  <2>2. processor'.pc = "evict" /\ processor'.left = processor.left
    <3>1. processor \in [pc : {"lock", "evict"}, item : Nat, rejected : BOOLEAN, left : SUBSET Keys]
      BY <1>1 DEF Typed, Processing
    <3> QED
      BY <2>1, <3>1
  <2>3. store'[k] = 0 /\ \A q \in Keys : q # k => store'[q] = store[q]
    BY Zenon, <1>2, <2>1, StoreWithout DEF Typed
  <2>4. OnlyItem(i) /\ items'[i].dead /\ items'[i].lock = Free
    <3>1. Free \in Locks /\ items \in Seq(Item)
      BY DEF Locks, Typed
    <3>2. items'[i].lock = Free
      BY Zenon, <1>1, <1>2, <2>1, <3>1, LockFact
    <3> QED
      BY Zenon, <1>2, <2>1, <3>1, <3>2, UpdateFact
  <2>5. Owners'
    BY Zenon, <1>1, <1>2, <2>4, OwnersUnlocked DEF StageInv
  <2>6. Alive'
    BY Zenon, <1>0, <1>1, <1>2, <1>4, <2>3, <2>4, AliveDead DEF StageInv
  <2>7. \A b, q : Sent(b, q)' <=> Sent(b, q)
    BY <1>1 DEF Sent
  <2>8. Evicting(k) /\ Leaving(k) /\ ~Waiting(k)
    BY <1>0, <1>1 DEF Leaving, Evicting, Waiting, StageInv, KeysKnown
  <2>9. \A q : (Leaving(q)' <=> Waiting(q)) /\ (Waiting(q)' <=> Waiting(q)) /\ (Waiting(q) => Leaving(q))
    BY <1>1, <2>2 DEF Leaving, Rejecting, Waiting, Evicting
  <2>10. k \notin policy /\ (k \notin deleter.gone => ~Sent(FALSE, k))
    BY Zenon, <1>2, <2>8 DEF StageInv, Way, Entered
  <2>11. deleter.pc \in {"del", "send"} => items'[deleter.item].key = items[deleter.item].key
    BY <2>4 DEF Links, OnlyItem
  <2>12. KeysKnown'
    <3>1. \A q \in Keys : Sent(TRUE, q)' => q \in deleter'.gone /\ store'[q] = 0
      BY Zenon, <1>1, <2>3, <2>7 DEF StageInv, KeysKnown
    <3> QED
      BY Zenon, <1>1, <2>2, <2>11, <3>1 DEF StageInv, KeysKnown
  <2>13. Once'
    BY <1>1 DEF StageInv, Once
  <2>14. ASSUME NEW q \in Keys, q # k, store[q] # 0
         PROVE  items'[store'[q]] = items[store[q]] /\ (Locked(store[q])' <=> Locked(store[q]))
    BY Zenon, <1>0, <1>2, <2>3, <2>4, <2>14, OtherStored
  <2>15. Way'
    <3>1. \A q \in Keys : Leaving(q)' => q \notin policy'
      BY <1>1, <2>9 DEF StageInv, Way
    <3>2. ASSUME NEW q \in Keys \ deleter'.gone, Entered(q)'
          PROVE  /\ Sent(FALSE, q)' => q \notin policy' /\ ~Leaving(q)'
                 /\ store'[q] # 0 /\ items'[store'[q]].loaded /\ ~Locked(store[q])'
      <4>1. q \in Keys \ deleter.gone /\ Entered(q) /\ q # k
        BY Zenon, <1>1, <2>7, <2>8, <2>9, <2>10, <3>2 DEF Entered
      <4>2. /\ Sent(FALSE, q) => q \notin policy /\ ~Leaving(q)
            /\ store[q] # 0 /\ items[store[q]].loaded /\ ~Locked(store[q])
        BY Zenon, <4>1 DEF StageInv, Way
      <4> QED
        BY Zenon, <1>1, <2>3, <2>7, <2>9, <2>14, <4>1, <4>2
    <3> QED
      BY Zenon, <3>1, <3>2 DEF Way
  <2>16. Known'
    <3>1. Kept(k)'
      BY <2>3 DEF Kept
    <3>2. ASSUME NEW q \in Keys, q # k PROVE Kept(q)'
      <4>1. Kept(q) /\ store'[q] = store[q]
        BY <2>3, <3>2 DEF StageInv, Known
      <4>2. store[q] # 0 => processor.item # store[q]
        BY <1>0, <3>2 DEF Links
      <4>3. processor.item # 0
        BY <1>0, <1>2
      <4> QED
        BY Zenon, <1>1, <2>7, <2>9, <2>14, <3>2, <4>1, <4>2, <4>3, KeptSame
    <3>3. Dropped(k)'
      BY Zenon, <1>1, <2>10 DEF Dropped
    <3>4. ASSUME NEW q \in Keys, q # k PROVE Dropped(q)'
      <4>1. Dropped(q)
        BY <3>4 DEF StageInv, Known
      <4> QED
        BY Zenon, <1>1, <2>3, <2>7, <2>11, <3>4, <4>1 DEF Dropped
    <3> QED
      BY Zenon, <3>1, <3>2, <3>3, <3>4 DEF Known
  <2> QED
    BY Zenon, <2>5, <2>6, <2>12, <2>13, <2>15, <2>16 DEF StageInv
<1> QED
  BY Zenon, <1>3, <1>4

\* policy.Add: the victims are other keys of the policy; a key that is rejected is not in the policy.
LEMMA AdmissionFact ==
    ASSUME NEW k \in Keys, NEW a \in Admissions(k), \A q \in policy : ~(Cost[q] > MaxCost)
    PROVE  /\ a.victims \subseteq policy /\ k \notin a.victims
           /\ ~a.added => k \notin policy
           /\ a.added => ~(Cost[k] > MaxCost)
<1>1. CASE Cost[k] > MaxCost
  <2>1. a = [victims |-> {}, added |-> FALSE]
    BY Zenon, <1>1 DEF Admissions
  <2>2. a.victims = {} /\ a.added = FALSE
    BY <2>1
  <2> QED
    BY Zenon, <1>1, <2>2
<1>2. CASE ~(Cost[k] > MaxCost) /\ (k \in policy \/ CostOf(policy) + Cost[k] <= MaxCost)
  <2>1. a = [victims |-> {}, added |-> TRUE]
    BY Zenon, <1>2 DEF Admissions
  <2>2. a.victims = {} /\ a.added = TRUE
    BY <2>1
  <2> QED
    BY Zenon, <1>2, <2>2
<1>3. CASE ~(Cost[k] > MaxCost) /\ ~(k \in policy \/ CostOf(policy) + Cost[k] <= MaxCost)
  <2>1. PICK v \in SUBSET policy : a = [victims |-> v, added |-> CostOf(policy \ v) + Cost[k] <= MaxCost]
    BY Zenon, <1>3 DEF Admissions
  <2>2. a.victims = v
    BY Zenon, <2>1
  <2> QED
    BY Zenon, <1>3, <2>1, <2>2
<1> QED
  BY Zenon, <1>1, <1>2, <1>3

LEMMA TakeEventStage ==
    ASSUME BufferInv, StageInv, TakeEvent
    PROVE  StageInv'
<1> USE DEF BufferInv
<1>0. PICK h : h = Head(setBuf)
  OBVIOUS
<1>1. /\ UNCHANGED <<store, items, reader, deleter>> /\ processor.pc = "idle"
      /\ setBuf # <<>> /\ setBuf' = Tail(setBuf)
  BY DEF TakeEvent
<1>2. /\ h \in Events /\ Sent(h.del, h.key)
      /\ \A b \in BOOLEAN, q \in Keys : Sent(b, q)' => Sent(b, q)
      /\ \A b \in BOOLEAN, q \in Keys : Sent(b, q) => Sent(b, q)' \/ (b = h.del /\ q = h.key)
      /\ \A q \in Keys : ~h.del /\ q = h.key /\ Sent(FALSE, q)' => q \in deleter.gone
      /\ Once'
  <2>1. setBuf \in Seq(Events)
    BY DEF Typed, Events
  <2> QED
    BY Zenon, <1>0, <1>1, <2>1, SentLess DEF StageInv
<1>3. h.key \in Keys /\ h.del \in BOOLEAN
  BY <1>2 DEF Events
<1>4. \A q : ~Leaving(q) /\ ~Waiting(q)
  BY <1>1 DEF Leaving, Rejecting, Waiting, Evicting
<1>5. Owners' /\ Alive'
  <2>1. SameFaces
    BY <1>1, NoItemFaces
  <2> QED
    BY <1>1, <2>1, OwnersSame, AliveSame DEF StageInv
<1>6. \A j : Locked(j)' <=> Locked(j)
  BY <1>1 DEF Locked
<1>7. \A q \in policy : ~(Cost[q] > MaxCost)
  BY DEF StageInv, KeysKnown
\* The policy is left as it is, or without the key of a deletion.
<1>8. ASSUME UNCHANGED <<processor, loose>>, policy' = IF h.del THEN policy \ {h.key} ELSE policy,
             store[h.key] = 0
      PROVE  StageInv'
  <2>1. \A q : ~Leaving(q)' /\ ~Waiting(q)'
    BY <1>1, <1>8 DEF Leaving, Rejecting, Waiting, Evicting
  <2>2. policy' \subseteq policy /\ \A q \in policy : q \in policy' \/ (h.del /\ q = h.key)
    BY <1>8
  <2>3. KeysKnown'
    BY Zenon, <1>1, <1>2, <1>7, <1>8, <2>2 DEF StageInv, KeysKnown
  <2>4. Way'
    <3>1. ASSUME NEW q \in Keys \ deleter'.gone, Entered(q)'
          PROVE  /\ Sent(FALSE, q)' => q \notin policy' /\ ~Leaving(q)'
                 /\ store'[q] # 0 /\ items'[store'[q]].loaded /\ ~Locked(store[q])'
      <4>1. q \in Keys \ deleter.gone /\ Entered(q)
        BY Zenon, <1>1, <1>2, <2>1, <2>2, <3>1 DEF Entered
      <4>2. /\ Sent(FALSE, q) => q \notin policy /\ ~Leaving(q)
            /\ store[q] # 0 /\ items[store[q]].loaded /\ ~Locked(store[q])
        BY Zenon, <4>1 DEF StageInv, Way
      <4> QED
        BY Zenon, <1>1, <1>2, <2>1, <2>2, <4>1, <4>2 DEF Locked
    <3> QED
      BY Zenon, <2>1, <3>1 DEF Way
  <2>5. Known'
    <3>1. ASSUME NEW q \in Keys PROVE Kept(q)'
      <4>1. CASE store[q] = 0
        BY <1>1, <4>1 DEF Kept
      <4>2. CASE store[q] # 0
        <5>1. Kept(q) /\ q # h.key
          BY <1>8, <4>2 DEF StageInv, Known
        <5>2. processor.pc \notin {"reject", "lock"}
          BY <1>1
        <5>3. q \in policy => q \in policy'
          BY <2>2, <5>1
        <5>4. Sent(FALSE, q) => Sent(FALSE, q)'
          BY Zenon, <1>2, <5>1
        <5>5. items'[store'[q]].loaded = items[store[q]].loaded /\ (Locked(store[q])' <=> Locked(store[q]))
          BY <1>1 DEF Locked
        <5> QED
          BY Zenon, <1>1, <1>4, <1>8, <5>1, <5>2, <5>3, <5>4, <5>5, KeptSame
      <4> QED
        BY Zenon, <4>1, <4>2
    <3>2. ASSUME NEW q \in Keys PROVE Dropped(q)'
      <4>1. Dropped(q)
        BY DEF StageInv, Known
      <4>2. Sent(TRUE, q) /\ q \in policy' => Sent(TRUE, q)'
        BY Zenon, <1>2, <1>8
      <4> QED
        BY Zenon, <1>1, <2>2, <4>1, <4>2 DEF Dropped
    <3> QED
      BY Zenon, <3>1, <3>2 DEF Known
  <2> QED
    BY Zenon, <1>2, <1>5, <2>3, <2>4, <2>5 DEF StageInv
\* policy.Add.
<1>9. ASSUME ~h.del, store[h.key] # 0, NEW a \in Admissions(h.key),
             policy' = (policy \ a.victims) \cup (IF a.added THEN {h.key} ELSE {}),
             processor' = IF a.added THEN [pc |-> "victims", left |-> a.victims]
                          ELSE [pc |-> "reject", key |-> h.key, item |-> store[h.key]],
             loose' = IF a.added THEN loose ELSE loose \cup {store[v] : v \in a.victims}
      PROVE  StageInv'
  <2>0. PICK k, v : k = h.key /\ v = a.victims
    OBVIOUS
  <2>1. /\ v \subseteq policy /\ k \notin v
        /\ ~a.added => k \notin policy
        /\ a.added => ~(Cost[k] > MaxCost)
    BY Zenon, <1>3, <1>7, <2>0, AdmissionFact
  <2>2. k \in Keys /\ store[k] # 0 /\ items[store[k]].key = k /\ v \subseteq Keys
    BY <1>3, <1>9, <2>0, <2>1 DEF Links, Typed
  <2>3. a.added => policy' = (policy \ v) \cup {k} /\ processor'.pc = "victims" /\ processor'.left = v
    BY <1>9, <2>0
  <2>4. ~a.added => /\ policy' = policy \ v /\ loose' = loose \cup {store[q] : q \in v}
                    /\ processor'.pc = "reject" /\ processor'.key = k /\ processor'.item = store[k]
    BY <1>9, <2>0
  <2>5. \A q : /\ Leaving(q)' <=> IF a.added THEN q \in v ELSE q = k
               /\ Waiting(q)' <=> a.added /\ q \in v
    <3>1. CASE a.added
      BY <2>3, <3>1 DEF Leaving, Rejecting, Waiting, Evicting
    <3>2. CASE ~a.added
      BY <2>4, <3>2 DEF Leaving, Rejecting, Waiting, Evicting
    <3> QED
      BY Zenon, <3>1, <3>2
  <2>6. \A q : q \in policy' <=> (q \in policy /\ q \notin v) \/ (a.added /\ q = k)
    <3>1. CASE a.added
      BY <2>3, <3>1
    <3>2. CASE ~a.added
      BY <2>4, <3>2
    <3> QED
      BY Zenon, <3>1, <3>2
  <2>7. Sent(FALSE, k)
    <3>1. h.del = FALSE
      BY <1>3, <1>9
    <3> QED
      BY Zenon, <1>2, <2>0, <3>1
  <2>8. KeysKnown'
    <3>1. \A q \in Keys : Sent(TRUE, q)' => q \in deleter'.gone /\ store'[q] = 0
      BY Zenon, <1>1, <1>2 DEF StageInv, KeysKnown
    <3>2. processor'.pc = "reject" => items'[processor'.item].key = processor'.key
      BY <1>1, <2>2, <2>3, <2>4
    <3>3. processor'.pc # "lock"
      BY <2>3, <2>4
    <3>4. \A q \in policy' : ~(Cost[q] > MaxCost)
      BY Zenon, <1>7, <2>1, <2>6
    <3>5. deleter'.pc \in {"del", "send"} => items'[deleter'.item].key \in deleter'.gone
      BY <1>1 DEF StageInv, KeysKnown
    <3> QED
      BY Zenon, <3>1, <3>2, <3>3, <3>4, <3>5 DEF KeysKnown
  <2>9. Way'
    <3>1. \A q \in Keys : Leaving(q)' => q \notin policy'
      BY Zenon, <2>1, <2>5, <2>6
    <3>2. ASSUME NEW q \in Keys \ deleter'.gone, Entered(q)'
          PROVE  /\ Sent(FALSE, q)' => q \notin policy' /\ ~Leaving(q)'
                 /\ store'[q] # 0 /\ items'[store'[q]].loaded /\ ~Locked(store[q])'
      <4>1. q \in Keys \ deleter.gone
        BY <1>1
      <4>2. Entered(q)
        BY Zenon, <1>2, <2>1, <2>5, <2>6, <2>7, <3>2 DEF Entered
      <4>3. /\ Sent(FALSE, q) => q \notin policy /\ ~Leaving(q)
            /\ store[q] # 0 /\ items[store[q]].loaded /\ ~Locked(store[q])
        BY Zenon, <4>1, <4>2 DEF StageInv, Way
      <4>4. Sent(FALSE, q)' => q # k /\ Sent(FALSE, q)
        BY Zenon, <1>2, <1>9, <2>0, <4>1
      <4>5. Sent(FALSE, q)' => q \notin policy' /\ ~Leaving(q)'
        BY Zenon, <2>1, <2>5, <2>6, <4>3, <4>4
      <4> QED
        BY Zenon, <1>1, <4>3, <4>5 DEF Locked
    <3> QED
      BY Zenon, <3>1, <3>2 DEF Way
  <2>10. Known'
    <3>1. ASSUME NEW q \in Keys PROVE Kept(q)'
      <4>1. CASE q = k
        <5>1. k \in policy' \/ (processor'.pc = "reject" /\ processor'.item = store'[k])
          BY <1>1, <2>4, <2>6
        <5> QED
          BY Zenon, <4>1, <5>1 DEF Kept
      <4>2. CASE q \in v
        <5>1. Waiting(q)' \/ store'[q] \in loose'
          BY <1>1, <2>4, <2>5, <4>2
        <5> QED
          BY Zenon, <5>1 DEF Kept
      <4>3. CASE q # k /\ q \notin v
        <5>1. Kept(q) /\ processor.pc \notin {"reject", "lock"}
          BY <1>1 DEF StageInv, Known
        <5>2. q \in policy => q \in policy'
          BY Zenon, <2>6, <4>3
        <5>3. Sent(FALSE, q) => Sent(FALSE, q)'
          BY Zenon, <1>2, <2>0, <4>3
        <5>4. items'[store'[q]].loaded = items[store[q]].loaded /\ (Locked(store[q])' <=> Locked(store[q]))
          BY <1>1 DEF Locked
        <5>5. store[q] \in loose => store[q] \in loose'
          BY <1>9
        <5> QED
          BY Zenon, <1>1, <1>4, <5>1, <5>2, <5>3, <5>4, <5>5, KeptSame
      <4> QED
        BY Zenon, <4>1, <4>2, <4>3
    <3>2. ASSUME NEW q \in Keys PROVE Dropped(q)'
      <4>1. Dropped(q)
        BY DEF StageInv, Known
      <4>2. Sent(TRUE, q) => Sent(TRUE, q)'
        BY Zenon, <1>2, <1>9
      <4>3. q \in policy' => q \in policy \/ store[q] # 0
        BY Zenon, <2>2, <2>6
      <4> QED
        BY Zenon, <1>1, <4>1, <4>2, <4>3 DEF Dropped
    <3> QED
      BY Zenon, <3>1, <3>2 DEF Known
  <2> QED
    BY Zenon, <1>2, <1>5, <2>8, <2>9, <2>10 DEF StageInv
<1>10. CASE h.del
  <2>1. policy' = policy \ {h.key} /\ UNCHANGED <<processor, loose>>
    BY <1>0, <1>10 DEF TakeEvent
  <2>2. store[h.key] = 0
    <3>1. h.del = TRUE
      BY <1>3, <1>10
    <3> QED
      BY Zenon, <1>2, <1>3, <3>1 DEF StageInv, KeysKnown
  <2> QED
    BY <1>8, <1>10, <2>1, <2>2
<1>11. CASE ~h.del /\ store[h.key] = 0
  <2>1. UNCHANGED <<policy, processor, loose>>
    BY <1>0, <1>11 DEF TakeEvent
  <2> QED
    BY <1>8, <1>11, <2>1
<1>12. CASE ~h.del /\ store[h.key] # 0
  BY Zenon, <1>0, <1>9, <1>12 DEF TakeEvent
<1> QED
  BY Zenon, <1>10, <1>11, <1>12

-----------------------------------------------------------------------------

LEMMA StageInductive ==
    ASSUME Free \notin Readers, "deleter" \notin Readers
    PROVE  BufferInv /\ StageInv /\ [Next]_vars => StageInv'
<1> SUFFICES ASSUME BufferInv, StageInv, [Next]_vars PROVE StageInv'
  OBVIOUS
<1>1. CASE UNCHANGED vars
  <2>1. UNCHANGED <<store, items, setBuf, policy, processor, reader, deleter, loose>> /\ SameFaces
    BY <1>1, NoItemFaces DEF vars
  <2>2. deleter'.pc \in {"del", "send"} =>
            deleter'.item \in 1..Len(items) /\ items[deleter'.item].key \in deleter'.gone
    BY <2>1 DEF BufferInv, StageInv, Links, KeysKnown
  <2> QED
    BY <2>1, <2>2, QuietStep
<1>2. ASSUME NEW r \in Readers,
             \/ \E k \in Keys : ReadBegin(r, k)
             \/ Lookup(r) \/ Compute(r) \/ ComputeFails(r) \/ Send(r) \/ Add(r) \/ ReadEnd(r)
      PROVE  StageInv'
  BY Zenon, <1>2, ReadBeginStage, LookupStage, ComputeStage, ComputeFailsStage, SendStage, AddStage, ReadEndStage
<1>3. CASE TakeEvent \/ Reject \/ Victim \/ EvictLocked \/ OnEvict
  BY Zenon, <1>3, TakeEventStage, RejectStage, VictimStage, EvictLockedStage, OnEvictStage
<1>4. CASE \E k \in Keys : DeleteBegin(k)
  BY Zenon, <1>4, DeleteBeginStage
<1>5. CASE DeleteGet \/ DeleteFind \/ DeleteLocked \/ DeleteSend
  BY Zenon, <1>5, DeleteGetStage, DeleteFindStage, DeleteLockedStage, DeleteSendStage
<1> QED
  BY Zenon, <1>1, <1>2, <1>3, <1>4, <1>5 DEF Next

LEMMA KnownItem == BufferInv /\ Known => NoDanglingItem
<1> SUFFICES ASSUME BufferInv, Known PROVE NoDanglingItem
  OBVIOUS
<1>1. DOMAIN setBuf = 1..Len(setBuf)
  BY DEF BufferInv, Typed
<1>2. \A k \in Keys, del \in BOOLEAN :
          Sent(del, k) <=> \E e \in DOMAIN setBuf : setBuf[e] = [del |-> del, key |-> k]
  BY Zenon, <1>1 DEF Sent
<1>3. ASSUME NEW k \in Keys
      PROVE  store[k] # 0 /\ items[store[k]].loaded /\ k \notin policy =>
                \/ store[k] \in loose
                \/ \E e \in DOMAIN setBuf : setBuf[e] = [del |-> FALSE, key |-> k]
                \/ items[store[k]].lock \in Readers
                \/ processor.pc = "reject" /\ processor.item = store[k]
                \/ processor.pc = "lock" /\ processor.item = store[k]
                \/ processor.pc \in {"victims", "lock", "evict"} /\ k \in processor.left
  BY Zenon, <1>2 DEF Known, Kept, Locked, Waiting
<1>4. ASSUME NEW k \in Keys
      PROVE  k \in policy /\ store[k] = 0 =>
                \/ \E e \in DOMAIN setBuf : setBuf[e] = [del |-> TRUE, key |-> k]
                \/ deleter.pc = "send" /\ items[deleter.item].key = k
  BY Zenon, <1>2 DEF Known, Dropped
<1> QED
  BY Zenon, <1>3, <1>4 DEF NoDanglingItem

\* The item that processItems waits for is the store's, and its event was taken.
LEMMA StageUnlocked == BufferInv /\ StageInv => NoReaderDeadlock
<1> SUFFICES ASSUME BufferInv, StageInv, processor.pc = "lock", items[processor.item].lock \in Readers
             PROVE  FALSE
  BY DEF NoReaderDeadlock
<1>0. PICK i, k : i = processor.item /\ k = items[i].key
  OBVIOUS
<1>1. i \in 1..Len(items) /\ Locked(i) /\ Evicting(k)
  BY <1>0 DEF BufferInv, Links, Locked, Evicting
<1>2. ~items[i].dead /\ reader[items[i].lock].pc = "send" /\ reader[items[i].lock].item = i
  BY Zenon, <1>1 DEF StageInv, Owners
<1>3. k \notin deleter.gone
  BY <1>0, <1>1, <1>2 DEF BufferInv, Links, HasItem, Locked
<1>4. ~Entered(k)
  BY Zenon, <1>0, <1>1, <1>2, <1>3, NotEntered
<1> QED
  BY Zenon, <1>1, <1>4 DEF Entered, Leaving
=============================================================================
