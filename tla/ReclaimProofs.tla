--------------------------- MODULE ReclaimProofs ----------------------------
(***************************************************************************)
(* What the store may give up. Of resources, for any number of guards: no  *)
(* guard is lost from the list and nothing is freed while a guard's owner  *)
(* may use it (Epoch). Of versions: the safe timestamp is at or below      *)
(* those of the readers (Epoch), and what CompactTables keeps of a key at  *)
(* a safe timestamp is enough for every reader at or above it              *)
(* (KeyVersions), for any data and any tables below.                       *)
(***************************************************************************)
EXTENDS Epoch, KeyVersions, WellFoundedInduction, TLAPS

Listed(g) == \E i \in 1..Len(list) : list[i] = g

InTodo(g) == \E i \in 1..Len(todo) : todo[i] = g

(* The list and what iterate has still to visit: every guard is in either   *)
(* at most once, and what iterate visits is still in the list.              *)
ListInv ==
    /\ \A i \in 1..Len(list) : phase[list[i]] \in {"active", "inactive"}
    /\ \A i, j \in 1..Len(list) : list[i] = list[j] => i = j
    /\ \A i, j \in 1..Len(todo) : todo[i] = todo[j] => i = j
    /\ \A g \in Guards : InTodo(g) => Listed(g)

-----------------------------------------------------------------------------
(* The list. *)

\* Taking a listed guard out keeps the others, each once.
LEMMA OthersFact ==
    ASSUME list \in Seq(Guards), NEW g \in Guards, Listed(g),
           \A i, j \in 1..Len(list) : list[i] = list[j] => i = j
    PROVE  /\ Others(g) \in Seq(Guards)
           /\ \A h \in Guards : (\E i \in 1..Len(Others(g)) : Others(g)[i] = h)
                                    <=> Listed(h) /\ h # g
           /\ \A i, j \in 1..Len(Others(g)) : Others(g)[i] = Others(g)[j] => i = j
<1> DEFINE at == CHOOSE i \in 1..Len(list) : list[i] = g
           s == [i \in 1..(Len(list) - 1) |-> IF i < at THEN list[i] ELSE list[i + 1]]
<1>1. at \in 1..Len(list) /\ list[at] = g
  BY DEF Listed
<1>2. Others(g) = s
  BY DEF Others
<1> HIDE DEF at
<1>3. s \in Seq(Guards) /\ Len(s) = Len(list) - 1
  BY <1>1
<1>4. \A i \in 1..Len(s) : s[i] = IF i < at THEN list[i] ELSE list[i + 1]
  BY <1>1, <1>3
<1> HIDE DEF s
<1>5. ASSUME NEW h \in Guards, Listed(h), h # g
      PROVE  \E i \in 1..Len(s) : s[i] = h
  <2>1. PICK k \in 1..Len(list) : list[k] = h
    BY <1>5 DEF Listed
  <2>2. CASE k < at
    BY <1>1, <1>3, <1>4, <2>1, <2>2
  <2>3. CASE ~(k < at)
    <3>1. k # at /\ k - 1 \in 1..Len(s)
      BY <1>1, <1>3, <1>5, <2>1, <2>3
    <3>2. s[k - 1] = h
      BY <1>1, <1>4, <2>1, <2>3, <3>1
    <3> QED
      BY <3>1, <3>2
  <2> QED
    BY <2>2, <2>3
<1>6. ASSUME NEW h \in Guards, NEW i \in 1..Len(s), s[i] = h
      PROVE  Listed(h) /\ h # g
  BY <1>1, <1>3, <1>4, <1>6 DEF Listed
<1>7. ASSUME NEW i \in 1..Len(s), NEW j \in 1..Len(s), s[i] = s[j] PROVE i = j
  BY <1>1, <1>3, <1>4, <1>7
<1> QED
  BY <1>2, <1>3, <1>5, <1>6, <1>7

-----------------------------------------------------------------------------
(* Types and the list. *)

Typed == TypeOK /\ ListInv

LEMMA InitTyped == Init => Typed
<1> SUFFICES ASSUME Init PROVE Typed
  OBVIOUS
<1>1. list = <<>> /\ todo = <<>>
  BY DEF Init
<1>2. list \in Seq(Guards) /\ todo \in Seq(Guards) /\ Len(list) = 0 /\ Len(todo) = 0
  BY <1>1
<1>3. TypeOK
  <2>1. /\ curRead \in InitRead..MaxRead
        /\ minActive \in Ts /\ maxInactive \in Ts /\ safeTs \in Ts
    BY EpochAssumption DEF Init, Ts
  <2>2. /\ age \in [Guards -> 0..2] /\ delAge \in [Resources -> 0..2]
        /\ payload \in [Guards -> Ts \cup {Nil}]
    BY DEF Init
  <2> QED
    BY Zenon, <1>2, <2>1, <2>2 DEF Init, TypeOK
<1>4. ListInv
  BY <1>2 DEF ListInv, InTodo, Listed
<1> QED
  BY <1>3, <1>4 DEF Typed

LEMMA NextTyped == Typed /\ [Next]_vars => Typed'
<1> SUFFICES ASSUME Typed, [Next]_vars PROVE Typed'
  OBVIOUS
<1> USE EpochAssumption
<1>t. TypeOK /\ ListInv
  BY DEF Typed
<1>1. ASSUME NEW g \in Guards, LoadReadTs(g) PROVE Typed'
  <2>1. TypeOK'
    BY <1>t, <1>1 DEF LoadReadTs, TypeOK, Ts, resVars, collectVars, safeVars
  <2>2. ListInv'
    BY <1>t, <1>1 DEF LoadReadTs, TypeOK, ListInv, Listed, InTodo, collectVars
  <2> QED
    BY <2>1, <2>2 DEF Typed
<1>2. ASSUME NEW g \in Guards, LoadEpoch(g) PROVE Typed'
  <2>1. TypeOK'
    BY <1>t, <1>2 DEF LoadEpoch, TypeOK, Ts, resVars, collectVars, safeVars
  <2>2. ListInv'
    BY <1>t, <1>2 DEF LoadEpoch, TypeOK, ListInv, Listed, InTodo, collectVars
  <2> QED
    BY <2>1, <2>2 DEF Typed
<1>3. ASSUME NEW g \in Guards, Add(g) PROVE Typed'
  <2>1. list \in Seq(Guards) /\ list' = <<g>> \o list
    BY <1>t, <1>3 DEF Add, TypeOK
  <2>2. /\ list' \in Seq(Guards) /\ Len(list') = Len(list) + 1
        /\ list'[1] = g /\ \A i \in 2..Len(list') : list'[i] = list[i - 1]
    BY <2>1
  <2>3. \A i \in 1..Len(list) : list'[i + 1] = list[i]
    BY <2>1, <2>2
  <2>4. TypeOK'
    BY <1>t, <1>3, <2>2 DEF Add, TypeOK, Ts, resVars, collectVars, safeVars
  <2>5. /\ phase[g] = "loaded" /\ phase' = [phase EXCEPT ![g] = "active"]
        /\ todo' = todo
    BY <1>3 DEF Add, collectVars
  <2>6. \A i \in 1..Len(list) : list[i] # g /\ list[i] \in Guards
    <3>1. \A i \in 1..Len(list) : list[i] \in Guards
      BY <2>1
    <3>2. \A i \in 1..Len(list) : phase[list[i]] # "loaded"
      BY <1>t DEF ListInv
    <3> QED
      BY <2>5, <3>1, <3>2
  <2>7. \A i \in 1..Len(list') : phase'[list'[i]] \in {"active", "inactive"}
    <3> TAKE i \in 1..Len(list')
    <3>1. CASE i = 1
      BY <1>t, <2>2, <2>5, <3>1 DEF TypeOK
    <3>2. CASE i # 1
      <4>1. i - 1 \in 1..Len(list) /\ list'[i] = list[i - 1]
        BY <2>1, <2>2, <3>2
      <4> QED
        BY <1>t, <2>5, <2>6, <4>1 DEF TypeOK, ListInv
    <3> QED
      BY <3>1, <3>2
  <2>8. \A i, j \in 1..Len(list') : list'[i] = list'[j] => i = j
    <3> SUFFICES ASSUME NEW i \in 1..Len(list'), NEW j \in 1..Len(list'), list'[i] = list'[j]
                 PROVE  i = j
      OBVIOUS
    <3>1. \A k \in 1..Len(list') : k # 1 => k - 1 \in 1..Len(list) /\ list'[k] = list[k - 1]
      BY <2>1, <2>2
    <3>2. CASE i = 1 \/ j = 1
      BY <2>2, <2>6, <3>1, <3>2
    <3>3. CASE i # 1 /\ j # 1
      <4>1. /\ i - 1 \in 1..Len(list) /\ j - 1 \in 1..Len(list)
            /\ list[i - 1] = list[j - 1]
        BY <3>1, <3>3
      <4>2. i - 1 = j - 1
        BY <1>t, <4>1 DEF ListInv
      <4> QED
        BY <2>2, <4>2
    <3> QED
      BY <3>2, <3>3
  <2>9. \A h \in Guards : InTodo(h)' => Listed(h)'
    <3> SUFFICES ASSUME NEW h \in Guards, InTodo(h) PROVE Listed(h)'
      BY <2>5 DEF InTodo
    <3>1. PICK i \in 1..Len(list) : list[i] = h
      BY <1>t DEF ListInv, Listed
    <3>2. i + 1 \in 1..Len(list') /\ list'[i + 1] = h
      BY <2>1, <2>2, <2>3, <3>1
    <3> QED
      BY <3>2 DEF Listed
  <2>10. ListInv'
    BY <1>t, <2>5, <2>7, <2>8, <2>9 DEF ListInv
  <2> QED
    BY <2>4, <2>10 DEF Typed
<1>4. ASSUME NEW g \in Guards, NEW r \in Resources, Use(g, r) \/ Unlink(g, r) \/ Delete(g, r)
      PROVE  Typed'
  <2>1. TypeOK'
    <3>1. CASE Use(g, r)
      BY <1>t, <3>1 DEF Use, TypeOK, resVars, collectVars, safeVars
    <3>2. CASE Unlink(g, r)
      BY <1>t, <3>2 DEF Unlink, TypeOK, guardVars, collectVars, safeVars
    <3>3. CASE Delete(g, r)
      BY <1>t, <3>3 DEF Delete, TypeOK, guardVars, collectVars, safeVars
    <3> QED
      BY <1>4, <3>1, <3>2, <3>3
  <2>2. UNCHANGED <<phase, list, todo>>
    BY <1>4 DEF Use, Unlink, Delete, guardVars, collectVars
  <2>3. ListInv'
    BY <1>t, <2>2 DEF ListInv, Listed, InTodo
  <2> QED
    BY <2>1, <2>3 DEF Typed
<1>5. ASSUME NEW g \in Guards, Done(g) PROVE Typed'
  <2>1. TypeOK'
    BY <1>t, <1>5 DEF Done, TypeOK, Ts, resVars, collectVars, safeVars
  <2>2. ListInv'
    BY <1>t, <1>5 DEF Done, TypeOK, ListInv, Listed, InTodo, collectVars
  <2> QED
    BY <2>1, <2>2 DEF Typed
<1>6. ASSUME AdvanceRead PROVE Typed'
  <2>1. TypeOK'
    BY <1>t, <1>6 DEF AdvanceRead, TypeOK, Ts, guardVars, resVars, collectVars, safeVars
  <2>2. ListInv'
    BY <1>t, <1>6 DEF AdvanceRead, ListInv, Listed, InTodo, guardVars, collectVars
  <2> QED
    BY <2>1, <2>2 DEF Typed
<1>7. ASSUME BeginCollect PROVE Typed'
  <2>1. TypeOK'
    BY <1>t, <1>7 DEF BeginCollect, TypeOK, Ts, guardVars, resVars
  <2>2. ListInv'
    BY <1>t, <1>7 DEF BeginCollect, ListInv, Listed, InTodo, guardVars
  <2> QED
    BY <2>1, <2>2 DEF Typed
<1>8. ASSUME Visit PROVE Typed'
  <2> DEFINE g == Head(todo)
  <2>1. /\ todo \in Seq(Guards) /\ todo # <<>> /\ todo' = Tail(todo)
        /\ list \in Seq(Guards)
    BY <1>t, <1>8 DEF Visit, TypeOK
  <2>2. /\ g \in Guards /\ g = todo[1] /\ todo' \in Seq(Guards)
        /\ Len(todo) \in Nat /\ Len(todo') = Len(todo) - 1
        /\ \A i \in 1..Len(todo') : todo'[i] = todo[i + 1]
    BY <2>1
  <2>3. InTodo(g)
    BY <2>1, <2>2 DEF InTodo
  <2>4. Listed(g)
    BY <1>t, <2>2, <2>3 DEF ListInv
  <2>5. list' = list \/ (phase[g] # "active" /\ list' = Others(g))
    BY <1>8 DEF Visit, Unlinked
  <2>6. /\ list' \in Seq(Guards)
        /\ \A h \in Guards : Listed(h)' => Listed(h)
        /\ \A h \in Guards : Listed(h) /\ h # g => Listed(h)'
        /\ \A i, j \in 1..Len(list') : list'[i] = list'[j] => i = j
    <3>1. CASE list' = list
      BY <1>t, <2>1, <3>1 DEF ListInv, Listed
    <3>2. CASE list' = Others(g)
      <4> HIDE DEF g
      <4>1. \A i, j \in 1..Len(list) : list[i] = list[j] => i = j
        BY <1>t DEF ListInv
      <4>2. /\ Others(g) \in Seq(Guards)
            /\ \A h \in Guards : (\E i \in 1..Len(Others(g)) : Others(g)[i] = h)
                                    <=> Listed(h) /\ h # g
            /\ \A i, j \in 1..Len(Others(g)) : Others(g)[i] = Others(g)[j] => i = j
        BY <2>1, <2>2, <2>4, <4>1, OthersFact
      <4>3. \A h \in Guards : Listed(h)' <=> \E i \in 1..Len(Others(g)) : Others(g)[i] = h
        BY <3>2 DEF Listed
      <4> QED
        BY <3>2, <4>2, <4>3
    <3> QED
      BY <2>5, <3>1, <3>2
  <2>7. \A h \in Guards : InTodo(h)' => InTodo(h) /\ h # g
    <3> SUFFICES ASSUME NEW h \in Guards, NEW i \in 1..Len(todo'), todo'[i] = h
                 PROVE  InTodo(h) /\ h # g
      BY DEF InTodo
    <3>1. i + 1 \in 1..Len(todo) /\ 1 \in 1..Len(todo) /\ todo[i + 1] = h /\ i + 1 # 1
      BY <2>2
    <3>2. h # todo[1]
      BY <1>t, <3>1 DEF ListInv
    <3> QED
      BY <2>2, <3>1, <3>2 DEF InTodo
  <2>8. TypeOK'
    <3> HIDE DEF g
    <3>1. /\ minActive' \in Ts /\ maxInactive' \in Ts /\ safeTs' \in Ts
      <4>1. Inspect(g, phase[g] = "active")
        BY <1>8 DEF Visit, g
      <4> QED
        BY <1>t, <2>2, <4>1 DEF Inspect, TypeOK, Ts
    <3>2. state' \in [Resources -> {"linked", "unlinked", "deleted", "freed"}]
      BY <1>t, <1>8 DEF Visit, TypeOK
    <3>3. canAdvance' \in BOOLEAN
      BY <1>t, <1>8, Zenon DEF Visit, TypeOK
    <3>4. UNCHANGED <<curRead, guardVars, delBy, delAge, scanning, exposed>> /\ atHead' = FALSE
      BY <1>8 DEF Visit
    <3> QED
      BY Zenon, <1>t, <2>2, <2>6, <3>1, <3>2, <3>3, <3>4 DEF TypeOK, guardVars
  <2>9. ListInv'
    <3> HIDE DEF g
    <3>1. phase' = phase
      BY <1>8 DEF Visit, guardVars
    <3>2. \A i \in 1..Len(list') : phase'[list'[i]] \in {"active", "inactive"}
      <4> TAKE i \in 1..Len(list')
      <4>1. list'[i] \in Guards
        BY <2>6
      <4>2. Listed(list'[i])
        <5>1. PICK h \in Guards : h = list'[i]
          BY <4>1
        <5>2. Listed(h)'
          BY <5>1 DEF Listed
        <5> QED
          BY <2>6, <5>1, <5>2
      <4> QED
        BY <1>t, <3>1, <4>2 DEF ListInv, Listed
    <3>3. \A i, j \in 1..Len(todo') : todo'[i] = todo'[j] => i = j
      <4> SUFFICES ASSUME NEW i \in 1..Len(todo'), NEW j \in 1..Len(todo'), todo'[i] = todo'[j]
                   PROVE  i = j
        OBVIOUS
      <4>1. i + 1 \in 1..Len(todo) /\ j + 1 \in 1..Len(todo) /\ todo[i + 1] = todo[j + 1]
        BY <2>2
      <4>2. i + 1 = j + 1
        BY <1>t, <4>1 DEF ListInv
      <4> QED
        BY <2>2, <4>2
    <3>4. \A h \in Guards : InTodo(h)' => Listed(h)'
      BY <1>t, <2>6, <2>7 DEF ListInv
    <3> QED
      BY <2>6, <3>2, <3>3, <3>4 DEF ListInv
  <2> QED
    BY <2>8, <2>9 DEF Typed
<1>9. ASSUME EndCollect PROVE Typed'
  <2>1. Safe \in Ts
    BY <1>t DEF Safe, Decrement, TypeOK, Ts
  <2>2. age' \in [Guards -> 0..2]
    BY <1>t, <1>9 DEF EndCollect, TypeOK, Older
  <2>3. delAge' \in [Resources -> 0..2]
    BY <1>t, <1>9 DEF EndCollect, TypeOK, Older
  <2>4. TypeOK'
    BY Zenon, <1>t, <1>9, <2>1, <2>2, <2>3 DEF EndCollect, TypeOK
  <2>5. ListInv'
    BY <1>t, <1>9 DEF EndCollect, ListInv, Listed, InTodo
  <2> QED
    BY <2>4, <2>5 DEF Typed
<1>10. ASSUME UNCHANGED vars PROVE Typed'
  BY <1>t, <1>10 DEF vars, guardVars, resVars, collectVars, safeVars, Typed, TypeOK, ListInv,
     Listed, InTodo
<1> QED
  BY <1>1, <1>2, <1>3, <1>4, <1>5, <1>6, <1>7, <1>8, <1>9, <1>10 DEF Next, Acquire, Collect

-----------------------------------------------------------------------------
(* Reclamation. *)

\* A resource some guard's owner may dereference, and which has been deleted.
Doomed(g, r) == r \in held[g] /\ state[r] = "deleted"

(* Why two epochs are enough: currentEpoch moves on at most once between    *)
(* the deletion of a resource and the end of a guard that still holds it.   *)
(* After the first time the guard lags behind, and every later collection   *)
(* comes across it, as it is in the list.                                   *)
PinInv ==
    /\ \A g \in Guards : held[g] # {} => phase[g] = "active"
    /\ \A g \in Guards : \A r \in held[g] : state[r] # "freed"
    /\ \A g \in Guards, r \in Resources : Doomed(g, r) =>
           /\ delAge[r] <= 1
           /\ delAge[r] <= age[g]
           /\ delAge[r] = 1 /\ scanning => InTodo(g) \/ ~canAdvance

ReclaimInv == Typed /\ NoGuardLost /\ PinInv

LEMMA InitReclaim == Init => ReclaimInv
<1> SUFFICES ASSUME Init PROVE ReclaimInv
  OBVIOUS
<1>1. NoGuardLost
  BY DEF Init, NoGuardLost
<1>2. PinInv
  BY DEF Init, PinInv, Doomed
<1> QED
  BY <1>1, <1>2, InitTyped DEF ReclaimInv

\* A guard that is active or has deletions to free stays in the list.
LEMMA NextNoGuardLost ==
    ASSUME Typed, NoGuardLost, [Next]_vars PROVE NoGuardLost'
<1> DEFINE Needed(g) == phase[g] = "active" \/ \E r \in Resources : state[r] = "deleted" /\ delBy[r] = g
<1>t. TypeOK /\ ListInv
  BY DEF Typed
<1>d. /\ \A g \in Guards : Needed(g) => Listed(g)
      /\ (\A g \in Guards : Needed(g)' => Listed(g)') => NoGuardLost'
  BY DEF NoGuardLost, Listed
<1> SUFFICES ASSUME NEW h \in Guards, Needed(h)' PROVE Listed(h)'
  BY <1>d
<1>1. ASSUME NEW g \in Guards, LoadReadTs(g) \/ LoadEpoch(g) PROVE Listed(h)'
  <2>1. list' = list /\ state' = state /\ delBy' = delBy
        /\ (phase'[h] = "active" => phase[h] = "active")
    BY <1>t, <1>1 DEF LoadReadTs, LoadEpoch, resVars, TypeOK
  <2> QED
    BY <1>d, <2>1 DEF Listed
<1>2. ASSUME NEW g \in Guards, Add(g) PROVE Listed(h)'
  <2>1. /\ list \in Seq(Guards) /\ list' = <<g>> \o list /\ state' = state /\ delBy' = delBy
        /\ (h # g /\ phase'[h] = "active" => phase[h] = "active")
    BY <1>t, <1>2 DEF Add, resVars, TypeOK
  <2>2. /\ Len(list') = Len(list) + 1 /\ Len(list) \in Nat /\ list'[1] = g
        /\ \A i \in 1..Len(list) : list'[i + 1] = list[i]
    BY <2>1
  <2>3. CASE h = g
    BY <2>2, <2>3 DEF Listed
  <2>4. CASE h # g
    <3>1. Listed(h)
      BY <1>d, <2>1, <2>4
    <3>2. PICK i \in 1..Len(list) : list[i] = h
      BY <3>1 DEF Listed
    <3>3. i + 1 \in 1..Len(list') /\ list'[i + 1] = h
      BY <2>2, <3>2
    <3> QED
      BY <3>3 DEF Listed
  <2> QED
    BY <2>3, <2>4
<1>3. ASSUME NEW g \in Guards, NEW r \in Resources, Use(g, r) \/ Unlink(g, r) \/ Delete(g, r)
      PROVE  Listed(h)'
  <2>1. list' = list /\ phase' = phase
    BY <1>3 DEF Use, Unlink, Delete, guardVars
  <2>2. Needed(h)
    <3>1. CASE Use(g, r)
      BY <3>1 DEF Use, resVars
    <3>2. CASE Unlink(g, r)
      BY <1>t, <3>2 DEF Unlink, guardVars, TypeOK
    <3>3. CASE Delete(g, r)
      BY <1>t, <3>3 DEF Delete, guardVars, TypeOK
    <3> QED
      BY <1>3, <3>1, <3>2, <3>3
  <2> QED
    BY <1>d, <2>1, <2>2 DEF Listed
<1>4. ASSUME NEW g \in Guards, Done(g) PROVE Listed(h)'
  <2>1. list' = list /\ state' = state /\ delBy' = delBy
        /\ (phase'[h] = "active" => phase[h] = "active")
    BY <1>t, <1>4 DEF Done, resVars, TypeOK
  <2> QED
    BY <1>d, <2>1 DEF Listed
<1>5. ASSUME AdvanceRead \/ BeginCollect \/ EndCollect \/ UNCHANGED vars PROVE Listed(h)'
  <2>1. UNCHANGED <<list, state, delBy, phase>>
    BY <1>5 DEF AdvanceRead, BeginCollect, EndCollect, vars, guardVars, resVars
  <2> QED
    BY <1>d, <2>1 DEF Listed
<1>6. ASSUME Visit PROVE Listed(h)'
  <2>1. PICK g \in Guards : g = Head(todo) /\ g = todo[1] /\ Len(todo) \in Nat /\ Len(todo) >= 1
    BY <1>t, <1>6 DEF Visit, TypeOK
  <2>2. Listed(g)
    BY <1>t, <2>1 DEF ListInv, InTodo
  <2>3. UNCHANGED <<phase, delBy>>
    BY <1>6 DEF Visit, guardVars
  <2>4. \A r \in Resources : state'[r] = "deleted" => state[r] = "deleted"
    BY <1>t, <1>6 DEF Visit, TypeOK
  <2>5. Needed(h)
    BY <2>3, <2>4
  <2>6. CASE list' = list
    BY <1>d, <2>5, <2>6 DEF Listed
  <2>7. CASE list' # list
    <3>1. /\ phase[g] # "active" /\ list' = Others(g) /\ Deletions(g) = Expired(g)
          /\ state' = [r \in Resources |-> IF r \in Expired(g) THEN "freed" ELSE state[r]]
      BY <1>6, <2>1, <2>7 DEF Visit, Unlinked
    <3>2. h # g
      <4> SUFFICES ASSUME h = g PROVE FALSE
        OBVIOUS
      <4>1. PICK r \in Resources : state'[r] = "deleted" /\ delBy[r] = g
        BY <2>3, <3>1
      <4>2. r \in Expired(g)
        BY <2>4, <3>1, <4>1 DEF Deletions
      <4> QED
        BY <3>1, <4>1, <4>2
    <3>3. \E i \in 1..Len(Others(g)) : Others(g)[i] = h
      BY <1>t, <1>d, <2>2, <2>5, <3>2, OthersFact DEF TypeOK, ListInv
    <3> QED
      BY <3>1, <3>3 DEF Listed
  <2> QED
    BY <2>6, <2>7
<1> QED
  BY <1>1, <1>2, <1>3, <1>4, <1>5, <1>6 DEF Next, Acquire, Collect

LEMMA NextPin ==
    ASSUME Typed, NoGuardLost, PinInv, [Next]_vars PROVE PinInv'
<1> USE EpochAssumption
<1>t. TypeOK /\ ListInv
  BY DEF Typed
<1>1. ASSUME NEW g \in Guards, LoadReadTs(g) PROVE PinInv'
  BY <1>t, <1>1 DEF PinInv, Doomed, InTodo, LoadReadTs, resVars, collectVars, TypeOK
<1>2. ASSUME NEW g \in Guards, LoadEpoch(g) PROVE PinInv'
  BY <1>t, <1>2 DEF PinInv, Doomed, InTodo, LoadEpoch, resVars, collectVars, TypeOK
<1>3. ASSUME NEW g \in Guards, Add(g) PROVE PinInv'
  BY <1>t, <1>3 DEF PinInv, Doomed, InTodo, Add, resVars, collectVars, TypeOK
<1>4. ASSUME NEW g \in Guards, NEW r \in Resources, Use(g, r) PROVE PinInv'
  BY <1>t, <1>4 DEF PinInv, Doomed, InTodo, Use, resVars, collectVars, TypeOK
<1>5. ASSUME NEW g \in Guards, NEW r \in Resources, Unlink(g, r) PROVE PinInv'
  BY <1>t, <1>5 DEF PinInv, Doomed, InTodo, Unlink, guardVars, collectVars, TypeOK
<1>6. ASSUME NEW g \in Guards, NEW r \in Resources, Delete(g, r) PROVE PinInv'
  <2>1. /\ UNCHANGED <<phase, age, held, scanning, todo, canAdvance>>
        /\ state' = [state EXCEPT ![r] = "deleted"] /\ delAge' = [delAge EXCEPT ![r] = 0]
    BY <1>6 DEF Delete, guardVars, collectVars
  <2>2. \A h \in Guards : age[h] \in 0..2 /\ held[h] \subseteq Resources
    BY <1>t DEF TypeOK
  <2>3. \A h \in Guards : \A q \in held[h] : state'[q] # "freed"
    BY <1>t, <2>1, <2>2 DEF PinInv, TypeOK
  <2>4. ASSUME NEW h \in Guards, NEW q \in Resources, Doomed(h, q)'
        PROVE  (q = r /\ delAge'[q] = 0) \/ (Doomed(h, q) /\ delAge'[q] = delAge[q])
    <3>1. q \in held[h] /\ state'[q] = "deleted"
      BY <2>1, <2>4 DEF Doomed
    <3>2. q = r => delAge'[q] = 0
      BY <1>t, <2>1 DEF TypeOK
    <3>3. q # r => delAge'[q] = delAge[q] /\ state'[q] = state[q]
      BY <1>t, <2>1 DEF TypeOK
    <3>4. CASE q = r
      BY <3>2, <3>4
    <3>5. CASE q # r
      BY <3>1, <3>3, <3>5 DEF Doomed
    <3> QED
      BY <3>4, <3>5
  <2>5. ASSUME NEW h \in Guards, NEW q \in Resources, Doomed(h, q)'
        PROVE  /\ delAge'[q] <= 1 /\ delAge'[q] <= age'[h]
               /\ delAge'[q] = 1 /\ scanning' => InTodo(h)' \/ ~canAdvance'
    <3>1. CASE delAge'[q] = 0
      BY <2>1, <2>2, <3>1
    <3>2. CASE Doomed(h, q) /\ delAge'[q] = delAge[q]
      BY <2>1, <3>2 DEF PinInv, InTodo
    <3> QED
      BY <2>4, <2>5, <3>1, <3>2
  <2>6. \A h \in Guards : held'[h] # {} => phase'[h] = "active"
    BY <2>1 DEF PinInv
  <2> QED
    BY <2>1, <2>3, <2>5, <2>6 DEF PinInv
<1>7. ASSUME NEW g \in Guards, Done(g) PROVE PinInv'
  BY <1>t, <1>7 DEF PinInv, Doomed, InTodo, Done, resVars, collectVars, TypeOK
<1>8. ASSUME BeginCollect PROVE PinInv'
  <2>1. \A g \in Guards : held[g] # {} => Listed(g)
    BY DEF PinInv, NoGuardLost, Listed
  <2>2. \A g \in Guards : held[g] # {} => InTodo(g)'
    BY <1>8, <2>1 DEF BeginCollect, InTodo, Listed
  <2> QED
    BY <1>8, <2>2 DEF PinInv, Doomed, BeginCollect, guardVars, resVars
<1>9. ASSUME Visit PROVE PinInv'
  <2>1. /\ todo \in Seq(Guards) /\ todo # <<>> /\ todo' = Tail(todo)
        /\ UNCHANGED <<phase, age, held, delBy, delAge, scanning>>
    BY <1>t, <1>9 DEF Visit, TypeOK, guardVars
  <2>2. PICK g \in Guards : g = Head(todo) /\ g = todo[1]
    BY <2>1
  <2>3. \A h \in Guards : InTodo(h) /\ h # g => InTodo(h)'
    <3> SUFFICES ASSUME NEW i \in 1..Len(todo), todo[i] # g
                 PROVE  \E j \in 1..Len(todo') : todo'[j] = todo[i]
      BY DEF InTodo
    <3>1. i - 1 \in 1..Len(todo') /\ todo'[i - 1] = todo[i]
      BY <2>1, <2>2
    <3> QED
      BY <3>1
  <2>4. /\ phase[g] = "active" /\ age[g] # 0 => ~canAdvance'
        /\ canAdvance' => canAdvance
    BY <1>t, <1>9, <2>2, Zenon DEF Visit, TypeOK
  <2>5. \A r \in Resources : state'[r] = "deleted" => state[r] = "deleted"
    BY <1>t, <1>9 DEF Visit, TypeOK
  <2>6. \A r \in Resources : state'[r] = "freed" =>
            state[r] = "freed" \/ (state[r] = "deleted" /\ delAge[r] >= 2)
    BY <1>t, <1>9, <2>2 DEF Visit, TypeOK, Expired, Deletions
  <2>7. \A h \in Guards : held[h] \subseteq Resources
    BY <1>t DEF TypeOK
  <2>8. \A h \in Guards : \A r \in held[h] : state'[r] # "freed"
    BY <1>t, <2>6, <2>7 DEF PinInv, Doomed, TypeOK
  <2>9. ASSUME NEW h \in Guards, NEW r \in Resources, Doomed(h, r), delAge[r] = 1, scanning
        PROVE  InTodo(h)' \/ ~canAdvance'
    <3>1. phase[h] = "active" /\ age[h] # 0 /\ (InTodo(h) \/ ~canAdvance)
      BY <1>t, <2>9 DEF PinInv, Doomed, TypeOK
    <3> QED
      BY <2>3, <2>4, <3>1
  <2>10. ASSUME NEW h \in Guards, NEW r \in Resources, Doomed(h, r)' PROVE Doomed(h, r)
    BY <2>1, <2>5, <2>10 DEF Doomed
  <2> QED
    BY <2>1, <2>8, <2>9, <2>10 DEF PinInv
<1>10. ASSUME EndCollect PROVE PinInv'
  <2>1. UNCHANGED <<phase, held, state>> /\ scanning' = FALSE /\ scanning /\ todo = <<>>
    BY <1>10 DEF EndCollect
  <2>2. ASSUME NEW g \in Guards, NEW r \in Resources, Doomed(g, r)
        PROVE  delAge'[r] <= 1 /\ delAge'[r] <= age'[g]
    <3>1. /\ phase[g] = "active" /\ delAge[r] \in 0..1 /\ age[g] \in 0..2 /\ delAge[r] <= age[g]
          /\ (delAge[r] = 1 => InTodo(g) \/ ~canAdvance)
      BY <1>t, <2>1, <2>2 DEF PinInv, Doomed, TypeOK
    <3>2. ~InTodo(g)
      BY <2>1 DEF InTodo
    <3>3. CASE canAdvance
      <4>1. delAge[r] = 0
        BY <3>1, <3>2, <3>3
      <4>2. delAge'[r] = Older(delAge[r]) /\ age'[g] = Older(age[g])
        BY <1>10, <2>2, <3>1, <3>3 DEF EndCollect, Doomed
      <4> QED
        BY <3>1, <4>1, <4>2 DEF Older
    <3>4. CASE ~canAdvance
      BY <1>10, <3>1, <3>4 DEF EndCollect
    <3> QED
      BY <3>3, <3>4
  <2>3. \A g \in Guards, r \in Resources : Doomed(g, r)' => Doomed(g, r)
    BY <2>1 DEF Doomed
  <2> QED
    BY <2>1, <2>2, <2>3 DEF PinInv
<1>11. ASSUME AdvanceRead \/ UNCHANGED vars PROVE PinInv'
  <2>1. UNCHANGED <<phase, age, held, state, delAge, scanning, canAdvance, todo>>
    BY <1>11, Zenon DEF AdvanceRead, vars, guardVars, resVars, collectVars
  <2>2. \A g \in Guards, r \in Resources :
            (Doomed(g, r)' <=> Doomed(g, r)) /\ (InTodo(g)' <=> InTodo(g))
    BY <2>1, Zenon DEF Doomed, InTodo
  <2> QED
    BY <2>1, <2>2, Zenon DEF PinInv
<1> QED
  BY <1>1, <1>2, <1>3, <1>4, <1>5, <1>6, <1>7, <1>8, <1>9, <1>10, <1>11
     DEF Next, Acquire, Collect

(* epoch/: for any number of guards and resources, and however the          *)
(* collector interleaves with guards being acquired and released, iterate   *)
(* never loses a guard that is in use or has something to free, and         *)
(* Guard.collect never frees what the owner of a guard may still use.       *)
THEOREM Reclamation == Spec => [](TypeOK /\ NoGuardLost /\ NoUseAfterFree)
<1>1. Init => ReclaimInv
  BY InitReclaim
<1>2. ReclaimInv /\ [Next]_vars => ReclaimInv'
  BY NextTyped, NextNoGuardLost, NextPin DEF ReclaimInv
<1>3. ReclaimInv => TypeOK /\ NoGuardLost /\ NoUseAfterFree
  BY DEF ReclaimInv, Typed, PinInv, NoUseAfterFree
<1> QED
  BY <1>1, <1>2, <1>3, PTL DEF Spec

-----------------------------------------------------------------------------
(***************************************************************************)
(* The safe timestamp stays below the running transactions, for any number *)
(* of guards and resources.                                                *)
(***************************************************************************)

(* The safe timestamp. *)

\* A transaction that has loaded its readTs, was not exposed and still runs.
Pinned(g) == payload[g] # Nil /\ phase[g] # "inactive" /\ g \notin exposed

(* Timestamps come from curRead, which is never 0 if it starts above 0. A   *)
(* pinned transaction either will be visited by the current collection, or  *)
(* has lowered minActive to its readTs, or loaded its readTs after this     *)
(* collection began: then no other transaction it looks at is younger.      *)
SafeInv ==
    /\ \A g \in Guards : payload[g] # Nil => payload[g] \in 1..curRead
    /\ maxInactive <= curRead
    /\ safeTs <= curRead
    /\ \A g \in Guards : Pinned(g) => safeTs <= payload[g]
    /\ \A g \in Guards : phase[g] = "idle" => payload[g] = Nil
    /\ scanning =>
           /\ minActive = MaxTs \/ minActive \in 1..curRead
           /\ \A g \in Guards : Pinned(g) =>
                 \/ InTodo(g) /\ phase[g] = "active"
                 \/ minActive <= payload[g]
                 \/ /\ minActive = MaxTs
                    /\ maxInactive <= payload[g]
                    /\ \A h \in Guards : InTodo(h) => payload[h] <= payload[g]

LEMMA InitSafe == Init => SafeInv
BY EpochAssumption DEF Init, SafeInv, Pinned

LEMMA NextSafe ==
    ASSUME InitRead # 0, Typed, NoGuardLost, SafeInv, [Next]_vars PROVE SafeInv'
<1> USE EpochAssumption
<1>t. TypeOK /\ ListInv
  BY DEF Typed
<1>n. curRead \in Nat /\ curRead >= 1 /\ curRead < MaxTs /\ \A g \in Guards : payload[g] \in Int
  BY <1>t DEF TypeOK, Ts, Nil
<1>1. ASSUME NEW g \in Guards, LoadReadTs(g) PROVE SafeInv'
  <2>1. /\ phase[g] = "idle" /\ payload[g] = Nil
        /\ payload' = [payload EXCEPT ![g] = curRead]
        /\ phase' = [phase EXCEPT ![g] = "stamped"]
        /\ UNCHANGED <<curRead, scanning, todo, minActive, maxInactive, safeTs, exposed>>
    BY <1>1 DEF LoadReadTs, collectVars, safeVars, SafeInv
  <2>2. \A h \in Guards : h # g => payload'[h] = payload[h] /\ phase'[h] = phase[h]
    BY <1>t, <2>1 DEF TypeOK
  <2>3. payload'[g] = curRead /\ phase'[g] = "stamped"
    BY <1>t, <2>1 DEF TypeOK
  <2>4. \A h \in Guards : h # g => (Pinned(h)' <=> Pinned(h))
    BY <2>1, <2>2 DEF Pinned
  <2>5. \A h \in Guards : ~(InTodo(h) /\ h = g) /\ (InTodo(h)' <=> InTodo(h))
    BY <1>t, <2>1 DEF InTodo, Listed, ListInv
  <2>6. \A h \in Guards : payload[h] <= curRead
    BY <1>n DEF SafeInv, Nil
  <2>7. ASSUME scanning, NEW h \in Guards, Pinned(h)'
        PROVE  \/ InTodo(h)' /\ phase'[h] = "active"
               \/ minActive' <= payload'[h]
               \/ /\ minActive' = MaxTs
                  /\ maxInactive' <= payload'[h]
                  /\ \A k \in Guards : InTodo(k)' => payload'[k] <= payload'[h]
    <3>1. CASE h = g
      <4>1. minActive = MaxTs \/ minActive <= curRead
        BY <1>n, <2>7 DEF SafeInv
      <4> QED
        BY <2>1, <2>2, <2>3, <2>5, <2>6, <3>1, <4>1 DEF SafeInv
    <3>2. CASE h # g
      BY <2>1, <2>2, <2>4, <2>5, <2>7, <3>2 DEF SafeInv
    <3> QED
      BY <3>1, <3>2
  <2> QED
    BY <1>n, <2>1, <2>2, <2>3, <2>4, <2>7 DEF SafeInv
<1>2. ASSUME NEW g \in Guards, LoadEpoch(g) \/ Add(g) PROVE SafeInv'
  <2>1. /\ phase[g] \in {"idle", "stamped", "loaded"} /\ phase'[g] \in {"loaded", "active"}
        /\ \A h \in Guards : h # g => phase'[h] = phase[h]
        /\ UNCHANGED <<curRead, payload, scanning, todo, minActive, maxInactive, safeTs, exposed>>
    BY <1>t, <1>2 DEF LoadEpoch, Add, collectVars, safeVars, TypeOK
  <2>2. \A h \in Guards : Pinned(h)' <=> Pinned(h)
    BY <2>1 DEF Pinned
  <2>3. \A h \in Guards : InTodo(h)' <=> InTodo(h)
    BY <2>1 DEF InTodo
  <2> QED
    BY <2>1, <2>2, <2>3 DEF SafeInv
<1>3. ASSUME NEW g \in Guards, NEW r \in Resources, Use(g, r) \/ Unlink(g, r) \/ Delete(g, r)
      PROVE  SafeInv'
  <2>1. UNCHANGED <<curRead, phase, payload, scanning, todo, minActive, maxInactive, safeTs, exposed>>
    BY <1>3 DEF Use, Unlink, Delete, guardVars, collectVars, safeVars
  <2> QED
    BY <2>1 DEF SafeInv, Pinned, InTodo
<1>4. ASSUME NEW g \in Guards, Done(g) PROVE SafeInv'
  <2>1. /\ phase'[g] = "inactive"
        /\ \A h \in Guards : h # g => phase'[h] = phase[h]
        /\ exposed' = exposed \ {g}
        /\ UNCHANGED <<curRead, payload, scanning, todo, minActive, maxInactive, safeTs>>
    BY <1>t, <1>4 DEF Done, collectVars, safeVars, TypeOK
  <2>2. \A h \in Guards : Pinned(h)' => Pinned(h) /\ h # g
    BY <2>1 DEF Pinned
  <2>3. \A h \in Guards : InTodo(h)' <=> InTodo(h)
    BY <2>1 DEF InTodo
  <2> QED
    BY <2>1, <2>2, <2>3 DEF SafeInv
<1>5. ASSUME AdvanceRead PROVE SafeInv'
  <2>1. /\ curRead' = curRead + 1
        /\ UNCHANGED <<phase, payload, scanning, todo, minActive, maxInactive, safeTs, exposed>>
    BY <1>5 DEF AdvanceRead, guardVars, collectVars, safeVars
  <2>2. maxInactive \in Nat /\ safeTs \in Nat /\ minActive \in Nat
    BY <1>t DEF TypeOK, Ts
  <2>3. \A h \in Guards : (Pinned(h)' <=> Pinned(h)) /\ (InTodo(h)' <=> InTodo(h))
    BY <2>1 DEF Pinned, InTodo
  <2> QED
    BY <1>n, <2>1, <2>2, <2>3 DEF SafeInv
<1>6. ASSUME BeginCollect PROVE SafeInv'
  <2>1. /\ todo' = list /\ minActive' = MaxTs
        /\ exposed' = exposed \cup {g \in Guards : /\ payload[g] # Nil
                                                   /\ phase[g] \in {"stamped", "loaded"}}
        /\ UNCHANGED <<curRead, phase, payload, maxInactive, safeTs>>
    BY <1>6 DEF BeginCollect, guardVars
  <2>2. ASSUME NEW g \in Guards, Pinned(g)' PROVE Pinned(g) /\ phase[g] = "active"
    BY <1>t, <2>1, <2>2 DEF Pinned, SafeInv, TypeOK
  <2>3. ASSUME NEW g \in Guards, Pinned(g)' PROVE InTodo(g)' /\ phase'[g] = "active"
    BY <2>1, <2>2, <2>3 DEF NoGuardLost, InTodo
  <2> QED
    BY <2>1, <2>2, <2>3 DEF SafeInv
<1>7. ASSUME Visit PROVE SafeInv'
  <2>1. /\ todo \in Seq(Guards) /\ todo # <<>> /\ todo' = Tail(todo) /\ scanning
        /\ UNCHANGED <<curRead, phase, payload, exposed, scanning>>
    BY <1>t, <1>7 DEF Visit, TypeOK, guardVars
  <2>2. PICK g \in Guards : g = Head(todo) /\ g = todo[1] /\ InTodo(g)
    BY <2>1 DEF InTodo
  <2>3. \A h \in Guards : (InTodo(h) /\ h # g => InTodo(h)') /\ (InTodo(h)' => InTodo(h))
    <3>1. ASSUME NEW i \in 1..Len(todo), todo[i] # g
          PROVE  \E j \in 1..Len(todo') : todo'[j] = todo[i]
      <4>1. i - 1 \in 1..Len(todo') /\ todo'[i - 1] = todo[i]
        BY <2>1, <2>2, <3>1
      <4> QED
        BY <4>1
    <3>2. ASSUME NEW j \in 1..Len(todo')
          PROVE  \E i \in 1..Len(todo) : todo[i] = todo'[j]
      <4>1. j + 1 \in 1..Len(todo) /\ todo'[j] = todo[j + 1]
        BY <2>1, <2>2
      <4> QED
        BY <4>1
    <3> QED
      BY <3>1, <3>2 DEF InTodo
  <2>4. Inspect(g, phase[g] = "active")
    BY <1>7, <2>2 DEF Visit
  <2>5. minActive \in Nat /\ maxInactive \in Nat /\ safeTs \in Nat
    BY <1>t DEF TypeOK, Ts
  <2>6. CASE phase[g] = "active" /\ payload[g] # Nil
    <3>1. /\ minActive' = (IF payload[g] < minActive THEN payload[g] ELSE minActive)
          /\ maxInactive' = maxInactive /\ safeTs' = safeTs
      BY <2>4, <2>6 DEF Inspect
    <3>2. minActive' <= payload[g] /\ minActive' <= minActive /\ payload[g] \in 1..curRead
      BY <1>n, <2>5, <2>6, <3>1 DEF SafeInv
    <3>3. minActive' = MaxTs \/ minActive' \in 1..curRead
      BY <2>1, <3>1, <3>2 DEF SafeInv
    <3>4. ASSUME NEW h \in Guards, Pinned(h)
          PROVE  (InTodo(h)' /\ phase'[h] = "active") \/ minActive' <= payload'[h]
      <4>1. \/ InTodo(h) /\ phase[h] = "active"
            \/ minActive <= payload[h]
            \/ payload[g] <= payload[h]
        BY <2>1, <2>2, <3>4 DEF SafeInv
      <4>2. CASE InTodo(h) /\ phase[h] = "active" /\ h # g
        BY <2>1, <2>3, <4>2
      <4>3. CASE h = g \/ minActive <= payload[h] \/ payload[g] <= payload[h]
        BY <1>n, <2>1, <2>5, <3>1, <3>2, <4>3
      <4> QED
        BY <4>1, <4>2, <4>3
    <3>5. \A h \in Guards : Pinned(h)' <=> Pinned(h)
      BY <2>1 DEF Pinned
    <3> QED
      BY <2>1, <3>1, <3>3, <3>4, <3>5 DEF SafeInv
  <2>7. CASE ~(phase[g] = "active" /\ payload[g] # Nil)
    <3>1. /\ minActive' = minActive /\ safeTs' = safeTs
          /\ \/ maxInactive' = maxInactive
             \/ payload[g] # Nil /\ maxInactive' = payload[g]
      BY <2>4, <2>7 DEF Inspect
    <3>2. maxInactive' <= curRead
      BY <1>n, <3>1 DEF SafeInv
    <3>3. \A h \in Guards : Pinned(h)' <=> Pinned(h)
      BY <2>1 DEF Pinned
    <3>4. ASSUME NEW h \in Guards, Pinned(h)
          PROVE  \/ InTodo(h)' /\ phase'[h] = "active"
                 \/ minActive' <= payload'[h]
                 \/ /\ minActive' = MaxTs
                    /\ maxInactive' <= payload'[h]
                    /\ \A k \in Guards : InTodo(k)' => payload'[k] <= payload'[h]
      <4>1. \/ InTodo(h) /\ phase[h] = "active"
            \/ minActive <= payload[h]
            \/ /\ minActive = MaxTs
               /\ maxInactive <= payload[h]
               /\ \A k \in Guards : InTodo(k) => payload[k] <= payload[h]
        BY <2>1, <3>4 DEF SafeInv
      <4>2. CASE InTodo(h) /\ phase[h] = "active"
        <5>1. h # g
          BY <2>7, <3>4, <4>2 DEF Pinned
        <5> QED
          BY <2>1, <2>3, <4>2, <5>1
      <4>3. CASE minActive <= payload[h]
        BY <2>1, <3>1, <4>3
      <4>4. CASE /\ minActive = MaxTs
                 /\ maxInactive <= payload[h]
                 /\ \A k \in Guards : InTodo(k) => payload[k] <= payload[h]
        BY <2>1, <2>2, <2>3, <3>1, <4>4
      <4> QED
        BY <4>1, <4>2, <4>3, <4>4
    <3> QED
      BY <2>1, <3>1, <3>2, <3>3, <3>4 DEF SafeInv
  <2> QED
    BY <2>6, <2>7
<1>8. ASSUME EndCollect PROVE SafeInv'
  <2>1. /\ scanning /\ todo = <<>> /\ scanning' = FALSE
        /\ safeTs' = IF Safe > safeTs THEN Safe ELSE safeTs
        /\ UNCHANGED <<curRead, phase, payload, minActive, maxInactive, exposed>>
    BY <1>8 DEF EndCollect
  <2>2. minActive \in Nat /\ maxInactive \in Nat /\ safeTs \in Nat
    BY <1>t DEF TypeOK, Ts
  <2>3. \A g \in Guards : ~InTodo(g)
    BY <2>1 DEF InTodo
  <2>4. Safe = IF minActive = MaxTs THEN maxInactive ELSE minActive - 1
    BY <1>n, <2>1, <2>2 DEF Safe, Decrement, SafeInv
  <2>5. Safe <= curRead
    BY <1>n, <2>1, <2>2, <2>4 DEF SafeInv
  <2>6. ASSUME NEW g \in Guards, Pinned(g) PROVE Safe <= payload[g]
    <3>1. payload[g] \in 1..curRead
      BY <2>6 DEF SafeInv, Pinned
    <3>2. minActive <= payload[g] \/ (minActive = MaxTs /\ maxInactive <= payload[g])
      BY <2>1, <2>3, <2>6 DEF SafeInv
    <3> QED
      BY <1>n, <2>2, <2>4, <3>1, <3>2
  <2>7. \A g \in Guards : Pinned(g)' <=> Pinned(g)
    BY <2>1 DEF Pinned
  <2> QED
    BY <1>n, <2>1, <2>2, <2>5, <2>6, <2>7 DEF SafeInv
<1>9. ASSUME UNCHANGED vars PROVE SafeInv'
  BY <1>9 DEF SafeInv, Pinned, InTodo, vars, guardVars, collectVars, safeVars
<1> QED
  BY <1>1, <1>2, <1>3, <1>4, <1>5, <1>6, <1>7, <1>8, <1>9 DEF Next, Acquire, Collect

(* safeTsTracker: if the database was opened with curRead above 0, safeTs   *)
(* never passes the readTs of a running transaction that was listed, or had *)
(* not yet read curRead, at the start of every collection.                  *)
THEOREM SafeTs ==
    ASSUME InitRead # 0
    PROVE  Spec => []SafeTsBelowReaders
<1> DEFINE Inv == ReclaimInv /\ SafeInv
<1>1. Init => Inv
  BY InitReclaim, InitSafe
<1>2. Inv /\ [Next]_vars => Inv'
  BY NextTyped, NextNoGuardLost, NextPin, NextSafe DEF ReclaimInv
<1>3. Inv => SafeTsBelowReaders
  BY DEF SafeInv, SafeTsBelowReaders, Pinned
<1> QED
  BY <1>1, <1>2, <1>3, PTL DEF Spec
-----------------------------------------------------------------------------
(* Compaction. *)

\* A non-empty set of natural numbers below a bound has a greatest element.
LEMMA GreatestExists ==
    ASSUME NEW S, S # {}, S \subseteq Nat, NEW b \in Nat, \A n \in S : n <= b
    PROVE  \E m \in S : \A n \in S : n <= m
<1> DEFINE T == {b - n : n \in S}
<1>1. T \subseteq Nat /\ T # {}
  <2>1. \A n \in S : b - n \in Nat
    OBVIOUS
  <2>2. PICK n \in S : TRUE
    BY Zenon
  <2>3. b - n \in T
    OBVIOUS
  <2> QED
    BY <2>1, <2>3
<1>2. PICK x \in T : \A y \in T : ~(<<y, x>> \in OpToRel(<, Nat))
  BY <1>1, NatLessThanWellFounded, WFMin, Zenon
<1>3. \A y \in T : ~(y < x)
  BY Zenon, <1>1, <1>2 DEF OpToRel
<1>4. PICK m \in S : x = b - m
  BY Zenon, <1>2
<1>5. ASSUME NEW n \in S PROVE n <= m
  <2>1. b - n \in T
    OBVIOUS
  <2>2. ~(b - n < b - m)
    BY <1>3, <1>4, <2>1
  <2> QED
    BY <2>2
<1> QED
  BY <1>5

Entries(Keys) == Keys \X Nat \X BOOLEAN

\* The entries that Kept leaves out are not the newest one a reader at t may want, and it keeps
\* the one that is.
LEMMA KeptBest ==
    ASSUME NEW Keys, NEW data \in SUBSET Entries(Keys), NEW below \in SUBSET Entries(Keys), NEW k \in Keys,
           NEW safeTS \in Nat, NEW t \in Nat, safeTS <= t, NEW hasOverlap \in BOOLEAN,
           hasOverlap \/ \A e \in below : e[1] # k,
           NEW e \in Entries(Keys), ~e[3]
    PROVE  e \in Best(Kept(data, k, safeTS, hasOverlap) \cup below, k, t)
               <=> e \in Best(data \cup below, k, t)
<1> DEFINE kept == Kept(data, k, safeTS, hasOverlap)
           low == {f \in data : f[1] = k /\ f[2] <= safeTS}
<1>1. \A f \in Entries(Keys) : f[1] \in Keys /\ f[2] \in Nat
  BY DEF Entries
<1>2. \A f \in kept : f \in data /\ f[1] = k
  BY DEF Kept
<1>3. \A f \in data : f[1] = k /\ f[2] > safeTS => f \in kept
  BY DEF Kept
<1>4. \A f \in low : (\A g \in low : g[2] <= f[2]) /\ (~f[3] \/ hasOverlap) => f \in kept
  BY DEF Kept
<1>5. \A f \in kept : f[2] > safeTS \/ \A g \in low : g[2] <= f[2]
  BY DEF Kept
<1> HIDE DEF kept
<1>6. ASSUME e \in Best(data \cup below, k, t)
      PROVE  e \in Best(kept \cup below, k, t)
  <2>1. /\ e \in data \cup below /\ e[1] = k /\ e[2] <= t
        /\ \A f \in data \cup below : f[1] = k /\ f[2] <= t => f[2] <= e[2]
    BY <1>6 DEF Best
  <2>2. e \in data => e \in kept
    <3>1. CASE e[2] > safeTS
      BY <1>3, <2>1, <3>1
    <3>2. CASE ~(e[2] > safeTS)
      <4>1. \A g \in low : g[2] <= e[2]
        BY <1>1, <2>1
      <4> QED
        BY <1>1, <1>4, <2>1, <3>2, <4>1
    <3> QED
      BY <3>1, <3>2
  <2> QED
    BY <1>2, <2>1, <2>2 DEF Best
<1>7. ASSUME e \in Best(kept \cup below, k, t)
      PROVE  e \in Best(data \cup below, k, t)
  <2>1. /\ e \in kept \cup below /\ e[1] = k /\ e[2] <= t
        /\ \A f \in kept \cup below : f[1] = k /\ f[2] <= t => f[2] <= e[2]
    BY <1>7 DEF Best
  <2>2. ASSUME NEW g \in data, g[1] = k, g[2] <= t, g \notin kept
        PROVE  g[2] <= e[2]
    <3>1. g \in low
      BY <1>1, <1>3, <2>2
    <3>2. CASE hasOverlap
      <4> DEFINE S == {f[2] : f \in low}
      <4>1. S # {} /\ S \subseteq Nat /\ \A n \in S : n <= safeTS
        BY <1>1, <3>1
      <4>2. PICK m \in S : \A n \in S : n <= m
        BY <4>1, GreatestExists, Zenon
      <4>3. PICK f \in low : m = f[2]
        BY <4>2
      <4>4. \A h \in low : h[2] <= f[2]
        BY <4>2, <4>3
      <4>5. f \in kept
        BY <1>4, <3>2, <4>4
      <4>6. f[2] <= e[2]
        BY <1>1, <2>1, <4>5
      <4> QED
        BY <1>1, <3>1, <4>4, <4>6
    <3>3. CASE ~hasOverlap
      <4>1. e \in kept
        BY <2>1, <3>3
      <4> QED
        BY <1>1, <1>5, <3>1, <4>1
    <3> QED
      BY <3>2, <3>3
  <2>3. e \in data \cup below
    BY <1>2, <2>1
  <2> QED
    BY <2>1, <2>2, <2>3 DEF Best
<1> QED
  BY <1>6, <1>7 DEF kept

\* CompactTables (compaction.go): the entries of a key that a compaction keeps show every reader
\* at or above safeTS what the entries it read would show, whatever the tables below the compaction
\* hold, provided that HasOverlap is set whenever they hold the key.
THEOREM CompactionKeepsReads ==
    ASSUME NEW Keys, NEW data \in SUBSET Entries(Keys), NEW below \in SUBSET Entries(Keys), NEW k \in Keys,
           NEW safeTS \in Nat, NEW t \in Nat, safeTS <= t, NEW hasOverlap \in BOOLEAN,
           hasOverlap \/ \A e \in below : e[1] # k
    PROVE  Visible(Best(Kept(data, k, safeTS, hasOverlap) \cup below, k, t))
               = Visible(Best(data \cup below, k, t))
<1> DEFINE A == Best(Kept(data, k, safeTS, hasOverlap) \cup below, k, t)
           B == Best(data \cup below, k, t)
<1>1. A \subseteq Entries(Keys) /\ B \subseteq Entries(Keys)
  BY DEF Best, Kept
<1>2. \A e \in Entries(Keys) : ~e[3] => (e \in A <=> e \in B)
  BY KeptBest, Zenon
<1> HIDE DEF A, B
<1>3. {e \in A : ~e[3]} = {e \in B : ~e[3]}
  BY <1>1, <1>2
<1> QED
  BY Zenon, <1>3 DEF A, B, Visible
=============================================================================
