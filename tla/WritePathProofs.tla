-------------------------- MODULE WritePathProofs ---------------------------
(***************************************************************************)
(* Proofs about the write path, first part: what the others need of        *)
(* sequences, requests, entries and memTables objects, and that every step *)
(* keeps Grounded.                                                         *)
(***************************************************************************)
EXTENDS WritePathInv, TLAPS

-----------------------------------------------------------------------------
(* Sequences *)

LEMMA LenFacts ==
    ASSUME NEW S, NEW s \in Seq(S)
    PROVE  Len(s) \in Nat /\ DOMAIN s = 1..Len(s) /\ s \in [1..Len(s) -> S]
OBVIOUS

LEMMA EmptyFacts ==
    ASSUME NEW S
    PROVE  <<>> \in Seq(S) /\ Len(<<>>) = 0 /\ \A s \in Seq(S) : s # <<>> => Len(s) > 0
OBVIOUS

LEMMA AppendFacts ==
    ASSUME NEW S, NEW s \in Seq(S), NEW x \in S
    PROVE  /\ Append(s, x) \in Seq(S) /\ Append(s, x) # <<>> /\ Len(Append(s, x)) = Len(s) + 1
           /\ \A i \in 1..Len(s) : Append(s, x)[i] = s[i]
           /\ Append(s, x)[Len(s) + 1] = x
OBVIOUS

LEMMA ConcatFacts ==
    ASSUME NEW S, NEW s \in Seq(S), NEW t \in Seq(S)
    PROVE  /\ s \o t \in Seq(S) /\ Len(s \o t) = Len(s) + Len(t)
           /\ \A i \in 1..(Len(s) + Len(t)) :
                 (s \o t)[i] = IF i <= Len(s) THEN s[i] ELSE t[i - Len(s)]
OBVIOUS

LEMMA SubSeqFacts ==
    ASSUME NEW S, NEW s, NEW m \in Int, NEW n \in Int, \A i \in m..n : s[i] \in S
    PROVE  /\ SubSeq(s, m, n) \in Seq(S)
           /\ Len(SubSeq(s, m, n)) = IF m <= n THEN n - m + 1 ELSE 0
           /\ \A i \in 1..(n - m + 1) : SubSeq(s, m, n)[i] = s[m + i - 1]
OBVIOUS

LEMMA TailFacts ==
    ASSUME NEW S, NEW s \in Seq(S), s # <<>>
    PROVE  /\ Head(s) \in S /\ Tail(s) \in Seq(S) /\ Len(Tail(s)) = Len(s) - 1
           /\ \A i \in 1..Len(Tail(s)) : Tail(s)[i] = s[i + 1]
OBVIOUS

LEMMA InSeqEmpty == InSeq(<<>>) = {}
BY DEF InSeq

LEMMA InSeqType ==
    ASSUME NEW S, NEW s \in Seq(S)
    PROVE  InSeq(s) \subseteq S
BY DEF InSeq

LEMMA InSeqConcat ==
    ASSUME NEW S, NEW s \in Seq(S), NEW t \in Seq(S)
    PROVE  InSeq(s \o t) = InSeq(s) \cup InSeq(t)
<1>1. /\ Len(s) \in Nat /\ Len(t) \in Nat /\ Len(s \o t) = Len(s) + Len(t)
      /\ \A i \in 1..(Len(s) + Len(t)) :
            (s \o t)[i] = IF i <= Len(s) THEN s[i] ELSE t[i - Len(s)]
  BY ConcatFacts, LenFacts
<1>2. ASSUME NEW x \in InSeq(s \o t)
      PROVE  x \in InSeq(s) \cup InSeq(t)
  <2>1. PICK i \in 1..(Len(s) + Len(t)) : x = (s \o t)[i]
    BY <1>1 DEF InSeq
  <2>2. CASE i <= Len(s)
    BY <1>1, <2>1, <2>2 DEF InSeq
  <2>3. CASE ~(i <= Len(s))
    <3>1. i - Len(s) \in 1..Len(t) /\ x = t[i - Len(s)]
      BY <1>1, <2>1, <2>3
    <3>2. QED
      BY <3>1 DEF InSeq
  <2>4. QED
    BY <2>2, <2>3
<1>3. ASSUME NEW x \in InSeq(s)
      PROVE  x \in InSeq(s \o t)
  <2>1. PICK i \in 1..Len(s) : x = s[i]
    BY DEF InSeq
  <2>2. i \in 1..Len(s \o t) /\ x = (s \o t)[i]
    BY <1>1, <2>1
  <2>3. QED
    BY <2>2 DEF InSeq
<1>4. ASSUME NEW x \in InSeq(t)
      PROVE  x \in InSeq(s \o t)
  <2>1. PICK i \in 1..Len(t) : x = t[i]
    BY DEF InSeq
  <2>2. i + Len(s) \in 1..Len(s \o t) /\ x = (s \o t)[i + Len(s)]
    BY <1>1, <2>1
  <2>3. QED
    BY <2>2 DEF InSeq
<1>5. QED
  BY <1>2, <1>3, <1>4

LEMMA InSeqAppend ==
    ASSUME NEW S, NEW s \in Seq(S), NEW x \in S
    PROVE  InSeq(Append(s, x)) = InSeq(s) \cup {x}
<1>1. /\ Len(s) \in Nat /\ Len(Append(s, x)) = Len(s) + 1
      /\ \A i \in 1..Len(s) : Append(s, x)[i] = s[i]
      /\ Append(s, x)[Len(s) + 1] = x
  BY AppendFacts, LenFacts
<1>2. QED
  BY <1>1 DEF InSeq

LEMMA InChanEmpty == InChan(<<>>) = {}
BY DEF InChan

LEMMA InChanOne ==
    ASSUME NEW b
    PROVE  InChan(<<b>>) = InSeq(b)
<1>1. Len(<<b>>) = 1 /\ <<b>>[1] = b
  OBVIOUS
<1>2. QED
  BY <1>1 DEF InChan

-----------------------------------------------------------------------------
(* Arithmetic *)

-----------------------------------------------------------------------------
(* Arithmetic *)

LEMMA DivMod ==
    ASSUME NEW a \in Nat, NEW p \in Nat \ {0}
    PROVE  /\ a \div p \in Nat /\ a % p \in 0..(p - 1)
           /\ a = (a \div p) * p + (a % p)
OBVIOUS

LEMMA MulMono ==
    ASSUME NEW i \in Nat, NEW j \in Nat, i < j, NEW p \in Nat
    PROVE  i * p \in Nat /\ j * p \in Nat /\ i * p + p <= j * p
<1>1. j - i - 1 \in Nat
  OBVIOUS
<1>2. (j - i - 1) * p >= 0
  BY <1>1
<1>3. j * p = i * p + p + (j - i - 1) * p
  OBVIOUS
<1>4. i * p \in Nat /\ j * p \in Nat
  OBVIOUS
<1>5. QED
  BY <1>2, <1>3, <1>4

\* An index is below another if its multiple is.
LEMMA MulLess ==
    ASSUME NEW i \in Nat, NEW j \in Nat, NEW p \in Nat, i * p < j * p
    PROVE  i < j
<1>1. CASE j < i
  BY <1>1, MulMono
<1>2. CASE i = j
  BY <1>2
<1>3. QED
  BY <1>1, <1>2

-----------------------------------------------------------------------------
(* writeToLSM within its batch *)

-----------------------------------------------------------------------------
(* writeToLSM within its batch *)

\* The request in hand, and the entries of it that go to the memtable.
LEMMA Puts ==
    ASSUME Applying, content \in [Mems -> SUBSET Entries], mine \in Mems, lpc = "write", Free > 0
    PROVE  \E k \in 1..Len(lbatch), a \in 0..(PerReq - 1), n \in 1..PerReq :
              /\ Request = lbatch[k] /\ Request \in InSeq(lbatch) /\ Request \in Reqs
              /\ applied = k * PerReq - PerReq + a
              /\ applied % PerReq = a
              /\ a + n <= PerReq
              /\ Cardinality(Fitting) = n
              /\ Fitting = (a + 1)..(a + n)
              /\ applied + n <= k * PerReq
              /\ k * PerReq <= Len(lbatch) * PerReq
<1> DEFINE d == applied \div PerReq
           a == applied % PerReq
           room == (a + 1) + Free - 1
           last == IF room < PerReq THEN room ELSE PerReq
           n == last - a
<1>0. PerReq \in Nat \ {0} /\ MemCap \in Nat \ {0} /\ applied \in Nat /\ Len(lbatch) \in Nat
  BY WritePathAssumption, LenFacts DEF Applying
<1>1. d \in Nat /\ a \in 0..(PerReq - 1) /\ applied = d * PerReq + a
  BY Zenon, <1>0, DivMod
<1>2. Free \in Int
  <2>1. Cardinality(content[mine]) \in Nat
    BY DEF Applying, Counted
  <2>2. QED
    BY <2>1, <1>0 DEF Free
<1>3. d < Len(lbatch)
  <2>1. applied < Len(lbatch) * PerReq
    BY DEF Applying
  <2>2. d * PerReq < Len(lbatch) * PerReq
    BY <2>1, <1>0, <1>1
  <2>3. QED
    BY <2>2, <1>0, <1>1, MulLess
<1>4. n \in 1..PerReq /\ a + n <= PerReq /\ last = a + n
  BY <1>0, <1>1, <1>2
<1>5. Fitting = (a + 1)..(a + n)
  BY <1>4 DEF Fitting
<1>6. Cardinality(Fitting) = n
  <2>1. Cardinality((a + 1)..(a + n)) = (a + n) - (a + 1) + 1
    BY <1>1, <1>4, <1>0 DEF Applying, Counted
  <2>2. QED
    BY <2>1, <1>5, <1>4, <1>1, <1>0
<1>7. d + 1 \in 1..Len(lbatch) /\ Request = lbatch[d + 1]
  BY <1>3, <1>1, <1>0 DEF Request
<1>8. Request \in InSeq(lbatch) /\ Request \in Reqs
  BY <1>7 DEF InSeq, Applying
<1>9. applied = (d + 1) * PerReq - PerReq + a /\ applied + n <= (d + 1) * PerReq
  <2>1. (d + 1) * PerReq = d * PerReq + PerReq
    BY <1>0, <1>1
  <2>2. d * PerReq \in Nat
    BY <1>0, <1>1
  <2>3. QED
    BY <2>1, <2>2, <1>0, <1>1, <1>4
<1>10. (d + 1) * PerReq <= Len(lbatch) * PerReq
  <2>1. CASE d + 1 = Len(lbatch)
    <3>1. (d + 1) * PerReq \in Nat
      BY <1>0, <1>1
    <3>2. QED
      BY <2>1, <3>1
  <2>2. CASE d + 1 < Len(lbatch)
    BY <2>2, <1>0, <1>1, MulMono
  <2>3. QED
    BY <2>1, <2>2, <1>3, <1>1, <1>0
<1>11. QED
  BY <1>1, <1>4, <1>5, <1>6, <1>7, <1>8, <1>9, <1>10

-----------------------------------------------------------------------------
(* Types *)

-----------------------------------------------------------------------------
(* Types *)

LEMMA AnsweredType ==
    ASSUME answer \in [Reqs -> {"unsent", "wait", "ok", "err"}], NEW reqs,
           NEW how \in {"ok", "err"}
    PROVE  Answered(reqs, how) \in [Reqs -> {"unsent", "wait", "ok", "err"}]
BY DEF Answered

LEMMA OneBatch ==
    ASSUME NEW b \in Seq(Reqs)
    PROVE  <<b>> \in Seq(ReqSeqs) /\ Len(<<b>>) <= 1
<1>1. b \in ReqSeqs
  BY DEF ReqSeqs
<1>2. QED
  BY <1>1

LEMMA Single ==
    ASSUME NEW S, NEW c \in Seq(S), Len(c) <= 1, c # <<>>
    PROVE  Len(c) = 1 /\ Head(c) = c[1] /\ c[1] \in S
<1>1. Len(c) \in Nat
  BY LenFacts
<1>2. Len(c) # 0
  OBVIOUS
<1>3. \A n \in Nat : n <= 1 /\ n # 0 => n = 1
  OBVIOUS
<1>4. Len(c) = 1
  BY Zenon, <1>1, <1>2, <1>3
<1>5. QED
  BY <1>4

LEMMA LogTypesInit == Counted /\ Init => LogTypes
<1> SUFFICES ASSUME Counted, Init PROVE LogTypes
  OBVIOUS
<1>1. Requests
  <2>1. fpc \in {"select", "sync", "send", "exited"}
    BY DEF Init
  <2>2. QED
    BY <2>1 DEF Init, Requests
<1>2. Batches
  BY EmptyFacts DEF Init, Batches
<1>3. Channel
  BY EmptyFacts DEF Init, Channel
<1>4. Applying
  BY EmptyFacts DEF Init, Applying
<1>5. QED
  BY <1>1, <1>2, <1>3, <1>4 DEF LogTypes

LEMMA LogTypesVLog ==
    ASSUME LogTypes, MemTypes, RunWriteVLog
    PROVE  LogTypes'
<1>1. Requests /\ Batches /\ Channel /\ Applying
  BY DEF LogTypes
<1>2. Applying'
  <2>1. UNCHANGED lsmVars
    BY DEF RunWriteVLog
  <2>2. QED
    BY <1>1, <2>1 DEF lsmVars, Applying
<1>3. Requests'
  <2>1. CASE WriteVLog /\ UNCHANGED sync
    BY <1>1, <2>1 DEF WriteVLog, flushVars, Requests
  <2>2. CASE WriteVLogFails /\ UNCHANGED sync
    BY <1>1, <2>2, AnsweredType DEF WriteVLogFails, flushVars, Requests
  <2>3. CASE SendBatch /\ UNCHANGED sync
    BY <1>1, <2>3 DEF SendBatch, flushVars, Requests
  <2>4. CASE CloseWriteVLog /\ UNCHANGED sync
    BY <1>1, <2>4, AnsweredType, InSeqType
    DEF CloseWriteVLog, LateAnswers, flushVars, Requests, Batches
  <2>5. CASE CloseWriteVLogFails /\ UNCHANGED sync
    BY <1>1, <2>5, AnsweredType DEF CloseWriteVLogFails, flushVars, Requests
  <2>6. CASE IngestBegin /\ UNCHANGED sync
    BY <1>1, <2>6, AnsweredType DEF IngestBegin, flushVars, vlogVars, Requests
  <2>7. CASE /\ IngestFlush \/ IngestNoOverlap \/ IngestStore \/ IngestSend
             /\ UNCHANGED <<sync, answer, synced, flushVars, late>>
    BY <1>1, <2>7 DEF IngestFlush, IngestNoOverlap, IngestStore, IngestSend, flushVars, Requests
  <2>8. QED
    BY <2>1, <2>2, <2>3, <2>4, <2>5, <2>6, <2>7 DEF RunWriteVLog
<1>4. Batches'
  <2>0. log \o writeCh \in Seq(Reqs) /\ <<>> \in Seq(Reqs)
    BY <1>1, ConcatFacts, EmptyFacts DEF Batches
  <2>1. CASE WriteVLog \/ WriteVLogFails
    BY Zenon, <1>1, <2>0, <2>1 DEF WriteVLog, WriteVLogFails, flushVars, Batches
  <2>2. CASE SendBatch
    BY <1>1, <2>0, <2>2 DEF SendBatch, flushVars, Batches
  <2>3. CASE CloseWriteVLog \/ CloseWriteVLogFails
    BY Zenon, <1>1, <2>0, <2>3 DEF CloseWriteVLog, CloseWriteVLogFails, flushVars, Batches
  <2>4. CASE IngestBegin
    BY Zenon, <1>1, <2>0, <2>4 DEF IngestBegin, flushVars, vlogVars, Batches
  <2>5. CASE UNCHANGED <<writeCh, vbatch, log, flushVars>>
    BY <1>1, <2>5 DEF flushVars, Batches
  <2>6. QED
    BY <2>1, <2>2, <2>3, <2>4, <2>5 DEF RunWriteVLog
<1>5. Channel'
  <2>1. CASE SendBatch
    <3>1. <<vbatch>> \in Seq(ReqSeqs) /\ Len(<<vbatch>>) <= 1
      BY <1>1, OneBatch DEF Batches
    <3>2. writeLSMCh' = writeLSMCh \/ writeLSMCh' = <<vbatch>>
      BY <2>1 DEF SendBatch
    <3>3. QED
      BY Zenon, <1>1, <3>1, <3>2 DEF Channel
  <2>2. CASE UNCHANGED writeLSMCh
    BY <1>1, <2>2 DEF Channel
  <2>3. QED
    BY <2>1, <2>2 DEF RunWriteVLog, WriteVLog, WriteVLogFails, CloseWriteVLog,
                      CloseWriteVLogFails, IngestBegin
<1>6. QED
  BY <1>2, <1>3, <1>4, <1>5 DEF LogTypes

LEMMA LogTypesFlusher ==
    ASSUME LogTypes, RunFlusher
    PROVE  LogTypes'
<1>1. Requests /\ Batches /\ Channel /\ Applying
  BY DEF LogTypes
<1>2. UNCHANGED <<sync, writeCh, vpc, vbatch, log, lsmVars, late>>
  BY DEF RunFlusher, vlogVars
<1>3. Requests'
  <2>1. CASE Fdatasync
    BY <1>1, <1>2, <2>1, InSeqType DEF Fdatasync, Requests, Batches
  <2>2. CASE FdatasyncFails
    BY <1>1, <1>2, <2>2, AnsweredType DEF FdatasyncFails, Requests
  <2>3. CASE FlusherSend \/ FlusherExit
    BY <1>1, <1>2, <2>3 DEF FlusherSend, FlusherExit, Requests
  <2>4. QED
    BY <2>1, <2>2, <2>3 DEF RunFlusher
<1>4. Batches'
  <2>1. fbatch' = fbatch \/ fbatch' = <<>>
    BY DEF RunFlusher, Fdatasync, FdatasyncFails, FlusherSend, FlusherExit
  <2>2. QED
    BY Zenon, <1>1, <1>2, <2>1, EmptyFacts DEF Batches
<1>5. Channel'
  <2>1. writeLSMCh' = writeLSMCh \/ writeLSMCh' = <<fbatch>>
    BY DEF RunFlusher, Fdatasync, FdatasyncFails, FlusherSend, FlusherExit
  <2>2. QED
    BY Zenon, <1>1, <2>1, OneBatch DEF Channel, Batches
<1>6. QED
  BY <1>1, <1>2, <1>3, <1>4, <1>5 DEF LogTypes, Applying, lsmVars

LEMMA LogTypesLSM ==
    ASSUME LogTypes, MemTypes, RunWriteLSM
    PROVE  LogTypes'
<1>1. Requests /\ Batches /\ Channel /\ Applying
  BY DEF LogTypes
<1>2. UNCHANGED <<sync, writeCh, synced, vpc, vbatch, log, fpc, fbatch, late>>
  BY DEF RunWriteLSM, vlogVars, flushVars
<1>3. Batches'
  BY <1>1, <1>2 DEF Batches
<1>4. Requests'
  <2>1. answer' = answer \/ answer' = Answered(lbatch, "ok")
    BY DEF RunWriteLSM, RecvBatch, WriteLSMExit, LoadTables, PutEntries, MakeRoom, RoomStore, RoomSend
  <2>2. QED
    BY <1>1, <1>2, <2>1, AnsweredType DEF Requests
<1>5. Channel'
  <2>1. writeLSMCh' = writeLSMCh \/ writeLSMCh' = <<>>
    BY DEF RunWriteLSM, RecvBatch, WriteLSMExit, LoadTables, PutEntries, MakeRoom, RoomStore, RoomSend
  <2>2. QED
    <3>1. <<>> \in Seq(ReqSeqs) /\ Len(<<>>) <= 1
      OBVIOUS
    <3>2. QED
      BY Zenon, <1>1, <2>1, <3>1 DEF Channel
<1>6. Applying'
  <2>1. CASE RecvBatch
    <3>1. Len(writeLSMCh) = 1 /\ Head(writeLSMCh) = writeLSMCh[1] /\ writeLSMCh[1] \in Seq(Reqs)
      <4>1. Len(writeLSMCh) = 1 /\ Head(writeLSMCh) = writeLSMCh[1] /\ writeLSMCh[1] \in ReqSeqs
        BY <1>1, <2>1, Single DEF RecvBatch, Channel
      <4>2. QED
        BY <4>1 DEF ReqSeqs
    <3>2. applied' = 0 /\ lbatch' = writeLSMCh[1]
      BY <1>1, <2>1, <3>1 DEF RecvBatch, Applying
    <3>3. CASE writeLSMCh[1] = <<>>
      <4>1. lpc' = "recv"
        BY <2>1, <3>1, <3>3 DEF RecvBatch
      <4>2. QED
        BY <1>1, <3>1, <3>2, <3>3, <4>1 DEF Applying
    <3>4. CASE writeLSMCh[1] # <<>>
      <4>1. lpc' = "load"
        BY <2>1, <3>1, <3>4 DEF RecvBatch
      <4>2. Len(lbatch') \in Nat \ {0} /\ PerReq \in Nat \ {0}
        BY <3>1, <3>2, <3>4, EmptyFacts, WritePathAssumption
      <4>3. 0 < Len(lbatch') * PerReq
        BY <4>2
      <4>4. QED
        BY <1>1, <3>1, <3>2, <4>1, <4>3 DEF Applying
    <3>5. QED
      BY <3>3, <3>4
  <2>2. CASE WriteLSMExit \/ LoadTables \/ MakeRoom \/ RoomStore \/ RoomSend
    BY <1>1, <2>2 DEF WriteLSMExit, LoadTables, MakeRoom, RoomStore, RoomSend, Applying
  <2>3. CASE PutEntries
    <3>1. content \in [Mems -> SUBSET Entries] /\ mine \in Mems
      BY DEF MemTypes, Counters, Stored, EntrySets
    <3>2. PICK k \in 1..Len(lbatch), a \in 0..(PerReq - 1), n \in 1..PerReq :
             /\ Cardinality(Fitting) = n
             /\ applied + n <= k * PerReq
             /\ k * PerReq <= Len(lbatch) * PerReq
      BY <1>1, <2>3, <3>1, Puts DEF PutEntries
    <3>3. /\ PerReq \in Nat /\ Len(lbatch) \in Nat /\ applied \in Nat
          /\ k * PerReq \in Nat /\ Len(lbatch) * PerReq \in Nat
      BY <1>1, WritePathAssumption, LenFacts DEF Applying
    <3>4. applied + n \in Nat /\ applied + n <= Len(lbatch) * PerReq
      BY <3>2, <3>3
    <3>5. CASE applied + n = Len(lbatch) * PerReq
      <4>1. lpc' = "recv" /\ lbatch' = <<>> /\ applied' = 0
        BY <2>3, <3>2, <3>5 DEF PutEntries
      <4>2. QED
        BY <1>1, <4>1, EmptyFacts DEF Applying
    <3>6. CASE applied + n # Len(lbatch) * PerReq
      <4>1. lpc' \in {"load", "write"} /\ lbatch' = lbatch /\ applied' = applied + n
        BY <2>3, <3>2, <3>6 DEF PutEntries
      <4>2. applied + n < Len(lbatch) * PerReq
        BY <3>3, <3>4, <3>6
      <4>3. QED
        BY <1>1, <3>4, <4>1, <4>2 DEF Applying
    <3>7. QED
      BY <3>5, <3>6
  <2>4. QED
    BY <2>1, <2>2, <2>3 DEF RunWriteLSM
<1>7. QED
  BY <1>3, <1>4, <1>5, <1>6 DEF LogTypes

LEMMA LogTypesNext ==
    ASSUME LogTypes, MemTypes, [Next]_vars
    PROVE  LogTypes'
<1>1. ASSUME NEW r \in Reqs, SendToWriteCh(r)
      PROVE  LogTypes'
  <2>1. writeCh' \in Seq(Reqs) /\ answer' \in [Reqs -> {"unsent", "wait", "ok", "err"}]
    BY <1>1, AppendFacts DEF SendToWriteCh, LogTypes, Batches, Requests
  <2>2. UNCHANGED <<sync, synced, late, vpc, fpc, log, vbatch, fbatch, writeLSMCh, lbatch, lpc, applied>>
    BY <1>1 DEF SendToWriteCh, vlogVars, flushVars, lsmVars
  <2>3. QED
    BY <2>1, <2>2 DEF LogTypes, Requests, Batches, Channel, Applying
<1>2. CASE RunFlushMemTable \/ CloseBegin \/ CloseGoesOn \/ UNCHANGED vars
  <2>1. UNCHANGED <<sync, synced, late, vpc, fpc, log, vbatch, fbatch, writeLSMCh, lbatch, lpc, applied,
                    writeCh, answer>>
    BY <1>2 DEF RunFlushMemTable, CloseBegin, CloseGoesOn, vars, vlogVars, flushVars, lsmVars
  <2>2. QED
    BY <2>1 DEF LogTypes, Requests, Batches, Channel, Applying
<1>3. QED
  BY <1>1, <1>2, LogTypesVLog, LogTypesFlusher, LogTypesLSM DEF Next


-----------------------------------------------------------------------------
(* Types of the memtables *)

-----------------------------------------------------------------------------
(* Types of the memtables *)

LEMMA TablesFields ==
    ASSUME NEW ts \in Tables
    PROVE  ts.tables \in Seq(Mems) /\ ts.length \in Nat
BY DEF Tables

LEMMA TablesMade ==
    ASSUME NEW s \in Seq(Mems), NEW n \in Nat
    PROVE  /\ [tables |-> s, length |-> n] \in Tables
           /\ [tables |-> s, length |-> n].tables = s
           /\ [tables |-> s, length |-> n].length = n
BY DEF Tables

LEMMA TaskMade ==
    ASSUME NEW m \in Mems, NEW n \in Nat
    PROVE  /\ [mt |-> m, off |-> n] \in Tasks
           /\ [mt |-> m, off |-> n].mt = m /\ [mt |-> m, off |-> n].off = n
BY DEF Tasks

LEMMA TaskFields ==
    ASSUME NEW t \in Tasks
    PROVE  t.mt \in Mems /\ t.off \in Nat /\ t = [mt |-> t.mt, off |-> t.off]
BY DEF Tasks

LEMMA NoTaskType == NoTask \in Tasks /\ NoTask.mt = 0 /\ NoTask.off = 0
BY WritePathAssumption DEF NoTask, Tasks, Mems

LEMMA MutableType ==
    ASSUME NEW ts, Sound(ts)
    PROVE  Mutable(ts) \in Mems
<1>1. ts.tables \in Seq(Mems) /\ 1 <= Len(ts.tables)
  BY TablesFields DEF Sound
<1>2. QED
  BY <1>1 DEF Mutable

\* What newMemTables makes: the new table, then those that the old one counts.
LEMMA NewTables ==
    ASSUME Sound(tbls), NEW mt \in Mems
    PROVE  LET nt == NewMemTables(mt)
           IN  /\ Sound(nt) /\ nt \in Tables
               /\ nt.length = tbls.length + 1 /\ Len(nt.tables) = tbls.length + 1
               /\ Mutable(nt) = mt
               /\ \A i \in 2..(tbls.length + 1) : nt.tables[i] = tbls.tables[i - 1]
<1> DEFINE old == SubSeq(tbls.tables, 1, tbls.length)
           new == <<mt>> \o old
<1>1. tbls.tables \in Seq(Mems) /\ tbls.length \in Nat /\ tbls.length <= Len(tbls.tables)
  BY TablesFields DEF Sound
<1>2. /\ old \in Seq(Mems) /\ Len(old) = tbls.length
      /\ \A i \in 1..tbls.length : old[i] = tbls.tables[i]
  <2>1. Len(tbls.tables) \in Nat
    BY <1>1, LenFacts
  <2>2. \A i \in 1..tbls.length : tbls.tables[i] \in Mems
    BY <1>1, <2>1
  <2>3. QED
    BY <1>1, <2>1, <2>2, SubSeqFacts
<1> HIDE DEF old
<1>3. <<mt>> \in Seq(Mems) /\ Len(<<mt>>) = 1 /\ <<mt>>[1] = mt
  OBVIOUS
<1>4. /\ new \in Seq(Mems) /\ Len(new) = 1 + tbls.length
      /\ \A i \in 1..(1 + tbls.length) : new[i] = IF i <= 1 THEN <<mt>>[i] ELSE old[i - 1]
  BY <1>2, <1>3, ConcatFacts
<1> HIDE DEF new
<1>5. new[1] = mt
  BY <1>1, <1>3, <1>4
<1>6. \A i \in 2..(tbls.length + 1) : new[i] = tbls.tables[i - 1]
  BY <1>1, <1>2, <1>4
<1>7. NewMemTables(mt) = [tables |-> new, length |-> tbls.length + 1]
  BY DEF NewMemTables, new, old
<1>8. /\ NewMemTables(mt) \in Tables /\ NewMemTables(mt).tables = new
      /\ NewMemTables(mt).length = tbls.length + 1
  BY <1>1, <1>4, <1>7, TablesMade
<1>9. Len(new) = tbls.length + 1 /\ 1 <= Len(new) /\ tbls.length + 1 <= Len(new)
  BY <1>1, <1>4
<1>10. QED
  BY <1>5, <1>6, <1>8, <1>9 DEF Sound, Mutable

LEMMA ObjectsMake ==
    ASSUME Objects, NEW c \in Callers, NEW mt \in Mems, MakeTables(c, mt),
           \A d \in Callers : d # c => At(d)' = At(d)
    PROVE  Objects'
<1>1. NewMemTables(mt) \in Tables /\ Sound(NewMemTables(mt))
  BY NewTables DEF Objects
<1>2. /\ tbls' = tbls /\ newTbls' \in [Callers -> Tables]
      /\ newTbls'[c] = NewMemTables(mt)
      /\ \A d \in Callers : d # c => newTbls'[d] = newTbls[d]
  BY <1>1 DEF MakeTables, Objects
<1>3. QED
  BY <1>1, <1>2 DEF Objects, Sound

LEMMA ObjectsStore ==
    ASSUME Objects, NEW c \in Callers, StoreTables(c), At(c) = "store", At(c)' # "store",
           \A d \in Callers : d # c => At(d)' = At(d)
    PROVE  Objects'
<1>1. [tables |-> <<>>, length |-> 0] \in Tables
  <2>1. <<>> \in Seq(Mems)
    OBVIOUS
  <2>2. QED
    BY Zenon, <2>1, TablesMade
<1>2. /\ tbls' = newTbls[c] /\ newTbls' \in [Callers -> Tables]
      /\ \A d \in Callers : d # c => newTbls'[d] = newTbls[d]
  BY <1>1 DEF StoreTables, Objects
<1>3. QED
  BY <1>2 DEF Objects, Sound

LEMMA ObjectsSame ==
    ASSUME Objects, UNCHANGED <<tbls, newTbls>>,
           \A d \in Callers : At(d)' = "store" => At(d) = "store"
    PROVE  Objects'
BY DEF Objects, Sound

\* Where LowerLength finds the flushed table.
LEMMA LoweredFact ==
    ASSUME Sound(tbls)
    PROVE  /\ Sound(Lowered) /\ Lowered.tables = tbls.tables
           /\ \/ Lowered = tbls
              \/ /\ flCurrent
                 /\ Lowered.length + 1 \in 1..Len(tbls.tables)
                 /\ tbls.tables[Lowered.length + 1] = ft.mt
<1>1. CASE ~(flCurrent /\ ft.mt \in InSeq(tbls.tables))
  BY <1>1 DEF Lowered
<1>2. CASE flCurrent /\ ft.mt \in InSeq(tbls.tables)
  <2> DEFINE n == CHOOSE i \in 1..Len(tbls.tables) : tbls.tables[i] = ft.mt
  <2>1. n \in 1..Len(tbls.tables) /\ tbls.tables[n] = ft.mt
    BY <1>2 DEF InSeq
  <2> HIDE DEF n
  <2>2. tbls.tables \in Seq(Mems) /\ 1 <= Len(tbls.tables) /\ Len(tbls.tables) \in Nat
    BY TablesFields, LenFacts DEF Sound
  <2>3. Lowered = [tbls EXCEPT !.length = n - 1]
    BY <1>2 DEF Lowered, n
  <2>4. tbls = [tables |-> tbls.tables, length |-> tbls.length]
    BY DEF Sound, Tables
  <2>5. Lowered = [tables |-> tbls.tables, length |-> n - 1]
    BY <2>3, <2>4
  <2>6. n - 1 \in Nat /\ n - 1 <= Len(tbls.tables) /\ (n - 1) + 1 = n
    BY <2>1, <2>2
  <2>7. Lowered \in Tables /\ Lowered.tables = tbls.tables /\ Lowered.length = n - 1
    BY <2>2, <2>5, <2>6, TablesMade
  <2>8. QED
    BY <1>2, <2>1, <2>2, <2>6, <2>7 DEF Sound
<1>3. QED
  BY <1>1, <1>2

LEMMA TasksMake ==
    ASSUME TaskTypes, Objects, NEW c \in Callers, NEW mt, MakeTables(c, mt), UNCHANGED <<flushChan, ft>>
    PROVE  TaskTypes'
<1>1. [mt |-> Mutable(tbls), off |-> 0] \in Tasks
  BY MutableType, TaskMade DEF Objects
<1>2. QED
  BY <1>1 DEF MakeTables, TaskTypes

LEMMA TasksStore ==
    ASSUME TaskTypes, NEW c \in Callers, StoreTables(c), logOff \in Nat, UNCHANGED flushChan
    PROVE  /\ TaskTypes'
           /\ task'[c].mt = task[c].mt /\ task'[c].off = logOff
           /\ \A d \in Callers : d # c => task'[d] = task[d]
<1>1. task' = [task EXCEPT ![c].off = logOff] /\ ft' = ft
  BY DEF StoreTables
<1>2. task[c] = [mt |-> task[c].mt, off |-> task[c].off] /\ task[c].mt \in Mems
  BY TaskFields DEF TaskTypes
<1>3. task'[c] = [task[c] EXCEPT !.off = logOff] /\ \A d \in Callers : d # c => task'[d] = task[d]
  BY <1>1 DEF TaskTypes
<1>4. task'[c] = [mt |-> task[c].mt, off |-> logOff]
  BY <1>2, <1>3
<1>5. task'[c] \in Tasks /\ task'[c].mt = task[c].mt /\ task'[c].off = logOff
  BY <1>2, <1>4, TaskMade
<1>6. task' \in [Callers -> Tasks]
  BY <1>1, <1>3, <1>5 DEF TaskTypes
<1>7. QED
  BY <1>1, <1>3, <1>5, <1>6 DEF TaskTypes

LEMMA TasksSend ==
    ASSUME TaskTypes, NEW c \in Callers, SendTask(c)
    PROVE  TaskTypes'
<1>1. task' \in [Callers -> Tasks]
  BY NoTaskType DEF TaskTypes, SendTask
<1>2. flushChan' \in Seq(Tasks) /\ ft' = ft
  BY AppendFacts DEF TaskTypes, SendTask, diskVars
<1>3. QED
  BY <1>1, <1>2 DEF TaskTypes

LEMMA TasksTake ==
    ASSUME TaskTypes, Counters, TakeTask, UNCHANGED task
    PROVE  /\ TaskTypes' /\ Len(flushChan) > 0 /\ Head(flushChan) = flushChan[1] /\ flushChan[1] \in Tasks
           /\ Len(flushChan') = Len(flushChan) - 1
           /\ \A i \in 1..Len(flushChan') : flushChan'[i] = flushChan[i + 1]
           /\ \/ flushChan[1] = Quit /\ mpc' = "exited" /\ ft' = ft
              \/ /\ flushChan[1] # Quit /\ mpc' = "build" /\ ft'.mt = flushChan[1].mt
                 /\ ft'.off \in {0, flushChan[1].off}
<1>1. flushChan \in Seq(Tasks) /\ flushChan # <<>> /\ Len(flushChan) \in Nat
  BY LenFacts DEF TaskTypes, TakeTask
<1>2. /\ Len(flushChan) > 0 /\ Head(flushChan) = flushChan[1] /\ flushChan[1] \in Tasks
      /\ Tail(flushChan) \in Seq(Tasks) /\ Len(Tail(flushChan)) = Len(flushChan) - 1
      /\ \A i \in 1..Len(Tail(flushChan)) : Tail(flushChan)[i] = flushChan[i + 1]
  BY <1>1, EmptyFacts, TailFacts
<1>3. flushChan' = Tail(flushChan)
  BY DEF TakeTask
<1>4. CASE flushChan[1] = Quit
  <2>1. mpc' = "exited" /\ ft' = ft
    BY <1>2, <1>4 DEF TakeTask
  <2>2. QED
    BY <1>2, <1>3, <1>4, <2>1 DEF TaskTypes
<1>5. CASE flushChan[1] # Quit
  <2> DEFINE t == flushChan[1]
             off == IF content[t.mt] = {} THEN 0 ELSE t.off
  <2>1. mpc' = "build" /\ ft' = [t EXCEPT !.off = IF content[t.mt] = {} THEN 0 ELSE @]
    BY <1>2, <1>5 DEF TakeTask
  <2>2. t = [mt |-> t.mt, off |-> t.off] /\ t.mt \in Mems /\ t.off \in Nat
    BY <1>2, TaskFields
  <2>3. ft' = [mt |-> t.mt, off |-> off]
    BY <2>1, <2>2
  <2>4. off \in Nat /\ off \in {0, t.off}
    BY <2>2
  <2> HIDE DEF off
  <2>5. ft' \in Tasks /\ ft'.mt = t.mt /\ ft'.off = off
    BY <2>2, <2>3, <2>4, TaskMade
  <2>6. QED
    BY <1>2, <1>3, <1>5, <2>1, <2>4, <2>5 DEF TaskTypes
<1>6. QED
  BY <1>4, <1>5

LEMMA PosFound ==
    ASSUME NEW lg \in Seq(Reqs), NEW e, e[1] \in InSeq(lg), e[2] \in Nat
    PROVE  /\ PosIn(lg, e) \in Nat
           /\ \E i \in 1..Len(lg) : lg[i] = e[1] /\ PosIn(lg, e) = i * PerReq - PerReq + e[2]
<1> DEFINE i == CHOOSE j \in 1..Len(lg) : lg[j] = e[1]
<1>1. i \in 1..Len(lg) /\ lg[i] = e[1]
  BY DEF InSeq
<1>2. PosIn(lg, e) = i * PerReq - PerReq + e[2]
  BY DEF PosIn
<1> HIDE DEF i
<1>3. PerReq \in Nat /\ i \in Nat \ {0}
  BY <1>1, WritePathAssumption, LenFacts
<1>4. i * PerReq \in Nat /\ i * PerReq >= PerReq
  <2>1. i - 1 \in Nat /\ 0 < i /\ 0 * PerReq = 0
    BY <1>3
  <2>2. QED
    BY <1>3, <2>1, MulMono
<1>5. i * PerReq - PerReq + e[2] \in Nat
  BY <1>3, <1>4
<1>6. QED
  BY <1>1, <1>2, <1>5

-----------------------------------------------------------------------------
(* Nothing is applied before it is logged and synced. *)

LEMMA MemTypesInit == Init => MemTypes
<1> SUFFICES ASSUME Init PROVE MemTypes
  OBVIOUS
<1>0. MaxMem \in Nat \ {0}
  BY WritePathAssumption
<1>1. Counters
  BY <1>0 DEF Init, Counters, Mems
<1>2. Objects
  <2>1. <<1>> \in Seq(Mems) /\ Len(<<1>>) = 1 /\ <<>> \in Seq(Mems)
    BY <1>0 DEF Mems
  <2>2. /\ [tables |-> <<>>, length |-> 0] \in Tables
        /\ [tables |-> <<1>>, length |-> 1] \in Tables
        /\ [tables |-> <<1>>, length |-> 1].tables = <<1>>
        /\ [tables |-> <<1>>, length |-> 1].length = 1
    BY Zenon, <2>1, TablesMade
  <2>3. Sound(tbls)
    BY <2>1, <2>2 DEF Init, Sound
  <2>4. newTbls \in [Callers -> Tables]
    BY <2>2 DEF Init
  <2>5. \A c \in Callers : At(c) # "store"
    BY DEF Init, Callers, At
  <2>6. QED
    BY <2>3, <2>4, <2>5 DEF Objects
<1>3. TaskTypes
  <2>1. <<>> \in Seq(Tasks)
    OBVIOUS
  <2>2. QED
    BY <2>1, NoTaskType DEF Init, TaskTypes
<1>4. Stored
  <2>1. <<>> \in Seq(EntrySets) /\ {} \in EntrySets
    BY DEF EntrySets
  <2>2. QED
    BY <2>1 DEF Init, Stored
<1>5. QED
  BY <1>1, <1>2, <1>3, <1>4 DEF MemTypes

-----------------------------------------------------------------------------
(* Positions in the log *)

LEMMA MemTypesLSM ==
    ASSUME LogTypes, MemTypes, AheadPipe, RunWriteLSM
    PROVE  MemTypes'
<1>1. Counters /\ Objects /\ TaskTypes /\ Stored
  BY DEF MemTypes
<1>2. vpc' = vpc /\ closing' = closing /\ log' = log
  BY DEF RunWriteLSM, vlogVars
<1>3. CASE RecvBatch \/ WriteLSMExit
  <2>1. UNCHANGED <<mine, logOff, memVars, flushChan, diskVars>> /\ lpc' # "store"
    BY <1>3 DEF RecvBatch, WriteLSMExit
  <2>2. Objects'
    BY <1>1, <1>2, <2>1, ObjectsSame DEF memVars, At, Callers
  <2>3. QED
    BY <1>1, <1>2, <2>1, <2>2 DEF MemTypes, Counters, TaskTypes, Stored, memVars, diskVars
<1>4. CASE LoadTables
  <2>1. UNCHANGED <<logOff, memVars, flushChan, diskVars>> /\ lpc' # "store" /\ mine' = Mutable(tbls)
    BY <1>4 DEF LoadTables
  <2>2. Objects'
    BY <1>1, <1>2, <2>1, ObjectsSame DEF memVars, At, Callers
  <2>3. mine' \in Mems
    BY <1>1, <2>1, MutableType DEF Objects
  <2>4. QED
    BY <1>1, <1>2, <2>1, <2>2, <2>3 DEF MemTypes, Counters, TaskTypes, Stored, memVars, diskVars
<1>5. CASE PutEntries
  <2>1. /\ UNCHANGED <<tbls, nextMem, newTbls, task, flushChan, diskVars>> /\ lpc' # "store"
        /\ mine' \in {mine, 0}
    BY Zenon, <1>5 DEF PutEntries
  <2>2. Objects'
    BY <1>1, <1>2, <2>1, ObjectsSame DEF At, Callers
  <2>3. content \in [Mems -> SUBSET Entries] /\ mine \in Mems /\ Applying
    BY <1>1 DEF Counters, Stored, EntrySets, LogTypes
  <2>4. PICK k \in 1..Len(lbatch), a \in 0..(PerReq - 1), n \in 1..PerReq :
           /\ Request \in InSeq(lbatch) /\ Request \in Reqs
           /\ applied % PerReq = a
           /\ a + n <= PerReq
           /\ Cardinality(Fitting) = n
           /\ Fitting = (a + 1)..(a + n)
    BY <1>5, <2>3, Puts DEF PutEntries
  <2>5. PerReq \in Nat /\ a \in Nat /\ n \in Nat
    BY WritePathAssumption
  <2>6. {<<Request, i>> : i \in Fitting} \subseteq Entries
    <3>1. (a + 1)..(a + n) \subseteq 1..PerReq
      BY <2>4, <2>5
    <3>2. QED
      BY <2>4, <3>1 DEF Entries
  <2>7. content' \in [Mems -> EntrySets]
    BY <1>5, <2>3, <2>6 DEF PutEntries, EntrySets
  <2>8. logOff' \in Nat
    <3>1. Request \in InSeq(log) /\ log \in Seq(Reqs)
      BY <2>4 DEF AheadPipe, Safe, LogTypes, Batches
    <3>2. logOff' = PosIn(log, <<Request, a + n>>)
      BY <1>5, <2>4 DEF PutEntries, Pos, PosIn
    <3>3. QED
      BY <2>5, <3>1, <3>2, PosFound
  <2>9. mine' \in Mems
    BY <1>1, <2>1, WritePathAssumption DEF Counters, Mems
  <2>10. Counters'
    BY <1>1, <1>2, <2>1, <2>8, <2>9 DEF Counters, diskVars
  <2>11. QED
    BY <1>1, <2>1, <2>2, <2>7, <2>10 DEF MemTypes, TaskTypes, Stored, diskVars
<1>6. CASE MakeRoom
  <2>1. /\ UNCHANGED <<mine, logOff, flushChan, diskVars, content>> /\ MakeTables("lsm", nextMem)
        /\ nextMem <= MaxMem /\ nextMem' = nextMem + 1
    BY <1>6 DEF MakeRoom, TakeMemTable, MakeTables
  <2>2. nextMem \in Mems /\ "lsm" \in Callers /\ nextMem' \in 2..(MaxMem + 1)
    BY <1>1, <2>1, WritePathAssumption DEF Counters, Mems, Callers
  <2>3. Objects' /\ TaskTypes'
    BY <1>1, <1>2, <2>1, <2>2, ObjectsMake, TasksMake DEF At, Callers, diskVars
  <2>4. QED
    BY <1>1, <1>2, <2>1, <2>2, <2>3 DEF MemTypes, Counters, Stored, diskVars
<1>7. CASE RoomStore
  <2>1. /\ StoreTables("lsm") /\ lpc = "store" /\ lpc' # "store" /\ "lsm" \in Callers /\ UNCHANGED flushChan
        /\ UNCHANGED <<mine, logOff, nextMem, content, mpc, built, l0, disk, head, deleted>>
    BY <1>7 DEF RoomStore, StoreTables, Callers
  <2>2. Objects' /\ TaskTypes'
    BY <1>1, <1>2, <2>1, ObjectsStore, TasksStore DEF At, Callers, Counters
  <2>3. QED
    BY <1>1, <1>2, <2>1, <2>2 DEF MemTypes, Counters, Stored
<1>8. CASE RoomSend
  <2>1. /\ SendTask("lsm") /\ lpc' # "store" /\ "lsm" \in Callers
        /\ UNCHANGED <<mine, logOff, nextMem, content, diskVars, tbls, newTbls>>
    BY <1>8 DEF RoomSend, SendTask, Callers
  <2>2. Objects' /\ TaskTypes'
    BY <1>1, <1>2, <2>1, ObjectsSame, TasksSend DEF At, Callers
  <2>3. QED
    BY <1>1, <1>2, <2>1, <2>2 DEF MemTypes, Counters, Stored, diskVars
<1>9. QED
  BY <1>3, <1>4, <1>5, <1>6, <1>7, <1>8 DEF RunWriteLSM

LEMMA MemTypesVLog ==
    ASSUME LogTypes, MemTypes, RunWriteVLog
    PROVE  MemTypes'
<1>1. Counters /\ Objects /\ TaskTypes /\ Stored
  BY DEF MemTypes
<1>2. lpc' = lpc /\ mine' = mine /\ logOff' = logOff /\ closing' = closing
  BY DEF RunWriteVLog, lsmVars
<1>3. CASE WriteVLog \/ WriteVLogFails \/ SendBatch \/ CloseWriteVLog \/ CloseWriteVLogFails \/ IngestBegin
  <2>1. vpc' # "store"
    BY <1>3 DEF WriteVLog, WriteVLogFails, SendBatch, CloseWriteVLog, CloseWriteVLogFails, IngestBegin,
       vlogVars
  <2>2. UNCHANGED <<memVars, flushChan, diskVars>>
    BY Zenon, <1>3 DEF RunWriteVLog, WriteVLog, WriteVLogFails, SendBatch, CloseWriteVLog, CloseWriteVLogFails,
       IngestBegin, IngestFlush, IngestNoOverlap, IngestStore, IngestSend, vlogVars
  <2>3. Objects'
    BY <1>1, <1>2, <2>1, <2>2, ObjectsSame DEF memVars, At, Callers
  <2>4. QED
    BY <1>1, <1>2, <2>2, <2>3 DEF MemTypes, Counters, TaskTypes, Stored, memVars, diskVars
<1>4. CASE IngestFlush
  <2>1. /\ UNCHANGED <<flushChan, diskVars, content>> /\ MakeTables("vlog", nextMem)
        /\ nextMem <= MaxMem /\ nextMem' = nextMem + 1
    BY Zenon, <1>4 DEF IngestFlush, TakeMemTable, MakeTables
  <2>2. nextMem \in Mems /\ "vlog" \in Callers /\ nextMem' \in 2..(MaxMem + 1)
    BY <1>1, <2>1, WritePathAssumption DEF Counters, Mems, Callers
  <2>3. Objects' /\ TaskTypes'
    BY <1>1, <1>2, <2>1, <2>2, ObjectsMake, TasksMake DEF At, Callers, diskVars
  <2>4. QED
    BY <1>1, <1>2, <2>1, <2>2, <2>3 DEF MemTypes, Counters, Stored, diskVars
<1>5. CASE IngestNoOverlap
  <2>1. UNCHANGED <<memVars, flushChan, diskVars>> /\ vpc' # "store"
    BY <1>5 DEF IngestNoOverlap
  <2>2. Objects'
    BY <1>1, <1>2, <2>1, ObjectsSame DEF memVars, At, Callers
  <2>3. QED
    BY <1>1, <1>2, <2>1, <2>2 DEF MemTypes, Counters, TaskTypes, Stored, memVars, diskVars
<1>6. CASE IngestStore
  <2>1. /\ StoreTables("vlog") /\ vpc = "store" /\ vpc' # "store" /\ "vlog" \in Callers /\ UNCHANGED flushChan
        /\ UNCHANGED <<nextMem, content, mpc, built, l0, disk, head, deleted>>
    BY <1>6 DEF IngestStore, StoreTables, Callers
  <2>2. Objects' /\ TaskTypes'
    BY <1>1, <1>2, <2>1, ObjectsStore, TasksStore DEF At, Callers, Counters
  <2>3. QED
    BY <1>1, <1>2, <2>1, <2>2 DEF MemTypes, Counters, Stored
<1>7. CASE IngestSend
  <2>1. /\ SendTask("vlog") /\ vpc' # "store" /\ "vlog" \in Callers
        /\ UNCHANGED <<nextMem, content, diskVars, tbls, newTbls>>
    BY <1>7 DEF IngestSend, SendTask, Callers
  <2>2. Objects' /\ TaskTypes'
    BY <1>1, <1>2, <2>1, ObjectsSame, TasksSend DEF At, Callers
  <2>3. QED
    BY <1>1, <1>2, <2>1, <2>2 DEF MemTypes, Counters, Stored, diskVars
<1>8. QED
  BY <1>3, <1>4, <1>5, <1>6, <1>7 DEF RunWriteVLog

LEMMA MemTypesFlush ==
    ASSUME MemTypes, RunFlushMemTable
    PROVE  MemTypes'
<1>1. Counters /\ Objects /\ TaskTypes /\ Stored
  BY DEF MemTypes
<1>2. UNCHANGED <<vpc, lpc, closing, mine, logOff, nextMem, content, newTbls, task>>
  BY DEF RunFlushMemTable, vlogVars, lsmVars
<1>3. CASE TakeTask
  <2>1. TaskTypes' /\ mpc' \in {"exited", "build"}
    BY <1>1, <1>2, <1>3, TasksTake
  <2>2. UNCHANGED <<built, l0, disk, head, deleted, tbls>>
    BY <1>3 DEF TakeTask
  <2>3. Objects'
    BY <1>1, <1>2, <2>2, ObjectsSame DEF At
  <2>4. QED
    BY <1>1, <1>2, <2>1, <2>2, <2>3 DEF MemTypes, Counters, Stored
<1>4. CASE WriteLevel0Table \/ AddToManifest \/ ManifestRefuses \/ AddLevel0Table \/ LoadFlushed
  <2>1. UNCHANGED <<ft, tbls, flushChan, deleted>>
    BY <1>4 DEF WriteLevel0Table, AddToManifest, ManifestRefuses, AddLevel0Table, LoadFlushed
  <2>2. Objects' /\ TaskTypes'
    BY <1>1, <1>2, <2>1, ObjectsSame DEF At, TaskTypes
  <2>3. ft.mt \in Mems /\ ft.off \in Nat
    BY <1>1, TaskFields DEF TaskTypes
  <2>4. CASE WriteLevel0Table
    BY <1>1, <1>2, <2>1, <2>2, <2>3, <2>4 DEF WriteLevel0Table, MemTypes, Counters, Stored
  <2>5. CASE AddToManifest
    <3>1. head' \in Nat
      BY <1>1, <2>3, <2>5 DEF AddToManifest, HeadOfTask, Counters
    <3>2. disk' \in EntrySets
      BY <1>1, <2>5 DEF AddToManifest, Stored, EntrySets
    <3>3. QED
      BY <1>1, <1>2, <2>1, <2>2, <2>5, <3>1, <3>2 DEF AddToManifest, MemTypes, Counters, Stored
  <2>6. CASE ManifestRefuses \/ LoadFlushed
    BY <1>1, <1>2, <2>1, <2>2, <2>6 DEF ManifestRefuses, LoadFlushed, MemTypes, Counters, Stored
  <2>7. CASE AddLevel0Table
    <3>1. l0' \in Seq(EntrySets) /\ built' \in EntrySets
      <4>1. l0' = Append(l0, built) /\ built' = {} /\ {} \in EntrySets
        BY <2>7 DEF AddLevel0Table, Level0Extended, EntrySets
      <4>2. QED
        BY <1>1, <4>1, AppendFacts DEF Stored
    <3>2. QED
      BY <1>1, <1>2, <2>1, <2>2, <2>7, <3>1 DEF AddLevel0Table, MemTypes, Counters, Stored
  <2>8. QED
    BY <1>4, <2>4, <2>5, <2>6, <2>7
<1>5. CASE LowerLength
  <2>1. UNCHANGED <<ft, built, l0, disk, head, deleted, flushChan>> /\ mpc' = "delete" /\ tbls' = Lowered
    BY <1>5 DEF LowerLength
  <2>2. Sound(tbls)'
    BY <1>1, <2>1, LoweredFact DEF Objects, Sound
  <2>3. Objects'
    BY <1>1, <1>2, <2>2 DEF Objects, At, Sound
  <2>4. QED
    BY <1>1, <1>2, <2>1, <2>3 DEF MemTypes, Counters, Stored, TaskTypes
<1>6. CASE DeleteMemTable
  <2>1. /\ UNCHANGED <<built, l0, disk, head, tbls, flushChan>> /\ mpc' = "recv" /\ ft' = NoTask
        /\ deleted' = deleted \cup {ft.mt}
    BY <1>6 DEF DeleteMemTable
  <2>2. ft.mt \in Mems
    BY <1>1, TaskFields DEF TaskTypes
  <2>3. Objects'
    BY <1>1, <1>2, <2>1, ObjectsSame DEF At
  <2>4. QED
    BY <1>1, <1>2, <2>1, <2>2, <2>3, NoTaskType DEF MemTypes, Counters, Stored, TaskTypes
<1>7. QED
  BY <1>3, <1>4, <1>5, <1>6 DEF RunFlushMemTable

LEMMA MemTypesClose ==
    ASSUME MemTypes, CloseGoesOn
    PROVE  MemTypes'
<1>1. Counters /\ Objects /\ TaskTypes /\ Stored
  BY DEF MemTypes
<1>2. UNCHANGED <<vpc, lpc, mine, logOff>>
  BY DEF CloseGoesOn, vlogVars, lsmVars
<1>3. CASE CloseMemTable
  <2>1. UNCHANGED <<nextMem, flushChan, diskVars, content>>
    BY <1>3 DEF CloseMemTable, MakeTables
  <2>2. CASE MakeTables("close", 0) /\ closing' = "store"
    <3>1. 0 \in Mems /\ "close" \in Callers
      BY WritePathAssumption DEF Mems, Callers
    <3>2. Objects' /\ TaskTypes'
      BY <1>1, <1>2, <2>1, <2>2, <3>1, ObjectsMake, TasksMake DEF At, Callers, diskVars
    <3>3. QED
      BY <1>1, <1>2, <2>1, <2>2, <3>2 DEF MemTypes, Counters, Stored, diskVars
  <2>3. CASE UNCHANGED <<tbls, newTbls, task>> /\ closing' = "quit"
    <3>1. Objects'
      BY <1>1, <1>2, <2>3, ObjectsSame DEF At, Callers
    <3>2. QED
      BY <1>1, <1>2, <2>1, <2>3, <3>1 DEF MemTypes, Counters, Stored, diskVars, TaskTypes
  <2>4. QED
    BY <1>3, <2>2, <2>3 DEF CloseMemTable
<1>4. CASE CloseStore
  <2>1. /\ StoreTables("close") /\ closing = "store" /\ closing' = "flush" /\ "close" \in Callers
        /\ UNCHANGED flushChan
        /\ UNCHANGED <<nextMem, content, mpc, built, l0, disk, head, deleted>>
    BY <1>4 DEF CloseStore, StoreTables, Callers
  <2>2. Objects' /\ TaskTypes'
    BY <1>1, <1>2, <2>1, ObjectsStore, TasksStore DEF At, Callers, Counters
  <2>3. QED
    BY <1>1, <1>2, <2>1, <2>2 DEF MemTypes, Counters, Stored
<1>5. CASE CloseSend
  <2>1. /\ SendTask("close") /\ closing' = "quit" /\ "close" \in Callers
        /\ UNCHANGED <<nextMem, content, diskVars, tbls, newTbls>>
    BY <1>5 DEF CloseSend, SendTask, Callers
  <2>2. Objects' /\ TaskTypes'
    BY <1>1, <1>2, <2>1, ObjectsSame, TasksSend DEF At, Callers
  <2>3. QED
    BY <1>1, <1>2, <2>1, <2>2 DEF MemTypes, Counters, Stored, diskVars
<1>6. CASE CloseQuit \/ CloseEnd
  <2>1. UNCHANGED <<memVars, diskVars>> /\ closing' \in {"wait", "closed"}
    BY <1>6 DEF CloseQuit, CloseEnd
  <2>2. flushChan' \in Seq(Tasks)
    BY <1>1, <1>6, AppendFacts, NoTaskType DEF CloseQuit, CloseEnd, Quit, TaskTypes
  <2>3. Objects'
    BY <1>1, <1>2, <2>1, ObjectsSame DEF At, Callers, memVars
  <2>4. QED
    BY <1>1, <1>2, <2>1, <2>2, <2>3 DEF MemTypes, Counters, Stored, diskVars, TaskTypes, memVars
<1>7. QED
  BY <1>3, <1>4, <1>5, <1>6 DEF CloseGoesOn

LEMMA MemTypesNext ==
    ASSUME LogTypes, MemTypes, AheadPipe, [Next]_vars
    PROVE  MemTypes'
<1>1. CASE RunFlusher \/ (\E r \in Reqs : SendToWriteCh(r)) \/ CloseBegin \/ UNCHANGED vars
  <2>1. UNCHANGED <<vpc, lpc, mine, logOff, memVars, flushChan, diskVars>>
    BY <1>1 DEF RunFlusher, SendToWriteCh, CloseBegin, vars, vlogVars, lsmVars
  <2>2. closing' = closing \/ closing' = "writes"
    BY <1>1 DEF RunFlusher, SendToWriteCh, CloseBegin, vars
  <2>3. Objects'
    BY <2>1, <2>2, ObjectsSame DEF At, Callers, memVars, MemTypes
  <2>4. QED
    BY <2>1, <2>2, <2>3 DEF MemTypes, Counters, Stored, diskVars, TaskTypes, memVars
<1>2. QED
  BY <1>1, MemTypesLSM, MemTypesVLog, MemTypesFlush, MemTypesClose DEF Next

-----------------------------------------------------------------------------

-----------------------------------------------------------------------------
(* Nothing is applied before it is logged and synced. *)

LEMMA LogGrows ==
    ASSUME LogTypes, [Next]_vars
    PROVE  InSeq(log) \subseteq InSeq(log') /\ Safe \subseteq Safe'
<1>1. log \in Seq(Reqs) /\ writeCh \in Seq(Reqs)
  BY DEF LogTypes, Batches
<1>2. CASE RunWriteVLog
  <2>1. log' = log \/ log' = log \o writeCh
    BY <1>2 DEF RunWriteVLog, WriteVLog, WriteVLogFails, SendBatch, CloseWriteVLog, CloseWriteVLogFails,
       IngestBegin, vlogVars
  <2>2. InSeq(log) \subseteq InSeq(log')
    <3>1. InSeq(log) \subseteq InSeq(log \o writeCh)
      BY <1>1, InSeqConcat
    <3>2. QED
      BY <2>1, <3>1, Zenon
  <2>3. synced \subseteq synced' /\ sync' = sync
    BY <1>2 DEF RunWriteVLog, WriteVLog, WriteVLogFails, SendBatch, CloseWriteVLog, CloseWriteVLogFails,
       IngestBegin
  <2>4. QED
    BY <2>2, <2>3 DEF Safe
<1>3. CASE RunFlusher
  <2>1. log' = log /\ sync' = sync
    BY <1>3 DEF RunFlusher, vlogVars
  <2>2. synced \subseteq synced'
    BY <1>3 DEF RunFlusher, Fdatasync, FdatasyncFails, FlusherSend, FlusherExit
  <2>3. QED
    BY <2>1, <2>2 DEF Safe
<1>4. CASE \/ RunWriteLSM \/ RunFlushMemTable \/ CloseBegin \/ CloseGoesOn
           \/ (\E r \in Reqs : SendToWriteCh(r)) \/ UNCHANGED vars
  <2>1. log' = log /\ sync' = sync /\ synced' = synced
    BY <1>4 DEF RunWriteLSM, RunFlushMemTable, CloseBegin, CloseGoesOn, SendToWriteCh, vars, vlogVars
  <2>2. QED
    BY <2>1 DEF Safe
<1>5. QED
  BY <1>2, <1>3, <1>4 DEF Next

LEMMA AheadPipeVLog ==
    ASSUME LogTypes, AheadPipe, RunWriteVLog, InSeq(log) \subseteq InSeq(log'), Safe \subseteq Safe'
    PROVE  AheadPipe'
<1>1. log \in Seq(Reqs) /\ writeCh \in Seq(Reqs)
  BY DEF LogTypes, Batches
<1>2. lbatch' = lbatch /\ sync' = sync
  BY DEF RunWriteVLog, lsmVars
<1>3. CASE SendBatch
  <2>1. InSeq(vbatch') = {} /\ log' = log
    BY <1>3, InSeqEmpty DEF SendBatch
  <2>2. CASE fpc' = "sync" /\ fbatch' = vbatch /\ writeLSMCh' = writeLSMCh
    BY <1>2, <2>1, <2>2 DEF AheadPipe
  <2>3. CASE ~sync /\ writeLSMCh' = <<vbatch>> /\ UNCHANGED flushVars
    <3>1. InChan(writeLSMCh') = InSeq(vbatch)
      BY <2>3, InChanOne
    <3>2. InSeq(vbatch) \subseteq Safe'
      BY <1>2, <2>1, <2>3 DEF AheadPipe, Safe
    <3>3. QED
      BY <1>2, <2>1, <2>3, <3>1, <3>2 DEF AheadPipe, flushVars
  <2>4. QED
    BY <1>3, <2>2, <2>3 DEF SendBatch, ThroughFlusher
<1>4. CASE UNCHANGED <<flushVars, writeLSMCh>> /\ (vbatch' = vbatch \/ (vbatch' = writeCh /\ log' = log \o writeCh))
  <2>1. InSeq(vbatch') \subseteq InSeq(log')
    <3>1. CASE vbatch' = vbatch
      BY <3>1 DEF AheadPipe
    <3>2. CASE vbatch' = writeCh /\ log' = log \o writeCh
      BY <1>1, <3>2, InSeqConcat
    <3>3. QED
      BY <1>4, <3>1, <3>2
  <2>2. QED
    BY <1>2, <1>4, <2>1 DEF AheadPipe, flushVars
<1>5. ~SendBatch => UNCHANGED <<flushVars, writeLSMCh>>
  BY DEF RunWriteVLog, WriteVLog, WriteVLogFails, CloseWriteVLog, CloseWriteVLogFails, IngestBegin
<1>6. ~SendBatch => vbatch' = vbatch \/ (vbatch' = writeCh /\ log' = log \o writeCh)
  BY DEF RunWriteVLog, WriteVLog, WriteVLogFails, CloseWriteVLog, CloseWriteVLogFails, IngestBegin,
     vlogVars
<1>7. QED
  BY <1>3, <1>4, <1>5, <1>6

LEMMA AheadPipeFlusher ==
    ASSUME LogTypes, AheadPipe, RunFlusher, InSeq(log) \subseteq InSeq(log'), Safe \subseteq Safe'
    PROVE  AheadPipe'
<1>1. lbatch' = lbatch /\ vbatch' = vbatch /\ log' = log
  BY DEF RunFlusher, lsmVars, vlogVars
<1>2. CASE Fdatasync
  <2>1. fbatch' = fbatch /\ writeLSMCh' = writeLSMCh /\ synced' = synced \cup InSeq(fbatch)
    BY <1>2 DEF Fdatasync
  <2>2. InSeq(fbatch') \subseteq Safe'
    BY <1>1, <2>1 DEF AheadPipe, Safe
  <2>3. QED
    BY <1>1, <2>1, <2>2 DEF AheadPipe
<1>3. CASE FdatasyncFails \/ FlusherExit
  <2>1. writeLSMCh' = writeLSMCh /\ fpc' # "send" /\ (fbatch' = fbatch \/ InSeq(fbatch') = {})
    BY <1>3, InSeqEmpty DEF FdatasyncFails, FlusherExit
  <2>2. QED
    BY <1>1, <2>1 DEF AheadPipe
<1>4. CASE FlusherSend
  <2>1. fpc = "send" /\ fpc' = "select" /\ InSeq(fbatch') = {} /\ InChan(writeLSMCh') = InSeq(fbatch)
    BY <1>4, InSeqEmpty, InChanOne DEF FlusherSend
  <2>2. QED
    BY <1>1, <2>1 DEF AheadPipe
<1>5. QED
  BY <1>2, <1>3, <1>4 DEF RunFlusher

LEMMA AheadPipeLSM ==
    ASSUME LogTypes, AheadPipe, RunWriteLSM, InSeq(log) \subseteq InSeq(log'), Safe \subseteq Safe'
    PROVE  AheadPipe'
<1>1. fbatch' = fbatch /\ fpc' = fpc /\ vbatch' = vbatch /\ log' = log
  BY DEF RunWriteLSM, flushVars, vlogVars
<1>2. CASE RecvBatch
  <2>1. Len(writeLSMCh) = 1 /\ Head(writeLSMCh) = writeLSMCh[1]
    BY <1>2, Single DEF RecvBatch, LogTypes, Channel
  <2>2. lbatch' = writeLSMCh[1] /\ InChan(writeLSMCh') = {}
    BY <1>2, <2>1, InChanEmpty DEF RecvBatch
  <2>3. InSeq(lbatch') \subseteq InChan(writeLSMCh)
    BY <2>1, <2>2 DEF InChan
  <2>4. QED
    BY <1>1, <2>2, <2>3 DEF AheadPipe
<1>3. CASE PutEntries
  <2>1. writeLSMCh' = writeLSMCh /\ (lbatch' = lbatch \/ InSeq(lbatch') = {})
    BY <1>3, InSeqEmpty DEF PutEntries
  <2>2. QED
    BY <1>1, <2>1 DEF AheadPipe
<1>4. CASE WriteLSMExit \/ LoadTables \/ MakeRoom \/ RoomStore \/ RoomSend
  <2>1. writeLSMCh' = writeLSMCh /\ lbatch' = lbatch
    BY <1>4 DEF WriteLSMExit, LoadTables, MakeRoom, RoomStore, RoomSend
  <2>2. QED
    BY <1>1, <2>1 DEF AheadPipe
<1>5. QED
  BY <1>2, <1>3, <1>4 DEF RunWriteLSM

LEMMA AheadPipeNext ==
    ASSUME LogTypes, AheadPipe, [Next]_vars
    PROVE  AheadPipe'
<1>1. InSeq(log) \subseteq InSeq(log') /\ Safe \subseteq Safe'
  BY LogGrows
<1>2. CASE RunFlushMemTable \/ CloseGoesOn \/ CloseBegin \/ (\E r \in Reqs : SendToWriteCh(r)) \/ UNCHANGED vars
  <2>1. UNCHANGED <<vbatch, fbatch, fpc, writeLSMCh, lbatch>>
    BY Zenon, <1>2 DEF RunFlushMemTable, CloseGoesOn, CloseBegin, SendToWriteCh, vars, vlogVars, flushVars, lsmVars
  <2>2. QED
    BY <1>1, <2>1 DEF AheadPipe
<1>3. QED
  BY <1>1, <1>2, AheadPipeVLog, AheadPipeFlusher, AheadPipeLSM DEF Next

LEMMA AheadStoredNext ==
    ASSUME LogTypes, MemTypes, AheadPipe, AheadStored, [Next]_vars
    PROVE  AheadStored'
<1>1. Safe \subseteq Safe'
  BY LogGrows
<1>2. CASE PutEntries /\ UNCHANGED diskVars
  <2>1. Request \in Safe
    <3>1. content \in [Mems -> SUBSET Entries] /\ mine \in Mems /\ Applying
      BY DEF MemTypes, Counters, Stored, EntrySets, LogTypes
    <3>2. Request \in InSeq(lbatch)
      BY Zenon, <1>2, <3>1, Puts DEF PutEntries
    <3>3. QED
      BY <3>2 DEF AheadPipe
  <2>2. \A m \in Mems : \A e \in content'[m] : e \in content[m] \/ e[1] = Request
    <3>1. content \in [Mems -> EntrySets] /\ mine \in Mems
      BY DEF MemTypes, Stored, Counters
    <3>2. content' = [content EXCEPT ![mine] = @ \cup {<<Request, i>> : i \in Fitting}]
      BY Zenon, <1>2 DEF PutEntries
    <3>3. QED
      BY <3>1, <3>2
  <2>3. built' = built /\ l0' = l0
    BY <1>2 DEF diskVars
  <2>4. QED
    BY Zenon, <1>1, <2>1, <2>2, <2>3 DEF AheadStored
<1>3. CASE WriteLevel0Table /\ UNCHANGED content
  <2>1. ft.mt \in Mems
    BY TaskFields DEF MemTypes, TaskTypes
  <2>2. QED
    BY Zenon, <1>1, <1>3, <2>1 DEF WriteLevel0Table, AheadStored
<1>4. CASE AddLevel0Table /\ UNCHANGED content
  <2>1. l0' = Append(l0, built) /\ built' = {} /\ content' = content
    BY <1>4 DEF AddLevel0Table, Level0Extended
  <2>2. /\ Len(l0) \in Nat /\ Len(l0') = Len(l0) + 1
        /\ \A i \in 1..Len(l0) : l0'[i] = l0[i]
        /\ l0'[Len(l0) + 1] = built
    BY <2>1, AppendFacts, LenFacts DEF MemTypes, Stored
  <2>3. \A i \in 1..Len(l0') : \A e \in l0'[i] : e[1] \in Safe'
    BY <1>1, <2>2 DEF AheadStored
  <2>4. QED
    BY Zenon, <1>1, <2>1, <2>3 DEF AheadStored
<1>5. CASE UNCHANGED <<content, built, l0>>
  BY <1>1, <1>5 DEF AheadStored
<1>6. CASE RunWriteLSM /\ ~PutEntries
  <2>1. UNCHANGED <<content, built, l0>>
    BY <1>6 DEF RunWriteLSM, RecvBatch, WriteLSMExit, LoadTables, MakeRoom, RoomStore, RoomSend,
       TakeMemTable, MakeTables, StoreTables, SendTask, memVars, diskVars
  <2>2. QED
    BY <1>5, <2>1
<1>7. CASE RunWriteLSM /\ PutEntries
  BY <1>2, <1>7 DEF PutEntries
<1>8. CASE RunFlushMemTable
  <2>1. CASE TakeTask \/ AddToManifest \/ ManifestRefuses \/ LoadFlushed \/ LowerLength \/ DeleteMemTable
    <3>1. UNCHANGED <<content, built, l0>>
      BY <1>8, <2>1 DEF RunFlushMemTable, TakeTask, AddToManifest, ManifestRefuses, LoadFlushed,
         LowerLength, DeleteMemTable
    <3>2. QED
      BY <1>5, <3>1
  <2>2. QED
    BY <1>3, <1>4, <1>8, <2>1 DEF RunFlushMemTable
<1>9. CASE RunWriteVLog
  <2>1. UNCHANGED <<content, built, l0>>
    BY <1>9 DEF RunWriteVLog, IngestFlush, IngestNoOverlap, IngestStore, IngestSend,
       TakeMemTable, MakeTables, StoreTables, SendTask, memVars, diskVars
  <2>2. QED
    BY <1>5, <2>1
<1>10. CASE CloseGoesOn
  <2>1. UNCHANGED <<content, built, l0>>
    BY <1>10 DEF CloseGoesOn, CloseMemTable, CloseStore, CloseSend, CloseQuit, CloseEnd,
       MakeTables, StoreTables, SendTask, memVars, diskVars
  <2>2. QED
    BY <1>5, <2>1
<1>11. CASE RunFlusher \/ (\E r \in Reqs : SendToWriteCh(r)) \/ CloseBegin \/ UNCHANGED vars
  <2>1. UNCHANGED <<content, built, l0>>
    BY Zenon, <1>11 DEF RunFlusher, SendToWriteCh, CloseBegin, vars, memVars, diskVars
  <2>2. QED
    BY <1>5, <2>1
<1>12. QED
  BY <1>6, <1>7, <1>8, <1>9, <1>10, <1>11 DEF Next

LEMMA GroundedNext == Grounded /\ [Next]_vars => Grounded'
<1> SUFFICES ASSUME Grounded, [Next]_vars PROVE Grounded'
  OBVIOUS
<1>1. LogTypes /\ MemTypes /\ AheadPipe /\ AheadStored
  BY DEF Grounded
<1>2. QED
  BY <1>1, LogTypesNext, MemTypesNext, AheadPipeNext, AheadStoredNext DEF Grounded

LEMMA GroundedInit == Counted /\ Init => Grounded
<1> SUFFICES ASSUME Counted, Init PROVE AheadPipe /\ AheadStored
  BY LogTypesInit, MemTypesInit DEF Grounded
<1>1. AheadPipe
  <2>1. vbatch = <<>> /\ fbatch = <<>> /\ writeLSMCh = <<>> /\ lbatch = <<>>
    BY DEF Init
  <2>2. InSeq(vbatch) = {} /\ InSeq(fbatch) = {} /\ InChan(writeLSMCh) = {} /\ InSeq(lbatch) = {}
    BY <2>1, InSeqEmpty, InChanEmpty
  <2>3. QED
    BY <2>2 DEF AheadPipe
<1>2. AheadStored
  <2>1. (\A m \in Mems : content[m] = {}) /\ built = {} /\ Len(l0) = 0
    BY DEF Init
  <2>2. 1..Len(l0) = {}
    BY <2>1
  <2>3. QED
    BY Zenon, <2>1, <2>2 DEF AheadStored
<1>3. QED
  BY <1>1, <1>2

-----------------------------------------------------------------------------
(* Entries and their positions *)

LEMMA EntryFields ==
    ASSUME NEW e \in Entries
    PROVE  e[1] \in Reqs /\ e[2] \in 1..PerReq /\ e = <<e[1], e[2]>>
BY DEF Entries

LEMMA RequestNumber ==
    ASSUME NEW lg \in Seq(Reqs), NEW r \in InSeq(lg)
    PROVE  r \in Nat
<1>1. r \in Reqs
  BY InSeqType
<1>2. QED
  BY <1>1 DEF Reqs

LEMMA PosIndex ==
    ASSUME NEW lg \in Seq(Reqs), NEW e, e[1] \in InSeq(lg), e[2] \in 1..PerReq
    PROVE  /\ PosIn(lg, e) \in Nat
           /\ \E i \in Nat : /\ i \in 1..Len(lg) /\ lg[i] = e[1]
                             /\ i * PerReq \in Nat
                             /\ PosIn(lg, e) = i * PerReq - PerReq + e[2]
<1>1. e[2] \in Nat /\ PerReq \in Nat /\ Len(lg) \in Nat
  BY WritePathAssumption, LenFacts
<1>2. PosIn(lg, e) \in Nat /\ \E i \in 1..Len(lg) : lg[i] = e[1] /\ PosIn(lg, e) = i * PerReq - PerReq + e[2]
  BY <1>1, PosFound
<1>3. \A i \in 1..Len(lg) : i \in Nat /\ i * PerReq \in Nat
  BY <1>1
<1>4. QED
  BY <1>2, <1>3

LEMMA PipelineLogged ==
    ASSUME AheadPipe
    PROVE  Pipeline \subseteq InSeq(log)
BY DEF AheadPipe, Safe, Pipeline, InLSMCh

LEMMA AnsweredIs ==
    ASSUME NEW reqs, NEW how, answer' = Answered(reqs, how)
    PROVE  /\ \A r \in Reqs : r \in InSeq(reqs) => answer'[r] = how
           /\ \A r \in Reqs : r \notin InSeq(reqs) => answer'[r] = answer[r]
BY DEF Answered

\* The entries that PutEntries adds come after all that are in the memtables.
LEMMA PutFacts ==
    ASSUME Placed, PutEntries
    PROVE  /\ logOff < logOff'
           /\ \A m \in Mems : content[m] \subseteq content'[m]
           /\ \A m \in Mems : m # mine => content'[m] = content[m]
           /\ \A e \in content'[mine] : e \in content[mine] \/
              (e \in Entries /\ PosIn(log, e) \in Nat /\ PosIn(log, e) > logOff)
<1>0. Grounded /\ Ordered /\ Positions /\ LogTypes
  BY DEF Placed, Grounded
<1>1. content \in [Mems -> SUBSET Entries] /\ mine \in Mems /\ Applying /\ logOff \in Nat
  BY <1>0 DEF Grounded, MemTypes, Counters, Stored, EntrySets, LogTypes
<1>2. PICK k \in 1..Len(lbatch), a \in 0..(PerReq - 1), n \in 1..PerReq :
         /\ Request = lbatch[k] /\ Request \in InSeq(lbatch) /\ Request \in Reqs
         /\ applied = k * PerReq - PerReq + a
         /\ applied % PerReq = a
         /\ a + n <= PerReq
         /\ Cardinality(Fitting) = n
         /\ Fitting = (a + 1)..(a + n)
  BY Zenon, <1>1, Puts DEF PutEntries
<1>3. /\ PerReq \in Nat /\ Len(lbatch) \in Nat /\ k \in Nat /\ k * PerReq \in Nat
      /\ a \in Nat /\ n \in Nat /\ n > 0
  BY <1>1, <1>2, WritePathAssumption, LenFacts DEF Applying
<1>4. \A i \in (a + 1)..(a + n) :
         <<Request, i>> \in Entries /\ <<Request, i>>[1] = Request /\ <<Request, i>>[2] = i /\ i \in 1..PerReq
  BY <1>2, <1>3 DEF Entries
<1>5. log \in Seq(Reqs) /\ Increasing(log) /\ Request \in InSeq(log)
  BY Zenon, <1>0, <1>2, PipelineLogged DEF LogTypes, Batches, Ordered, Rising, Pipeline, Grounded
<1>6. \A i \in (a + 1)..(a + n) : PosIn(log, <<Request, i>>) > logOff /\ PosIn(log, <<Request, i>>) \in Nat
  <2> SUFFICES ASSUME NEW i \in (a + 1)..(a + n)
               PROVE  PosIn(log, <<Request, i>>) > logOff /\ PosIn(log, <<Request, i>>) \in Nat
    OBVIOUS
  <2>1. k * PerReq - PerReq + i > applied
    BY <1>2, <1>3
  <2>2. Rest(<<Request, i>>)
    BY <1>2, <1>4, <2>1 DEF Rest
  <2>3. QED
    BY <1>0, <1>4, <1>5, <2>2, PosIndex DEF Positions
<1>7. logOff' = PosIn(log, <<Request, a + n>>)
  BY <1>2 DEF PutEntries, Pos, PosIn
<1>8. logOff < logOff'
  <2>1. a + n \in (a + 1)..(a + n)
    BY <1>3
  <2>2. QED
    BY <1>1, <1>6, <1>7, <2>1
<1>9. content' = [content EXCEPT ![mine] = @ \cup {<<Request, i>> : i \in (a + 1)..(a + n)}]
  BY <1>2 DEF PutEntries
<1>10. QED
  BY <1>1, <1>4, <1>6, <1>8, <1>9

LEMMA ContentTypes ==
    ASSUME Placed
    PROVE  /\ content \in [Mems -> SUBSET Entries] /\ Mems \subseteq Nat
           /\ \A m \in Mems : \A e \in content[m] :
                 e \in Entries /\ e[1] \in InSeq(log) /\ PosIn(log, e) \in Nat /\ PosIn(log, e) <= logOff
           /\ logOff \in Nat /\ log \in Seq(Reqs)
<1>1. /\ content \in [Mems -> SUBSET Entries] /\ logOff \in Nat /\ log \in Seq(Reqs)
      /\ AheadStored /\ Positions
  BY DEF Placed, Grounded, MemTypes, Counters, Stored, EntrySets, LogTypes, Batches
<1>2. Mems \subseteq Nat
  BY WritePathAssumption DEF Mems
<1>3. ASSUME NEW m \in Mems, NEW e \in content[m]
      PROVE  e \in Entries /\ e[1] \in InSeq(log) /\ PosIn(log, e) \in Nat /\ PosIn(log, e) <= logOff
  <2>1. e \in Entries /\ e[1] \in InSeq(log)
    BY <1>1 DEF AheadStored, Safe
  <2>2. PosIn(log, e) <= logOff
    BY <1>1, <2>1 DEF Positions, Put
  <2>3. QED
    BY <1>1, <2>1, <2>2, PosIndex, EntryFields
<1>4. QED
  BY <1>1, <1>2, <1>3

=============================================================================
