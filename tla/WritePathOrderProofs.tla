------------------------ MODULE WritePathOrderProofs ------------------------
(***************************************************************************)
(* Proofs about the write path, second part: requests are logged, batched  *)
(* and put into memtables in the order of sending, and an entry that is    *)
(* logged and not refused is in a memtable exactly when its place in the   *)
(* value log is not after logOff. Every step keeps Placed.                 *)
(***************************************************************************)
EXTENDS WritePathProofs

-----------------------------------------------------------------------------
(* The order of the requests *)

LEMMA IncreasingEmpty == Increasing(<<>>)
BY DEF Increasing

LEMMA IncreasingConcat ==
    ASSUME NEW s \in Seq(Reqs), NEW t \in Seq(Reqs), Increasing(s), Increasing(t),
           Below(InSeq(s), InSeq(t))
    PROVE  Increasing(s \o t)
<1>1. /\ Len(s) \in Nat /\ Len(t) \in Nat /\ Len(s \o t) = Len(s) + Len(t)
      /\ \A i \in 1..(Len(s) + Len(t)) :
            (s \o t)[i] = IF i <= Len(s) THEN s[i] ELSE t[i - Len(s)]
  BY ConcatFacts, LenFacts
<1> SUFFICES ASSUME NEW i \in 1..(Len(s) + Len(t)), NEW j \in 1..(Len(s) + Len(t)), i < j
             PROVE  (s \o t)[i] < (s \o t)[j]
  BY <1>1 DEF Increasing
<1>2. CASE j <= Len(s)
  BY <1>1, <1>2 DEF Increasing
<1>3. CASE i <= Len(s) /\ ~(j <= Len(s))
  <2>1. (s \o t)[i] = s[i] /\ i \in 1..Len(s) /\ (s \o t)[j] = t[j - Len(s)] /\ j - Len(s) \in 1..Len(t)
    BY <1>1, <1>3
  <2>2. s[i] \in InSeq(s) /\ t[j - Len(s)] \in InSeq(t)
    BY <2>1 DEF InSeq
  <2>3. QED
    BY <2>1, <2>2 DEF Below
<1>4. CASE ~(i <= Len(s))
  <2>1. /\ (s \o t)[i] = t[i - Len(s)] /\ i - Len(s) \in 1..Len(t)
        /\ (s \o t)[j] = t[j - Len(s)] /\ j - Len(s) \in 1..Len(t) /\ i - Len(s) < j - Len(s)
    BY <1>1, <1>4
  <2>2. QED
    BY <2>1 DEF Increasing
<1>5. QED
  BY <1>1, <1>2, <1>3, <1>4

LEMMA IncreasingAppend ==
    ASSUME NEW s \in Seq(Reqs), NEW x \in Reqs, Increasing(s), \A y \in InSeq(s) : y < x
    PROVE  Increasing(Append(s, x))
<1>1. /\ Len(s) \in Nat /\ Len(Append(s, x)) = Len(s) + 1
      /\ \A i \in 1..Len(s) : Append(s, x)[i] = s[i]
      /\ Append(s, x)[Len(s) + 1] = x
  BY AppendFacts, LenFacts
<1> SUFFICES ASSUME NEW i \in 1..(Len(s) + 1), NEW j \in 1..(Len(s) + 1), i < j
             PROVE  Append(s, x)[i] < Append(s, x)[j]
  BY <1>1 DEF Increasing
<1>2. i \in 1..Len(s) /\ Append(s, x)[i] = s[i] /\ s[i] \in InSeq(s)
  BY <1>1 DEF InSeq
<1>3. CASE j = Len(s) + 1
  BY <1>1, <1>2, <1>3
<1>4. CASE j # Len(s) + 1
  <2>1. j \in 1..Len(s)
    BY <1>1, <1>4
  <2>2. QED
    BY <1>1, <1>2, <2>1 DEF Increasing
<1>5. QED
  BY <1>3, <1>4

LEMMA OrderedInit == Init => Ordered
<1> SUFFICES ASSUME Init PROVE Ordered
  OBVIOUS
<1>1. /\ log = <<>> /\ writeCh = <<>> /\ vbatch = <<>> /\ fbatch = <<>> /\ lbatch = <<>>
      /\ writeLSMCh = <<>> /\ late = {} /\ closing = "open" /\ \A r \in Reqs : answer[r] = "unsent"
  BY DEF Init
<1>2. /\ InSeq(log) = {} /\ InSeq(writeCh) = {} /\ InSeq(vbatch) = {} /\ InSeq(fbatch) = {}
      /\ InSeq(lbatch) = {} /\ InLSMCh = {} /\ Len(writeLSMCh) = 0
  BY <1>1, InSeqEmpty, InChanEmpty DEF InLSMCh
<1>3. Rising
  BY <1>1, <1>2, IncreasingEmpty DEF Rising
<1>4. Apart
  BY <1>1, <1>2 DEF Apart, Below, Pipeline
<1>5. Answers
  BY <1>1, <1>2 DEF Answers, Pipeline
<1>6. HandsEmpty
  BY <1>1 DEF HandsEmpty, Init
<1>7. QED
  BY <1>3, <1>4, <1>5, <1>6 DEF Ordered

\* The sets that Apart and Answers are about are sets of requests.
LEMMA PipelineTypes ==
    ASSUME LogTypes, AheadPipe
    PROVE  InSeq(log) \subseteq Reqs /\ InSeq(writeCh) \subseteq Reqs /\ Pipeline \subseteq Reqs
<1>1. InSeq(log) \subseteq Reqs /\ InSeq(writeCh) \subseteq Reqs
  BY InSeqType DEF LogTypes, Batches
<1>2. QED
  BY <1>1, PipelineLogged

LEMMA OrderedSame ==
    ASSUME Ordered, UNCHANGED OrderVars, HandsEmpty'
    PROVE  Ordered'
<1>1. Rising' /\ Apart'
  BY DEF Ordered, OrderVars, Rising, Apart, Pipeline, InLSMCh
<1>2. Answers'
  BY DEF Ordered, OrderVars, Answers, Pipeline, InLSMCh
<1>3. QED
  BY <1>1, <1>2 DEF Ordered

\* What is queued is logged, and becomes the batch.
LEMMA OrderedTakes ==
    ASSUME LogTypes, AheadPipe, Ordered, vpc = "select", log' = log \o writeCh, vbatch' = writeCh,
           writeCh' = <<>>, vpc' \in {"send", "ingestSend"},
           UNCHANGED <<sync, answer, flushVars, writeLSMCh, lbatch, late, closing>>
    PROVE  Ordered'
<1>1. vbatch = <<>> /\ late = {} /\ log \in Seq(Reqs) /\ writeCh \in Seq(Reqs)
  BY DEF Ordered, HandsEmpty, LogTypes, Batches
<1>2. /\ InSeq(log') = InSeq(log) \cup InSeq(writeCh) /\ InSeq(writeCh') = {} /\ InSeq(vbatch) = {}
      /\ InSeq(vbatch') = InSeq(writeCh) /\ InSeq(fbatch') = InSeq(fbatch)
      /\ InSeq(lbatch') = InSeq(lbatch) /\ InLSMCh' = InLSMCh /\ late' = {}
  BY <1>1, InSeqConcat, InSeqEmpty DEF InLSMCh, flushVars
<1>3. Rising'
  <2>1. Increasing(log')
    BY <1>1, IncreasingConcat DEF Ordered, Rising, Apart
  <2>2. QED
    BY <2>1, IncreasingEmpty DEF Ordered, Rising, flushVars
<1>4. Pipeline \subseteq InSeq(log)
  BY PipelineLogged
<1>5. Apart'
  BY <1>2, <1>4 DEF Ordered, Apart, Below, Pipeline
<1>6. Answers'
  BY <1>2 DEF Ordered, Answers, Pipeline
<1>7. HandsEmpty'
  BY <1>1 DEF Ordered, HandsEmpty, flushVars
<1>8. QED
  BY <1>3, <1>5, <1>6, <1>7 DEF Ordered

\* What is queued is answered with an error.
LEMMA OrderedRefuses ==
    ASSUME LogTypes, AheadPipe, Ordered, vpc = "select", answer' = Answered(writeCh, "err"),
           writeCh' = <<>>, vpc' \in {"select", "exited"},
           UNCHANGED <<sync, log, vbatch, flushVars, writeLSMCh, lbatch, late, closing>>
    PROVE  Ordered'
<1>1. vbatch = <<>> /\ late = {} /\ InSeq(writeCh') = {}
  BY InSeqEmpty DEF Ordered, HandsEmpty
<1>2. Rising'
  BY IncreasingEmpty DEF Ordered, Rising, flushVars
<1>3. Pipeline' = Pipeline /\ InLSMCh' = InLSMCh
  BY DEF Pipeline, InLSMCh, flushVars
<1>4. Apart'
  BY <1>1, <1>3 DEF Ordered, Apart, Below, flushVars
<1>5. InSeq(log) \subseteq Reqs /\ InSeq(writeCh) \subseteq Reqs /\ Pipeline \subseteq InSeq(log)
  BY PipelineTypes, PipelineLogged
<1>6. /\ \A r \in Reqs : r \in InSeq(writeCh) => answer'[r] = "err" /\ answer[r] = "wait"
      /\ \A r \in Reqs : r \notin InSeq(writeCh) => answer'[r] = answer[r]
  BY AnsweredIs DEF Ordered, Answers
<1>7. \A r \in InSeq(log) : r \notin InSeq(writeCh)
  BY <1>5 DEF Ordered, Apart, Below, Reqs
<1>8. Answers'
  BY <1>1, <1>3, <1>5, <1>6, <1>7 DEF Ordered, Answers
<1>9. HandsEmpty'
  BY <1>1 DEF Ordered, HandsEmpty, flushVars
<1>10. QED
  BY <1>2, <1>4, <1>8, <1>9 DEF Ordered

\* closeWriteVLog logs and answers what is queued.
LEMMA OrderedLate ==
    ASSUME LogTypes, AheadPipe, Ordered, CloseWriteVLog, UNCHANGED <<sync, lbatch, closing>>
    PROVE  Ordered'
<1>1. /\ vbatch = <<>> /\ late = {} /\ log \in Seq(Reqs) /\ writeCh \in Seq(Reqs)
  BY DEF CloseWriteVLog, Ordered, HandsEmpty, LogTypes, Batches
<1>2. /\ vpc' = "exited" /\ log' = log \o writeCh /\ writeCh' = <<>> /\ late' = InSeq(writeCh)
      /\ answer' = Answered(writeCh, "ok")
      /\ UNCHANGED <<sync, vbatch, fbatch, fpc, writeLSMCh, lbatch, closing>>
  BY DEF CloseWriteVLog, LateAnswers, flushVars
<1>3. InSeq(log') = InSeq(log) \cup InSeq(writeCh) /\ InSeq(writeCh') = {}
  BY <1>1, <1>2, InSeqConcat, InSeqEmpty
<1>4. Pipeline' = Pipeline /\ InLSMCh' = InLSMCh
  BY <1>2 DEF Pipeline, InLSMCh
<1>5. Rising'
  <2>1. Increasing(log')
    BY <1>1, <1>2, IncreasingConcat DEF Ordered, Rising, Apart
  <2>2. QED
    BY <1>2, <2>1, IncreasingEmpty DEF Ordered, Rising
<1>6. InSeq(log) \subseteq Reqs /\ InSeq(writeCh) \subseteq Reqs /\ Pipeline \subseteq InSeq(log)
  BY PipelineTypes, PipelineLogged
<1>7. Apart'
  BY <1>2, <1>3, <1>4, <1>6 DEF Ordered, Apart, Below
<1>8. /\ \A r \in Reqs : r \in InSeq(writeCh) => answer'[r] = "ok" /\ answer[r] = "wait"
      /\ \A r \in Reqs : r \notin InSeq(writeCh) => answer'[r] = answer[r]
  BY <1>2, AnsweredIs DEF Ordered, Answers
<1>9. \A r \in InSeq(log) : r \notin InSeq(writeCh)
  BY <1>6 DEF Ordered, Apart, Below, Reqs
<1>10. Answers'
  BY <1>2, <1>3, <1>4, <1>6, <1>8, <1>9 DEF Ordered, Answers
<1>11. HandsEmpty'
  BY <1>1, <1>2 DEF Ordered, HandsEmpty
<1>12. QED
  BY <1>5, <1>7, <1>10, <1>11 DEF Ordered

LEMMA OrderedSends ==
    ASSUME LogTypes, AheadPipe, Ordered, SendBatch, UNCHANGED <<sync, lbatch, closing>>
    PROVE  Ordered'
<1>1. /\ vbatch' = <<>> /\ vpc' \in {"select", "ingest"} /\ vpc \in {"send", "ingestSend"}
      /\ UNCHANGED <<writeCh, answer, log, late>>
  BY DEF SendBatch
<1>2. InSeq(vbatch') = {} /\ late = {}
  BY <1>1, InSeqEmpty DEF Ordered, HandsEmpty
<1>3. CASE sync /\ fpc = "select" /\ fpc' = "sync" /\ fbatch' = vbatch /\ writeLSMCh' = writeLSMCh
  <2>1. InSeq(fbatch) = {} /\ InSeq(fbatch') = InSeq(vbatch) /\ InLSMCh' = InLSMCh
    BY <1>3, InSeqEmpty DEF Ordered, HandsEmpty, InLSMCh
  <2>2. Pipeline' = Pipeline
    BY <1>2, <2>1 DEF Pipeline
  <2>3. Rising'
    BY <1>1, <1>3, IncreasingEmpty DEF Ordered, Rising
  <2>4. Apart'
    BY <1>1, <1>2, <2>1, <2>2 DEF Ordered, Apart, Below
  <2>5. Answers'
    BY <1>1, <2>2 DEF Ordered, Answers
  <2>6. HandsEmpty'
    BY <1>1, <1>2, <1>3 DEF Ordered, HandsEmpty
  <2>7. QED
    BY <2>3, <2>4, <2>5, <2>6 DEF Ordered
<1>4. CASE writeLSMCh = <<>> /\ writeLSMCh' = <<vbatch>> /\ UNCHANGED flushVars /\ fbatch = <<>>
  <2>1. InSeq(fbatch) = {} /\ InSeq(fbatch') = {} /\ InLSMCh' = InSeq(vbatch) /\ InLSMCh = {}
    BY <1>4, InSeqEmpty, InChanEmpty, InChanOne DEF InLSMCh, flushVars
  <2>2. Pipeline' = Pipeline
    BY <1>2, <2>1 DEF Pipeline
  <2>3. Rising'
    <3>1. Len(<<vbatch>>) = 1 /\ <<vbatch>>[1] = vbatch
      OBVIOUS
    <3>2. \A i \in 1..Len(writeLSMCh') : Increasing(writeLSMCh'[i])
      BY <1>4, <3>1 DEF Ordered, Rising
    <3>3. QED
      BY <1>1, <1>4, <3>2, IncreasingEmpty DEF Ordered, Rising, flushVars
  <2>4. Apart'
    BY <1>1, <1>2, <2>1, <2>2 DEF Ordered, Apart, Below
  <2>5. Answers'
    BY <1>1, <2>2 DEF Ordered, Answers
  <2>6. HandsEmpty'
    BY <1>1, <1>2, <1>4 DEF Ordered, HandsEmpty, flushVars
  <2>7. QED
    BY <2>3, <2>4, <2>5, <2>6 DEF Ordered
<1>5. QED
  <2>1. CASE sync
    BY <1>3, <2>1 DEF SendBatch, ThroughFlusher
  <2>2. CASE ~sync
    <3>1. fbatch = <<>>
      BY <2>2 DEF Ordered, HandsEmpty
    <3>2. writeLSMCh = <<>> /\ writeLSMCh' = <<vbatch>> /\ UNCHANGED flushVars
      BY <2>2 DEF SendBatch, ThroughFlusher
    <3>3. QED
      BY <1>4, <3>1, <3>2
  <2>3. QED
    BY <2>1, <2>2

LEMMA OrderedVLog ==
    ASSUME LogTypes, AheadPipe, Ordered, RunWriteVLog
    PROVE  Ordered'
<1>1. CASE WriteVLog /\ UNCHANGED <<sync, lsmVars, closing>>
  BY <1>1, OrderedTakes DEF WriteVLog, lsmVars
<1>2. CASE WriteVLogFails /\ UNCHANGED <<sync, lsmVars, closing>>
  BY <1>2, OrderedRefuses DEF WriteVLogFails, lsmVars
<1>3. CASE SendBatch /\ UNCHANGED <<sync, lsmVars, closing>>
  BY <1>3, OrderedSends DEF lsmVars
<1>4. CASE CloseWriteVLog /\ UNCHANGED <<sync, lsmVars, closing>>
  BY <1>4, OrderedLate DEF lsmVars
<1>5. CASE CloseWriteVLogFails /\ UNCHANGED <<sync, lsmVars, closing>>
  BY <1>5, OrderedRefuses DEF CloseWriteVLogFails, lsmVars
<1>6. CASE IngestBegin /\ UNCHANGED <<sync, lsmVars, closing>>
  <2>1. CASE log' = log \o writeCh /\ vbatch' = writeCh /\ vpc' = "ingestSend" /\ UNCHANGED answer
    BY <1>6, <2>1, OrderedTakes DEF IngestBegin, lsmVars
  <2>2. CASE answer' = Answered(writeCh, "err") /\ UNCHANGED vlogVars
    BY <1>6, <2>2, OrderedRefuses DEF IngestBegin, lsmVars, vlogVars
  <2>3. QED
    BY <1>6, <2>1, <2>2 DEF IngestBegin
<1>7. CASE /\ IngestFlush \/ IngestNoOverlap \/ IngestStore \/ IngestSend
           /\ UNCHANGED <<sync, writeCh, answer, synced, vbatch, log, flushVars, writeLSMCh,
                          lsmClosed, lsmVars, closing, late, ingested, ioErrors>>
  <2>1. vpc \in {"ingest", "store", "flush"} /\ vpc' \in {"select", "store", "flush"}
    BY <1>7 DEF IngestFlush, IngestNoOverlap, IngestStore, IngestSend
  <2>2. UNCHANGED OrderVars /\ UNCHANGED <<sync, fpc, closing>>
    BY <1>7 DEF OrderVars, flushVars, lsmVars
  <2>3. HandsEmpty'
    BY <2>1, <2>2 DEF Ordered, HandsEmpty, OrderVars
  <2>4. QED
    BY <2>2, <2>3, OrderedSame
<1>8. QED
  BY <1>1, <1>2, <1>3, <1>4, <1>5, <1>6, <1>7 DEF RunWriteVLog

LEMMA OrderedFlusher ==
    ASSUME LogTypes, AheadPipe, Ordered, RunFlusher
    PROVE  Ordered'
<1>1. UNCHANGED <<sync, writeCh, vpc, vbatch, log, lbatch, closing, late>>
  BY DEF RunFlusher, vlogVars, lsmVars
<1>2. CASE Fdatasync \/ FlusherExit
  <2>1. UNCHANGED OrderVars
    BY <1>1, <1>2 DEF OrderVars, Fdatasync, FlusherExit
  <2>2. /\ fpc' \in {"send", "exited"} /\ fpc \in {"sync", "select"}
        /\ fpc = "select" => fpc' = "exited"
        /\ fpc = "sync" => fpc' = "send"
    BY <1>2 DEF Fdatasync, FlusherExit
  <2>3. HandsEmpty'
    BY <1>1, <2>1, <2>2 DEF Ordered, HandsEmpty, OrderVars
  <2>4. QED
    BY <2>1, <2>3, OrderedSame
<1>3. CASE FdatasyncFails
  <2>1. /\ fpc = "sync" /\ fpc' = "select" /\ fbatch' = <<>> /\ answer' = Answered(fbatch, "err")
        /\ writeLSMCh' = writeLSMCh
    BY <1>3 DEF FdatasyncFails
  <2>2. InSeq(fbatch') = {} /\ InLSMCh' = InLSMCh
    BY <2>1, InSeqEmpty DEF InLSMCh
  <2>3. /\ Pipeline' = InSeq(lbatch) \cup InLSMCh \cup InSeq(vbatch)
        /\ Pipeline = Pipeline' \cup InSeq(fbatch)
    BY <1>1, <2>2 DEF Pipeline
  <2>4. Rising'
    BY <1>1, <2>1, IncreasingEmpty DEF Ordered, Rising
  <2>5. Apart'
    BY <1>1, <2>2, <2>3 DEF Ordered, Apart, Below
  <2>6. InSeq(log) \subseteq Reqs /\ InSeq(writeCh) \subseteq Reqs /\ Pipeline \subseteq InSeq(log)
    BY PipelineTypes, PipelineLogged
  <2>7. /\ \A r \in Reqs : r \in InSeq(fbatch) => answer'[r] = "err" /\ answer[r] = "wait"
        /\ \A r \in Reqs : r \notin InSeq(fbatch) => answer'[r] = answer[r]
    BY <2>1, <2>3, AnsweredIs DEF Ordered, Answers
  <2>8. \A r \in Pipeline' \cup InSeq(writeCh) \cup late : r \notin InSeq(fbatch) /\ r \in Reqs
    BY <2>3, <2>6 DEF Ordered, Apart, Below, Reqs
  <2>9. Answers'
    BY <1>1, <2>3, <2>6, <2>7, <2>8 DEF Ordered, Answers
  <2>10. HandsEmpty'
    BY <1>1, <2>1 DEF Ordered, HandsEmpty
  <2>11. QED
    BY <2>4, <2>5, <2>9, <2>10 DEF Ordered
<1>4. CASE FlusherSend
  <2>1. /\ fpc = "send" /\ fpc' = "select" /\ fbatch' = <<>> /\ answer' = answer
        /\ writeLSMCh = <<>> /\ writeLSMCh' = <<fbatch>>
    BY <1>4 DEF FlusherSend
  <2>2. InSeq(fbatch') = {} /\ InLSMCh = {} /\ InLSMCh' = InSeq(fbatch)
    BY <2>1, InSeqEmpty, InChanEmpty, InChanOne DEF InLSMCh
  <2>3. Pipeline' = Pipeline
    BY <1>1, <2>2 DEF Pipeline
  <2>4. Rising'
    <3>1. Len(<<fbatch>>) = 1 /\ <<fbatch>>[1] = fbatch
      OBVIOUS
    <3>2. \A i \in 1..Len(writeLSMCh') : Increasing(writeLSMCh'[i])
      BY <2>1, <3>1 DEF Ordered, Rising
    <3>3. QED
      BY <1>1, <2>1, <3>2, IncreasingEmpty DEF Ordered, Rising
  <2>5. Apart'
    BY <1>1, <2>2, <2>3 DEF Ordered, Apart, Below
  <2>6. Answers'
    BY <1>1, <2>1, <2>3 DEF Ordered, Answers
  <2>7. HandsEmpty'
    BY <1>1, <2>1 DEF Ordered, HandsEmpty
  <2>8. QED
    BY <2>4, <2>5, <2>6, <2>7 DEF Ordered
<1>5. QED
  BY <1>2, <1>3, <1>4 DEF RunFlusher

LEMMA OrderedLSM ==
    ASSUME LogTypes, AheadPipe, Ordered, RunWriteLSM
    PROVE  Ordered'
<1>1. UNCHANGED <<sync, writeCh, vpc, vbatch, fpc, fbatch, log, closing, late>>
  BY DEF RunWriteLSM, vlogVars, flushVars
<1>2. HandsEmpty'
  BY <1>1 DEF Ordered, HandsEmpty
<1>3. CASE UNCHANGED <<answer, lbatch, writeLSMCh>>
  BY <1>1, <1>2, <1>3, OrderedSame DEF OrderVars
<1>4. CASE RecvBatch
  <2>1. writeLSMCh # <<>> /\ writeLSMCh' = <<>> /\ lbatch' = Head(writeLSMCh) /\ answer' = answer
        /\ lbatch = <<>>
    BY <1>4 DEF RecvBatch, LogTypes, Applying
  <2>2. Len(writeLSMCh) = 1 /\ Head(writeLSMCh) = writeLSMCh[1]
    BY <2>1, Single DEF LogTypes, Channel
  <2>3. InLSMCh = InSeq(lbatch')
    BY <2>1, <2>2 DEF InLSMCh, InChan
  <2>4. InLSMCh' = {} /\ InSeq(lbatch) = {}
    BY <2>1, InChanEmpty, InSeqEmpty DEF InLSMCh
  <2>5. Pipeline' = Pipeline
    BY <1>1, <2>3, <2>4 DEF Pipeline
  <2>6. Rising'
    <3>1. Increasing(lbatch')
      BY <2>1, <2>2 DEF Ordered, Rising
    <3>2. \A i \in 1..Len(writeLSMCh') : Increasing(writeLSMCh'[i])
      BY <2>1
    <3>3. QED
      BY <1>1, <3>1, <3>2 DEF Ordered, Rising
  <2>7. Apart'
    BY <1>1, <2>3, <2>4, <2>5 DEF Ordered, Apart, Below
  <2>8. Answers'
    BY <1>1, <2>1, <2>5 DEF Ordered, Answers
  <2>9. QED
    BY <1>2, <2>6, <2>7, <2>8 DEF Ordered
<1>5. CASE answer' = Answered(lbatch, "ok") /\ lbatch' = <<>> /\ writeLSMCh' = writeLSMCh
  <2>1. InSeq(lbatch') = {} /\ InLSMCh' = InLSMCh
    BY <1>5, InSeqEmpty DEF InLSMCh
  <2>2. /\ Pipeline' = InLSMCh \cup InSeq(fbatch) \cup InSeq(vbatch)
        /\ Pipeline = Pipeline' \cup InSeq(lbatch)
    BY <1>1, <2>1 DEF Pipeline
  <2>3. Rising'
    BY <1>1, <1>5, IncreasingEmpty DEF Ordered, Rising
  <2>4. Apart'
    BY <1>1, <2>1, <2>2 DEF Ordered, Apart, Below
  <2>5. InSeq(log) \subseteq Reqs /\ InSeq(writeCh) \subseteq Reqs /\ Pipeline \subseteq InSeq(log)
    BY PipelineTypes, PipelineLogged
  <2>6. /\ \A r \in Reqs : r \in InSeq(lbatch) => answer'[r] = "ok" /\ answer[r] = "wait"
        /\ \A r \in Reqs : r \notin InSeq(lbatch) => answer'[r] = answer[r]
    BY <1>5, <2>2, AnsweredIs DEF Ordered, Answers
  <2>7. \A r \in Pipeline' \cup InSeq(writeCh) \cup late : r \notin InSeq(lbatch) /\ r \in Reqs
    BY <2>2, <2>5 DEF Ordered, Apart, Below, Reqs
  <2>8. Answers'
    BY <1>1, <2>2, <2>5, <2>6, <2>7 DEF Ordered, Answers
  <2>9. QED
    BY <1>2, <2>3, <2>4, <2>8 DEF Ordered
<1>6. QED
  <2>1. CASE PutEntries
    BY <1>3, <1>5, <2>1 DEF PutEntries
  <2>2. CASE WriteLSMExit \/ LoadTables \/ MakeRoom \/ RoomStore \/ RoomSend
    BY <1>3, <2>2 DEF WriteLSMExit, LoadTables, MakeRoom, RoomStore, RoomSend
  <2>3. QED
    BY <1>4, <2>1, <2>2 DEF RunWriteLSM

LEMMA OrderedSend ==
    ASSUME LogTypes, AheadPipe, Ordered, NEW r \in Reqs, SendToWriteCh(r)
    PROVE  Ordered'
<1>1. /\ UNCHANGED <<sync, vpc, vbatch, fpc, fbatch, log, lbatch, writeLSMCh, closing, late>>
      /\ writeCh' = Append(writeCh, r) /\ answer' = [answer EXCEPT ![r] = "wait"]
      /\ answer[r] = "unsent" /\ \A q \in 1..(r - 1) : answer[q] # "unsent"
  BY DEF SendToWriteCh, vlogVars, flushVars, lsmVars
<1>2. HandsEmpty'
  BY <1>1 DEF Ordered, HandsEmpty
<1>3. InSeq(log) \subseteq Reqs /\ InSeq(writeCh) \subseteq Reqs /\ Pipeline \subseteq InSeq(log)
  BY PipelineTypes, PipelineLogged
<1>4. writeCh \in Seq(Reqs) /\ InSeq(writeCh') = InSeq(writeCh) \cup {r}
  BY <1>1, InSeqAppend DEF LogTypes, Batches
<1>5. \A q \in InSeq(log) \cup InSeq(writeCh) : q < r
  <2>1. SUFFICES ASSUME NEW q \in InSeq(log) \cup InSeq(writeCh) PROVE q < r
    OBVIOUS
  <2>2. q \in Reqs /\ answer[q] # "unsent"
    BY <1>3 DEF Ordered, Answers
  <2>3. q # r
    BY <1>1, <2>2
  <2>4. ~(r < q)
    BY <1>1, <2>2 DEF Ordered, Answers
  <2>5. QED
    BY <2>2, <2>3, <2>4 DEF Reqs
<1>6. Pipeline' = Pipeline /\ InLSMCh' = InLSMCh
  BY <1>1 DEF Pipeline, InLSMCh
<1>7. Rising'
  BY <1>1, <1>4, <1>5, IncreasingAppend DEF Ordered, Rising
<1>8. Apart'
  BY <1>1, <1>4, <1>5, <1>6 DEF Ordered, Apart, Below
<1>9. answer'[r] = "wait" /\ \A q \in Reqs : q # r => answer'[q] = answer[q]
  BY <1>1 DEF LogTypes, Requests
<1>10. Answers'
  <2>1. \A q \in Pipeline' \cup InSeq(writeCh') : answer'[q] = "wait"
    BY <1>3, <1>4, <1>6, <1>9 DEF Ordered, Answers
  <2>2. \A q \in late' : answer'[q] = "ok"
    BY <1>1, <1>3, <1>5, <1>9 DEF Ordered, Answers, Apart, Reqs
  <2>3. \A q \in Reqs : answer'[q] = "ok" => q \in InSeq(log')
    BY <1>1, <1>9 DEF Ordered, Answers
  <2>4. \A q \in InSeq(log') : answer'[q] # "unsent"
    BY <1>1, <1>3, <1>9 DEF Ordered, Answers
  <2>5. \A p, q \in Reqs : p < q /\ answer'[p] = "unsent" => answer'[q] = "unsent"
    <3>1. SUFFICES ASSUME NEW p \in Reqs, NEW q \in Reqs, p < q, answer'[p] = "unsent"
                   PROVE  answer'[q] = "unsent"
      OBVIOUS
    <3>2. p # r /\ answer[p] = "unsent" /\ answer[q] = "unsent"
      BY <1>9, <3>1 DEF Ordered, Answers
    <3>3. q # r
      BY <1>1, <3>1, <3>2 DEF Reqs
    <3>4. QED
      BY <1>9, <3>2, <3>3
  <2>6. QED
    BY <2>1, <2>2, <2>3, <2>4, <2>5 DEF Answers
<1>11. QED
  BY <1>2, <1>7, <1>8, <1>10 DEF Ordered

LEMMA OrderedNext ==
    ASSUME LogTypes, AheadPipe, Ordered, [Next]_vars
    PROVE  Ordered'
<1>1. CASE RunFlushMemTable \/ CloseBegin \/ CloseGoesOn \/ UNCHANGED vars
  <2>1. UNCHANGED OrderVars /\ UNCHANGED <<sync, vpc, fpc>>
    BY <1>1 DEF RunFlushMemTable, CloseBegin, CloseGoesOn, vars, OrderVars, vlogVars, flushVars, lsmVars
  <2>2. \/ closing' = closing \/ closing' = "writes" \/ vpc = "exited"
    BY <1>1 DEF RunFlushMemTable, CloseBegin, CloseGoesOn, CloseMemTable, CloseStore, CloseSend,
                CloseQuit, CloseEnd, vars, Ordered, HandsEmpty
  <2>3. HandsEmpty'
    BY <2>1, <2>2 DEF Ordered, HandsEmpty, OrderVars
  <2>4. QED
    BY <2>1, <2>3, OrderedSame
<1>2. QED
  BY <1>1, OrderedVLog, OrderedFlusher, OrderedLSM, OrderedSend DEF Next

-----------------------------------------------------------------------------
(* Positions in the log *)

-----------------------------------------------------------------------------
(* Positions in the log *)

LEMMA PosBound ==
    ASSUME NEW lg \in Seq(Reqs), NEW e, e[1] \in InSeq(lg), e[2] \in 1..PerReq
    PROVE  PosIn(lg, e) <= Len(lg) * PerReq
<1>1. PICK i \in 1..Len(lg) : PosIn(lg, e) = i * PerReq - PerReq + e[2]
  BY PosFound
<1>2. PerReq \in Nat /\ i \in Nat /\ Len(lg) \in Nat /\ i * PerReq \in Nat
  BY WritePathAssumption, LenFacts
<1>3. i * PerReq <= Len(lg) * PerReq
  <2>1. CASE i = Len(lg)
    BY <1>2, <2>1
  <2>2. CASE i < Len(lg)
    BY <1>2, <2>2, MulMono
  <2>3. QED
    BY <1>2, <2>1, <2>2
<1>4. Len(lg) * PerReq \in Nat
  BY <1>2
<1>5. QED
  BY <1>1, <1>2, <1>3, <1>4

LEMMA EntryAt ==
    ASSUME NEW x \in Nat, NEW y \in Nat, NEW p \in Nat, x + p <= y, NEW c \in 1..p, NEW d \in 1..p
    PROVE  x - p + c < y - p + d
OBVIOUS

\* The log is in the order of the requests, and of the entries of each.
LEMMA PosOrder ==
    ASSUME NEW lg \in Seq(Reqs), Increasing(lg), NEW e, NEW f,
           e[1] \in InSeq(lg), f[1] \in InSeq(lg), e[2] \in 1..PerReq, f[2] \in 1..PerReq
    PROVE  /\ e[1] < f[1] => PosIn(lg, e) < PosIn(lg, f)
           /\ e[1] = f[1] => PosIn(lg, f) - PosIn(lg, e) = f[2] - e[2]
<1>1. PICK i \in Nat : /\ i \in 1..Len(lg) /\ lg[i] = e[1] /\ i * PerReq \in Nat
                       /\ PosIn(lg, e) = i * PerReq - PerReq + e[2]
  BY PosIndex
<1>2. PICK j \in Nat : /\ j \in 1..Len(lg) /\ lg[j] = f[1] /\ j * PerReq \in Nat
                       /\ PosIn(lg, f) = j * PerReq - PerReq + f[2]
  BY PosIndex
<1>3. PerReq \in Nat /\ e[1] \in Nat /\ f[1] \in Nat
  BY WritePathAssumption, RequestNumber
<1>4. ASSUME e[1] < f[1] PROVE PosIn(lg, e) < PosIn(lg, f)
  <2>1. i # j
    BY <1>1, <1>2, <1>3, <1>4
  <2>2. ~(j < i)
    <3>1. ASSUME j < i PROVE f[1] < e[1]
      BY Zenon, <1>1, <1>2, <3>1 DEF Increasing
    <3>2. QED
      BY <3>1, <1>3, <1>4
  <2>3. i < j
    BY <2>1, <2>2
  <2>4. i * PerReq + PerReq <= j * PerReq
    BY <1>3, <2>3, MulMono
  <2>5. QED
    BY Zenon, <1>1, <1>2, <1>3, <2>4, EntryAt
<1>5. ASSUME e[1] = f[1] PROVE PosIn(lg, f) - PosIn(lg, e) = f[2] - e[2]
  <2>1. i = j
    BY <1>1, <1>2, <1>3, <1>5 DEF Increasing
  <2>2. QED
    BY <1>1, <1>2, <1>3, <2>1
<1>6. QED
  BY <1>4, <1>5

LEMMA PrefixConcat ==
    ASSUME NEW s \in Seq(Reqs), NEW t \in Seq(Reqs)
    PROVE  Prefix(s, s \o t) /\ s \o t \in Seq(Reqs)
BY ConcatFacts, LenFacts DEF Prefix

\* What is appended to the log leaves the positions as they are.
LEMMA PosAppend ==
    ASSUME NEW lg \in Seq(Reqs), NEW lh \in Seq(Reqs), Prefix(lg, lh), Increasing(lh),
           NEW e, e[1] \in InSeq(lg), e[2] \in 1..PerReq
    PROVE  PosIn(lh, e) = PosIn(lg, e)
<1>1. PICK i \in Nat : /\ i \in 1..Len(lg) /\ lg[i] = e[1]
                       /\ PosIn(lg, e) = i * PerReq - PerReq + e[2]
  BY PosIndex
<1>2. Len(lg) \in Nat /\ Len(lh) \in Nat
  BY LenFacts
<1>3. i \in 1..Len(lh) /\ lh[i] = e[1]
  BY <1>1, <1>2 DEF Prefix
<1>4. e[1] \in InSeq(lh) /\ e[1] \in Nat
  BY <1>3, RequestNumber DEF InSeq
<1>5. PICK j \in Nat : /\ j \in 1..Len(lh) /\ lh[j] = e[1]
                       /\ PosIn(lh, e) = j * PerReq - PerReq + e[2]
  BY <1>4, PosIndex
<1>6. i = j
  BY <1>3, <1>4, <1>5 DEF Increasing
<1>7. QED
  BY <1>1, <1>5, <1>6

LEMMA PosNew ==
    ASSUME NEW lg \in Seq(Reqs), NEW lh \in Seq(Reqs), Prefix(lg, lh),
           NEW e, e[1] \in InSeq(lh), e[1] \notin InSeq(lg), e[2] \in 1..PerReq
    PROVE  PosIn(lh, e) \in Nat /\ Len(lg) * PerReq \in Nat /\ PosIn(lh, e) > Len(lg) * PerReq
<1>1. /\ PosIn(lh, e) \in Nat
      /\ \E j \in Nat : /\ j \in 1..Len(lh) /\ lh[j] = e[1] /\ j * PerReq \in Nat
                        /\ PosIn(lh, e) = j * PerReq - PerReq + e[2]
  BY PosIndex
<1>2. PICK j \in Nat : /\ j \in 1..Len(lh) /\ lh[j] = e[1] /\ j * PerReq \in Nat
                       /\ PosIn(lh, e) = j * PerReq - PerReq + e[2]
  BY <1>1
<1>3. Len(lg) \in Nat /\ PerReq \in Nat
  BY WritePathAssumption, LenFacts
<1>4. Len(lg) < j
  <2>1. j \in 1..Len(lg) => lg[j] = e[1]
    BY <1>2 DEF Prefix
  <2>2. j \notin 1..Len(lg)
    BY <2>1 DEF InSeq
  <2>3. QED
    BY <1>2, <1>3, <2>2
<1>5. Len(lg) * PerReq \in Nat /\ Len(lg) * PerReq + PerReq <= j * PerReq
  BY Zenon, <1>3, <1>4, MulMono
<1>6. QED
  BY <1>1, <1>2, <1>3, <1>5

LEMMA PositionsInit == Init => Positions
<1> SUFFICES ASSUME Init PROVE Positions
  OBVIOUS
<1>1. /\ log = <<>> /\ vbatch = <<>> /\ fbatch = <<>> /\ lbatch = <<>> /\ logOff = 0
      /\ writeLSMCh = <<>> /\ late = {} /\ \A m \in Mems : content[m] = {}
  BY DEF Init
<1>2. Coming = {} /\ InSeq(log) = {}
  BY <1>1, InSeqEmpty, InChanEmpty DEF Coming, InLSMCh
<1>3. \A e : ~Put(e) /\ ~Rest(e) /\ ~Logged(e)
  BY <1>1, <1>2 DEF Put, Rest, Logged
<1>4. Len(log) * PerReq = 0
  BY <1>1, WritePathAssumption
<1>5. QED
  BY <1>1, <1>2, <1>3, <1>4 DEF Positions

LEMMA PositionsSame ==
    ASSUME Positions, UNCHANGED <<log, content, logOff, lbatch, applied>>, Coming' \subseteq Coming,
           \A r \in InSeq(log) : answer'[r] # "err" =>
              answer[r] # "err" /\ (r \in Coming => r \in Coming')
    PROVE  Positions'
<1>1. \A e : (Put(e)' <=> Put(e)) /\ (Rest(e)' <=> Rest(e)) /\ (Logged(e)' <=> Logged(e))
  BY DEF Put, Rest, Logged
<1>2. QED
  BY Zenon, <1>1 DEF Positions, Logged

LEMMA LeTrans == \A a, b, c \in Nat : a <= b /\ b <= c => a <= c
OBVIOUS

LEMMA PositionsLogged ==
    ASSUME LogTypes, Positions, logOff \in Nat, Ordered, log' = log \o writeCh,
           AheadStored, AheadPipe,
           Coming' = Coming \cup InSeq(writeCh), UNCHANGED <<content, logOff, lbatch, applied>>,
           Increasing(log'), \A r \in InSeq(log) : answer'[r] = answer[r]
    PROVE  Positions'
<1>1. log \in Seq(Reqs) /\ writeCh \in Seq(Reqs)
  BY Zenon DEF LogTypes, Batches
<1>2. InSeq(log') = InSeq(log) \cup InSeq(writeCh) /\ Prefix(log, log') /\ log' \in Seq(Reqs)
  <2>1. InSeq(log \o writeCh) = InSeq(log) \cup InSeq(writeCh)
    BY Zenon, <1>1, InSeqConcat
  <2>2. Prefix(log, log \o writeCh) /\ log \o writeCh \in Seq(Reqs)
    BY Zenon, <1>1, PrefixConcat
  <2>3. QED
    BY Zenon, <2>1, <2>2
<1>3. logOff' <= Len(log') * PerReq
  <2>1. PerReq \in Nat /\ Len(log) \in Nat /\ Len(log') \in Nat /\ Len(log) <= Len(log')
    BY Zenon, <1>1, <1>2, LenFacts, WritePathAssumption DEF Prefix
  <2>2. Len(log) * PerReq \in Nat /\ Len(log') * PerReq \in Nat
    BY <2>1
  <2>3. Len(log) * PerReq <= Len(log') * PerReq
    <3>1. CASE Len(log) < Len(log')
      BY <2>1, <2>2, <3>1, MulMono
    <3>2. CASE Len(log) = Len(log')
      BY <2>2, <3>2
    <3>3. QED
      BY <2>1, <3>1, <3>2
  <2>4. logOff <= Len(log) * PerReq
    BY Zenon DEF Positions
  <2>5. QED
    BY Zenon, <2>2, <2>3, <2>4, LeTrans
<1>4. \A e : (Put(e)' <=> Put(e)) /\ (Rest(e)' <=> Rest(e))
  BY DEF Put, Rest
<1>5. \A e \in Entries : e[1] \in InSeq(log) => PosIn(log', e) = PosIn(log, e)
  BY Zenon, <1>1, <1>2, PosAppend, EntryFields
<1>6. \A e \in Entries : e[1] \in InSeq(writeCh) => PosIn(log', e) > logOff
  <2> SUFFICES ASSUME NEW e \in Entries, e[1] \in InSeq(writeCh) PROVE PosIn(log', e) > logOff
    OBVIOUS
  <2>1. e[2] \in 1..PerReq /\ e[1] \in InSeq(log') /\ e[1] \in Nat
    BY <1>1, <1>2, EntryFields, RequestNumber
  <2>2. e[1] \notin InSeq(log)
    BY <2>1 DEF Ordered, Apart, Below
  <2>3. PosIn(log', e) \in Nat /\ Len(log) * PerReq \in Nat /\ PosIn(log', e) > Len(log) * PerReq
    BY Zenon, <1>1, <1>2, <2>1, <2>2, PosNew
  <2>4. logOff <= Len(log) * PerReq
    BY Zenon DEF Positions
  <2>5. QED
    BY <2>3, <2>4
<1>7. \A e \in Entries : Put(e) \/ e[1] \in Coming \/ Rest(e) => e[1] \in InSeq(log)
  <2>1. Coming \subseteq InSeq(log)
    BY PipelineLogged DEF Coming, Pipeline, Ordered, Apart
  <2>2. \A e : Put(e) => e[1] \in InSeq(log)
    BY Zenon DEF AheadStored, Put, Safe
  <2>3. \A e : Rest(e) => e[1] \in InSeq(log)
    <3>1. \A e : Rest(e) => e[1] \in InSeq(lbatch)
      BY DEF Rest, InSeq
    <3>2. QED
      BY <3>1, PipelineLogged DEF Pipeline
  <2>4. QED
    BY Zenon, <2>1, <2>2, <2>3
<1>8. \A e \in Entries : Put(e)' => PosIn(log', e) <= logOff'
  BY Zenon, <1>4, <1>5, <1>7 DEF Positions
<1>9. \A e \in Entries : e[1] \in Coming' \/ Rest(e)' => PosIn(log', e) > logOff'
  BY Zenon, <1>4, <1>5, <1>6, <1>7 DEF Positions
<1>10. \A e \in Entries : Logged(e)' /\ answer'[e[1]] # "err" => Put(e)' \/ e[1] \in Coming' \/ Rest(e)'
  BY Zenon, <1>2, <1>4 DEF Positions, Logged
<1>11. QED
  BY Zenon, <1>3, <1>8, <1>9, <1>10 DEF Positions

LEMMA PositionsRecv ==
    ASSUME LogTypes, Positions, RecvBatch, UNCHANGED <<log, vbatch, fbatch, late>>
    PROVE  Positions'
<1>1. /\ writeLSMCh # <<>> /\ writeLSMCh' = <<>> /\ lbatch' = Head(writeLSMCh)
      /\ UNCHANGED <<answer, content, logOff, applied>> /\ lbatch = <<>> /\ applied = 0
  BY DEF RecvBatch, LogTypes, Applying, memVars
<1>2. Len(writeLSMCh) = 1 /\ Head(writeLSMCh) = writeLSMCh[1] /\ writeLSMCh[1] \in ReqSeqs
  BY <1>1, Single DEF LogTypes, Channel
<1>3. lbatch' \in Seq(Reqs) /\ Len(lbatch') \in Nat
  BY <1>1, <1>2, LenFacts DEF ReqSeqs
<1>4. InLSMCh = InSeq(lbatch') /\ InLSMCh' = {}
  BY <1>1, <1>2, InChanEmpty DEF InLSMCh, InChan
<1>5. Coming = Coming' \cup InSeq(lbatch')
  BY <1>4 DEF Coming
<1>6. \A e : ~Rest(e)
  BY <1>1 DEF Rest
<1>7. \A e \in Entries : Rest(e)' <=> e[1] \in InSeq(lbatch')
  <2> SUFFICES ASSUME NEW e \in Entries, NEW k \in 1..Len(lbatch') PROVE k * PerReq - PerReq + e[2] > applied'
    BY DEF Rest, InSeq
  <2>1. PerReq \in Nat /\ k \in Nat /\ k > 0 /\ e[2] \in Nat /\ e[2] > 0
    BY <1>3, EntryFields, WritePathAssumption
  <2>2. k * PerReq \in Nat /\ k * PerReq >= PerReq
    <3>1. 0 * PerReq = 0 /\ 0 * PerReq + PerReq <= k * PerReq
      BY <2>1, MulMono
    <3>2. QED
      BY <2>1, <3>1
  <2>3. QED
    BY <1>1, <2>1, <2>2
<1>8. \A e : (Put(e)' <=> Put(e)) /\ (Logged(e)' <=> Logged(e))
  BY <1>1 DEF Put, Logged
<1>9. \A e \in Entries : (e[1] \in Coming' \/ Rest(e)') <=> (e[1] \in Coming \/ Rest(e))
  BY <1>5, <1>6, <1>7
<1>10. QED
  BY Zenon, <1>1, <1>8, <1>9 DEF Positions

\* Where the c-th entry of the j-th request is, against the a-th of the k-th.
LEMMA BatchOrder ==
    ASSUME NEW j \in Nat, NEW k \in Nat, NEW p \in Nat, NEW c \in Nat, NEW a \in Nat, c <= p
    PROVE  /\ j * p - p + c > k * p - p + a => j >= k
           /\ j = k => (j * p - p + c > k * p - p + a <=> c > a)
           /\ j > k /\ c > 0 /\ a <= p => j * p - p + c > k * p - p + a
<1>1. j * p \in Nat /\ k * p \in Nat
  OBVIOUS
<1>2. (j < k => j * p + p <= k * p) /\ (k < j => k * p + p <= j * p)
  BY MulMono
<1>3. QED
  BY <1>1, <1>2

LEMMA PositionsPut ==
    ASSUME Grounded, Ordered, Positions, PutEntries,
           UNCHANGED <<log, vbatch, fbatch, late>>
    PROVE  Positions'
<1> USE DEF Grounded
<1>1. content \in [Mems -> SUBSET Entries] /\ mine \in Mems /\ Applying /\ logOff \in Nat
  BY DEF MemTypes, Counters, Stored, EntrySets, LogTypes
<1>2. PICK k \in 1..Len(lbatch), a \in 0..(PerReq - 1), n \in 1..PerReq :
         /\ Request = lbatch[k] /\ Request \in InSeq(lbatch) /\ Request \in Reqs
         /\ applied = k * PerReq - PerReq + a
         /\ applied % PerReq = a
         /\ a + n <= PerReq
         /\ Cardinality(Fitting) = n
         /\ Fitting = (a + 1)..(a + n)
         /\ applied + n <= k * PerReq
         /\ k * PerReq <= Len(lbatch) * PerReq
  BY Zenon, <1>1, Puts DEF PutEntries
<1> DEFINE first == <<Request, a + 1>>
           last == <<Request, a + n>>
<1>3. /\ PerReq \in Nat /\ Len(lbatch) \in Nat /\ k \in Nat /\ k * PerReq \in Nat
      /\ a \in Nat /\ n \in Nat /\ a + 1 \in 1..PerReq /\ a + n \in 1..PerReq
  BY <1>1, <1>2, WritePathAssumption, LenFacts DEF Applying
<1>19. /\ applied = k * PerReq - PerReq + a /\ applied + n <= k * PerReq /\ a + n <= PerReq
       /\ k * PerReq <= Len(lbatch) * PerReq
  BY <1>2
<1>4. first \in Entries /\ last \in Entries /\ first[1] = Request /\ last[1] = Request
      /\ first[2] = a + 1 /\ last[2] = a + n
  BY <1>2, <1>3 DEF Entries
<1>5. log \in Seq(Reqs) /\ Increasing(log) /\ Request \in InSeq(log) /\ Request \in Nat
  BY <1>2, PipelineLogged DEF LogTypes, Batches, Ordered, Rising, Pipeline, Reqs
<1>6. logOff' = PosIn(log, last) /\ logOff' \in Nat /\ PosIn(log, first) \in Nat
  <2>1. logOff' = PosIn(log, last)
    BY Zenon, <1>2 DEF PutEntries, Pos, PosIn
  <2>2. QED
    BY <1>3, <1>4, <1>5, <2>1, PosIndex, Zenon
<1>7. logOff < logOff'
  <2>1. Rest(first)
    BY <1>2, <1>3, <1>4 DEF Rest
  <2>2. PosIn(log, first) > logOff
    BY <1>4, <2>1 DEF Positions
  <2>3. PosIn(log, last) - PosIn(log, first) = last[2] - first[2]
    BY <1>3, <1>4, <1>5, PosOrder
  <2>4. QED
    BY <1>1, <1>3, <1>4, <1>6, <2>2, <2>3
<1>8. /\ \A m \in Mems : content[m] \subseteq content'[m]
      /\ \A m \in Mems : \A e \in content'[m] :
            e \in content[m] \/ \E i \in (a + 1)..(a + n) : e = <<Request, i>>
      /\ \A i \in (a + 1)..(a + n) : <<Request, i>> \in content'[mine]
  BY Zenon, <1>1, <1>2 DEF PutEntries
<1>9. \A e : Put(e) => Put(e)'
  BY <1>8 DEF Put
<1>10. \A e : (\E i \in (a + 1)..(a + n) : e = <<Request, i>>) => Put(e)'
  BY <1>1, <1>8 DEF Put
<1>11. InLSMCh' = InLSMCh /\ Coming' = Coming
  BY DEF PutEntries, InLSMCh, Coming
<1>12. \/ lbatch' = <<>> /\ applied + n = Len(lbatch) * PerReq
       \/ lbatch' = lbatch /\ applied' = applied + n
  BY Zenon, <1>2 DEF PutEntries
<1>13. \A r \in InSeq(log) : answer'[r] # "err" => answer[r] # "err"
  <2>1. answer' = answer \/ answer' = Answered(lbatch, "ok")
    BY Zenon DEF PutEntries
  <2>2. ASSUME answer' = Answered(lbatch, "ok"), NEW r \in InSeq(log), answer'[r] # "err"
        PROVE  answer[r] # "err"
    <3>1. r \in Reqs
      BY <1>5, InSeqType
    <3>2. CASE r \in InSeq(lbatch)
      BY <3>2 DEF Ordered, Answers, Pipeline
    <3>3. CASE r \notin InSeq(lbatch)
      BY <2>2, <3>1, <3>3, AnsweredIs
    <3>4. QED
      BY <3>2, <3>3
  <2>3. QED
    BY <2>1, <2>2
<1>14. logOff' <= Len(log) * PerReq
  BY <1>3, <1>4, <1>5, <1>6, PosBound, Zenon
<1>15. ASSUME NEW e \in Entries, Put(e)' PROVE PosIn(log, e) <= logOff'
  <2>1. PICK m \in Mems : e \in content'[m]
    BY <1>15 DEF Put
  <2>2. CASE e \in content[m]
    <3>1. e[1] \in InSeq(log) /\ e[2] \in 1..PerReq
      BY <2>2, EntryFields DEF AheadStored, Safe
    <3>2. PosIn(log, e) \in Nat /\ PosIn(log, e) <= logOff
      BY Zenon, <1>5, <2>2, <3>1, PosIndex DEF Positions, Put
    <3>3. QED
      BY <1>1, <1>6, <1>7, <3>2
  <2>3. CASE \E i \in (a + 1)..(a + n) : e = <<Request, i>>
    <3>1. PICK i \in (a + 1)..(a + n) : e = <<Request, i>>
      BY <2>3
    <3>2. e[1] = Request /\ e[2] = i /\ i \in 1..PerReq /\ i <= a + n
      BY <1>2, <1>3, <3>1
    <3>3. PosIn(log, last) - PosIn(log, e) = last[2] - e[2] /\ PosIn(log, e) \in Nat
      BY <1>3, <1>4, <1>5, <3>2, PosOrder, PosIndex, Zenon
    <3>4. QED
      BY <1>3, <1>4, <1>6, <3>2, <3>3
  <2>4. QED
    BY Zenon, <1>8, <2>1, <2>2, <2>3
<1>16. ASSUME NEW e \in Entries, e[1] \in Coming \/ Rest(e)' PROVE PosIn(log, e) > logOff'
  <2>1. e[1] \in Reqs /\ e[2] \in 1..PerReq /\ e[1] \in Nat
    BY EntryFields DEF Reqs
  <2>2. ASSUME Request < e[1], e[1] \in InSeq(log) PROVE PosIn(log, e) > logOff'
    <3>1. PosIn(log, last) < PosIn(log, e) /\ PosIn(log, e) \in Nat
      BY <1>3, <1>4, <1>5, <2>1, <2>2, PosOrder, PosIndex, Zenon
    <3>2. QED
      BY <1>6, <3>1
  <2>3. CASE e[1] \in Coming
    <3>1. Coming \subseteq InSeq(log) /\ \A r \in Coming : Request < r
      BY <1>2, PipelineLogged DEF Coming, Pipeline, Ordered, Apart, Below
    <3>2. QED
      BY <2>2, <2>3, <3>1
  <2>4. CASE Rest(e)'
    <3>1. lbatch' = lbatch /\ applied' = applied + n
      BY <1>12, <2>4 DEF Rest
    <3>2. PICK j \in 1..Len(lbatch) : e[1] = lbatch[j] /\ j * PerReq - PerReq + e[2] > applied + n
      BY <2>4, <3>1 DEF Rest
    <3>3. j \in Nat /\ e[2] \in Nat /\ e[2] <= PerReq
      BY <1>3, <2>1, <3>2
    <3>4. j >= k /\ (j = k => e[2] > a + n)
      <4>1. j * PerReq - PerReq + e[2] > k * PerReq - PerReq + (a + n)
        BY <1>3, <1>19, <3>2
      <4>2. QED
        BY <1>3, <3>3, <4>1, BatchOrder
    <3>5. CASE j = k
      <4>1. e[1] = Request /\ e[2] > a + n
        BY <1>2, <3>2, <3>4, <3>5
      <4>2. PosIn(log, e) - PosIn(log, last) = e[2] - last[2] /\ PosIn(log, e) \in Nat
        BY <1>3, <1>4, <1>5, <2>1, <4>1, PosOrder, PosIndex, Zenon
      <4>3. QED
        BY <1>3, <1>4, <1>6, <3>3, <4>1, <4>2
    <3>6. CASE k < j
      <4>1. Request < e[1]
        BY Zenon, <1>2, <3>2, <3>6 DEF Ordered, Rising, Increasing
      <4>2. e[1] \in InSeq(log)
        BY <3>2, PipelineLogged, Zenon DEF InSeq, Pipeline
      <4>3. QED
        BY <2>2, <4>1, <4>2
    <3>7. QED
      BY <1>3, <3>3, <3>4, <3>5, <3>6
  <2>5. QED
    BY <1>16, <2>3, <2>4
<1>17. ASSUME NEW e \in Entries, Logged(e), answer'[e[1]] # "err" PROVE Put(e)' \/ e[1] \in Coming \/ Rest(e)'
  <2>1. Put(e) \/ e[1] \in Coming \/ Rest(e)
    BY <1>13, <1>17 DEF Positions, Logged
  <2>2. CASE Rest(e)
    <3>1. PICK j \in 1..Len(lbatch) : e[1] = lbatch[j] /\ j * PerReq - PerReq + e[2] > applied
      BY <2>2 DEF Rest
    <3>2. j \in Nat /\ e[2] \in Nat /\ e[2] > 0 /\ e[2] <= PerReq
      <4>1. e[2] \in 1..PerReq
        BY EntryFields
      <4>2. QED
        BY <1>3, <3>1, <4>1
    <3>3. j >= k /\ (j = k => e[2] > a)
      <4>1. j * PerReq - PerReq + e[2] > k * PerReq - PerReq + a
        BY <1>19, <3>1
      <4>2. QED
        BY <1>3, <3>2, <4>1, BatchOrder
    <3>4. ASSUME j = k, e[2] <= a + n PROVE Put(e)'
      <4>1. e[1] = Request /\ e[2] > a
        BY <1>2, <3>1, <3>3, <3>4
      <4>2. e[2] \in (a + 1)..(a + n)
        BY <1>3, <3>2, <3>4, <4>1
      <4>3. e = <<Request, e[2]>>
        BY <4>1, EntryFields
      <4>4. QED
        BY <1>10, <4>2, <4>3
    <3>6. CASE lbatch' = lbatch /\ applied' = applied + n
      <4>1. CASE j = k /\ e[2] <= a + n
        BY <3>4, <4>1
      <4>2. CASE ~(j = k /\ e[2] <= a + n)
        <5>1. j * PerReq - PerReq + e[2] > k * PerReq - PerReq + (a + n)
          <6>1. CASE j > k
            BY <1>3, <3>2, <6>1, BatchOrder
          <6>2. CASE j = k
            <7>1. e[2] > a + n /\ a + n \in Nat
              BY <1>3, <3>2, <4>2, <6>2
            <7>2. QED
              BY <1>3, <3>2, <6>2, <7>1, BatchOrder
          <6>3. QED
            BY <1>3, <3>2, <3>3, <6>1, <6>2
        <5>2. j * PerReq - PerReq + e[2] > applied + n
          BY <1>3, <1>19, <5>1
        <5>3. QED
          BY <3>1, <3>6, <5>2 DEF Rest
      <4>3. QED
        BY <4>1, <4>2
    <3>7. CASE applied + n = Len(lbatch) * PerReq
      <4>1. applied + n = k * PerReq /\ a + n = PerReq
        BY <1>3, <1>19, <3>7
      <4>2. ~(k < j)
        <5>1. k < Len(lbatch) => k * PerReq + PerReq <= Len(lbatch) * PerReq
          BY <1>3, MulMono
        <5>2. PerReq > 0
          BY WritePathAssumption
        <5>3. QED
          BY <1>3, <3>1, <3>7, <4>1, <5>1, <5>2
      <4>3. j = k /\ e[2] <= a + n
        BY <1>3, <3>2, <3>3, <4>1, <4>2
      <4>4. QED
        BY <3>4, <4>3
    <3>8. QED
      BY <1>12, <3>6, <3>7
  <2>3. QED
    BY <1>9, <2>1, <2>2
<1>18. QED
  BY Zenon, <1>11, <1>14, <1>15, <1>16, <1>17 DEF Positions, Logged

LEMMA PositionsVLog ==
    ASSUME Grounded, Ordered, Ordered', Positions, RunWriteVLog
    PROVE  Positions'
<1>1. LogTypes /\ MemTypes /\ AheadPipe /\ AheadStored /\ logOff \in Nat
  BY DEF Grounded, MemTypes, Counters
<1>2. UNCHANGED <<content, logOff, lbatch, applied>>
  BY DEF RunWriteVLog, IngestFlush, IngestNoOverlap, IngestStore, IngestSend, TakeMemTable, MakeTables,
     StoreTables, SendTask, memVars, lsmVars
<1>3. Increasing(log')
  BY DEF Ordered, Rising
<1>4. \A r \in InSeq(log) : r \in Reqs /\ r \notin InSeq(writeCh)
  <2>1. log \in Seq(Reqs) /\ Below(InSeq(log), InSeq(writeCh))
    BY <1>1 DEF LogTypes, Batches, Ordered, Apart
  <2>2. \A r \in InSeq(log) : r \in Reqs /\ r \in Nat
    BY <2>1, InSeqType, RequestNumber
  <2>3. QED
    BY <2>1, <2>2 DEF Below
<1>5. CASE /\ vpc = "select" /\ log' = log \o writeCh /\ UNCHANGED <<flushVars, writeLSMCh>>
           /\ \/ vbatch' = writeCh /\ late' = late /\ answer' = answer
              \/ vbatch' = vbatch /\ late' = InSeq(writeCh) /\ answer' = LateAnswers
  <2>1. InSeq(vbatch) = {} /\ late = {}
    BY <1>5, InSeqEmpty DEF Ordered, HandsEmpty
  <2>2. Coming' = Coming \cup InSeq(writeCh)
    BY <1>5, <2>1 DEF Coming, InLSMCh, flushVars
  <2>3. \A r \in InSeq(log) : answer'[r] = answer[r]
    BY <1>4, <1>5, AnsweredIs DEF LateAnswers
  <2>4. QED
    BY <1>1, <1>2, <1>3, <1>5, <2>2, <2>3, PositionsLogged
<1>6. CASE /\ UNCHANGED <<log, vbatch, flushVars, writeLSMCh, late>>
           /\ answer' = answer \/ answer' = Answered(writeCh, "err")
  <2>1. Coming' = Coming /\ log' = log
    BY <1>6 DEF Coming, InLSMCh, flushVars
  <2>2. \A r \in InSeq(log) : answer'[r] = answer[r]
    BY <1>4, <1>6, AnsweredIs
  <2>3. QED
    BY <1>2, <2>1, <2>2, PositionsSame
<1>7. CASE SendBatch
  <2>1. UNCHANGED <<log, answer, late>> /\ InSeq(vbatch') = {}
    BY <1>7, InSeqEmpty DEF SendBatch
  <2>2. InLSMCh' \cup InSeq(fbatch') = InLSMCh \cup InSeq(fbatch) \cup InSeq(vbatch)
    <3>1. CASE sync
      <4>1. fbatch = <<>> /\ fbatch' = vbatch /\ writeLSMCh' = writeLSMCh
        BY <1>7, <3>1 DEF SendBatch, ThroughFlusher, Ordered, HandsEmpty
      <4>2. QED
        BY <4>1, InSeqEmpty DEF InLSMCh
    <3>2. CASE ~sync
      <4>1. writeLSMCh = <<>> /\ writeLSMCh' = <<vbatch>> /\ fbatch' = fbatch
        BY <1>7, <3>2 DEF SendBatch, ThroughFlusher, flushVars
      <4>2. QED
        BY <4>1, InChanEmpty, InChanOne DEF InLSMCh
    <3>3. QED
      BY <3>1, <3>2
  <2>3. Coming' = Coming
    BY <2>1, <2>2 DEF Coming
  <2>4. QED
    BY <1>2, <2>1, <2>3, PositionsSame
<1>8. QED
  <2>1. CASE WriteVLog \/ CloseWriteVLog
    BY <1>5, <2>1 DEF WriteVLog, CloseWriteVLog
  <2>2. CASE WriteVLogFails \/ CloseWriteVLogFails
    BY <1>6, <2>2 DEF WriteVLogFails, CloseWriteVLogFails
  <2>3. CASE IngestBegin
    BY <1>5, <1>6, <2>3 DEF IngestBegin, vlogVars
  <2>4. QED
    BY <1>6, <1>7, <2>1, <2>2, <2>3 DEF RunWriteVLog

LEMMA PositionsFlusher ==
    ASSUME Grounded, Ordered, Positions, RunFlusher
    PROVE  Positions'
<1>1. UNCHANGED <<content, logOff, lbatch, applied, log, vbatch, late>>
  BY DEF RunFlusher, memVars, lsmVars, vlogVars
<1>2. CASE Fdatasync \/ FlusherExit
  <2>1. Coming' = Coming /\ answer' = answer
    BY <1>1, <1>2 DEF Coming, InLSMCh, Fdatasync, FlusherExit
  <2>2. QED
    BY <1>1, <2>1, PositionsSame
<1>3. CASE FlusherSend
  <2>1. writeLSMCh = <<>> /\ writeLSMCh' = <<fbatch>> /\ fbatch' = <<>> /\ answer' = answer
    BY <1>3 DEF FlusherSend
  <2>2. InLSMCh = {} /\ InLSMCh' = InSeq(fbatch) /\ InSeq(fbatch') = {}
    BY <2>1, InSeqEmpty, InChanEmpty, InChanOne DEF InLSMCh
  <2>3. Coming' = Coming
    BY <1>1, <2>2 DEF Coming
  <2>4. QED
    BY <1>1, <2>1, <2>3, PositionsSame
<1>4. CASE FdatasyncFails
  <2>1. writeLSMCh' = writeLSMCh /\ fbatch' = <<>> /\ answer' = Answered(fbatch, "err")
    BY <1>4 DEF FdatasyncFails
  <2>2. InLSMCh' = InLSMCh /\ InSeq(fbatch') = {}
    BY <2>1, InSeqEmpty DEF InLSMCh
  <2>3. Coming' \subseteq Coming /\ Coming = Coming' \cup InSeq(fbatch)
    BY <1>1, <2>2 DEF Coming
  <2>4. InSeq(log) \subseteq Reqs
    BY InSeqType DEF Grounded, LogTypes, Batches
  <2>5. \A r \in InSeq(log) : answer'[r] # "err" => r \notin InSeq(fbatch) /\ answer[r] = answer'[r]
    BY <2>1, <2>4, AnsweredIs
  <2>6. QED
    BY <1>1, <2>3, <2>5, PositionsSame
<1>5. QED
  BY <1>2, <1>3, <1>4 DEF RunFlusher

LEMMA PlacedNext == Placed /\ [Next]_vars => Placed'
<1> SUFFICES ASSUME Grounded, Ordered, Positions, [Next]_vars PROVE Placed'
  BY DEF Placed
<1>0. SUFFICES Positions'
  BY GroundedNext, OrderedNext DEF Placed, Grounded
<1>1. LogTypes /\ AheadPipe
  BY DEF Grounded
<1>2. Grounded' /\ Ordered'
  BY <1>1, GroundedNext, OrderedNext
<1>3. CASE RunWriteLSM
  <2>1. UNCHANGED <<log, vbatch, fbatch, late>>
    BY <1>3 DEF RunWriteLSM, vlogVars, flushVars
  <2>2. CASE RecvBatch
    BY <1>1, <2>1, <2>2, PositionsRecv
  <2>3. CASE PutEntries
    BY <2>1, <2>3, PositionsPut
  <2>4. CASE WriteLSMExit \/ LoadTables \/ MakeRoom \/ RoomStore \/ RoomSend
    <3>1. UNCHANGED <<content, logOff, lbatch, applied, writeLSMCh, answer>>
      BY <2>4 DEF WriteLSMExit, LoadTables, MakeRoom, RoomStore, RoomSend, TakeMemTable, MakeTables,
         StoreTables, SendTask, memVars
    <3>2. Coming' = Coming
      BY <2>1, <3>1 DEF Coming, InLSMCh
    <3>3. QED
      BY <2>1, <3>1, <3>2, PositionsSame
  <2>5. QED
    BY <1>3, <2>2, <2>3, <2>4 DEF RunWriteLSM
<1>4. CASE \/ RunFlushMemTable \/ CloseGoesOn \/ CloseBegin \/ UNCHANGED vars
  <2>1. UNCHANGED <<logOff, lbatch, applied, writeLSMCh, answer, log, vbatch, fbatch, late>>
    BY <1>4 DEF RunFlushMemTable, CloseGoesOn, CloseBegin, vars, lsmVars, vlogVars, flushVars
  <2>2. content' = content
    BY <1>4 DEF RunFlushMemTable, CloseGoesOn, CloseBegin, vars, CloseMemTable, CloseStore, CloseSend,
       CloseQuit, CloseEnd, MakeTables, StoreTables, SendTask, memVars
  <2>3. Coming' = Coming
    BY <2>1 DEF Coming, InLSMCh
  <2>4. QED
    BY <2>1, <2>2, <2>3, PositionsSame
<1>5. ASSUME NEW r \in Reqs, SendToWriteCh(r) PROVE Positions'
  <2>1. /\ UNCHANGED <<content, logOff, lbatch, applied, writeLSMCh, log, vbatch, fbatch, late>>
        /\ answer' = [answer EXCEPT ![r] = "wait"] /\ answer[r] = "unsent"
    BY <1>5 DEF SendToWriteCh, memVars, lsmVars, vlogVars, flushVars
  <2>2. Coming' = Coming
    BY <2>1 DEF Coming, InLSMCh
  <2>3. \A q \in InSeq(log) : answer'[q] = answer[q]
    <3>1. \A q \in InSeq(log) : q \in Reqs /\ q # r
      BY <1>1, <2>1, InSeqType DEF LogTypes, Batches, Ordered, Answers
    <3>2. QED
      BY <1>1, <2>1, <3>1 DEF LogTypes, Requests
  <2>4. QED
    BY <2>1, <2>2, <2>3, PositionsSame
<1>6. QED
  BY <1>2, <1>3, <1>4, <1>5, PositionsVLog, PositionsFlusher DEF Next

-----------------------------------------------------------------------------
(* What no step takes back *)

-----------------------------------------------------------------------------
(* What no step takes back *)

LEMMA KeptVLog ==
    ASSUME Placed, Placed', RunWriteVLog
    PROVE  Kept
<1>1. /\ log \in Seq(Reqs) /\ writeCh \in Seq(Reqs) /\ log' \in Seq(Reqs) /\ Increasing(log')
      /\ logOff \in Nat /\ logOff <= Len(log) * PerReq
  BY Zenon DEF Placed, Grounded, LogTypes, MemTypes, Counters, Batches, Ordered, Rising, Positions
<1>2. UNCHANGED <<content, logOff>>
  BY DEF RunWriteVLog, IngestFlush, IngestNoOverlap, IngestStore, IngestSend, TakeMemTable, MakeTables,
     StoreTables, SendTask, memVars, lsmVars
<1>3. log' = log \/ log' = log \o writeCh
  BY DEF RunWriteVLog, WriteVLog, WriteVLogFails, SendBatch, CloseWriteVLog, CloseWriteVLogFails,
     IngestBegin, vlogVars
<1>4. Prefix(log, log') /\ InSeq(log) \subseteq InSeq(log')
  <2>1. CASE log' = log
    BY <1>1, <2>1, LenFacts DEF Prefix
  <2>2. CASE log' = log \o writeCh
    BY <1>1, <2>2, PrefixConcat, InSeqConcat
  <2>3. QED
    BY <1>3, <2>1, <2>2
<1>5. \A e \in Entries : e[1] \in InSeq(log) => PosIn(log', e) = PosIn(log, e)
  BY <1>1, <1>4, PosAppend, EntryFields
<1>6. ASSUME NEW e \in Entries, e[1] \in InSeq(log'), e[1] \notin InSeq(log) PROVE PosIn(log', e) > logOff
  <2>1. PosIn(log', e) \in Nat /\ Len(log) * PerReq \in Nat /\ PosIn(log', e) > Len(log) * PerReq
    BY <1>1, <1>4, <1>6, PosNew, EntryFields
  <2>2. QED
    BY <1>1, <2>1
<1>7. \A r \in InSeq(log) : answer'[r] = answer[r]
  <2>1. \A r \in InSeq(log) : r \in Reqs /\ r \notin InSeq(writeCh)
    <3>1. \A r \in InSeq(log) : r \in Reqs /\ r \in Nat
      BY <1>1, InSeqType, RequestNumber
    <3>2. QED
      BY <3>1 DEF Placed, Ordered, Apart, Below
  <2>2. \E how : answer' = answer \/ answer' = Answered(writeCh, how)
    BY DEF RunWriteVLog, WriteVLog, WriteVLogFails, SendBatch, CloseWriteVLog, CloseWriteVLogFails,
       IngestBegin, LateAnswers
  <2>3. QED
    BY <2>1, <2>2, AnsweredIs
<1>8. logOff <= logOff' /\ \A m \in Mems : content[m] \subseteq content'[m]
  BY <1>1, <1>2
<1>9. QED
  BY Zenon, <1>4, <1>5, <1>6, <1>7, <1>8 DEF Kept

LEMMA KeptNext ==
    ASSUME Placed, Placed', [Next]_vars
    PROVE  Kept
<1>1. log \in Seq(Reqs) /\ logOff \in Nat /\ logOff' \in Nat
  BY DEF Placed, Grounded, LogTypes, MemTypes, Counters, Batches
<1>2. ASSUME log' = log, logOff <= logOff', \A m \in Mems : content[m] \subseteq content'[m],
             \A r \in InSeq(log) : answer'[r] # "err" => answer[r] # "err"
      PROVE  Kept
  BY Zenon, <1>2 DEF Kept
<1>3. InSeq(log) \subseteq Reqs
  BY <1>1, InSeqType
<1>4. CASE RunWriteLSM
  <2>1. log' = log
    BY <1>4 DEF RunWriteLSM, vlogVars
  <2>2. CASE PutEntries
    <3>1. answer' = answer \/ answer' = Answered(lbatch, "ok")
      BY <2>2 DEF PutEntries
    <3>2. \A r \in InSeq(lbatch) : answer[r] # "err"
      BY DEF Placed, Ordered, Answers, Pipeline
    <3>3. \A r \in InSeq(log) : answer'[r] # "err" => answer[r] # "err"
      BY <1>3, <3>1, <3>2, AnsweredIs
    <3>4. logOff < logOff' /\ \A m \in Mems : content[m] \subseteq content'[m]
      BY Zenon, <2>2, PutFacts
    <3>5. logOff <= logOff'
      BY <1>1, <3>4
    <3>6. QED
      BY Zenon, <1>2, <2>1, <3>3, <3>4, <3>5
  <2>3. CASE RecvBatch \/ WriteLSMExit \/ LoadTables \/ MakeRoom \/ RoomStore \/ RoomSend
    <3>1. UNCHANGED <<content, logOff, answer>>
      BY <2>3 DEF RecvBatch, WriteLSMExit, LoadTables, MakeRoom, RoomStore, RoomSend, TakeMemTable,
         MakeTables, StoreTables, SendTask, memVars
    <3>2. QED
      BY <1>1, <1>2, <2>1, <3>1
  <2>4. QED
    BY <1>4, <2>2, <2>3 DEF RunWriteLSM
<1>5. CASE RunFlushMemTable \/ CloseGoesOn \/ CloseBegin \/ UNCHANGED vars
  <2>1. UNCHANGED <<logOff, log, answer>>
    BY <1>5 DEF RunFlushMemTable, CloseGoesOn, CloseBegin, vars, lsmVars, vlogVars
  <2>2. content' = content
    BY <1>5 DEF RunFlushMemTable, CloseGoesOn, CloseBegin, vars, CloseMemTable, CloseStore, CloseSend,
       CloseQuit, CloseEnd, MakeTables, StoreTables, SendTask, memVars
  <2>3. QED
    BY <1>1, <1>2, <2>1, <2>2
<1>6. CASE RunFlusher
  <2>1. UNCHANGED <<log, content, logOff>>
    BY <1>6 DEF RunFlusher, memVars, lsmVars, vlogVars
  <2>2. answer' = answer \/ answer' = Answered(fbatch, "err")
    BY <1>6 DEF RunFlusher, Fdatasync, FdatasyncFails, FlusherSend, FlusherExit
  <2>3. \A r \in InSeq(log) : answer'[r] # "err" => answer[r] # "err"
    BY Zenon, <1>3, <2>2, AnsweredIs
  <2>4. QED
    BY <1>1, <1>2, <2>1, <2>3
<1>7. ASSUME NEW r \in Reqs, SendToWriteCh(r) PROVE Kept
  <2>1. /\ UNCHANGED <<log, content, logOff>>
        /\ answer' = [answer EXCEPT ![r] = "wait"] /\ answer[r] = "unsent"
    BY <1>7 DEF SendToWriteCh, memVars, lsmVars, vlogVars
  <2>2. \A q \in InSeq(log) : answer'[q] # "err" => answer[q] # "err"
    BY <1>3, <2>1 DEF Placed, Grounded, LogTypes, Requests
  <2>3. QED
    BY <1>1, <1>2, <2>1, <2>2
<1>8. QED
  BY <1>4, <1>5, <1>6, <1>7, KeptVLog DEF Next

=============================================================================
