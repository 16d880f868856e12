------------------------- MODULE SampleSorterProofs -------------------------
(***************************************************************************)
(* Theorems about the threads of SampleSorter, for any number of producers,*)
(* of callers of flush() and of samples.  Under every schedule the sorter  *)
(* implements SortedSampleSet, so the theorems about the order of the      *)
(* samples carry over; and it keeps the invariants of its own.             *)
(***************************************************************************)
EXTENDS SampleSorter, SortedSampleSetProofs

\* The steps are first-order logic; those with arithmetic, or with a function
\* updated at several places, cite SMT.
USE Zenon

-----------------------------------------------------------------------------
(* The type invariant.                                                     *)

\* signal() moves one waiting thread to the place where it is woken, or nobody.
LEMMA SignalOneType ==
    ASSUME NEW T, NEW PC, NEW pc \in [T -> PC], NEW wait, NEW woken \in PC,
           NEW new \in SignalOne(pc, wait, woken)
    PROVE  /\ new \in [T -> PC]
           /\ \A t \in T : new[t] = pc[t] \/ (pc[t] = wait /\ new[t] = woken)
BY DEF SignalOne

\* _heapCond.signal() leaves every producer at a place of receive().
LEMMA SignalHeapType ==
    ASSUME TypeOK,
           receivePc' \in SignalOne(receivePc, "heapWait", "heapWoken")
    PROVE  receivePc' \in [Producer -> {"idle", "heapWait", "heapWoken", "insert"}]
<1> DEFINE PC == {"idle", "heapWait", "heapWoken", "insert"}
<1>1. receivePc \in [Producer -> PC] /\ "heapWoken" \in PC
  BY DEF TypeOK
<1> HIDE DEF PC
<1>2. receivePc' \in [Producer -> PC]
  BY <1>1, SignalOneType
<1> QED
  BY <1>2 DEF PC

\* _flushCond.signal() leaves every caller at a place of flush().
LEMMA SignalFlushType ==
    ASSUME TypeOK, flushPc' \in SignalOne(flushPc, "flushWait", "check")
    PROVE  flushPc' \in [Flusher -> {"idle", "check", "flushWait"}]
<1> DEFINE PC == {"idle", "check", "flushWait"}
<1>1. flushPc \in [Flusher -> PC] /\ "check" \in PC
  BY DEF TypeOK
<1> HIDE DEF PC
<1>2. flushPc' \in [Flusher -> PC]
  BY <1>1, SignalOneType
<1> QED
  BY <1>2 DEF PC

\* _flushCond.broadcast() likewise.
LEMMA BroadcastType ==
    ASSUME flushPc \in [Flusher -> {"idle", "check", "flushWait"}]
    PROVE  BroadcastFlush \in [Flusher -> {"idle", "check", "flushWait"}]
BY DEF BroadcastFlush

\* The heap limit of a sorter never shrinks as it grows by half.
LEMMA GrownType == ASSUME NEW m \in Nat PROVE Grown(m) \in Nat /\ Grown(m) >= m
BY SMT DEF Grown

\* The steps of SampleSorter are steps of SortedSampleSet, or leave its
\* variables alone.
LEMMA NextRefines == TypeOK /\ [Next]_vars => [SetNext]_setVars
<1> SUFFICES ASSUME TypeOK, [Next]_vars PROVE [SetNext]_setVars
  OBVIOUS
<1>1. ASSUME NEW p \in Producer, Insert(p) PROVE SetNext
  BY <1>1 DEF Insert, TypeOK, SetNext
<1>2. CASE RunDistribute
  BY <1>2 DEF RunDistribute, SetNext, TypeOK, SetTypeOK
<1>3. CASE RunTake
  BY <1>3 DEF RunTake, SetNext
<1>4. CASE RunStop \/ Delete
  BY <1>4 DEF RunStop, Delete, SetNext
<1>5. ASSUME NEW p \in Producer, NEW s \in Sample,
             ReceiveFuture(p, s) \/ Receive(p, s)
      PROVE  UNCHANGED setVars
  BY <1>5 DEF ReceiveFuture, Receive
<1>6. ASSUME NEW p \in Producer, ReceiveAgain(p) PROVE UNCHANGED setVars
  BY <1>6 DEF ReceiveAgain
<1>7. ASSUME NEW f \in Flusher, Flush(f) \/ FlushCheck(f)
      PROVE  UNCHANGED setVars
  BY <1>7 DEF Flush, FlushCheck
<1>8. CASE RunWait \/ RunNoAged \/ RunWaitNoAged \/ HeapDecrement \/ RunReturn
  BY <1>8 DEF RunWait, RunNoAged, RunWaitNoAged, HeapDecrement, RunReturn
<1>9. CASE Start \/ Interrupt \/ Join \/ SpuriousWakeup
  BY <1>9 DEF Start, Interrupt, InterruptRun, InterruptFlush, InterruptHeap,
              Join, SpuriousWakeup
<1>10. CASE UNCHANGED vars
  BY <1>10 DEF vars
<1> QED
  BY <1>1, <1>2, <1>3, <1>4, <1>5, <1>6, <1>7, <1>8, <1>9, <1>10
     DEF Next, Run

\* The operations on the sets of samples keep their types.
LEMMA NextSetTypeOK == SetTypeOK /\ [SetNext]_setVars => SetTypeOK'
<1> SUFFICES ASSUME SetTypeOK, [SetNext]_setVars PROVE SetTypeOK'
  OBVIOUS
<1>1. ASSUME NEW s \in Sample, InsertSample(s) PROVE SetTypeOK'
  <2>1. stamp' \in [Sample -> Nat] /\ arrivals' \in Nat
    BY SMT, <1>1 DEF InsertSample, SetTypeOK
  <2>2. /\ samples' \subseteq Sample /\ early' \subseteq Sample
        /\ afterFlush' \subseteq Sample
    BY <1>1 DEF InsertSample, SetTypeOK
  <2> QED
    BY <1>1, <2>1, <2>2, Zenon DEF InsertSample, SetTypeOK
<1>2. ASSUME NEW s \in Sample, DistributeSample(s) PROVE SetTypeOK'
  <2>1. distributed' \in Seq(Sample)
    BY SMT, <1>2 DEF DistributeSample, SetTypeOK
  <2>2. agedsamples' \subseteq Sample
    BY <1>2 DEF DistributeSample, SetTypeOK
  <2> QED
    BY <1>2, <2>1, <2>2, Zenon DEF DistributeSample, SetTypeOK
<1>3. CASE TakeAged
  <2>1. PICK s \in samples : TakeOut(AgedBy(s)) /\ UNCHANGED flushedOut
    BY <1>3 DEF TakeAged
  <2>2. agedsamples' \subseteq Sample /\ samples' \subseteq Sample
    BY <2>1 DEF TakeOut, AgedBy, SetTypeOK
  <2> QED
    BY <2>1, <2>2, Zenon DEF TakeOut, SetTypeOK
<1>4. CASE TakeAll
  <2>1. /\ agedsamples' \subseteq Sample /\ samples' \subseteq Sample
        /\ flushedOut' \subseteq Sample
    BY <1>4 DEF TakeAll, TakeOut, SetTypeOK
  <2> QED
    BY <1>4, <2>1, Zenon DEF TakeAll, TakeOut, SetTypeOK
<1>5. CASE StopAndRelease \/ ReleaseLeftover
  <2>1. samples' \subseteq Sample /\ released' \subseteq Sample /\ stopped' = TRUE
    BY <1>5 DEF StopAndRelease, ReleaseLeftover, ReleaseSamples, SetTypeOK
  <2> QED
    BY <1>5, <2>1, Zenon DEF StopAndRelease, ReleaseLeftover, ReleaseSamples,
                             SetTypeOK
<1>6. CASE UNCHANGED setVars
  BY <1>6, Zenon DEF setVars, SetTypeOK
<1> QED
  BY <1>1, <1>2, <1>3, <1>4, <1>5, <1>6 DEF SetNext

\* The constructor of SampleSorter.
LEMMA InitTypeOK == Init => TypeOK
<1> SUFFICES ASSUME Init PROVE TypeOK
  OBVIOUS
<1>1. SetTypeOK
  BY InitSetInv DEF Init, SetInv
<1>2. ssum \in Nat /\ heapMax \in Nat /\ heapSize \in Int
  BY SMT, SorterAssumption DEF Init
<1>3. /\ receivePc \in [Producer -> {"idle", "heapWait", "heapWoken", "insert"}]
      /\ receiving \in [Producer -> SUBSET Sample]
      /\ flushPc \in [Flusher -> {"idle", "check", "flushWait"}]
  BY DEF Init
<1> QED
  BY <1>1, <1>2, <1>3, Zenon DEF Init, TypeOK

\* Every step of receive(), flush(), run(), interrupt() and the owner keeps the types.
LEMMA NextTypeOK == TypeOK /\ [Next]_vars => TypeOK'
<1> SUFFICES ASSUME TypeOK, [Next]_vars PROVE TypeOK'
  OBVIOUS
<1> USE SorterAssumption
<1>1. SetTypeOK'
  BY NextRefines, NextSetTypeOK DEF TypeOK
<1>2. ASSUME NEW p \in Producer, NEW s \in Sample, ReceiveFuture(p, s)
      PROVE  TypeOK'
  BY SMT, <1>1, <1>2 DEF ReceiveFuture, TypeOK, heapVars, receiveVars
<1>3. ASSUME NEW p \in Producer, NEW s \in Sample, Receive(p, s)
      PROVE  TypeOK'
  <2>1. Length[s] \in Nat /\ heapSize + Length[s] \in Int
    BY SMT DEF TypeOK
  <2>2. CASE ReceiveDiscarding(p, s)
    <3>1. offered' \subseteq Sample /\ discarded' \subseteq Sample
      BY <1>3, <2>2 DEF Receive, ReceiveDiscarding, TypeOK
    <3>2. /\ heapMax' \in Nat /\ heapSize' \in Int /\ heapExceeded' \in BOOLEAN
          /\ runPc' = runPc
      BY <2>1, <2>2 DEF ReceiveDiscarding, HeapAccept, TypeOK
    <3>3. /\ receiving' \in [Producer -> SUBSET Sample]
          /\ receivePc' \in
                [Producer -> {"idle", "heapWait", "heapWoken", "insert"}]
      BY SMT, <2>2 DEF ReceiveDiscarding, HeapAccept, TypeOK
    <3> QED
      BY <1>1, <1>3, <3>1, <3>2, <3>3 DEF Receive, TypeOK
  <2>3. CASE ReceiveBlocking(p, s)
    <3>1. /\ receiving' \in [Producer -> SUBSET Sample]
          /\ offered' \subseteq Sample /\ discarded' \subseteq Sample
      BY <1>3, <2>3 DEF Receive, ReceiveBlocking, TypeOK
    <3>2. CASE HeapAccept(p, heapSize + Length[s])
      BY <1>1, <1>3, <2>1, <3>1, <3>2 DEF Receive, HeapAccept, TypeOK
    <3>3. CASE HeapWait(p, heapSize + Length[s])
      BY <1>1, <1>3, <2>1, <3>1, <3>3 DEF Receive, HeapWait, SignalSampleSet,
                                          TypeOK
    <3> QED
      BY <2>3, <3>2, <3>3 DEF ReceiveBlocking
  <2> QED
    BY <1>3, <2>2, <2>3 DEF Receive
<1>4. ASSUME NEW p \in Producer, ReceiveAgain(p) PROVE TypeOK'
  BY <1>1, <1>4 DEF ReceiveAgain, HeapAccept, HeapWait, SignalSampleSet, TypeOK
<1>5. ASSUME NEW p \in Producer, Insert(p) PROVE TypeOK'
  BY <1>1, <1>5 DEF Insert, SignalSampleSet, TypeOK, heapVars
<1>6. ASSUME NEW f \in Flusher, Flush(f) \/ FlushCheck(f) PROVE TypeOK'
  BY ZenonT(60), <1>1, <1>6 DEF Flush, FlushCheck, SignalSampleSet, TypeOK, heapVars,
                    receiveVars
<1>7. CASE RunWait \/ RunReturn
  BY <1>1, <1>7, BroadcastType DEF RunWait, RunReturn, TypeOK, heapVars,
                                   receiveVars
<1>8. CASE RunNoAged
  <2>1. receivePc' \in [Producer -> {"idle", "heapWait", "heapWoken", "insert"}]
    BY <1>8, SignalHeapType DEF RunNoAged, TypeOK
  <2>2. heapMax' \in Nat
    BY <1>8, GrownType DEF RunNoAged, TypeOK
  <2> QED
    BY <1>1, <1>8, <2>1, <2>2 DEF RunNoAged, TypeOK
<1>9. CASE RunWaitNoAged \/ RunTake \/ RunStop
  <2>1. ssum' \in Nat
    BY SMT, <1>9 DEF RunWaitNoAged, RunTake, RunStop, TypeOK
  <2>2. flushed' \in BOOLEAN
    BY <1>9, Zenon DEF RunWaitNoAged, RunTake, RunStop, TypeOK
  <2> QED
    BY <1>1, <1>9, <2>1, <2>2, Zenon
       DEF RunWaitNoAged, RunTake, RunStop, TypeOK, heapVars, receiveVars
<1>10. CASE RunDistribute
  BY SMTT(30), <1>1, <1>10 DEF RunDistribute, TypeOK, SetTypeOK, heapVars, receiveVars
<1>11. CASE HeapDecrement
  <2>1. receivePc' \in [Producer -> {"idle", "heapWait", "heapWoken", "insert"}]
    BY <1>11, SignalHeapType DEF HeapDecrement, TypeOK
  <2>2. heapSize' \in Int
    BY SMT, <1>11 DEF HeapDecrement, TypeOK
  <2>3. heapExceeded' \in BOOLEAN
    BY <1>11 DEF HeapDecrement
  <2> QED
    BY <1>1, <1>11, <2>1, <2>2, <2>3 DEF HeapDecrement, TypeOK
<1>12. CASE Start \/ Join \/ InterruptRun \/ Delete
  BY ZenonT(60), <1>1, <1>12 DEF Start, Join, InterruptRun, Delete, SignalSampleSet, TypeOK,
                     heapVars, receiveVars
<1>13. CASE InterruptFlush
  <2>1. flushPc' \in [Flusher -> {"idle", "check", "flushWait"}]
    BY <1>13, SignalFlushType DEF InterruptFlush
  <2> QED
    BY <1>1, <1>13, <2>1 DEF InterruptFlush, TypeOK, heapVars, receiveVars
<1>14. CASE InterruptHeap
  <2>1. receivePc' \in [Producer -> {"idle", "heapWait", "heapWoken", "insert"}]
    BY <1>14, SignalHeapType DEF InterruptHeap
  <2>2. heapMax' \in Nat
    BY <1>14, GrownType DEF InterruptHeap, TypeOK
  <2> QED
    BY <1>1, <1>14, <2>1, <2>2 DEF InterruptHeap, TypeOK
<1>15. CASE SpuriousWakeup
  BY SMT, <1>1, <1>15 DEF SpuriousWakeup, TypeOK, heapVars
<1>16. CASE UNCHANGED vars
  BY <1>1, <1>16 DEF vars, TypeOK, heapVars, receiveVars
<1> QED
  BY <1>2, <1>3, <1>4, <1>5, <1>6, <1>7, <1>8, <1>9, <1>10, <1>11, <1>12,
     <1>13, <1>14, <1>15, <1>16 DEF Next, Run, Interrupt

\* Type correctness of every variable of the sorter.
THEOREM TypeCorrect == Spec => []TypeOK
BY InitTypeOK, NextTypeOK, PTL DEF Spec

\* Under every schedule of its threads, the sorter implements SortedSampleSet.
THEOREM Refinement == Spec => SetSpec
<1>1. Init => SetInit
  BY DEF Init
<1> QED
  BY <1>1, TypeCorrect, NextRefines, PTL DEF Spec, SetSpec

\* The order of the samples, for the sorter with its threads: a sample is
\* sent after a later one only if it came outside the sorting window of the
\* good samples, or behind a flush.
THEOREM SorterSorts == Spec => []SortedWithinWindow
BY Refinement, Sorted, PTL

\* No interleaving of receive(), flush(), run() and interrupt() loses,
\* repeats or frees a sample twice.
THEOREM SorterLosesNothing == Spec => []NoSampleLostOrRepeated
BY Refinement, NoLoss, PTL

-----------------------------------------------------------------------------
(* What flush() relies on.                                                 *)

FlushInv ==
    /\ FlushedMeansDrained
    /\ runPc # "distribute" => agedsamples = {}

\* Only run() sets _flushed, when it finds nothing or ends; receive() resets it.
LEMMA NextFlushInv == TypeOK /\ FlushInv /\ [Next]_vars => FlushInv'
<1> SUFFICES ASSUME TypeOK, FlushInv, [Next]_vars PROVE FlushInv'
  OBVIOUS
<1> USE DEF FlushInv, FlushedMeansDrained, setVars
<1>1. ASSUME NEW p \in Producer, NEW s \in Sample, ReceiveFuture(p, s)
      PROVE  FlushInv'
  BY <1>1 DEF ReceiveFuture
<1>2. ASSUME NEW p \in Producer, NEW s \in Sample, Receive(p, s)
      PROVE  FlushInv'
  BY <1>2 DEF Receive, ReceiveDiscarding, ReceiveBlocking, HeapAccept,
              HeapWait, SignalSampleSet
<1>3. ASSUME NEW p \in Producer, ReceiveAgain(p) PROVE FlushInv'
  BY <1>3 DEF ReceiveAgain, HeapAccept, HeapWait, SignalSampleSet
<1>4. ASSUME NEW p \in Producer, Insert(p) PROVE FlushInv'
  BY <1>4 DEF Insert, InsertSample, SignalSampleSet
<1>5. ASSUME NEW f \in Flusher, Flush(f) \/ FlushCheck(f) PROVE FlushInv'
  BY SMT, <1>5 DEF Flush, FlushCheck, SignalSampleSet
<1>6. CASE RunWait
  BY <1>6 DEF RunWait
<1>12. CASE RunNoAged \/ RunWaitNoAged \/ HeapDecrement \/ RunReturn
  <2>1. UNCHANGED <<samples, agedsamples, flushed>> /\ runPc # "distribute"
    BY <1>12 DEF RunNoAged, RunWaitNoAged, HeapDecrement, RunReturn
  <2> QED
    BY <2>1
<1>7. CASE RunTake
  BY <1>7 DEF RunTake, TakeAll, TakeAged, TakeOut
<1>8. CASE RunDistribute
  BY <1>8 DEF RunDistribute, DistributeSample
<1>9. CASE RunStop \/ Delete
  BY <1>9 DEF RunStop, Delete, StopAndRelease, ReleaseLeftover, ReleaseSamples
<1>10. CASE Start \/ Interrupt \/ Join \/ SpuriousWakeup
  BY SMT, <1>10 DEF Start, Interrupt, InterruptRun, InterruptFlush, InterruptHeap,
               Join, SpuriousWakeup, SignalSampleSet
<1>11. CASE UNCHANGED vars
  BY <1>11 DEF vars
<1> QED
  BY <1>1, <1>2, <1>3, <1>4, <1>5, <1>6, <1>7, <1>8, <1>9, <1>10, <1>11, <1>12
     DEF Next, Run

\* flush() may trust _flushed: it is never true while a sample is in the set
\* or is taken out and not yet sent.
THEOREM FlushSound == Spec => []FlushedMeansDrained
<1>1. Init => FlushInv
  BY DEF Init, SetInit, FlushInv, FlushedMeansDrained
<1>2. FlushInv => FlushedMeansDrained
  BY DEF FlushInv
<1> QED
  BY <1>1, <1>2, TypeCorrect, NextFlushInv, PTL DEF Spec

-----------------------------------------------------------------------------
(* The heap limit.                                                         *)

\* When it does not block, receive() adds only what fits, or discards the sample.
LEMMA NextHeapBounded == TypeOK /\ HeapBounded /\ [Next]_vars => HeapBounded'
<1> SUFFICES ASSUME TypeOK, HeapBounded, [Next]_vars, ~heapBlock
             PROVE  heapSize' <= heapMax'
  BY DEF HeapBounded
<1> USE DEF HeapBounded
<1>0. heapSize <= heapMax /\ heapSize \in Int /\ heapMax \in Nat /\ ssum \in Nat
  BY DEF TypeOK
<1>1. ASSUME NEW p \in Producer, NEW s \in Sample, Receive(p, s)
      PROVE  heapSize' <= heapMax'
  BY <1>0, <1>1, SorterAssumption
     DEF Receive, ReceiveDiscarding, ReceiveBlocking, HeapAccept
<1>2. ASSUME NEW p \in Producer, ReceiveAgain(p) PROVE heapSize' <= heapMax'
  BY <1>0, <1>2 DEF ReceiveAgain, HeapAccept, HeapWait
<1>3. CASE HeapDecrement
  BY SMT, <1>0, <1>3 DEF HeapDecrement
<1>4. CASE RunNoAged \/ InterruptHeap
  <2>1. heapSize' = heapSize /\ (heapMax' = heapMax \/ heapMax' = Grown(heapMax))
    BY <1>4 DEF RunNoAged, InterruptHeap
  <2> QED
    BY SMT, <1>0, <2>1, GrownType
<1>5. ASSUME UNCHANGED heapVars PROVE heapSize' <= heapMax'
  BY <1>0, <1>5 DEF heapVars
<1>6. ASSUME NEW p \in Producer, NEW s \in Sample, ReceiveFuture(p, s)
      PROVE  UNCHANGED heapVars
  BY <1>6 DEF ReceiveFuture
<1>7. ASSUME NEW p \in Producer, Insert(p) PROVE UNCHANGED heapVars
  BY <1>7 DEF Insert
<1>8. ASSUME NEW f \in Flusher, Flush(f) \/ FlushCheck(f)
      PROVE  UNCHANGED heapVars
  BY <1>8 DEF Flush, FlushCheck
<1>9. CASE \/ RunWait \/ RunWaitNoAged \/ RunTake \/ RunDistribute \/ RunStop
           \/ RunReturn
  BY <1>5, <1>9 DEF RunWait, RunWaitNoAged, RunTake, RunDistribute, RunStop,
                    RunReturn
<1>10. CASE Start \/ InterruptRun \/ InterruptFlush \/ Join \/ Delete
            \/ SpuriousWakeup
  BY <1>5, <1>10 DEF Start, InterruptRun, InterruptFlush, Join, Delete,
                     SpuriousWakeup
<1>11. CASE UNCHANGED vars
  BY <1>5, <1>11 DEF vars
<1> QED
  BY <1>1, <1>2, <1>3, <1>4, <1>5, <1>6, <1>7, <1>8, <1>9, <1>10, <1>11
     DEF Next, Run, Interrupt

\* A sorter that discards rather than blocks never holds more bytes than
\* _heapMax allows, however many threads call receive().
THEOREM HeapLimit == Spec => []HeapBounded
<1>1. Init => HeapBounded
  BY SMT, SorterAssumption DEF Init, HeapBounded
<1> QED
  BY <1>1, TypeCorrect, NextHeapBounded, PTL DEF Spec

-----------------------------------------------------------------------------
(* What becomes of the samples given to receive().                         *)

\* A producer holds one sample, in the middle of receive(), or none.
ReceiveInv ==
    \A p \in Producer :
        IF receivePc[p] = "idle" THEN receiving[p] = {}
                                 ELSE \E s \in Sample : receiving[p] = {s}

\* A producer that run() wakes still holds its sample.
LEMMA SignalHeapReceiveInv ==
    ASSUME TypeOK, ReceiveInv, receiving' = receiving,
           receivePc' \in SignalOne(receivePc, "heapWait", "heapWoken")
    PROVE  ReceiveInv'
<1>1. \A p \in Producer :
          \/ receivePc'[p] = receivePc[p]
          \/ receivePc[p] = "heapWait" /\ receivePc'[p] = "heapWoken"
  BY DEF TypeOK, SignalOne
<1> QED
  BY <1>1 DEF ReceiveInv

\* A thread takes a sample as it enters receive() and gives it away as it leaves.
LEMMA NextReceiveInv == TypeOK /\ ReceiveInv /\ [Next]_vars => ReceiveInv'
<1> SUFFICES ASSUME TypeOK, ReceiveInv, [Next]_vars PROVE ReceiveInv'
  OBVIOUS
<1>1. ASSUME NEW p \in Producer, NEW s \in Sample, Receive(p, s)
      PROVE  ReceiveInv'
  <2>1. \/ UNCHANGED <<receivePc, receiving>>
        \/ /\ receiving' = [receiving EXCEPT ![p] = {s}]
           /\ \/ receivePc' = [receivePc EXCEPT ![p] = "insert"]
              \/ receivePc' = [receivePc EXCEPT ![p] = "heapWait"]
    BY <1>1 DEF Receive, ReceiveDiscarding, ReceiveBlocking, HeapAccept, HeapWait
  <2> QED
    BY <2>1 DEF ReceiveInv, TypeOK
<1>2. ASSUME NEW p \in Producer, ReceiveAgain(p) PROVE ReceiveInv'
  <2>1. /\ receiving' = receiving /\ receivePc[p] = "heapWoken"
        /\ \/ receivePc' = [receivePc EXCEPT ![p] = "insert"]
           \/ receivePc' = [receivePc EXCEPT ![p] = "heapWait"]
    BY <1>2 DEF ReceiveAgain, HeapAccept, HeapWait
  <2> QED
    BY <2>1 DEF ReceiveInv, TypeOK
<1>3. ASSUME NEW p \in Producer, Insert(p) PROVE ReceiveInv'
  BY <1>3 DEF Insert, ReceiveInv, TypeOK
<1>4. ASSUME UNCHANGED <<receivePc, receiving>> PROVE ReceiveInv'
  BY <1>4 DEF ReceiveInv
<1>5. CASE RunNoAged \/ HeapDecrement \/ InterruptHeap
  <2>1. /\ receiving' = receiving
        /\ \/ receivePc' = receivePc
           \/ receivePc' \in SignalOne(receivePc, "heapWait", "heapWoken")
    BY <1>5 DEF RunNoAged, HeapDecrement, InterruptHeap
  <2> QED
    BY <1>4, <2>1, SignalHeapReceiveInv
<1>6. CASE SpuriousWakeup
  BY <1>6 DEF SpuriousWakeup, ReceiveInv, TypeOK
<1>7. ASSUME NEW p \in Producer, NEW s \in Sample, ReceiveFuture(p, s)
      PROVE  ReceiveInv'
  BY <1>4, <1>7 DEF ReceiveFuture
<1>8. ASSUME NEW f \in Flusher, Flush(f) \/ FlushCheck(f) PROVE ReceiveInv'
  BY <1>4, <1>8 DEF Flush, FlushCheck, receiveVars
<1>9. CASE \/ RunWait \/ RunWaitNoAged \/ RunTake \/ RunDistribute \/ RunStop
           \/ RunReturn
  BY <1>4, <1>9 DEF RunWait, RunWaitNoAged, RunTake, RunDistribute, RunStop,
                    RunReturn, receiveVars
<1>10. CASE Start \/ InterruptRun \/ InterruptFlush \/ Join \/ Delete
  BY <1>4, <1>10 DEF Start, InterruptRun, InterruptFlush, Join, Delete,
                     receiveVars
<1>11. CASE UNCHANGED vars
  BY <1>4, <1>11 DEF vars, receiveVars
<1> QED
  BY <1>1, <1>2, <1>3, <1>5, <1>6, <1>7, <1>8, <1>9, <1>10, <1>11
     DEF Next, Run, Interrupt

\* receive() refuses a sample, discards it, still holds it, or has inserted it.
LEMMA NextAccounted ==
    TypeOK /\ ReceiveInv /\ EverySampleAccounted /\ [Next]_vars
        => EverySampleAccounted'
<1> SUFFICES ASSUME TypeOK, ReceiveInv, EverySampleAccounted, [Next]_vars
             PROVE  EverySampleAccounted'
  OBVIOUS
<1>1. ASSUME UNCHANGED <<offered, future, discarded, receiving, stamp>>
      PROVE  EverySampleAccounted'
  BY <1>1 DEF EverySampleAccounted, InReceive
<1>2. ASSUME NEW p \in Producer, NEW s \in Sample, ReceiveFuture(p, s)
      PROVE  EverySampleAccounted'
  <2>1. /\ s \notin offered /\ offered' = offered \cup {s}
        /\ future' = future \cup {s}
        /\ UNCHANGED <<discarded, receiving, stamp>>
    BY <1>2 DEF ReceiveFuture, setVars
  <2> QED
    BY SMT, <2>1 DEF EverySampleAccounted, InReceive
<1>3. ASSUME NEW p \in Producer, NEW s \in Sample, Receive(p, s)
      PROVE  EverySampleAccounted'
  <2>1. /\ receivePc[p] = "idle" /\ s \notin offered
        /\ offered' = offered \cup {s}
        /\ UNCHANGED <<future, stamp>>
    BY <1>3 DEF Receive, setVars
  <2>2. CASE discarded' = discarded \cup {s} /\ UNCHANGED receiving
    BY <2>1, <2>2 DEF EverySampleAccounted, InReceive
  <2>3. CASE UNCHANGED discarded /\ receiving' = [receiving EXCEPT ![p] = {s}]
    <3>1. receiving[p] = {}
      BY <2>1 DEF ReceiveInv
    <3>2. /\ \A q \in Producer : q # p => receiving'[q] = receiving[q]
          /\ receiving'[p] = {s}
      BY <2>3 DEF TypeOK
    <3>3. InReceive' = InReceive \cup {s}
      BY <3>1, <3>2 DEF InReceive
    <3>4. s \notin InReceive
      BY <2>1 DEF EverySampleAccounted
    <3>5. \A q \in Producer : s \notin receiving[q]
      BY <3>4 DEF InReceive
    <3>6. \A q, r \in Producer : q # r => receiving'[q] \cap receiving'[r] = {}
      BY SMT, <3>2, <3>5 DEF EverySampleAccounted
    <3> QED
      BY <2>1, <2>3, <3>3, <3>6 DEF EverySampleAccounted
  <2> QED
    BY <1>3, <2>2, <2>3 DEF Receive, ReceiveDiscarding, ReceiveBlocking
<1>4. ASSUME NEW p \in Producer, Insert(p) PROVE EverySampleAccounted'
  <2>1. PICK s \in receiving[p] : InsertSample(s)
    BY <1>4 DEF Insert
  <2>2. s \in Sample /\ receiving[p] = {s}
    BY <1>4, <2>1 DEF Insert, ReceiveInv
  <2>3. /\ receiving'[p] = {}
        /\ \A q \in Producer : q # p => receiving'[q] = receiving[q]
        /\ UNCHANGED <<offered, future, discarded>>
    BY <1>4 DEF Insert, TypeOK
  <2>4. InReceive' = InReceive \ {s}
    BY SMT, <2>2, <2>3 DEF InReceive, EverySampleAccounted
  <2>5. stamp'[s] # 0 /\ \A r \in Sample : r # s => stamp'[r] = stamp[r]
    BY SMT, <2>1, <2>2 DEF InsertSample, TypeOK, SetTypeOK
  <2>6. s \in InReceive
    BY <2>2 DEF InReceive
  <2>7. \A q, r \in Producer : q # r => receiving'[q] \cap receiving'[r] = {}
    BY <2>3 DEF EverySampleAccounted
  <2> QED
    BY <2>3, <2>4, <2>5, <2>6, <2>7 DEF EverySampleAccounted
<1>5. ASSUME NEW p \in Producer, ReceiveAgain(p) PROVE EverySampleAccounted'
  BY <1>1, <1>5 DEF ReceiveAgain, setVars
<1>6. ASSUME NEW f \in Flusher, Flush(f) \/ FlushCheck(f)
      PROVE  EverySampleAccounted'
  BY <1>1, <1>6 DEF Flush, FlushCheck, receiveVars, setVars
<1>7. CASE RunTake \/ RunDistribute \/ RunStop \/ Delete
  <2>1. UNCHANGED stamp
    BY <1>7 DEF RunTake, TakeAll, TakeAged, TakeOut, RunDistribute,
                DistributeSample, RunStop, Delete, StopAndRelease,
                ReleaseLeftover, ReleaseSamples
  <2> QED
    BY <1>1, <1>7, <2>1 DEF RunTake, RunDistribute, RunStop, Delete, receiveVars
<1>8. CASE RunWait \/ RunNoAged \/ RunWaitNoAged \/ HeapDecrement \/ RunReturn
  BY <1>1, <1>8 DEF RunWait, RunNoAged, RunWaitNoAged, HeapDecrement, RunReturn,
                    receiveVars, setVars
<1>9. CASE Start \/ Interrupt \/ Join \/ SpuriousWakeup
  BY <1>1, <1>9 DEF Start, Interrupt, InterruptRun, InterruptFlush,
                    InterruptHeap, Join, SpuriousWakeup, receiveVars, setVars
<1>10. CASE UNCHANGED vars
  BY <1>1, <1>10 DEF vars, receiveVars, setVars
<1> QED
  BY <1>2, <1>3, <1>4, <1>5, <1>6, <1>7, <1>8, <1>9, <1>10 DEF Next, Run

\* Every sample given to receive() has exactly one fate, and no two callers
\* hold the same one.
THEOREM ReceiveAccounts == Spec => []EverySampleAccounted
<1>1. Init => ReceiveInv
  BY DEF Init, ReceiveInv
<1>2. Init => EverySampleAccounted
  BY SMT DEF Init, SetInit, EverySampleAccounted, InReceive
<1> QED
  BY <1>1, <1>2, TypeCorrect, NextReceiveInv, NextAccounted, PTL DEF Spec

-----------------------------------------------------------------------------
(* The bytes on the heap.                                                  *)

\* The bytes of one sample.
LEMMA ByteOne ==
    ASSUME NEW r \in Sample
    PROVE  /\ IsFiniteSet({r} \X (1..Length[r]))
           /\ Cardinality({r} \X (1..Length[r])) = Length[r]
           /\ Length[r] \in Nat
<1>1. Length[r] \in Nat
  BY SMT, SorterAssumption
<1>2. IsFiniteSet(1..Length[r]) /\ Cardinality(1..Length[r]) = Length[r]
  BY SMT, <1>1, FS_Interval
<1>3. IsFiniteSet({r}) /\ Cardinality({r}) = 1
  BY FS_Singleton
<1>4. /\ IsFiniteSet({r} \X (1..Length[r]))
      /\ Cardinality({r} \X (1..Length[r]))
           = Cardinality({r}) * Cardinality(1..Length[r])
  BY <1>2, <1>3, FS_Product
<1> QED
  BY SMT, <1>1, <1>2, <1>3, <1>4

\* Finitely many samples have finitely many bytes.
LEMMA ByteFinite ==
    ASSUME NEW S, S \subseteq Sample, IsFiniteSet(S)
    PROVE  IsFiniteSet(Byte(S))
<1> DEFINE f == [r \in S |-> {r} \X (1..Length[r])]
           T == {{r} \X (1..Length[r]) : r \in S}
<1>1. f \in Surjection(S, T)
  BY DEF Surjection
<1>2. IsFiniteSet(T)
  BY <1>1, FS_Surjection
<1>3. \A t \in T : IsFiniteSet(t)
  BY ByteOne
<1> QED
  BY <1>2, <1>3, FS_UNION DEF Byte

\* The bytes of one more sample.
LEMMA BytesAdd ==
    ASSUME NEW S, S \subseteq Sample, IsFiniteSet(S), NEW s \in Sample, s \notin S
    PROVE  /\ Bytes(S) \in Nat
           /\ Bytes(S \cup {s}) = Bytes(S) + Length[s]
<1> DEFINE Of(r) == {r} \X (1..Length[r])
<1>1. Byte(S \cup {s}) = Byte(S) \cup Of(s)
  BY DEF Byte
<1>2. Byte(S) \cap Of(s) = {}
  <2> SUFFICES ASSUME NEW b \in Byte(S), b \in Of(s) PROVE FALSE
    OBVIOUS
  <2>1. PICK r \in S : b \in Of(r)
    BY DEF Byte
  <2>2. b[1] = r /\ b[1] = s
    BY <2>1
  <2> QED
    BY <2>2
<1>3. /\ Cardinality(Byte(S)) \in Nat /\ Cardinality({}) = 0
      /\ Cardinality(Byte(S) \cup Of(s))
           = Cardinality(Byte(S)) + Cardinality(Of(s)) - Cardinality({})
  <2>1. IsFiniteSet(Byte(S)) /\ IsFiniteSet(Of(s))
    BY ByteFinite, ByteOne
  <2>2. Cardinality(Byte(S) \cup Of(s))
          = Cardinality(Byte(S)) + Cardinality(Of(s)) - Cardinality(Byte(S) \cap Of(s))
    BY <2>1, FS_Union
  <2> QED
    BY <1>2, <2>1, <2>2, FS_CardinalityType, FS_EmptySet
<1>4. /\ Bytes(S) \in Nat /\ Length[s] \in Nat
      /\ Bytes(S \cup {s}) = Bytes(S) + Length[s] - 0
  BY <1>1, <1>3, ByteOne DEF Bytes
<1> QED
  BY SMT, <1>4

\* What is on the heap was given to receive().
LEMMA OnHeapOffered ==
    ASSUME TypeOK, EverySampleAccounted, NoSampleLostOrRepeated
    PROVE  OnHeap \subseteq offered /\ OnHeap \subseteq Sample
<1>1. InReceive \subseteq Sample
  BY DEF InReceive, TypeOK
<1>2. OnHeap \subseteq Sample
  BY <1>1 DEF OnHeap, TypeOK, SetTypeOK
<1>3. ASSUME NEW s \in OnHeap PROVE s \in offered
  <2>1. s \in Sample /\ (s \in InReceive \/ stamp[s] # 0)
    BY <1>2 DEF OnHeap, NoSampleLostOrRepeated
  <2> QED
    BY <2>1 DEF EverySampleAccounted
<1> QED
  BY <1>2, <1>3

\* Only finitely many samples have been given to receive().
LEMMA NextFinite == IsFiniteSet(offered) /\ [Next]_vars => IsFiniteSet(offered)'
<1> SUFFICES ASSUME IsFiniteSet(offered), [Next]_vars PROVE IsFiniteSet(offered')
  OBVIOUS
<1>1. offered' = offered \/ \E s \in Sample : offered' = offered \cup {s}
  <2>1. ASSUME NEW p \in Producer, NEW s \in Sample,
               ReceiveFuture(p, s) \/ Receive(p, s)
        PROVE  offered' = offered \cup {s}
    BY <2>1 DEF ReceiveFuture, Receive
  <2>2. ASSUME NEW p \in Producer, ReceiveAgain(p) \/ Insert(p)
        PROVE  offered' = offered
    BY <2>2 DEF ReceiveAgain, Insert
  <2>3. ASSUME NEW f \in Flusher, Flush(f) \/ FlushCheck(f) PROVE offered' = offered
    BY <2>3 DEF Flush, FlushCheck, receiveVars
  <2>4. CASE Run
    BY <2>4 DEF Run, RunWait, RunNoAged, RunWaitNoAged, RunTake, RunDistribute,
                HeapDecrement, RunStop, RunReturn, receiveVars
  <2>5. CASE Start \/ Interrupt \/ Join \/ Delete \/ SpuriousWakeup
    BY <2>5 DEF Start, Interrupt, InterruptRun, InterruptFlush, InterruptHeap,
                Join, Delete, SpuriousWakeup, receiveVars
  <2>6. CASE UNCHANGED vars
    BY <2>6 DEF vars, receiveVars
  <2> QED
    BY <2>1, <2>2, <2>3, <2>4, <2>5, <2>6 DEF Next
<1> QED
  BY <1>1, FS_AddElement

\* Every step of every thread keeps the account.
LEMMA NextHeapAccounting ==
    /\ TypeOK /\ ReceiveInv /\ EverySampleAccounted
    /\ NoSampleLostOrRepeated /\ IsFiniteSet(offered)
    /\ HeapAccounting /\ [Next]_vars
    => HeapAccounting'
<1> SUFFICES ASSUME TypeOK, ReceiveInv, EverySampleAccounted,
                    NoSampleLostOrRepeated, IsFiniteSet(offered),
                    HeapAccounting, [Next]_vars
             PROVE  HeapAccounting'
  OBVIOUS
<1>0. OnHeap \subseteq offered /\ OnHeap \subseteq Sample /\ IsFiniteSet(OnHeap)
  BY OnHeapOffered, FS_Subset
<1>1. ASSUME OnHeap' = OnHeap, heapSize' = heapSize, Uncounted' = Uncounted
      PROVE  HeapAccounting'
  BY <1>1 DEF HeapAccounting, Bytes, Byte
<1>2. ASSUME UNCHANGED <<setVars, receiving>> PROVE OnHeap' = OnHeap
  BY <1>2 DEF OnHeap, InReceive, setVars
<1>3. ASSUME UNCHANGED ssum, runPc' = SignalSampleSet(runPc) \/ runPc' = runPc
      PROVE  Uncounted' = Uncounted
  BY <1>3 DEF Uncounted, SignalSampleSet
<1>4. ASSUME NEW p \in Producer, NEW s \in Sample, ReceiveFuture(p, s)
      PROVE  HeapAccounting'
  BY <1>1, <1>2, <1>3, <1>4 DEF ReceiveFuture, heapVars
<1>5. ASSUME NEW p \in Producer, NEW s \in Sample, Receive(p, s)
      PROVE  HeapAccounting'
  <2>1. /\ s \notin offered /\ UNCHANGED <<setVars, ssum>>
        /\ runPc' = SignalSampleSet(runPc) \/ runPc' = runPc
        /\ receivePc[p] = "idle"
    BY <1>5 DEF Receive, ReceiveDiscarding, ReceiveBlocking, HeapAccept, HeapWait
  <2>2. Uncounted' = Uncounted
    BY <1>3, <2>1
  <2>3. CASE UNCHANGED <<heapSize, receiving>>
    BY <1>1, <1>2, <2>1, <2>2, <2>3
  <2>4. CASE /\ heapSize' = heapSize + Length[s]
             /\ receiving' = [receiving EXCEPT ![p] = {s}]
    <3>1. OnHeap' = OnHeap \cup {s}
      <4>1. InReceive' = InReceive \cup {s}
        <5>1. /\ \A q \in Producer : q # p => receiving'[q] = receiving[q]
              /\ receiving'[p] = {s} /\ receiving[p] = {}
          BY <2>1, <2>4 DEF TypeOK, ReceiveInv
        <5> QED
          BY <5>1 DEF InReceive
      <4> QED
        BY <2>1, <4>1 DEF OnHeap, setVars
    <3>2. Bytes(OnHeap) \in Nat /\ Bytes(OnHeap \cup {s}) = Bytes(OnHeap) + Length[s]
      BY <1>0, <2>1, BytesAdd
    <3>3. Bytes(OnHeap)' = Bytes(OnHeap \cup {s})
      BY <3>1 DEF Bytes, Byte
    <3>4. heapSize = Bytes(OnHeap) + Uncounted /\ Uncounted \in Nat
      BY SMT DEF HeapAccounting, Uncounted, TypeOK
    <3>5. Length[s] \in Nat
      BY SMT, SorterAssumption
    <3>6. heapSize' = Bytes(OnHeap)' + Uncounted'
      BY SMT, <2>2, <2>4, <3>2, <3>3, <3>4, <3>5
    <3> QED
      BY <3>6 DEF HeapAccounting
  <2> QED
    BY <1>5, <2>3, <2>4 DEF Receive, ReceiveDiscarding, ReceiveBlocking, HeapAccept,
                            HeapWait
<1>6. ASSUME NEW p \in Producer, ReceiveAgain(p) PROVE HeapAccounting'
  BY <1>1, <1>2, <1>3, <1>6 DEF ReceiveAgain, HeapAccept, HeapWait
<1>7. ASSUME NEW p \in Producer, Insert(p) PROVE HeapAccounting'
  <2>1. PICK s \in receiving[p] : InsertSample(s)
    BY <1>7 DEF Insert
  <2>2. s \in Sample /\ receiving[p] = {s}
    BY <1>7, <2>1 DEF Insert, ReceiveInv
  <2>3. /\ receiving'[p] = {}
        /\ \A q \in Producer : q # p => receiving'[q] = receiving[q]
    BY <1>7 DEF Insert, TypeOK
  <2>4. InReceive = InReceive' \cup {s}
    BY <2>2, <2>3 DEF InReceive
  <2>5. /\ samples' = samples \cup {s}
        /\ UNCHANGED <<agedsamples, released>>
    BY <2>1 DEF InsertSample
  <2>6. OnHeap' = OnHeap
    BY <2>4, <2>5 DEF OnHeap
  <2> QED
    BY <1>1, <1>3, <1>7, <2>6 DEF Insert, heapVars
<1>8. ASSUME NEW f \in Flusher, Flush(f) \/ FlushCheck(f) PROVE HeapAccounting'
  BY <1>1, <1>2, <1>3, <1>8 DEF Flush, FlushCheck, heapVars, receiveVars
<1>9. CASE RunWait \/ RunNoAged \/ RunWaitNoAged \/ RunReturn
  <2>1. Uncounted' = Uncounted
    BY <1>9 DEF RunWait, RunNoAged, RunWaitNoAged, RunReturn, Uncounted
  <2>2. UNCHANGED <<setVars, receiving, heapSize>>
    BY <1>9 DEF RunWait, RunNoAged, RunWaitNoAged, RunReturn, heapVars, receiveVars
  <2> QED
    BY <1>1, <1>2, <2>1, <2>2
<1>10. CASE RunTake
  <2>1. Uncounted' = Uncounted
    BY <1>10 DEF RunTake, Uncounted
  <2>2. /\ samples \cup agedsamples = samples' \cup agedsamples'
        /\ UNCHANGED <<receiving, released, heapSize>>
    BY <1>10 DEF RunTake, TakeAll, TakeAged, TakeOut, AgedBy, receiveVars, heapVars
  <2>3. OnHeap' = OnHeap
    BY <2>2 DEF OnHeap, InReceive
  <2> QED
    BY <1>1, <2>1, <2>2, <2>3
<1>11. CASE RunDistribute
  <2>1. PICK s \in agedsamples : DistributeSample(s) /\ ssum' = ssum + Length[s]
    BY <1>11 DEF RunDistribute
  <2>2. /\ s \in Sample /\ s \notin samples \cup released \cup InReceive
    <3>1. s \in Sample
      BY DEF TypeOK, SetTypeOK
    <3>2. s \notin samples \cup released /\ stamp[s] # 0
      BY <3>1 DEF NoSampleLostOrRepeated
    <3> QED
      BY <3>1, <3>2 DEF EverySampleAccounted
  <2>3. /\ agedsamples' = agedsamples \ {s}
        /\ UNCHANGED <<samples, released, receiving, heapSize>>
    BY <1>11, <2>1 DEF RunDistribute, DistributeSample, receiveVars, heapVars
  <2>4. OnHeap = OnHeap' \cup {s} /\ s \notin OnHeap'
    BY <2>2, <2>3 DEF OnHeap, InReceive
  <2>5. OnHeap' \subseteq Sample /\ IsFiniteSet(OnHeap')
    BY <1>0, <2>4, FS_Subset
  <2>6. /\ Bytes(OnHeap') \in Nat
        /\ Bytes(OnHeap) = Bytes(OnHeap') + Length[s]
    BY <2>2, <2>4, <2>5, BytesAdd
  <2>7. Uncounted = ssum /\ Uncounted' = ssum + Length[s] /\ ssum \in Nat
    BY <1>11, <2>1 DEF RunDistribute, Uncounted, TypeOK
  <2>8. Length[s] \in Nat /\ heapSize' = Bytes(OnHeap) + Uncounted
    BY SMT, <2>2, <2>3, SorterAssumption DEF HeapAccounting
  <2>9. heapSize' = Bytes(OnHeap') + Uncounted'
    BY SMT, <2>6, <2>7, <2>8
  <2> QED
    BY <2>9 DEF HeapAccounting, Bytes, Byte
<1>12. CASE HeapDecrement
  <2>1. /\ heapSize' = heapSize - ssum /\ UNCHANGED <<setVars, receiving>>
        /\ Uncounted = ssum /\ Uncounted' = 0
    BY <1>12 DEF HeapDecrement, Uncounted
  <2>2. OnHeap' = OnHeap
    BY <1>2, <2>1
  <2>3. heapSize = Bytes(OnHeap) + ssum /\ ssum \in Nat /\ heapSize \in Int
    BY <2>1 DEF HeapAccounting, TypeOK
  <2>4. Bytes(OnHeap) \in Nat
    BY <1>0, ByteFinite, FS_CardinalityType DEF Bytes
  <2>5. heapSize' = Bytes(OnHeap) + Uncounted'
    BY SMT, <2>1, <2>3, <2>4
  <2> QED
    BY <2>2, <2>5 DEF HeapAccounting, Bytes, Byte
<1>13. CASE RunStop \/ Delete
  <2>1. /\ released' = released \cup samples /\ samples' = {}
        /\ UNCHANGED <<agedsamples, receiving, heapSize, ssum>>
    BY <1>13 DEF RunStop, Delete, StopAndRelease, ReleaseLeftover, ReleaseSamples,
                 receiveVars, heapVars
  <2>2. OnHeap' = OnHeap
    BY <2>1 DEF OnHeap, InReceive
  <2>3. Uncounted' = Uncounted
    BY <1>13, <2>1 DEF RunStop, Delete, Uncounted
  <2> QED
    BY <1>1, <2>1, <2>2, <2>3
<1>14. CASE Start \/ SpuriousWakeup
  <2>1. UNCHANGED <<setVars, receiving, heapSize>>
    BY <1>14 DEF Start, SpuriousWakeup, heapVars, receiveVars
  <2>2. Uncounted' = Uncounted
    BY <1>14 DEF Start, SpuriousWakeup, Uncounted
  <2> QED
    BY <1>1, <1>2, <2>1, <2>2
<1>15. CASE Interrupt \/ Join
  BY <1>1, <1>2, <1>3, <1>15 DEF Interrupt, InterruptRun, InterruptFlush,
                                 InterruptHeap, Join, heapVars, receiveVars
<1>16. CASE UNCHANGED vars
  BY <1>1, <1>2, <1>3, <1>16 DEF vars, heapVars, receiveVars
<1> QED
  BY <1>4, <1>5, <1>6, <1>7, <1>8, <1>9, <1>10, <1>11, <1>12, <1>13, <1>14,
     <1>15, <1>16 DEF Next, Run

\* _heapSize is exactly the bytes that receive(), the set, run() and the samples
\* a stopped sorter released hold, whatever the threads do: heapDecrement()
\* subtracts what receive() added, once, and _heapSize never wraps.
THEOREM HeapAccounted == Spec => []HeapAccounting
<1>1. Init => ReceiveInv
  BY DEF Init, ReceiveInv
<1>2. Init => IsFiniteSet(offered)
  BY FS_EmptySet DEF Init
<1>3. Init => HeapAccounting
  <2> SUFFICES ASSUME Init PROVE HeapAccounting
    OBVIOUS
  <2>1. OnHeap = {}
    BY DEF Init, SetInit, OnHeap, InReceive
  <2>2. Byte(OnHeap) = {}
    BY <2>1 DEF Byte
  <2>3. Bytes(OnHeap) = 0
    BY <2>2, FS_EmptySet DEF Bytes
  <2>4. Uncounted = 0 /\ heapSize = 0
    BY DEF Init, Uncounted
  <2>5. 0 = 0 + 0
    BY SMT
  <2> QED
    BY <2>3, <2>4, <2>5 DEF HeapAccounting
<1> QED
  BY <1>1, <1>2, <1>3, TypeCorrect, SorterLosesNothing, ReceiveAccounts,
     NextReceiveInv, NextFinite, NextHeapAccounting, PTL DEF Spec
=============================================================================
