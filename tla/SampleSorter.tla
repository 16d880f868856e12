---------------------------- MODULE SampleSorter ----------------------------
(***************************************************************************)
(* The threads of nidas::core::SampleSorter: the sorting thread run(), the *)
(* threads that call receive() and flush(), and the owner that starts,     *)
(* interrupts, joins and deletes the sorter.                               *)
(*                                                                         *)
(* Each of _sampleSetCond, _flushCond and _heapCond is a mutex and a       *)
(* condition variable.  A section under one mutex is one action.  run()    *)
(* nests _flushCond and _heapCond inside _sampleSetCond and nothing else   *)
(* nests, so the only control point of run() between two actions at which  *)
(* _sampleSetCond is held is "heapChecked", between the test of            *)
(* _heapExceeded and the wait: there receive() can still run its section   *)
(* under _heapCond, and signal _sampleSetCond without owning its mutex.    *)
(* A wait set is the set of threads whose control point is "...Wait".      *)
(***************************************************************************)
EXTENDS SortedSampleSet

CONSTANTS
    Length,         \* Sample -> Nat, header and data bytes
    Producer,       \* threads calling receive()
    Flusher,        \* threads calling flush()
    HeapMax,        \* initial _heapMax
    heapBlock,      \* _heapBlock
    realTime,       \* _realTime
    SystemTime,     \* possible readings of the system clock in receive()
    FutureLimit,    \* USECS_PER_SEC * 2
    Spurious        \* may a wait return without a signal?

ASSUME SorterAssumption ==
    /\ Length \in [Sample -> Nat \ {0}]
    /\ HeapMax \in Nat
    /\ heapBlock \in BOOLEAN
    /\ realTime \in BOOLEAN
    /\ Spurious \in BOOLEAN
    /\ SystemTime \subseteq Int
    /\ FutureLimit \in Nat

VARIABLES
    runPc,         \* where run() is
    ssum,          \* ssum in run(): bytes of the aged samples sent so far
    receivePc,     \* where each producer is in receive()
    receiving,     \* the sample each producer is handing over, as a set
    flushPc,       \* where each caller of flush() is
    ownerPc,       \* where the owner is in interrupt(), join(), delete
    offered,       \* the samples that receive() was called with
    discarded,     \* counted by _discardedSamples
    future,        \* counted by _realTimeFutureSamples
    heapMax,       \* _heapMax
    heapSize,      \* _heapSize
    heapExceeded,  \* _heapExceeded
    doFlush,       \* _doFlush
    flushed,       \* _flushed
    interrupted    \* Thread::_interrupted

heapVars == <<heapMax, heapSize, heapExceeded>>
receiveVars == <<receivePc, receiving, offered, discarded, future>>
vars == <<setVars, heapVars, receiveVars, runPc, ssum, flushPc, ownerPc,
          doFlush, flushed, interrupted>>

Init ==
    /\ SetInit
    /\ runPc = "created"
    /\ ssum = 0
    /\ receivePc = [p \in Producer |-> "idle"]
    /\ receiving = [p \in Producer |-> {}]
    /\ flushPc = [f \in Flusher |-> "idle"]
    /\ ownerPc = "idle"
    /\ offered = {}
    /\ discarded = {}
    /\ future = {}
    /\ heapMax = HeapMax
    /\ heapSize = 0
    /\ heapExceeded = FALSE
    /\ doFlush = FALSE
    /\ flushed = TRUE
    /\ interrupted = FALSE

-----------------------------------------------------------------------------
(* Condition variables: who runs after a signal or a broadcast.            *)

\* _sampleSetCond.signal(): only run() waits on it.
SignalSampleSet(pc) == IF pc = "setWait" THEN "run" ELSE pc

\* _heapCond.signal() or _flushCond.signal() wakes one waiter if there is one.
SignalOne(pc, wait, woken) ==
    {[pc EXCEPT ![t] = woken] : t \in {t \in DOMAIN pc : pc[t] = wait}}
        \cup (IF \E t \in DOMAIN pc : pc[t] = wait THEN {} ELSE {pc})

\* _flushCond.broadcast()
BroadcastFlush ==
    [f \in Flusher |-> IF flushPc[f] = "flushWait" THEN "check" ELSE flushPc[f]]

SampleSetFree == runPc # "heapChecked"

Grown(max) == max + max \div 2

-----------------------------------------------------------------------------
(* receive(s), called by producer p                                        *)

\* A sample too far ahead of the system clock is refused.
ReceiveFuture(p, s) ==
    /\ ownerPc # "deleted"
    /\ receivePc[p] = "idle"
    /\ s \notin offered
    /\ realTime
    /\ \E now \in SystemTime : TimeTag[s] > now + FutureLimit
    /\ offered' = offered \cup {s}
    /\ future' = future \cup {s}
    /\ UNCHANGED <<setVars, heapVars, receivePc, receiving, discarded, runPc,
                   ssum, flushPc, ownerPc, doFlush, flushed, interrupted>>

\* The sample is accepted for insertion, and _heapExceeded cleared.
HeapAccept(p, size) ==
    /\ heapSize' = size
    /\ heapExceeded' = FALSE
    /\ receivePc' = [receivePc EXCEPT ![p] = "insert"]
    /\ UNCHANGED <<heapMax, runPc>>

\* The body of the while loop: tell run(), then wait on _heapCond.  The
\* signal is sent without the mutex of _sampleSetCond.
HeapWait(p, size) ==
    /\ heapSize' = size
    /\ heapExceeded' = TRUE
    /\ runPc' = SignalSampleSet(runPc)
    /\ receivePc' = [receivePc EXCEPT ![p] = "heapWait"]
    /\ UNCHANGED heapMax

\* Mutant: the limit is tested before the sample is added.
ReceiveOverLimit(p, s) ==
    /\ ~heapBlock
    /\ \/ /\ heapSize > heapMax
          /\ heapExceeded' = TRUE
          /\ discarded' = discarded \cup {s}
          /\ UNCHANGED <<heapMax, heapSize, receivePc, receiving, runPc>>
       \/ /\ heapSize <= heapMax
          /\ HeapAccept(p, heapSize + Length[s])
          /\ receiving' = [receiving EXCEPT ![p] = {s}]
          /\ UNCHANGED discarded

\* The section under _heapCond when _heapBlock is false: discard or accept.
ReceiveDiscarding(p, s) ==
    /\ ~heapBlock
    /\ \/ /\ heapSize + Length[s] > heapMax
          /\ heapExceeded' = TRUE
          /\ discarded' = discarded \cup {s}
          /\ UNCHANGED <<heapMax, heapSize, receivePc, receiving, runPc>>
       \/ /\ heapSize + Length[s] <= heapMax
          /\ HeapAccept(p, heapSize + Length[s])
          /\ receiving' = [receiving EXCEPT ![p] = {s}]
          /\ UNCHANGED discarded

\* The section under _heapCond when _heapBlock is true, up to the first wait.
ReceiveBlocking(p, s) ==
    /\ heapBlock
    /\ receiving' = [receiving EXCEPT ![p] = {s}]
    /\ UNCHANGED discarded
    /\ IF heapSize + Length[s] > heapMax
       THEN HeapWait(p, heapSize + Length[s])
       ELSE HeapAccept(p, heapSize + Length[s])

Receive(p, s) ==
    /\ ownerPc # "deleted"
    /\ receivePc[p] = "idle"
    /\ s \notin offered
    /\ realTime => \E now \in SystemTime : TimeTag[s] <= now + FutureLimit
    /\ offered' = offered \cup {s}
    /\ ReceiveDiscarding(p, s) \/ ReceiveBlocking(p, s)
    /\ UNCHANGED <<setVars, future, ssum, flushPc, ownerPc, doFlush, flushed,
                   interrupted>>

\* _heapCond.wait() returns: the while loop tests the heap again.
ReceiveAgain(p) ==
    /\ receivePc[p] = "heapWoken"
    /\ IF heapSize > heapMax THEN HeapWait(p, heapSize)
                             ELSE HeapAccept(p, heapSize)
    /\ UNCHANGED <<setVars, receiving, offered, discarded, future, ssum,
                   flushPc, ownerPc, doFlush, flushed, interrupted>>

\* Mutant: _flushed is not reset.
InsertKeepsFlushed(p) ==
    /\ receivePc[p] = "insert"
    /\ SampleSetFree
    /\ \E s \in receiving[p] : InsertSample(s)
    /\ runPc' = SignalSampleSet(runPc)
    /\ receivePc' = [receivePc EXCEPT ![p] = "idle"]
    /\ receiving' = [receiving EXCEPT ![p] = {}]
    /\ UNCHANGED <<heapVars, offered, discarded, future, ssum, flushPc,
                   ownerPc, doFlush, flushed, interrupted>>

\* Mutant: run() is not signalled.
InsertSilently(p) ==
    /\ receivePc[p] = "insert"
    /\ SampleSetFree
    /\ \E s \in receiving[p] : InsertSample(s)
    /\ flushed' = FALSE
    /\ receivePc' = [receivePc EXCEPT ![p] = "idle"]
    /\ receiving' = [receiving EXCEPT ![p] = {}]
    /\ UNCHANGED <<heapVars, runPc, offered, discarded, future, ssum, flushPc,
                   ownerPc, doFlush, interrupted>>

\* Mutant: the refusal that the code disables with if (0 && ...).
InsertRefuses(p) ==
    /\ receivePc[p] = "insert"
    /\ SampleSetFree
    /\ \/ /\ interrupted
          /\ UNCHANGED <<setVars, flushed, runPc>>
       \/ /\ ~interrupted
          /\ \E s \in receiving[p] : InsertSample(s)
          /\ flushed' = FALSE
          /\ runPc' = SignalSampleSet(runPc)
    /\ receivePc' = [receivePc EXCEPT ![p] = "idle"]
    /\ receiving' = [receiving EXCEPT ![p] = {}]
    /\ UNCHANGED <<heapVars, offered, discarded, future, ssum, flushPc,
                   ownerPc, doFlush, interrupted>>

\* The section under _sampleSetCond.
Insert(p) ==
    /\ receivePc[p] = "insert"
    /\ SampleSetFree
    /\ \E s \in receiving[p] : InsertSample(s)
    /\ flushed' = FALSE
    /\ runPc' = SignalSampleSet(runPc)
    /\ receivePc' = [receivePc EXCEPT ![p] = "idle"]
    /\ receiving' = [receiving EXCEPT ![p] = {}]
    /\ UNCHANGED <<heapVars, offered, discarded, future, ssum, flushPc,
                   ownerPc, doFlush, interrupted>>

-----------------------------------------------------------------------------
(* flush(), called by f                                                    *)

\* Mutant: run() is not signalled.
FlushSilently(f) ==
    /\ ownerPc # "deleted"
    /\ flushPc[f] = "idle"
    /\ SampleSetFree
    /\ ~flushed
    /\ doFlush' = TRUE
    /\ flushPc' = [flushPc EXCEPT ![f] = "check"]
    /\ UNCHANGED <<setVars, heapVars, receiveVars, runPc, ssum, ownerPc, flushed,
                   interrupted>>

\* Not yet flushed: ask run() to flush.  (When _flushed, flush() returns.)
Flush(f) ==
    /\ ownerPc # "deleted"
    /\ flushPc[f] = "idle"
    /\ SampleSetFree
    /\ ~flushed
    /\ doFlush' = TRUE
    /\ runPc' = SignalSampleSet(runPc)
    /\ flushPc' = [flushPc EXCEPT ![f] = "check"]
    /\ UNCHANGED <<setVars, heapVars, receiveVars, ssum, ownerPc, flushed,
                   interrupted>>

\* The while loop under _flushCond, which reads _flushed without
\* _sampleSetCond: wait, or return.
FlushCheck(f) ==
    /\ flushPc[f] = "check"
    /\ flushPc' = [flushPc EXCEPT ![f] =
                      IF ~flushed /\ ~interrupted THEN "flushWait" ELSE "idle"]
    /\ UNCHANGED <<setVars, heapVars, receiveVars, runPc, ssum, ownerPc,
                   doFlush, flushed, interrupted>>

-----------------------------------------------------------------------------
(* run(): at "run" it owns or is about to own _sampleSetCond, at the top   *)
(* of the loop.                                                            *)

\* _samples.size() <= _lateSampleCacheSize and nothing to flush: wait.  An
\* empty set is flushed, and whoever asked for that is told.
RunWait ==
    /\ runPc = "run"
    /\ ~interrupted
    /\ Cardinality(samples) <= lateSampleCacheSize
    /\ samples = {} \/ ~doFlush
    /\ flushed' = (flushed \/ samples = {})
    /\ doFlush' = FALSE
    /\ flushPc' = IF doFlush THEN BroadcastFlush ELSE flushPc
    /\ runPc' = "setWait"
    /\ UNCHANGED <<setVars, heapVars, receiveVars, ssum, ownerPc, interrupted>>

\* No aged samples: extend the heap if a producer ran into its limit.
RunNoAged ==
    /\ runPc = "run"
    /\ ~interrupted
    /\ ~doFlush
    /\ \E s \in samples : IsLate(s) /\ AgedBy(s) = {}
    /\ heapExceeded' = FALSE
    /\ \/ /\ heapExceeded
          /\ heapMax' = Grown(heapMax)
          /\ receivePc' \in SignalOne(receivePc, "heapWait", "heapWoken")
       \/ /\ ~heapExceeded
          /\ UNCHANGED <<heapMax, receivePc>>
    /\ runPc' = "heapChecked"
    /\ UNCHANGED <<setVars, heapSize, receiving, offered, discarded, future,
                   ssum, flushPc, ownerPc, doFlush, flushed, interrupted>>

\* ... and wait, having released _heapCond.
RunWaitNoAged ==
    /\ runPc = "heapChecked"
    /\ runPc' = "setWait"
    /\ UNCHANGED <<setVars, heapVars, receiveVars, ssum, flushPc, ownerPc,
                   doFlush, flushed, interrupted>>

\* Take the aged samples, or all of them, and release _sampleSetCond.
RunTake ==
    /\ runPc = "run"
    /\ ~interrupted
    /\ \/ doFlush /\ TakeAll
       \/ ~doFlush /\ TakeAged
    /\ ssum' = 0
    /\ runPc' = "distribute"
    /\ UNCHANGED <<heapVars, receiveVars, flushPc, ownerPc, doFlush, flushed,
                   interrupted>>

\* Mutant: the bytes are subtracted from ssum.
RunDistributeSubtracts ==
    /\ runPc = "distribute"
    /\ \E s \in agedsamples :
          /\ DistributeSample(s)
          /\ ssum' = ssum - Length[s]
    /\ runPc' = IF agedsamples' = {} THEN "heapDecrement" ELSE "distribute"
    /\ UNCHANGED <<heapVars, receiveVars, flushPc, ownerPc, doFlush, flushed,
                   interrupted>>

\* One turn of the loop over the aged samples.
RunDistribute ==
    /\ runPc = "distribute"
    /\ \E s \in agedsamples :
          /\ DistributeSample(s)
          /\ ssum' = ssum + Length[s]
    /\ runPc' = IF agedsamples' = {} THEN "heapDecrement" ELSE "distribute"
    /\ UNCHANGED <<heapVars, receiveVars, flushPc, ownerPc, doFlush, flushed,
                   interrupted>>

\* heapDecrement(ssum): below half of the limit, a blocked producer resumes.
HeapDecrement ==
    /\ runPc = "heapDecrement"
    /\ heapSize' = heapSize - ssum
    /\ LET resume == heapBlock /\ heapExceeded /\ heapSize' < heapMax \div 2
       IN  /\ heapExceeded' = (heapExceeded /\ ~resume)
           /\ receivePc' \in IF resume
                             THEN SignalOne(receivePc, "heapWait", "heapWoken")
                             ELSE {receivePc}
    /\ runPc' = "run"
    /\ UNCHANGED <<setVars, heapMax, receiving, offered, discarded, future,
                   ssum, flushPc, ownerPc, doFlush, flushed, interrupted>>

\* Interrupted: release what is left, under _sampleSetCond ...
RunStop ==
    /\ runPc = "run"
    /\ interrupted
    /\ StopAndRelease
    /\ flushed' = TRUE
    /\ runPc' = "stopping"
    /\ UNCHANGED <<heapVars, receiveVars, ssum, flushPc, ownerPc, doFlush,
                   interrupted>>

\* Mutant: the callers of flush() are not woken.
RunReturnSilently ==
    /\ runPc = "stopping"
    /\ runPc' = "done"
    /\ UNCHANGED <<setVars, heapVars, receiveVars, ssum, flushPc, ownerPc,
                   doFlush, flushed, interrupted>>

\* ... then wake the callers of flush() and return.
RunReturn ==
    /\ runPc = "stopping"
    /\ flushPc' = BroadcastFlush
    /\ runPc' = "done"
    /\ UNCHANGED <<setVars, heapVars, receiveVars, ssum, ownerPc, doFlush,
                   flushed, interrupted>>

-----------------------------------------------------------------------------
(* The owner                                                               *)

Start ==
    /\ ownerPc = "idle"
    /\ runPc = "created"
    /\ runPc' = "run"
    /\ interrupted' = FALSE
    /\ UNCHANGED <<setVars, heapVars, receiveVars, ssum, flushPc, ownerPc,
                   doFlush, flushed>>

\* Mutant: interrupt() signals without locking _sampleSetCond.
InterruptUnlocked ==
    /\ ownerPc = "idle"
    /\ interrupted' = TRUE
    /\ runPc' = SignalSampleSet(runPc)
    /\ ownerPc' = "interruptFlush"
    /\ UNCHANGED <<setVars, heapVars, receiveVars, ssum, flushPc, doFlush,
                   flushed>>

\* interrupt(), under _sampleSetCond
InterruptRun ==
    /\ ownerPc = "idle"
    /\ SampleSetFree
    /\ interrupted' = TRUE
    /\ runPc' = SignalSampleSet(runPc)
    /\ ownerPc' = "interruptFlush"
    /\ UNCHANGED <<setVars, heapVars, receiveVars, ssum, flushPc, doFlush,
                   flushed>>

\* interrupt(), under _flushCond
InterruptFlush ==
    /\ ownerPc = "interruptFlush"
    /\ flushPc' \in SignalOne(flushPc, "flushWait", "check")
    /\ ownerPc' = "interruptHeap"
    /\ UNCHANGED <<setVars, heapVars, receiveVars, runPc, ssum, doFlush,
                   flushed, interrupted>>

\* interrupt(), under _heapCond
InterruptHeap ==
    /\ ownerPc = "interruptHeap"
    /\ heapMax' = IF heapExceeded \/ heapSize > heapMax \div 2
                  THEN Grown(heapMax) ELSE heapMax
    /\ receivePc' \in SignalOne(receivePc, "heapWait", "heapWoken")
    /\ ownerPc' = "interrupted"
    /\ UNCHANGED <<setVars, heapSize, heapExceeded, receiving, offered,
                   discarded, future, runPc, ssum, flushPc, doFlush, flushed,
                   interrupted>>

\* join(): wait for run() to return, if it was started.
Join ==
    /\ ownerPc = "interrupted"
    /\ runPc \in {"created", "done"}
    /\ ownerPc' = "joined"
    /\ UNCHANGED <<setVars, heapVars, receiveVars, runPc, ssum, flushPc,
                   doFlush, flushed, interrupted>>

\* ~SampleSorter(), once nobody uses the sorter any more.
Delete ==
    /\ ownerPc = "joined"
    /\ \A p \in Producer : receivePc[p] = "idle"
    /\ \A f \in Flusher : flushPc[f] = "idle"
    /\ ReleaseLeftover
    /\ ownerPc' = "deleted"
    /\ UNCHANGED <<heapVars, receiveVars, runPc, ssum, flushPc, doFlush,
                   flushed, interrupted>>

-----------------------------------------------------------------------------
\* POSIX lets a wait return without a signal.
SpuriousWakeup ==
    /\ Spurious
    /\ \/ /\ runPc = "setWait"
          /\ runPc' = "run"
          /\ UNCHANGED <<receivePc, flushPc>>
       \/ \E p \in Producer :
          /\ receivePc[p] = "heapWait"
          /\ receivePc' = [receivePc EXCEPT ![p] = "heapWoken"]
          /\ UNCHANGED <<runPc, flushPc>>
       \/ \E f \in Flusher :
          /\ flushPc[f] = "flushWait"
          /\ flushPc' = [flushPc EXCEPT ![f] = "check"]
          /\ UNCHANGED <<runPc, receivePc>>
    /\ UNCHANGED <<setVars, heapVars, receiving, offered, discarded, future,
                   ssum, ownerPc, doFlush, flushed, interrupted>>

Run == RunWait \/ RunNoAged \/ RunWaitNoAged \/ RunTake \/ RunDistribute
       \/ HeapDecrement \/ RunStop \/ RunReturn

Interrupt == InterruptRun \/ InterruptFlush \/ InterruptHeap

Next ==
    \/ \E p \in Producer :
          \/ \E s \in Sample : ReceiveFuture(p, s) \/ Receive(p, s)
          \/ ReceiveAgain(p)
          \/ Insert(p)
    \/ \E f \in Flusher : Flush(f) \/ FlushCheck(f)
    \/ Run
    \/ Start \/ Interrupt \/ Join \/ Delete
    \/ SpuriousWakeup

Spec == Init /\ [][Next]_vars

\* A thread that can take a step takes it; nobody has to call receive(),
\* flush(), start() or interrupt().
Fairness ==
    /\ WF_vars(Run)
    /\ \A p \in Producer : WF_vars(ReceiveAgain(p)) /\ WF_vars(Insert(p))
    /\ \A f \in Flusher : WF_vars(FlushCheck(f))
    /\ WF_vars(InterruptFlush) /\ WF_vars(InterruptHeap) /\ WF_vars(Join)

FairSpec == Spec /\ Fairness

-----------------------------------------------------------------------------
(* Properties                                                              *)

TypeOK ==
    /\ SetTypeOK
    /\ runPc \in {"created", "run", "setWait", "heapChecked", "distribute",
                  "heapDecrement", "stopping", "done"}
    /\ ssum \in Nat
    /\ receivePc \in [Producer -> {"idle", "heapWait", "heapWoken", "insert"}]
    /\ receiving \in [Producer -> SUBSET Sample]
    /\ flushPc \in [Flusher -> {"idle", "check", "flushWait"}]
    /\ ownerPc \in {"idle", "interruptFlush", "interruptHeap", "interrupted",
                    "joined", "deleted"}
    /\ offered \subseteq Sample
    /\ discarded \subseteq Sample
    /\ future \subseteq Sample
    /\ heapMax \in Nat
    /\ heapSize \in Int
    /\ heapExceeded \in BOOLEAN
    /\ doFlush \in BOOLEAN
    /\ flushed \in BOOLEAN
    /\ interrupted \in BOOLEAN

\* _flushed, which flush() trusts with no look at _samples, is true only
\* when no sample is in the set and none is taken out but not yet sent.
FlushedMeansDrained == flushed => samples = {} /\ agedsamples = {}

InReceive == UNION {receiving[p] : p \in Producer}

\* A sample handed to receive() is refused as a future sample, discarded at
\* the heap limit, still in receive(), or inserted: exactly one of these, and
\* no two threads hold the same one.
EverySampleAccounted ==
    /\ \A s \in Sample :
        /\ s \in offered <=> \/ s \in future \cup discarded \cup InReceive
                             \/ stamp[s] # 0
        /\ s \in future => s \notin discarded \cup InReceive /\ stamp[s] = 0
        /\ s \in discarded => s \notin InReceive /\ stamp[s] = 0
        /\ s \in InReceive => stamp[s] = 0
    /\ \A p, q \in Producer : p # q => receiving[p] \cap receiving[q] = {}

\* The bytes of the samples in S, and how many they are.
Byte(S) == UNION {{s} \X (1..Length[s]) : s \in S}
Bytes(S) == Cardinality(Byte(S))

OnHeap == InReceive \cup samples \cup agedsamples \cup released

\* Sent by run(), but not yet subtracted from _heapSize.
Uncounted == IF runPc \in {"distribute", "heapDecrement"} THEN ssum ELSE 0

\* _heapSize is the number of bytes of the samples that are in receive() or in
\* the sorter, and of the ones a stopped sorter released: it never wraps.
HeapAccounting == heapSize = Bytes(OnHeap) + Uncounted

\* A sorter that discards never holds more than its limit.
HeapBounded == ~heapBlock => heapSize <= heapMax

\* interrupt() makes a sorter that was started return from run(), whatever
\* run() was doing (the lock in interrupt() closes the window before wait()).
InterruptStopsRun ==
    interrupted /\ runPc # "created" ~> runPc = "done"

\* Nobody stays in flush() once the sorter has been interrupted.
InterruptFreesFlush ==
    \A f \in Flusher : interrupted /\ runPc # "created" ~> flushPc[f] = "idle"

Quiet == offered = Sample /\ \A p \in Producer : receivePc[p] = "idle"

\* A flush that run() still knows of returns, once no more samples arrive.
FlushCompletes ==
    \A f \in Flusher :
        flushPc[f] # "idle" /\ doFlush /\ Quiet /\ runPc # "created"
            ~> flushPc[f] = "idle"

\* A sample that has aged is sent, unless the sorter is interrupted: the
\* insertion that ages it does not leave run() asleep.
AgedIsSent ==
    \A s \in Sample :
        runPc # "created" /\ (\E l \in samples : IsLate(l) /\ s \in AgedBy(l))
            ~> s \in Sent \/ interrupted

=============================================================================
