--------------------------- MODULE SortedSampleSet ---------------------------
(***************************************************************************)
(* The data path of nidas::core::SampleSorter, without its threads: a      *)
(* multiset of samples ordered by time tag, the rule by which samples age  *)
(* off it, and the order in which they reach the clients.                  *)
(*                                                                         *)
(* A sample is opaque.  `stamp' records the order of insertion, which is   *)
(* the order the multiset keeps among equal time tags; 0 means that the    *)
(* sample was never inserted.  SampleSorter adds the threads, the locks,   *)
(* the heap limit and the flush protocol on top of this module.            *)
(***************************************************************************)
EXTENDS Integers, Sequences, FiniteSets

CONSTANTS
    Sample,               \* the samples that may be handed to the sorter
    TimeTag,              \* Sample -> Int, in units of the clock
    sorterLength,         \* _sorterLengthUsec
    lateSampleCacheSize,  \* _lateSampleCacheSize
    Anomalous             \* samples whose time tag is wrong (far ahead)

ASSUME SampleAssumption ==
    /\ TimeTag \in [Sample -> Int]
    /\ sorterLength \in Nat
    /\ lateSampleCacheSize \in Nat
    /\ Anomalous \subseteq Sample
    /\ IsFiniteSet(Anomalous)
    /\ Cardinality(Anomalous) <= lateSampleCacheSize

VARIABLES
    samples,      \* _samples
    agedsamples,  \* what run() took out of _samples and has not sent yet
    distributed,  \* the samples sent to the clients, in order
    stamp,        \* position of each sample in the order of insertion
    arrivals,     \* number of insertions
    early,        \* the samples counted by _earlySamples
    flushedOut,   \* the samples taken out of _samples by a flush
    afterFlush,   \* inserted behind a sample that a flush had taken out
    released,     \* references dropped without distributing the sample
    stopped       \* run() has left its loop

setVars == <<samples, agedsamples, distributed, stamp, arrivals, early,
             flushedOut, afterFlush, released, stopped>>

-----------------------------------------------------------------------------
(* The order of the multiset.                                              *)

\* Mutant: equal time tags are inserted in front (hint begin()).
BeforeReversed(r, s) ==
    \/ TimeTag[r] < TimeTag[s]
    \/ TimeTag[r] = TimeTag[s] /\ stamp[r] > stamp[s]

\* Iteration order of SortedSampleSet: by time tag, then by insertion.
Before(r, s) ==
    \/ TimeTag[r] < TimeTag[s]
    \/ TimeTag[r] = TimeTag[s] /\ stamp[r] < stamp[s]

\* The samples at and after s in iteration order.
From(s) == {r \in samples : r = s \/ Before(s, r)}

\* Mutant: age by the latest sample, ignoring the late sample cache.
IsLatest(s) == s \in samples /\ Cardinality(From(s)) = 1

\* *late in run(): back up over lateSampleCacheSize samples from the latest.
IsLate(s) == s \in samples /\ Cardinality(From(s)) = lateSampleCacheSize + 1

\* Everything before lower_bound(time tag of late - sorter length).
AgedBy(s) == {r \in samples : TimeTag[r] < TimeTag[s] - sorterLength}

\* Mutant: compare with the earliest sample rather than with the latest.
EarlierThanAll(s) ==
    samples # {} /\ \A r \in samples : TimeTag[s] < TimeTag[r] - sorterLength

\* receive(): s is behind the window of the latest sample in the set.
Earlier(s) == \E r \in samples : TimeTag[s] < TimeTag[r] - sorterLength

-----------------------------------------------------------------------------
SetInit ==
    /\ samples = {}
    /\ agedsamples = {}
    /\ distributed = << >>
    /\ stamp = [s \in Sample |-> 0]
    /\ arrivals = 0
    /\ early = {}
    /\ flushedOut = {}
    /\ afterFlush = {}
    /\ released = {}
    /\ stopped = FALSE

\* receive(): the sample enters the set after its equals; one that is behind
\* the window of the latest sample is counted, and inserted all the same.
InsertSample(s) ==
    /\ stamp[s] = 0
    /\ samples' = samples \cup {s}
    /\ arrivals' = arrivals + 1
    /\ stamp' = [stamp EXCEPT ![s] = arrivals + 1]
    /\ early' = IF Earlier(s) THEN early \cup {s} ELSE early
    /\ afterFlush' = IF \E m \in flushedOut : TimeTag[s] < TimeTag[m]
                     THEN afterFlush \cup {s} ELSE afterFlush
    /\ UNCHANGED <<agedsamples, distributed, flushedOut, released, stopped>>

\* Mutant: the aged samples are not erased.
TakeOutKept(S) ==
    /\ ~stopped
    /\ agedsamples = {}
    /\ S # {}
    /\ agedsamples' = S
    /\ UNCHANGED <<samples, distributed, stamp, arrivals, early, afterFlush,
                   released, stopped>>

\* run(): copy the samples of S to agedsamples and erase them from the set.
TakeOut(S) ==
    /\ ~stopped
    /\ agedsamples = {}
    /\ S # {}
    /\ agedsamples' = S
    /\ samples' = samples \ S
    /\ UNCHANGED <<distributed, stamp, arrivals, early, afterFlush, released,
                   stopped>>

\* run(): the samples that have aged off.
TakeAged ==
    \E s \in samples :
        /\ IsLate(s)
        /\ TakeOut(AgedBy(s))
        /\ UNCHANGED flushedOut

\* run() with _doFlush: everything goes.
TakeAll ==
    /\ TakeOut(samples)
    /\ flushedOut' = flushedOut \cup samples

\* run(): the loop over the aged samples, one _source.distribute() at a time.
DistributeSample(s) ==
    /\ s \in agedsamples
    /\ \A r \in agedsamples \ {s} : Before(s, r)
    /\ agedsamples' = agedsamples \ {s}
    /\ distributed' = Append(distributed, s)
    /\ UNCHANGED <<samples, stamp, arrivals, early, flushedOut, afterFlush,
                   released, stopped>>

ReleaseSamples ==
    /\ agedsamples = {}
    /\ stopped' = TRUE
    /\ released' = released \cup samples
    /\ samples' = {}
    /\ UNCHANGED <<agedsamples, distributed, stamp, arrivals, early,
                   flushedOut, afterFlush>>

\* run() after its loop: what is still in the set is released.
StopAndRelease == ~stopped /\ ReleaseSamples

\* ~SampleSorter(): samples received after run() finished, or by a sorter
\* whose thread was never started.
ReleaseLeftover == ReleaseSamples

SetNext ==
    \/ \E s \in Sample : InsertSample(s) \/ DistributeSample(s)
    \/ TakeAged
    \/ TakeAll
    \/ StopAndRelease
    \/ ReleaseLeftover

SetSpec == SetInit /\ [][SetNext]_setVars

-----------------------------------------------------------------------------
(* Properties                                                              *)

Sent == {distributed[i] : i \in DOMAIN distributed}

SetTypeOK ==
    /\ samples \subseteq Sample
    /\ agedsamples \subseteq Sample
    /\ distributed \in Seq(Sample)
    /\ stamp \in [Sample -> Nat]
    /\ arrivals \in Nat
    /\ early \subseteq Sample
    /\ flushedOut \subseteq Sample
    /\ afterFlush \subseteq Sample
    /\ released \subseteq Sample
    /\ stopped \in BOOLEAN

\* Every sample that was inserted is in exactly one place: still in
\* _samples, taken out and about to be sent, sent once, or released.  run()
\* neither loses a sample nor distributes or frees one twice.
NoSampleLostOrRepeated ==
    /\ \A s \in Sample : stamp[s] # 0 <=>
           s \in samples \cup agedsamples \cup Sent \cup released
    /\ samples \cap (agedsamples \cup Sent \cup released) = {}
    /\ agedsamples \cap (Sent \cup released) = {}
    /\ Sent \cap released = {}
    /\ \A i, j \in DOMAIN distributed :
           i # j => distributed[i] # distributed[j]

\* s came more than the sorter length behind a sample with a good time tag
\* that was already there.
OutsideWindow(s) ==
    \E g \in Sample \ Anomalous :
        /\ stamp[g] # 0
        /\ stamp[g] < stamp[s]
        /\ TimeTag[s] < TimeTag[g] - sorterLength

\* What the sorter is for, with the promise of setLateSampleCacheSize():
\* with no more anomalous samples than the late sample cache holds, a sample
\* is sent after one with a later time tag only if it arrived outside the
\* sorting window of the good samples, or behind a flush.
SortedWithinWindow ==
    \A i, j \in DOMAIN distributed :
        /\ i < j
        /\ TimeTag[distributed[j]] < TimeTag[distributed[i]]
        => \/ OutsideWindow(distributed[j])
           \/ distributed[j] \in afterFlush

\* Every sample that is sent out of order was counted in _earlySamples when
\* it was received, unless it came behind a flush: the warning of receive()
\* misses no sample whose order the sorter could not restore.
DisorderIsCounted ==
    \A i, j \in DOMAIN distributed :
        /\ i < j
        /\ TimeTag[distributed[j]] < TimeTag[distributed[i]]
        => distributed[j] \in early \cup afterFlush

\* Samples with equal time tags are sent in the order of their insertion
\* (insert() with the hint end(), lower_bound() never splits equals).
EqualTagsKeepOrder ==
    \A i, j \in DOMAIN distributed :
        /\ i < j
        /\ TimeTag[distributed[i]] = TimeTag[distributed[j]]
        => stamp[distributed[i]] < stamp[distributed[j]]
=============================================================================
