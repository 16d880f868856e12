----------------------- MODULE SortedSampleSetProofs -----------------------
(***************************************************************************)
(* The order in which SampleSorter sends samples, for every set of samples,*)
(* every assignment of time tags, every sorter length and every late       *)
(* sample cache.                                                           *)
(***************************************************************************)
EXTENDS SortedSampleSet, FiniteSetTheorems, TLAPS

Left == agedsamples \cup Sent

\* r may be sent before s.
MayPrecede(r, s) ==
    /\ TimeTag[s] < TimeTag[r] =>
           /\ OutsideWindow(s) \/ s \in afterFlush
           /\ s \in early \cup afterFlush
    /\ TimeTag[s] = TimeTag[r] => stamp[r] < stamp[s]

\* Stamps number the insertions.
StampInv ==
    /\ \A s \in Sample : stamp[s] <= arrivals
    /\ stopped => agedsamples = {}

\* A sample that aged off has a good sample ahead of it that was inserted
\* before, and one that is still in the set or left it by a flush.
AgedInv ==
    \A r \in Left \ flushedOut :
        /\ \E g \in Sample \ Anomalous :
               stamp[g] # 0 /\ TimeTag[r] < TimeTag[g] - sorterLength
        /\ ~stopped => \E g \in samples \cup flushedOut :
               TimeTag[r] < TimeTag[g] - sorterLength

SetBehindLeft == ~stopped => \A r \in Left, s \in samples : MayPrecede(r, s)

AgedBehindSent == \A r \in Sent, s \in agedsamples : MayPrecede(r, s)

SentInOrder ==
    \A i, j \in DOMAIN distributed :
        i < j => MayPrecede(distributed[i], distributed[j])

SetInv ==
    /\ SetTypeOK
    /\ NoSampleLostOrRepeated
    /\ StampInv
    /\ AgedInv
    /\ SetBehindLeft
    /\ AgedBehindSent
    /\ SentInOrder

\* Among the samples at and after the one that run() ages by there is one
\* with a good time tag: the late sample cache is too small to hide it.
LEMMA LateWitness ==
    ASSUME NEW l \in samples, SetTypeOK, IsLate(l)
    PROVE  \E g \in samples \ Anomalous : TimeTag[g] >= TimeTag[l]
<1>1. ~(From(l) \subseteq Anomalous)
  <2>1. SUFFICES ASSUME From(l) \subseteq Anomalous PROVE FALSE
    OBVIOUS
  <2>2. /\ IsFiniteSet(From(l))
        /\ Cardinality(From(l)) <= Cardinality(Anomalous)
    BY <2>1, SampleAssumption, FS_Subset
  <2>3. Cardinality(Anomalous) \in Nat
    BY SampleAssumption, FS_CardinalityType
  <2> QED
    BY <2>2, <2>3, SampleAssumption DEF IsLate
<1>2. PICK g \in From(l) : g \notin Anomalous
  BY <1>1
<1>3. g \in samples /\ TimeTag[g] >= TimeTag[l]
  BY <1>2, SampleAssumption DEF From, Before, SetTypeOK
<1> QED
  BY <1>2, <1>3

\* What was sent grows by the sample that run() distributes.
LEMMA SentAppend ==
    ASSUME SetTypeOK, NEW s \in Sample, DistributeSample(s)
    PROVE  /\ Sent' = Sent \cup {s}
           /\ Len(distributed') = Len(distributed) + 1
           /\ distributed' \in Seq(Sample)
           /\ distributed'[Len(distributed) + 1] = s
           /\ \A i \in DOMAIN distributed :
                 i \in DOMAIN distributed' /\ distributed'[i] = distributed[i]
           /\ DOMAIN distributed' = DOMAIN distributed \cup {Len(distributed) + 1}
<1>1. distributed \in Seq(Sample) /\ distributed' = Append(distributed, s)
  BY DEF SetTypeOK, DistributeSample
<1>2. /\ Len(distributed') = Len(distributed) + 1
      /\ distributed' \in Seq(Sample)
      /\ distributed'[Len(distributed) + 1] = s
      /\ \A i \in 1 .. Len(distributed) : distributed'[i] = distributed[i]
      /\ DOMAIN distributed' = 1 .. Len(distributed) + 1
      /\ DOMAIN distributed = 1 .. Len(distributed)
      /\ Len(distributed) \in Nat
  BY <1>1
<1>3. DOMAIN distributed' = DOMAIN distributed \cup {Len(distributed) + 1}
  BY <1>2
<1>4. Sent' = Sent \cup {s}
  BY <1>2, <1>3 DEF Sent
<1> QED
  BY <1>2, <1>3, <1>4

\* A new sorter has no samples.
LEMMA InitSetInv == SetInit => SetInv
<1> SUFFICES ASSUME SetInit PROVE SetInv
  OBVIOUS
<1>1. distributed = << >> /\ DOMAIN distributed = {} /\ Sent = {} /\ Left = {}
  BY DEF SetInit, Sent, Left
<1>2. SetTypeOK
  <2>1. distributed \in Seq(Sample)
    BY <1>1
  <2>2. stamp \in [Sample -> Nat] /\ arrivals \in Nat
    BY DEF SetInit
  <2> QED
    BY <2>1, <2>2, Zenon DEF SetInit, SetTypeOK
<1>3. NoSampleLostOrRepeated
  BY <1>1 DEF SetInit, NoSampleLostOrRepeated
<1> QED
  BY <1>1, <1>2, <1>3
     DEF SetInv, SetInit, StampInv, AgedInv, SetBehindLeft, AgedBehindSent,
         SentInOrder

\* receive() keeps the invariant: a sample behind one that has left is outside
\* the window and counted, or behind a flush.
LEMMA InsertSetInv ==
    ASSUME SetInv, NEW s \in Sample, InsertSample(s)
    PROVE  SetInv'
<1> USE DEF SetInv
<1>1. /\ Sent' = Sent /\ Left' = Left
      /\ agedsamples' = agedsamples /\ distributed' = distributed
      /\ flushedOut' = flushedOut /\ stopped' = stopped /\ released' = released
      /\ early \subseteq early' /\ afterFlush \subseteq afterFlush'
      /\ samples' = samples \cup {s}
  BY DEF InsertSample, Sent, Left
<1>2. SetTypeOK'
  <2>1. /\ samples' \subseteq Sample /\ early' \subseteq Sample
        /\ afterFlush' \subseteq Sample
    BY DEF InsertSample, SetTypeOK
  <2>2. stamp' \in [Sample -> Nat] /\ arrivals' \in Nat
    BY DEF InsertSample, SetTypeOK
  <2> QED
    BY <1>1, <2>1, <2>2, Zenon DEF SetTypeOK
<1>3. /\ stamp'[s] = arrivals + 1 /\ stamp[s] = 0 /\ arrivals \in Nat
      /\ arrivals' = arrivals + 1
      /\ \A r \in Sample : r # s => stamp'[r] = stamp[r]
      /\ \A r \in Sample : stamp[r] \in Nat /\ stamp[r] <= arrivals
      /\ \A r \in Sample : TimeTag[r] \in Int
      /\ sorterLength \in Nat
  BY SampleAssumption DEF InsertSample, SetTypeOK, StampInv
<1>4. /\ Sent \subseteq Sample
      /\ \A r \in samples \cup Left : r \in Sample /\ stamp[r] # 0
      /\ flushedOut \subseteq Sample
  BY DEF SetTypeOK, Sent, Left, NoSampleLostOrRepeated
<1>5. s \notin samples \cup agedsamples \cup Sent \cup released
  BY <1>3 DEF NoSampleLostOrRepeated
<1>6. NoSampleLostOrRepeated'
  BY <1>1, <1>3, <1>5 DEF NoSampleLostOrRepeated
<1>7. StampInv'
  BY <1>1, <1>3 DEF StampInv
<1>8. AgedInv'
  <2> SUFFICES ASSUME NEW r \in Left \ flushedOut
               PROVE  AgedInv!(r)'
    BY <1>1 DEF AgedInv
  <2>1. PICK g \in Sample \ Anomalous :
            stamp[g] # 0 /\ TimeTag[r] < TimeTag[g] - sorterLength
    BY DEF AgedInv
  <2>2. stamp'[g] # 0
    BY <2>1, <1>3
  <2>3. ~stopped' => \E h \in samples' \cup flushedOut' :
                         TimeTag[r] < TimeTag[h] - sorterLength
    BY <1>1 DEF AgedInv
  <2> QED
    BY <2>1, <2>2, <2>3
\* Where the order already held it still does.
<1>9. ASSUME NEW r \in Sample, NEW x \in Sample, r # s, x # s, stamp[x] # 0,
             MayPrecede(r, x)
      PROVE  MayPrecede(r, x)'
  <2>1. OutsideWindow(x) => OutsideWindow(x)'
    <3> SUFFICES ASSUME OutsideWindow(x) PROVE OutsideWindow(x)'
      OBVIOUS
    <3>1. PICK g \in Sample \ Anomalous :
              /\ stamp[g] # 0
              /\ stamp[g] < stamp[x]
              /\ TimeTag[x] < TimeTag[g] - sorterLength
      BY DEF OutsideWindow
    <3>2. g # s
      BY <3>1, <1>3
    <3> QED
      BY <3>1, <3>2, <1>3, <1>9 DEF OutsideWindow
  <2> QED
    BY <2>1, <1>1, <1>3, <1>9 DEF MayPrecede
<1>10. SetBehindLeft'
  <2> SUFFICES ASSUME ~stopped, NEW r \in Left, NEW x \in samples \cup {s}
               PROVE  MayPrecede(r, x)'
    BY <1>1 DEF SetBehindLeft
  <2>1. r \in Sample /\ r # s /\ stamp[r] # 0
    BY <1>4, <1>5 DEF Left
  <2>2. CASE x # s
    BY <2>1, <2>2, <1>4, <1>9 DEF SetBehindLeft
  <2>3. CASE x = s
    <3>1. TimeTag[s] = TimeTag[r] => stamp'[r] < stamp'[s]
      BY <2>1, <1>3
    <3>2. CASE TimeTag[s] < TimeTag[r] /\ r \in flushedOut
      <4>1. s \in afterFlush'
        BY <3>2 DEF InsertSample
      <4> QED
        BY <4>1, <3>1, <2>3 DEF MayPrecede
    <3>3. CASE TimeTag[s] < TimeTag[r] /\ r \notin flushedOut
      <4>1. PICK g \in Sample \ Anomalous :
                stamp[g] # 0 /\ TimeTag[r] < TimeTag[g] - sorterLength
        BY <3>3 DEF AgedInv
      <4>2. OutsideWindow(s)'
        BY <4>1, <3>3, <2>1, <1>3 DEF OutsideWindow
      <4>3. PICK h \in samples \cup flushedOut :
                TimeTag[r] < TimeTag[h] - sorterLength
        BY <3>3 DEF AgedInv
      <4>4. h \in Sample /\ TimeTag[s] < TimeTag[h] - sorterLength
            /\ TimeTag[s] < TimeTag[h]
        BY <4>3, <3>3, <2>1, <1>3, <1>4
      <4>5. s \in early' \cup afterFlush'
        <5>1. CASE h \in samples
          BY <5>1, <4>4 DEF InsertSample, Earlier
        <5>2. CASE h \in flushedOut
          BY <5>2, <4>4 DEF InsertSample
        <5> QED
          BY <5>1, <5>2
      <4> QED
        BY <4>2, <4>5, <3>1, <2>3 DEF MayPrecede
    <3>4. CASE ~(TimeTag[s] < TimeTag[r])
      BY <3>4, <3>1, <2>3 DEF MayPrecede
    <3> QED
      BY <3>2, <3>3, <3>4
  <2> QED
    BY <2>2, <2>3
<1>11. AgedBehindSent'
  BY <1>1, <1>4, <1>5, <1>9 DEF AgedBehindSent, Left
<1>12. SentInOrder'
  <2> SUFFICES ASSUME NEW i \in DOMAIN distributed, NEW j \in DOMAIN distributed,
                      i < j
               PROVE  MayPrecede(distributed[i], distributed[j])'
    BY <1>1 DEF SentInOrder
  <2>1. distributed[i] \in Sent /\ distributed[j] \in Sent
    BY DEF Sent
  <2> QED
    BY <2>1, <1>1, <1>4, <1>5, <1>9 DEF SentInOrder, Left
<1> QED
  BY <1>2, <1>6, <1>7, <1>8, <1>10, <1>11, <1>12

\* Taking the set S out, when all of S ages off or all of the set is flushed.
LEMMA TakeOutSetInv ==
    ASSUME SetInv, NEW S \in SUBSET samples, TakeOut(S),
           flushedOut' \subseteq Sample, flushedOut \subseteq flushedOut',
           \A r \in S, x \in samples \ S : TimeTag[r] < TimeTag[x],
           \A r \in S \ flushedOut' :
              \E g \in Sample \ Anomalous :
                 stamp[g] # 0 /\ TimeTag[r] < TimeTag[g] - sorterLength,
           \A r \in (Left \cup S) \ flushedOut' :
              \E g \in (samples \ S) \cup flushedOut' :
                 TimeTag[r] < TimeTag[g] - sorterLength
    PROVE  SetInv'
<1> USE DEF SetInv
<1>1. /\ agedsamples = {} /\ agedsamples' = S /\ samples' = samples \ S
      /\ ~stopped /\ stopped' = stopped
      /\ distributed' = distributed /\ stamp' = stamp /\ arrivals' = arrivals
      /\ early' = early /\ afterFlush' = afterFlush /\ released' = released
      /\ Sent' = Sent /\ Left = Sent /\ Left' = S \cup Sent
  BY DEF TakeOut, Sent, Left
<1>2. SetTypeOK'
  BY <1>1, Zenon DEF SetTypeOK
<1>3. NoSampleLostOrRepeated'
  BY <1>1 DEF NoSampleLostOrRepeated
<1>4. StampInv'
  BY <1>1 DEF StampInv
<1>5. AgedInv'
  BY <1>1 DEF AgedInv
<1>6. ASSUME NEW r, NEW x
      PROVE  MayPrecede(r, x)' <=> MayPrecede(r, x)
  BY <1>1 DEF MayPrecede, OutsideWindow
<1>7. SetBehindLeft'
  <2> SUFFICES ASSUME NEW r \in S \cup Sent, NEW x \in samples \ S
               PROVE  MayPrecede(r, x)
    BY <1>1, <1>6 DEF SetBehindLeft
  <2>1. CASE r \in Sent
    BY <2>1, <1>1 DEF SetBehindLeft
  <2>2. CASE r \in S
    <3>1. TimeTag[r] < TimeTag[x] /\ TimeTag[r] \in Int /\ TimeTag[x] \in Int
      BY <2>2, SampleAssumption DEF SetTypeOK
    <3> QED
      BY <3>1 DEF MayPrecede
  <2> QED
    BY <2>1, <2>2
<1>8. AgedBehindSent'
  BY <1>1, <1>6 DEF AgedBehindSent, SetBehindLeft
<1>9. SentInOrder'
  BY <1>1, <1>6 DEF SentInOrder
<1> QED
  BY <1>2, <1>3, <1>4, <1>5, <1>7, <1>8, <1>9

\* run() takes the aged samples.
LEMMA TakeAgedSetInv ==
    ASSUME SetInv, TakeAged
    PROVE  SetInv'
<1>1. PICK l \in samples : IsLate(l) /\ TakeOut(AgedBy(l)) /\ UNCHANGED flushedOut
  BY DEF TakeAged
<1> DEFINE S == AgedBy(l)
<1>2. /\ SetTypeOK /\ samples \subseteq Sample /\ flushedOut \subseteq Sample
      /\ \A r \in Sample : TimeTag[r] \in Int
      /\ sorterLength \in Nat
      /\ \A r \in samples : stamp[r] # 0
      /\ Left \subseteq Sample
  BY SampleAssumption DEF SetInv, SetTypeOK, NoSampleLostOrRepeated, Left, Sent
<1>3. \A r \in samples : r \in S <=> TimeTag[r] < TimeTag[l] - sorterLength
  BY DEF AgedBy
<1>4. S \in SUBSET samples
  BY DEF AgedBy
<1>5. \A r \in S, x \in samples \ S : TimeTag[r] < TimeTag[x]
  BY <1>2, <1>3, <1>4
<1>6. PICK g \in samples \ Anomalous : TimeTag[g] >= TimeTag[l]
  BY <1>1, <1>2, LateWitness
<1>7. \A r \in S : TimeTag[r] < TimeTag[g] - sorterLength
  BY <1>2, <1>3, <1>4, <1>6
<1>8. l \in samples \ S
  BY <1>2, <1>3
<1>9. ASSUME NEW r \in (Left \cup S) \ flushedOut
      PROVE  \E h \in (samples \ S) \cup flushedOut :
                 TimeTag[r] < TimeTag[h] - sorterLength
  <2>1. CASE r \in S
    BY <2>1, <1>3, <1>4, <1>8
  <2>2. CASE r \notin S
    <3>1. PICK h \in samples \cup flushedOut :
              TimeTag[r] < TimeTag[h] - sorterLength
      BY <2>2, <1>1 DEF SetInv, AgedInv, TakeOut
    <3>2. CASE h \in S
      <4>1. TimeTag[r] < TimeTag[l] - sorterLength
        BY <3>1, <3>2, <1>2, <1>3, <1>4, <2>2
      <4> QED
        BY <4>1, <1>8
    <3> QED
      BY <3>1, <3>2
  <2> QED
    BY <2>1, <2>2
<1>10. \A r \in S \ flushedOut : \E h \in Sample \ Anomalous :
            stamp[h] # 0 /\ TimeTag[r] < TimeTag[h] - sorterLength
  BY <1>2, <1>6, <1>7
<1> HIDE DEF S
<1>11. TakeOut(S) /\ flushedOut' = flushedOut
  BY <1>1 DEF S
<1> QED
  BY <1>2, <1>4, <1>5, <1>9, <1>10, <1>11, TakeOutSetInv

\* run() takes everything, for a flush.
LEMMA TakeAllSetInv ==
    ASSUME SetInv, TakeAll
    PROVE  SetInv'
<1>1. TakeOut(samples) /\ flushedOut' = flushedOut \cup samples
  BY DEF TakeAll
<1>2. flushedOut' \subseteq Sample
  BY <1>1 DEF SetInv, SetTypeOK
<1>3. ASSUME NEW r \in (Left \cup samples) \ flushedOut'
      PROVE  \E g \in (samples \ samples) \cup flushedOut' :
                 TimeTag[r] < TimeTag[g] - sorterLength
  <2>1. r \in Left \ flushedOut
    BY <1>1
  <2> QED
    BY <2>1, <1>1 DEF SetInv, AgedInv, TakeOut
<1> QED
  BY <1>1, <1>2, <1>3, TakeOutSetInv

\* run() sends the first of the aged samples.
LEMMA DistributeSetInv ==
    ASSUME SetInv, NEW s \in Sample, DistributeSample(s)
    PROVE  SetInv'
<1> USE DEF SetInv
<1> DEFINE n == Len(distributed) + 1
<1>1. /\ s \in agedsamples /\ agedsamples' = agedsamples \ {s}
      /\ \A r \in agedsamples \ {s} : Before(s, r)
      /\ samples' = samples /\ stamp' = stamp /\ arrivals' = arrivals
      /\ early' = early /\ afterFlush' = afterFlush /\ released' = released
      /\ flushedOut' = flushedOut /\ stopped' = stopped
  BY DEF DistributeSample
<1>2. /\ Sent' = Sent \cup {s} /\ distributed' \in Seq(Sample)
      /\ distributed'[n] = s /\ DOMAIN distributed' = DOMAIN distributed \cup {n}
      /\ \A i \in DOMAIN distributed : distributed'[i] = distributed[i]
      /\ n \in Nat /\ DOMAIN distributed = 1 .. n - 1
  <2>1. distributed \in Seq(Sample)
    BY DEF SetTypeOK
  <2>2. n \in Nat /\ DOMAIN distributed = 1 .. n - 1
    BY <2>1
  <2>3. SetTypeOK
    OBVIOUS
  <2> HIDE DEF SetInv
  <2> QED
    BY <2>2, <2>3, SentAppend
<1>3. Left' = Left
  BY <1>1, <1>2 DEF Left
<1>4. SetTypeOK'
  BY <1>1, <1>2, Zenon DEF SetTypeOK
<1>5. s \notin Sent
  BY <1>1 DEF NoSampleLostOrRepeated
<1>6. NoSampleLostOrRepeated'
  <2>1. \A i, j \in DOMAIN distributed' :
            i # j => distributed'[i] # distributed'[j]
    BY <1>2, <1>5 DEF NoSampleLostOrRepeated, Sent
  <2> QED
    BY <2>1, <1>1, <1>2 DEF NoSampleLostOrRepeated
<1>7. StampInv'
  BY <1>1 DEF StampInv
<1>8. AgedInv'
  BY <1>1, <1>3 DEF AgedInv
<1>9. ASSUME NEW r, NEW x
      PROVE  MayPrecede(r, x)' <=> MayPrecede(r, x)
  BY <1>1 DEF MayPrecede, OutsideWindow
<1>10. SetBehindLeft'
  BY <1>1, <1>3, <1>9 DEF SetBehindLeft
<1>11. \A x \in agedsamples \ {s} : MayPrecede(s, x)
  <2> SUFFICES ASSUME NEW x \in agedsamples \ {s} PROVE MayPrecede(s, x)
    OBVIOUS
  <2>1. Before(s, x) /\ x \in Sample /\ TimeTag[s] \in Int /\ TimeTag[x] \in Int
    BY <1>1, SampleAssumption DEF SetTypeOK
  <2> QED
    BY <2>1 DEF Before, MayPrecede
<1>12. AgedBehindSent'
  BY <1>1, <1>2, <1>9, <1>11 DEF AgedBehindSent
<1>13. SentInOrder'
  <2> SUFFICES ASSUME NEW i \in DOMAIN distributed', NEW j \in DOMAIN distributed',
                      i < j
               PROVE  MayPrecede(distributed'[i], distributed'[j])
    BY <1>9 DEF SentInOrder
  <2>1. i \in DOMAIN distributed
    BY <1>2
  <2>2. CASE j \in DOMAIN distributed
    BY <2>1, <2>2, <1>2 DEF SentInOrder
  <2>3. CASE j = n
    <3>1. distributed[i] \in Sent
      BY <2>1 DEF Sent
    <3> QED
      BY <2>1, <2>3, <3>1, <1>1, <1>2 DEF AgedBehindSent
  <2> QED
    BY <2>2, <2>3, <1>2
<1> QED
  BY <1>4, <1>6, <1>7, <1>8, <1>10, <1>12, <1>13

\* Releasing what is left, in run() or in the destructor.
LEMMA ReleaseSetInv ==
    ASSUME SetInv, ReleaseSamples
    PROVE  SetInv'
<1> USE DEF SetInv
<1>1. /\ agedsamples = {} /\ agedsamples' = {} /\ samples' = {} /\ stopped' = TRUE
      /\ released' = released \cup samples
      /\ distributed' = distributed /\ stamp' = stamp /\ arrivals' = arrivals
      /\ early' = early /\ afterFlush' = afterFlush /\ flushedOut' = flushedOut
      /\ Sent' = Sent /\ Left' = Left
  BY DEF ReleaseSamples, Sent, Left
<1>2. SetTypeOK'
  BY <1>1, Zenon DEF SetTypeOK
<1>3. NoSampleLostOrRepeated'
  BY <1>1 DEF NoSampleLostOrRepeated
<1>4. ASSUME NEW r, NEW x
      PROVE  MayPrecede(r, x)' <=> MayPrecede(r, x)
  BY <1>1 DEF MayPrecede, OutsideWindow
<1>5. SentInOrder'
  BY <1>1, <1>4 DEF SentInOrder
<1> QED
  BY <1>1, <1>2, <1>3, <1>5
     DEF StampInv, AgedInv, SetBehindLeft, AgedBehindSent

\* The steps of the threads that leave the samples alone.
LEMMA StutterSetInv ==
    ASSUME SetInv, UNCHANGED setVars
    PROVE  SetInv'
BY DEF setVars, SetInv, SetTypeOK, NoSampleLostOrRepeated, StampInv, AgedInv,
       SetBehindLeft, AgedBehindSent, SentInOrder, MayPrecede, OutsideWindow,
       Left, Sent

\* Inserting, aging off, flushing, sending and releasing a sample keep the order.
LEMMA NextSetInv == SetInv /\ [SetNext]_setVars => SetInv'
<1> SUFFICES ASSUME SetInv, [SetNext]_setVars PROVE SetInv'
  OBVIOUS
<1>1. ASSUME NEW s \in Sample, InsertSample(s) PROVE SetInv'
  BY <1>1, InsertSetInv
<1>2. ASSUME NEW s \in Sample, DistributeSample(s) PROVE SetInv'
  BY <1>2, DistributeSetInv
<1>3. CASE TakeAged
  BY <1>3, TakeAgedSetInv
<1>4. CASE TakeAll
  BY <1>4, TakeAllSetInv
<1>5. CASE StopAndRelease \/ ReleaseLeftover
  BY <1>5, ReleaseSetInv DEF StopAndRelease, ReleaseLeftover
<1>6. CASE UNCHANGED setVars
  BY <1>6, StutterSetInv
<1> QED
  BY <1>1, <1>2, <1>3, <1>4, <1>5, <1>6 DEF SetNext

\* The inductive invariant holds in every reachable state.
THEOREM SetInvariant == SetSpec => []SetInv
BY InitSetInv, NextSetInv, PTL DEF SetSpec

\* run() loses no sample and sends or frees none twice.
THEOREM NoLoss == SetSpec => []NoSampleLostOrRepeated
<1>1. SetInv => NoSampleLostOrRepeated
  BY DEF SetInv
<1> QED
  BY <1>1, SetInvariant, PTL

\* The samples reach the clients in the order of their time tags, except
\* those that arrived outside the sorting window or behind a flush.
THEOREM Sorted == SetSpec => []SortedWithinWindow
<1>1. SetInv => SortedWithinWindow
  BY DEF SetInv, SentInOrder, MayPrecede, SortedWithinWindow
<1> QED
  BY <1>1, SetInvariant, PTL

\* Whatever is sent out of order was counted in _earlySamples, or came
\* behind a flush.
THEOREM Counted == SetSpec => []DisorderIsCounted
<1>1. SetInv => DisorderIsCounted
  BY DEF SetInv, SentInOrder, MayPrecede, DisorderIsCounted
<1> QED
  BY <1>1, SetInvariant, PTL

\* Samples with equal time tags stay in the order of their insertion.
THEOREM Stable == SetSpec => []EqualTagsKeepOrder
<1>1. SetInv => EqualTagsKeepOrder
  BY SampleAssumption DEF SetInv, SentInOrder, MayPrecede, EqualTagsKeepOrder
<1> QED
  BY <1>1, SetInvariant, PTL
=============================================================================
