---------------------------- MODULE LamsxProofs ----------------------------
(***************************************************************************)
(* For every size of the buffers, every number of interrupts and every     *)
(* setting of the averages: the types of Lamsx, that no activity of the    *)
(* driver outlives its buffers, that each of the three circular buffers    *)
(* implements the queue of SampleFifo, and that the scanner assembles the  *)
(* samples of the driver from reads that end anywhere.                     *)
(*                                                                         *)
(* The inductive invariant adds to the types what each activity has found  *)
(* out about a buffer and relies on some steps later without a lock: the   *)
(* producer's element is still free, the consumer's sample still there.    *)
(*                                                                         *)
(* It rests on what the macros of the circular buffers do to the contents. *)
(* A producer that writes into the head element and then moves the head    *)
(* appends to the contents, a consumer that moves the tail removes the     *)
(* first sample, and neither takes from the other what it has found.       *)
(***************************************************************************)
EXTENDS Lamsx, TLAPS

\* A circular buffer of n elements of E.
CircBufOf(n, E) ==
    [buf : [0..(n - 1) -> E], head : 0..(n - 1), tail : 0..(n - 1), size : {n}]

\* The index of the k-th sample from tail t, and the index after i.
Idx(n, t, k) == IF t + k - 1 < n THEN t + k - 1 ELSE t + k - 1 - n
After(n, i) == IF i + 1 = n THEN 0 ELSE i + 1

-----------------------------------------------------------------------------
(***************************************************************************)
(* Arithmetic of the indices                                               *)
(***************************************************************************)
\* The number of samples between two indices of a buffer: what CIRC_CNT
\* computes with the kernel's mask.
LEMMA CountIs ==
    ASSUME NEW n \in Nat, n > 1, NEW h \in 0..(n - 1), NEW t \in 0..(n - 1)
    PROVE  /\ CIRC_CNT(h, t, n) = IF h >= t THEN h - t ELSE h - t + n
           /\ CIRC_CNT(h, t, n) \in 0..(n - 1)
<1>1. CIRC_CNT(h, t, n) = IF h >= t THEN h - t ELSE h - t + n
  BY DEF CIRC_CNT
<1> QED BY <1>1

\* GET_HEAD leaves one element free, so that a full buffer does not look
\* like an empty one.
LEMMA SpaceIs ==
    ASSUME NEW n \in Nat, n > 1, NEW h \in 0..(n - 1), NEW t \in 0..(n - 1)
    PROVE  CIRC_SPACE(h, t, n) = n - 1 - CIRC_CNT(h, t, n)
<1>0. CIRC_CNT(h, t, n) = IF h >= t THEN h - t ELSE h - t + n
  BY CountIs
<1>1. CASE h + 1 < n
  <2>1. CIRC_SPACE(h, t, n) = IF t >= h + 1 THEN t - (h + 1) ELSE t - (h + 1) + n
    BY <1>1 DEF CIRC_SPACE, CIRC_CNT
  <2> QED BY <1>0, <2>1
<1>2. CASE h + 1 = n
  <2>1. (t - n) % n = t
    OBVIOUS
  <2>2. CIRC_SPACE(h, t, n) = t
    BY <1>2, <2>1 DEF CIRC_SPACE, CIRC_CNT
  <2> QED BY <1>0, <2>2, <1>2
<1> QED BY <1>1, <1>2

\* The index one after another one, as the macros compute it.
LEMMA AfterIs ==
    ASSUME NEW n \in Nat, n > 1, NEW h \in 0..(n - 1)
    PROVE  (h + 1) % n = After(n, h) /\ After(n, h) \in 0..(n - 1)
  BY DEF After

\* The index of the k-th sample stays in the array and wraps at its end.
LEMMA IdxIs ==
    ASSUME NEW n \in Nat, n > 1, NEW t \in 0..(n - 1), NEW k \in 1..n
    PROVE  (t + k - 1) % n = Idx(n, t, k) /\ Idx(n, t, k) \in 0..(n - 1)
<1>1. t + k - 1 \in 0..(2 * n - 2)
  OBVIOUS
<1> QED BY <1>1 DEF Idx

\* The samples in the buffer do not include the head element.
LEMMA IdxIsNotHead ==
    ASSUME NEW n \in Nat, n > 1, NEW h \in 0..(n - 1), NEW t \in 0..(n - 1),
           NEW k \in 1..CIRC_CNT(h, t, n)
    PROVE  Idx(n, t, k) # h
<1>1. CIRC_CNT(h, t, n) = IF h >= t THEN h - t ELSE h - t + n
  BY CountIs
<1>2. k \in Int /\ k >= 1 /\ k <= CIRC_CNT(h, t, n)
  BY CountIs
<1> QED BY <1>1, <1>2 DEF Idx

\* One more sample puts the head element among them.
LEMMA HeadMoves ==
    ASSUME NEW n \in Nat, n > 1, NEW h \in 0..(n - 1), NEW t \in 0..(n - 1),
           CIRC_CNT(h, t, n) < n - 1
    PROVE  /\ CIRC_CNT(After(n, h), t, n) = CIRC_CNT(h, t, n) + 1
           /\ Idx(n, t, CIRC_CNT(h, t, n) + 1) = h
<1>1. CIRC_CNT(h, t, n) = IF h >= t THEN h - t ELSE h - t + n
  BY CountIs
<1>2. After(n, h) \in 0..(n - 1)
  BY AfterIs
<1>3. CIRC_CNT(After(n, h), t, n)
        = IF After(n, h) >= t THEN After(n, h) - t ELSE After(n, h) - t + n
  BY <1>2, CountIs
<1> QED BY <1>1, <1>3 DEF After, Idx

\* One sample less, and each index belongs to the sample before.
LEMMA TailMoves ==
    ASSUME NEW n \in Nat, n > 1, NEW h \in 0..(n - 1), NEW t \in 0..(n - 1),
           CIRC_CNT(h, t, n) > 0
    PROVE  /\ CIRC_CNT(h, After(n, t), n) = CIRC_CNT(h, t, n) - 1
           /\ \A k \in 1..(n - 1) : Idx(n, After(n, t), k) = Idx(n, t, k + 1)
           /\ Idx(n, t, 1) = t
<1>1. CIRC_CNT(h, t, n) = IF h >= t THEN h - t ELSE h - t + n
  BY CountIs
<1>2. After(n, t) \in 0..(n - 1)
  BY AfterIs
<1>3. CIRC_CNT(h, After(n, t), n)
        = IF h >= After(n, t) THEN h - After(n, t) ELSE h - After(n, t) + n
  BY <1>2, CountIs
<1> QED BY <1>1, <1>3 DEF After, Idx

-----------------------------------------------------------------------------
(***************************************************************************)
(* The contents                                                            *)
(***************************************************************************)
\* The contents as a sequence, with the indices written without %.
LEMMA ContentsAre ==
    ASSUME NEW n \in Nat, n > 1, NEW E, NEW c \in CircBufOf(n, E)
    PROVE  /\ CIRC_CNT(c.head, c.tail, n) \in 0..(n - 1)
           /\ Contents(c) \in Seq(E)
           /\ Len(Contents(c)) = CIRC_CNT(c.head, c.tail, n)
           /\ \A k \in 1..CIRC_CNT(c.head, c.tail, n) :
                 Contents(c)[k] = c.buf[Idx(n, c.tail, k)]
<1> DEFINE cnt == CIRC_CNT(c.head, c.tail, n)
           at(k) == (c.tail + k - 1) % n
<1>1. /\ c.head \in 0..(n - 1) /\ c.tail \in 0..(n - 1) /\ c.size = n
      /\ c.buf \in [0..(n - 1) -> E]
  BY DEF CircBufOf
<1>2. cnt \in 0..(n - 1)
  BY <1>1, CountIs
<1>3. Contents(c) = [k \in 1..cnt |-> c.buf[at(k)]]
  BY <1>1 DEF Contents
<1> HIDE DEF cnt
<1>4. ASSUME NEW k \in 1..cnt
      PROVE  at(k) = Idx(n, c.tail, k) /\ at(k) \in 0..(n - 1)
  <2>1. k \in 1..n /\ c.tail \in 0..(n - 1)
    BY <1>1, <1>2
  <2>2. (c.tail + k - 1) % n = Idx(n, c.tail, k)
    BY <2>1, IdxIs
  <2>3. Idx(n, c.tail, k) \in 0..(n - 1)
    BY <2>1, IdxIs
  <2> QED BY <2>2, <2>3
<1> HIDE DEF at
<1>5. \A k \in 1..cnt : c.buf[at(k)] \in E
  BY <1>1, <1>4
<1>6. Contents(c) \in Seq(E) /\ Len(Contents(c)) = cnt
  BY <1>2, <1>3, <1>5
<1>7. \A k \in 1..cnt : Contents(c)[k] = c.buf[at(k)]
  BY <1>3
<1> QED BY <1>2, <1>4, <1>6, <1>7 DEF cnt

\* GET_HEAD finds an element as long as there are fewer than n - 1 samples,
\* GET_TAIL as long as there is one.
LEMMA HasAre ==
    ASSUME NEW n \in Nat, n > 1, NEW E, NEW c \in CircBufOf(n, E)
    PROVE  /\ HasHead(c) <=> Len(Contents(c)) < n - 1
           /\ HasTail(c) <=> Len(Contents(c)) > 0
<1>1. c.head \in 0..(n - 1) /\ c.tail \in 0..(n - 1) /\ c.size = n
  BY DEF CircBufOf
<1>2. Len(Contents(c)) = CIRC_CNT(c.head, c.tail, n)
      /\ CIRC_CNT(c.head, c.tail, n) \in 0..(n - 1)
  BY ContentsAre
<1>3. CIRC_SPACE(c.head, c.tail, n) = n - 1 - CIRC_CNT(c.head, c.tail, n)
  BY <1>1, SpaceIs
<1> QED BY <1>1, <1>2, <1>3 DEF HasHead, HasTail

\* The producer's writes into the head element are not seen by the consumer.
LEMMA WriteHeadKeeps ==
    ASSUME NEW n \in Nat, n > 1, NEW E, NEW c \in CircBufOf(n, E), NEW x \in E
    PROVE  /\ WriteHead(c, x) \in CircBufOf(n, E)
           /\ Contents(WriteHead(c, x)) = Contents(c)
           /\ WriteHead(c, x).buf[WriteHead(c, x).head] = x
<1> DEFINE d == WriteHead(c, x)
           cnt == CIRC_CNT(c.head, c.tail, n)
<1>1. /\ c.head \in 0..(n - 1) /\ c.tail \in 0..(n - 1) /\ c.size = n
      /\ c.buf \in [0..(n - 1) -> E]
      /\ c = [buf |-> c.buf, head |-> c.head, tail |-> c.tail, size |-> n]
  BY DEF CircBufOf
<1>2. /\ d \in CircBufOf(n, E)
      /\ d.head = c.head /\ d.tail = c.tail /\ d.size = n
      /\ d.buf = [c.buf EXCEPT ![c.head] = x]
  BY <1>1 DEF CircBufOf, WriteHead
<1> HIDE DEF d
<1>3. cnt \in 0..(n - 1)
  BY <1>1, CountIs
<1>4. ASSUME NEW k \in 1..cnt
      PROVE  Contents(d)[k] = Contents(c)[k]
  <2>1. Idx(n, c.tail, k) # c.head
    BY <1>1, IdxIsNotHead
  <2>2. k \in 1..n
    BY <1>3
  <2>3. Idx(n, c.tail, k) \in 0..(n - 1)
    BY <1>1, <2>2, IdxIs
  <2>4. d.buf[Idx(n, c.tail, k)] = c.buf[Idx(n, c.tail, k)]
    BY <1>1, <1>2, <2>1, <2>3
  <2>5. Contents(d)[k] = d.buf[Idx(n, c.tail, k)]
    <3>0. d \in CircBufOf(n, E)
      BY <1>2
    <3>1. \A j \in 1..CIRC_CNT(d.head, d.tail, n) :
             Contents(d)[j] = d.buf[Idx(n, d.tail, j)]
      BY <3>0, ContentsAre
    <3>2. CIRC_CNT(d.head, d.tail, n) = cnt /\ d.tail = c.tail
      BY <1>2
    <3> HIDE DEF cnt
    <3> QED BY <3>1, <3>2
  <2>6. Contents(c)[k] = c.buf[Idx(n, c.tail, k)]
    BY ContentsAre
  <2> QED BY <2>4, <2>5, <2>6
<1>5. /\ Contents(d) \in Seq(E) /\ Contents(c) \in Seq(E)
      /\ Len(Contents(d)) = cnt /\ Len(Contents(c)) = cnt
  BY <1>2, ContentsAre
<1> HIDE DEF cnt
<1>6. Contents(d) = Contents(c)
  BY <1>4, <1>5
<1>7. d.buf[d.head] = x
  BY <1>1, <1>2
<1> QED BY <1>2, <1>6, <1>7 DEF d

\* INCREMENT_HEAD appends the head element to the contents.
LEMMA IncrementHeadAppends ==
    ASSUME NEW n \in Nat, n > 1, NEW E, NEW c \in CircBufOf(n, E), HasHead(c)
    PROVE  /\ INCREMENT_HEAD(c) \in CircBufOf(n, E)
           /\ Contents(INCREMENT_HEAD(c)) = Append(Contents(c), c.buf[c.head])
<1> DEFINE d == INCREMENT_HEAD(c)
           cnt == CIRC_CNT(c.head, c.tail, n)
           x == c.buf[c.head]
<1>1. /\ c.head \in 0..(n - 1) /\ c.tail \in 0..(n - 1) /\ c.size = n
      /\ c.buf \in [0..(n - 1) -> E]
      /\ c = [buf |-> c.buf, head |-> c.head, tail |-> c.tail, size |-> n]
  BY DEF CircBufOf
<1>2. cnt \in 0..(n - 1) /\ cnt < n - 1
  <2>1. cnt \in 0..(n - 1)
    BY <1>1, CountIs
  <2>2. Len(Contents(c)) = cnt
    BY ContentsAre
  <2> QED BY <2>1, <2>2, HasAre
<1>3. /\ d.head = After(n, c.head) /\ d.tail = c.tail /\ d.size = n
      /\ d.buf = c.buf /\ d \in CircBufOf(n, E)
  <2>1. (c.head + 1) % n = After(n, c.head) /\ After(n, c.head) \in 0..(n - 1)
    BY <1>1, AfterIs
  <2>2. d = [buf |-> c.buf, head |-> After(n, c.head), tail |-> c.tail, size |-> n]
    BY <1>1, <2>1 DEF INCREMENT_HEAD
  <2> QED BY <1>1, <2>1, <2>2 DEF CircBufOf
<1> HIDE DEF d
<1>4. CIRC_CNT(d.head, d.tail, n) = cnt + 1 /\ Idx(n, c.tail, cnt + 1) = c.head
  BY <1>1, <1>2, <1>3, HeadMoves
<1>5. /\ Contents(d) \in Seq(E) /\ Contents(c) \in Seq(E)
      /\ Len(Contents(d)) = cnt + 1 /\ Len(Contents(c)) = cnt
      /\ \A k \in 1..(cnt + 1) : Contents(d)[k] = c.buf[Idx(n, c.tail, k)]
      /\ \A k \in 1..cnt : Contents(c)[k] = c.buf[Idx(n, c.tail, k)]
  BY <1>3, <1>4, ContentsAre
<1>6. x \in E
  BY <1>1
<1> HIDE DEF cnt, x
<1>7. /\ Append(Contents(c), x) \in Seq(E)
      /\ Len(Append(Contents(c), x)) = cnt + 1
      /\ \A k \in 1..cnt : Append(Contents(c), x)[k] = Contents(c)[k]
      /\ Append(Contents(c), x)[cnt + 1] = x
  BY <1>2, <1>5, <1>6
<1>8. ASSUME NEW k \in 1..(cnt + 1)
      PROVE  Contents(d)[k] = Append(Contents(c), x)[k]
  <2>1. CASE k = cnt + 1
    BY <1>2, <1>4, <1>5, <1>7, <2>1 DEF x
  <2>2. CASE k # cnt + 1
    <3>1. k \in 1..cnt
      BY <1>2, <2>2
    <3> QED BY <3>1, <1>5, <1>7
  <2> QED BY <2>1, <2>2
<1>9. Contents(d) = Append(Contents(c), x)
  BY <1>2, <1>5, <1>7, <1>8
<1> QED BY <1>3, <1>9 DEF d, x

\* INCREMENT_TAIL removes the first sample, the one at the tail, from the
\* contents.
LEMMA IncrementTailRemoves ==
    ASSUME NEW n \in Nat, n > 1, NEW E, NEW c \in CircBufOf(n, E), HasTail(c)
    PROVE  /\ INCREMENT_TAIL(c) \in CircBufOf(n, E)
           /\ Contents(c) # <<>>
           /\ AtTail(c) = Contents(c)[1]
           /\ Contents(INCREMENT_TAIL(c)) = Tail(Contents(c))
<1> DEFINE d == INCREMENT_TAIL(c)
           cnt == CIRC_CNT(c.head, c.tail, n)
<1>1. /\ c.head \in 0..(n - 1) /\ c.tail \in 0..(n - 1) /\ c.size = n
      /\ c.buf \in [0..(n - 1) -> E]
      /\ c = [buf |-> c.buf, head |-> c.head, tail |-> c.tail, size |-> n]
  BY DEF CircBufOf
<1>2. cnt \in 0..(n - 1) /\ cnt > 0
  <2>1. cnt \in 0..(n - 1)
    BY <1>1, CountIs
  <2>2. Len(Contents(c)) = cnt
    BY ContentsAre
  <2> QED BY <2>1, <2>2, HasAre
<1>3. /\ d.head = c.head /\ d.tail = After(n, c.tail) /\ d.size = n
      /\ d.buf = c.buf /\ d \in CircBufOf(n, E)
  <2>1. (c.tail + 1) % n = After(n, c.tail) /\ After(n, c.tail) \in 0..(n - 1)
    BY <1>1, AfterIs
  <2>2. d = [buf |-> c.buf, head |-> c.head, tail |-> After(n, c.tail), size |-> n]
    BY <1>1, <2>1 DEF INCREMENT_TAIL
  <2> QED BY <1>1, <2>1, <2>2 DEF CircBufOf
<1> HIDE DEF d
<1>4. /\ CIRC_CNT(d.head, d.tail, n) = cnt - 1
      /\ \A k \in 1..(n - 1) : Idx(n, d.tail, k) = Idx(n, c.tail, k + 1)
      /\ Idx(n, c.tail, 1) = c.tail
  BY <1>1, <1>2, <1>3, TailMoves
<1>5. /\ Contents(d) \in Seq(E) /\ Contents(c) \in Seq(E)
      /\ Len(Contents(d)) = cnt - 1 /\ Len(Contents(c)) = cnt
      /\ \A k \in 1..(cnt - 1) : Contents(d)[k] = c.buf[Idx(n, d.tail, k)]
      /\ \A k \in 1..cnt : Contents(c)[k] = c.buf[Idx(n, c.tail, k)]
  BY <1>3, <1>4, ContentsAre
<1> HIDE DEF cnt
<1>6. ASSUME NEW k \in 1..(cnt - 1)
      PROVE  Contents(d)[k] = Contents(c)[k + 1]
  <2>1. k \in 1..(n - 1) /\ k + 1 \in 1..cnt
    BY <1>2
  <2> QED BY <2>1, <1>4, <1>5
<1>7. Contents(c) # <<>> /\ AtTail(c) = Contents(c)[1]
  <2>1. 1 \in 1..cnt
    BY <1>2
  <2>2. Contents(c)[1] = c.buf[c.tail]
    BY <2>1, <1>4, <1>5
  <2> QED BY <1>2, <1>5, <2>2 DEF AtTail
<1>8. /\ Tail(Contents(c)) \in Seq(E)
      /\ Len(Tail(Contents(c))) = cnt - 1
      /\ \A k \in 1..(cnt - 1) : Tail(Contents(c))[k] = Contents(c)[k + 1]
  BY <1>2, <1>5, <1>7
<1>9. Contents(d) = Tail(Contents(c))
  BY <1>2, <1>5, <1>6, <1>8
<1> QED BY <1>3, <1>7, <1>9 DEF d

-----------------------------------------------------------------------------
(***************************************************************************)
(* The inductive invariant                                                 *)
(***************************************************************************)
\* The steps are first-order logic; those with arithmetic, or with a function
\* updated at several places, cite SMT.
USE Zenon

RingInv ==
    /\ ring = [r \in Rings |-> ring[r]]
    /\ \A r \in Rings : /\ ring[r] \in CircBufOf(Size(r), Element(r))
                        /\ Contents(ring[r]) \in Seq(ItemOf(r))

HeadOf(r) == ring[r].buf[ring[r].head]

IsrInv ==
    /\ ipc \in {"idle", "inw", "head", "queue", "peak", "wake"}
    /\ psamp \in BOOLEAN
    /\ accepted \in Nat /\ irqs \in Nat /\ accepted <= irqs /\ irqs <= MaxIrq
    /\ ipc \in {"inw", "head"} => accepted < irqs /\ HasHead(ring["isr"])
    /\ ipc = "head" => HeadOf("isr") \in ItemOf("isr")
    /\ ipc \in {"inw", "head", "queue", "peak"} /\ psamp => HasHead(ring["peak"])
    /\ ipc \in {"head", "queue", "peak"} /\ psamp
          => HeadOf("peak") \in ItemOf("peak")
    /\ ipc = "peak" => psamp

Sums == [sum : Seq((1..MaxIrq) \X Nat), nAvg : Nat, timetag : 0..MaxIrq]

BhInv ==
    /\ pending \in BOOLEAN
    /\ bpc \in {"idle", "tail", "inc", "test", "missed", "fill", "head", "wake", "end"}
    /\ bhd \in Sums
    /\ nshift \in Nat /\ load \in Nat
    /\ bpc = "inc" => HasTail(ring["isr"])
    /\ bpc \in {"inc", "test", "missed", "fill", "head"} => bhd.sum # <<>>
    /\ bpc \in {"fill", "head"} => HasHead(ring["avg"])
    /\ bpc = "head" => HeadOf("avg") \in ItemOf("avg")

BrdInv ==
    /\ status \in [missedISRSamples : Nat, missedOutSamples : Nat]
    /\ brd \in [num_opened : 0..1, irq : BOOLEAN, nAVG : Nat \ {0},
                nPEAKS : Nat \ {0}, nPeaks : Nat]

ByteSet == Out \X (Average \union (0..MaxIrq)) \X Int

UserInv ==
    /\ upc \in {"closed", "N_AVG", "N_PEAKS", "idle", "polling", "check",
                "asleep", "copy", "inc", "tail", "scan", "lost", "closing"}
    /\ kind \in Out
    /\ bytesLeft \in [Out -> Nat]
    /\ \A k \in Out : bytesLeft[k] <= LenOf(k)
    /\ \A k \in Out : bytesLeft[k] > 0 \/ (upc = "inc" /\ kind = k)
                        => upc = "closed" \/ HasTail(ring[k])
    /\ upc = "inc" => bytesLeft[kind] = 0
    /\ count \in Nat
    /\ buffer \in Seq(ByteSet) /\ Len(buffer) + count <= BufSize
    /\ osamp \in Seq(ByteSet)
    /\ osamp # <<>> => Len(osamp) < LenOf(osamp[1][1])
    /\ broken \in BOOLEAN
    /\ opens \in 0..MaxOpens

LifeInv ==
    /\ upc # "closed" => brd.num_opened = 1
    /\ upc \in {"closed", "closing"} => ipc = "idle" /\ brd.irq = FALSE
    /\ upc = "closed" => bpc = "idle" /\ pending = FALSE

IInv == RingInv /\ IsrInv /\ BhInv /\ BrdInv /\ UserInv /\ LifeInv

-----------------------------------------------------------------------------
(***************************************************************************)
(* Samples as bytes                                                        *)
(***************************************************************************)
\* The byte at i belongs to a sample of which the first byte is in s, and so is the
\* rest of it as far as s goes.
FrameAt(s, i) ==
    LET b == s[i]
        at == i - b[3]
    IN  /\ b[3] \in 1..LenOf(b[1]) /\ b[3] <= i
        /\ \A d \in 1..LenOf(b[1]) : at + d <= Len(s) => s[at + d] = Byte(b[1], b[2], d)
Framed(s) == \A i \in 1..Len(s) : FrameAt(s, i)

\* The last sample in s is complete.
Ends(s) == s = <<>> \/ s[Len(s)][3] = LenOf(s[Len(s)][1])

\* The d-th byte of the sample of the byte at i is not before the first.
LEMMA InFrame ==
    ASSUME NEW i \in Nat, NEW L \in Nat, NEW b \in 1..L, NEW d \in 1..L, b <= i
    PROVE  i - b + d >= 1 /\ i - b + d \in Int
  BY SMT

\* The p bytes copied of sample x are the last of s.
Copied(s, k, x, p) ==
    IF p = 0 THEN Ends(s) ELSE s # <<>> /\ s[Len(s)] = Byte(k, x, p)

\* What copy_to_user() does with the next n of them.
Extends(s, t, k, x, p, n) ==
    /\ t \in Seq(ByteSet) /\ Len(t) = Len(s) + n
    /\ \A i \in 1..Len(s) : t[i] = s[i]
    /\ \A j \in 1..n : t[Len(s) + j] = Byte(k, x, p + j)

\* nidas_circbuf_read_nowait() copies on where it left off: the samples stay whole.
LEMMA FramedExtends ==
    ASSUME NEW s \in Seq(ByteSet), NEW t, Framed(s),
           NEW k \in Out, NEW x, NEW p \in Nat, NEW n \in Nat, p + n <= LenOf(k),
           Copied(s, k, x, p), Extends(s, t, k, x, p, n)
    PROVE  Framed(t)
<1> DEFINE m == Len(s)
<1>1. m \in Nat /\ Len(t) = m + n /\ \A i \in 1..m : t[i] = s[i]
  BY SMT DEF Extends
<1>2. \A q \in Out : LenOf(q) \in Nat \ {0}
  BY LengthsArePositive DEF LenOf
<1>3. \A i \in 1..m : s[i] \in ByteSet
  BY SMT
<1>4. /\ p > 0 => /\ m \in 1..m /\ s[m] = Byte(k, x, p)
                  /\ s[m][1] = k /\ s[m][2] = x /\ s[m][3] = p
      /\ p = 0 /\ m > 0 => s[m][3] = LenOf(s[m][1])
  <2>1. s # <<>> => m \in 1..m
    BY SMT
  <2>2. m > 0 => s # <<>>
    BY SMT
  <2> QED BY SMT, <2>1, <2>2 DEF Copied, Ends, Byte
<1> HIDE DEF m
<1>5. ASSUME NEW i \in 1..m
      PROVE  /\ s[i][1] \in Out /\ s[i][3] \in 1..LenOf(s[i][1]) /\ s[i][3] <= i
             /\ \A d \in 1..LenOf(s[i][1]) : i - s[i][3] + d <= m =>
                   s[i - s[i][3] + d] = Byte(s[i][1], s[i][2], d)
  <2>1. s[i][1] \in Out
    BY SMT, <1>3 DEF ByteSet
  <2> QED BY <2>1 DEF Framed, FrameAt, m
<1>6. ASSUME NEW i \in 1..m, NEW d \in 1..LenOf(s[i][1]), i - s[i][3] + d <= m + n
      PROVE  t[i - s[i][3] + d] = Byte(s[i][1], s[i][2], d)
  <2> DEFINE b == s[i][3]
             e == m - (i - b)
             y == s[i][1]
             z == s[i][2]
  <2>1. /\ b \in 1..LenOf(y) /\ b <= i /\ y \in Out /\ LenOf(y) \in Nat
        /\ \A c \in 1..LenOf(y) : i - b + c <= m => s[i - b + c] = Byte(y, z, c)
        /\ d \in 1..LenOf(y) /\ i - b + d <= m + n
    BY <1>5, <1>6, <1>2
  <2> HIDE DEF b, y, z
  <2> DEFINE L == LenOf(y)
  <2>4. L \in Nat /\ b \in 1..L /\ d \in 1..L
    BY <2>1
  <2> HIDE DEF L
  <2>5. i \in Nat
    BY SMT, <1>1
  <2>6. e = m - (i - b)
    OBVIOUS
  <2> HIDE DEF e
  <2>2. CASE i - b + d <= m
    <3>1. i - b + d \in 1..m
      <4>1. i - b + d >= 1 /\ i - b + d \in Int
        BY <2>1, <2>4, <2>5, InFrame
      <4> QED BY SMT, <4>1, <2>2, <1>1
    <3> QED BY <3>1, <2>1, <2>2, <1>1 DEF b, y, z
  <2>3. CASE ~(i - b + d <= m)
    <3>1. /\ e \in 1..L /\ i - b + e = m /\ e < L /\ m > 0 /\ m <= m
          /\ d - e \in 1..n /\ m + (d - e) = i - b + d /\ e + (d - e) = d
      <4>1. m \in Nat /\ i - b + d <= m + n
        BY <1>1, <2>1
      <4> QED BY SMT, <4>1, <2>3, <2>4, <2>6
    <3>2. s[m] = Byte(y, z, e)
      BY <3>1, <2>1 DEF L
    <3>3. s[m][1] = y /\ s[m][2] = z /\ s[m][3] = e
      BY SMT, <3>2 DEF Byte
    <3>4. p > 0
      BY SMT, <3>1, <3>3, <1>4, <2>4 DEF L
    <3>5. k = y /\ x = z /\ p = e
      BY <3>3, <3>4, <1>4
    <3>6. d - p \in 1..n /\ m + (d - p) = i - b + d /\ p + (d - p) = d
      BY <3>5, <3>1
    <3>7. t[m + (d - p)] = Byte(k, x, p + (d - p))
      BY <3>6 DEF m, Extends
    <3> QED BY <3>5, <3>6, <3>7 DEF b, y, z
  <2> QED BY <2>2, <2>3 DEF b
<1>7. ASSUME NEW j \in 1..n, NEW d \in 1..LenOf(k), m - p + d <= m + n
      PROVE  p <= m /\ t[m - p + d] = Byte(k, x, d)
  <2>1. p > 0 => /\ p <= m
                 /\ \A c \in 1..LenOf(k) : m - p + c <= m =>
                       s[m - p + c] = Byte(k, x, c)
    BY <1>4, <1>5
  <2>2. p <= m
    BY SMT, <2>1, <1>1
  <2>3. CASE d <= p
    <3>1. m - p + d \in 1..m /\ m - p + d <= m /\ p > 0
      BY SMT, <2>2, <2>3, <1>1
    <3> QED BY <3>1, <2>1, <2>2, <1>1
  <2>4. CASE ~(d <= p)
    <3>1. d - p \in 1..n /\ m + (d - p) = m - p + d /\ p + (d - p) = d
      BY SMT, <2>2, <2>4, <1>7, <1>1, <1>2
    <3>2. t[m + (d - p)] = Byte(k, x, p + (d - p))
      BY <3>1 DEF m, Extends
    <3> QED BY <2>2, <3>1, <3>2
  <2> QED BY <2>3, <2>4
<1>8. ASSUME NEW i \in 1..(m + n)
      PROVE  /\ t[i][3] \in 1..LenOf(t[i][1]) /\ t[i][3] <= i
             /\ \A d \in 1..LenOf(t[i][1]) : i - t[i][3] + d <= m + n =>
                   t[i - t[i][3] + d] = Byte(t[i][1], t[i][2], d)
  <2>1. CASE i \in 1..m
    <3>1. t[i] = s[i]
      BY <2>1, <1>1
    <3> QED BY <3>1, <2>1, <1>5, <1>6
  <2>2. CASE i \notin 1..m
    <3> DEFINE j == i - m
    <3>1. j \in 1..n /\ i = m + j
      BY SMT, <2>2, <1>1
    <3> HIDE DEF j
    <3>2. t[i] = Byte(k, x, p + j) /\ t[i][1] = k /\ t[i][2] = x /\ t[i][3] = p + j
      <4>1. t[i] = Byte(k, x, p + j)
        BY <3>1 DEF m, Extends
      <4> QED BY SMT, <4>1 DEF Byte
    <3>3. /\ p + j \in 1..LenOf(k) /\ LenOf(k) \in Nat /\ 1 \in 1..LenOf(k)
          /\ m - p + 1 <= m + n /\ i - (p + j) = m - p
      BY SMT, <3>1, <1>1, <1>2
    <3>4. p <= m
      BY <3>1, <3>3, <1>7
    <3>5. p + j <= i
      BY SMT, <3>1, <3>4, <1>1
    <3>6. t[i][3] \in 1..LenOf(t[i][1]) /\ t[i][3] <= i
      BY <3>2, <3>3, <3>5
    <3>7. ASSUME NEW d \in 1..LenOf(k), i - (p + j) + d <= m + n
          PROVE  t[i - (p + j) + d] = Byte(k, x, d)
      BY <3>1, <3>3, <3>7, <1>7
    <3> QED BY <3>2, <3>6, <3>7
  <2> QED BY <2>1, <2>2
<1> QED BY <1>1, <1>8 DEF Framed, FrameAt

\* The scanner starts with the header of a sample.
LEMMA FramedFirst ==
    ASSUME NEW s \in Seq(ByteSet), Framed(s), s # <<>>
    PROVE  /\ s[1][1] \in Out /\ s[1][3] = 1
           /\ \A d \in 1..LenOf(s[1][1]) :
                 d <= Len(s) => s[d] = Byte(s[1][1], s[1][2], d)
<1>1. 1 \in 1..Len(s) /\ s[1] \in ByteSet
  BY SMT
<1>2. s[1][1] \in Out /\ LenOf(s[1][1]) \in Nat
  BY SMT, <1>1, LengthsArePositive DEF ByteSet, LenOf
<1>3. /\ s[1][3] \in 1..LenOf(s[1][1]) /\ s[1][3] <= 1
      /\ \A d \in 1..LenOf(s[1][1]) :
            1 - s[1][3] + d <= Len(s) =>
               s[1 - s[1][3] + d] = Byte(s[1][1], s[1][2], d)
  BY <1>1 DEF Framed, FrameAt
<1>4. s[1][3] = 1
  BY SMT, <1>2, <1>3
<1>5. \A d \in 1..LenOf(s[1][1]) : 1 - 1 + d = d
  BY SMT, <1>2
<1> QED BY <1>2, <1>3, <1>4, <1>5

\* A byte behind the first L whose sample starts within them.
LEMMA Straddles ==
    ASSUME NEW m \in Nat, NEW L \in Nat, NEW i \in Nat, NEW K \in Nat, NEW b \in 1..K,
           b <= L + i, ~(b <= i), L <= m
    PROVE  L + i - b + 1 \in 1..L /\ L + i - b + 1 <= m /\ 1 \in 1..K
  BY SMT

\* No sample is longer than its length.
LEMMA TooLong ==
    ASSUME NEW L \in Nat, NEW i \in Nat, NEW b \in 1..L, L + i - b + 1 = 1, ~(b <= i)
    PROVE  L = 0 \/ i = 0
  BY SMT

\* The positions after the first L bytes are taken.
LEMMA Shifted ==
    ASSUME NEW m \in Nat, NEW L \in Nat, NEW i \in Nat, NEW K \in Nat, NEW b \in 1..K,
           NEW d \in 1..K, b <= i, L <= m, i - b + d <= m - L
    PROVE  /\ i - b + d \in 1..(m - L) /\ L + (i - b + d) = L + i - b + d
           /\ L + i - b + d <= m
  BY SMT

\* What is left when the first sample is taken.
Rest(s, L, t) ==
    /\ L = LenOf(s[1][1]) /\ L <= Len(s) /\ Len(t) = Len(s) - L
    /\ \A i \in 1..Len(t) : t[i] = s[L + i]

\* nextSample() takes one sample: the next byte is a header again.
LEMMA FramedRest ==
    ASSUME NEW s \in Seq(ByteSet), NEW t \in Seq(ByteSet), Framed(s), s # <<>>,
           NEW L \in Nat, Rest(s, L, t)
    PROVE  Framed(t)
<1> SUFFICES ASSUME NEW i \in 1..Len(t)
             PROVE  /\ t[i][3] \in 1..LenOf(t[i][1]) /\ t[i][3] <= i
                    /\ \A d \in 1..LenOf(t[i][1]) : i - t[i][3] + d <= Len(t) =>
                          t[i - t[i][3] + d] = Byte(t[i][1], t[i][2], d)
  BY DEF Framed, FrameAt
<1> DEFINE m == Len(s)
           b == t[i][3]
           y == t[i][1]
           z == t[i][2]
           f == L + i - b
<1>1. m \in Nat /\ L + i \in 1..m /\ i \in Nat /\ Len(t) = m - L /\ L <= m
  BY SMT DEF Rest
<1>2. t[i] = s[L + i] /\ s[L + i] \in ByteSet
  <2>1. t[i] = s[L + i]
    BY DEF Rest
  <2> QED BY SMT, <2>1, <1>1
<1>3. y \in Out /\ LenOf(y) \in Nat \ {0}
  BY SMT, <1>2, LengthsArePositive DEF ByteSet, LenOf
<1>4. /\ b \in 1..LenOf(y) /\ b <= L + i
      /\ \A d \in 1..LenOf(y) : L + i - b + d <= m => s[L + i - b + d] = Byte(y, z, d)
  <2> DEFINE c == L + i
  <2>1. FrameAt(s, c) /\ t[i] = s[c]
    BY <1>1, <1>2 DEF Framed
  <2> HIDE DEF c
  <2>2. /\ b \in 1..LenOf(y) /\ b <= c
        /\ \A d \in 1..LenOf(y) : c - b + d <= m => s[c - b + d] = Byte(y, z, d)
    BY <2>1 DEF FrameAt
  <2> HIDE DEF m, b, y, z
  <2> QED BY SMT, <2>2 DEF c
<1> HIDE DEF m, b, y, z
<1>5. \A d \in 1..L : d <= m => s[d] = Byte(s[1][1], s[1][2], d)
  BY FramedFirst DEF m, Rest
<1>6. b <= i
  <2> SUFFICES ASSUME ~(b <= i) PROVE FALSE
    OBVIOUS
  <2>1. /\ f + 1 \in 1..L /\ f + 1 <= m /\ 1 \in 1..LenOf(y)
    BY <1>1, <1>3, <1>4, Straddles
  <2>2. s[f + 1] = Byte(y, z, 1) /\ s[f + 1] = Byte(s[1][1], s[1][2], f + 1)
    BY <2>1, <1>4, <1>5
  <2>3. y = s[1][1] /\ f + 1 = 1
    BY SMT, <2>2 DEF Byte
  <2>4. LenOf(y) = L
    BY <2>3 DEF Rest
  <2>5. L = 0 \/ i = 0
    BY <2>3, <2>4, <1>1, <1>4, TooLong
  <2>6. L # 0 /\ i # 0
    BY SMT, <2>4, <1>3
  <2> QED BY <2>5, <2>6
<1>7. ASSUME NEW d \in 1..LenOf(y), i - b + d <= Len(t)
      PROVE  t[i - b + d] = Byte(y, z, d)
  <2>1. /\ i - b + d \in 1..Len(t) /\ L + (i - b + d) = L + i - b + d
        /\ L + i - b + d <= m
    <3>1. i - b + d <= m - L /\ LenOf(y) \in Nat
      BY <1>1, <1>3, <1>7
    <3>2. /\ i - b + d \in 1..(m - L) /\ L + (i - b + d) = L + i - b + d
          /\ L + i - b + d <= m
      BY <1>1, <1>4, <1>6, <3>1, Shifted
    <3> QED BY <1>1, <3>2
  <2>2. t[i - b + d] = s[L + (i - b + d)]
    BY <2>1 DEF Rest
  <2> QED BY <2>1, <2>2, <1>4
<1> QED BY <1>4, <1>6, <1>7 DEF b, y, z

\* Bytes that are appended leave those before them alone.
LongerBy(s, t, c, S) ==
    /\ s \in Seq(S) /\ t \in Seq(S) /\ Len(t) = Len(s) + Len(c)
    /\ \A i \in 1..Len(s) : t[i] = s[i]
    /\ \A j \in 1..Len(c) : t[Len(s) + j] = c[j]

\* read() appends to the buffer behind the partial sample of the scanner.
LEMMA Longer ==
    ASSUME NEW S, NEW a \in Seq(S), NEW b \in Seq(S), NEW c \in Seq(S)
    PROVE  LongerBy(a \o b, a \o (b \o c), c, S)
  BY SMT DEF LongerBy

\* A read of no bytes changes nothing.
LEMMA SameSeq ==
    ASSUME NEW S, NEW a \in Seq(S), NEW b \in Seq(S), Len(b) = Len(a) + 0,
           \A i \in 1..Len(a) : b[i] = a[i]
    PROVE  b = a
  BY SMT

\* nextSample() takes exactly the bytes of the first sample.
LEMMA FirstTaken ==
    ASSUME NEW s \in Seq(ByteSet), Framed(s), s # <<>>,
           NEW L \in Nat, L = LenOf(s[1][1]), ~(Len(s) < L)
    PROVE  /\ Rest(s, L, SubSeq(s, L + 1, Len(s)))
           /\ SubSeq(s, L + 1, Len(s)) \in Seq(ByteSet)
           /\ SubSeq(s, 1, L) = Bytes(s[1][1], s[1][2])
           /\ SubSeq(s, 1, L)[1] = s[1]
<1>1. /\ Rest(s, L, SubSeq(s, L + 1, Len(s)))
      /\ SubSeq(s, L + 1, Len(s)) \in Seq(ByteSet)
  BY SMT DEF Rest
<1>2. \A d \in 1..L : d <= Len(s)
  BY SMT
<1>3. \A d \in 1..L : s[d] = Byte(s[1][1], s[1][2], d)
  BY <1>2, FramedFirst
<1>4. SubSeq(s, 1, L) = [d \in 1..L |-> s[d]]
  BY SMT
<1>5. 1 \in 1..L
  BY SMT, LengthsArePositive DEF LenOf
<1> QED BY <1>1, <1>3, <1>4, <1>5 DEF Bytes

-----------------------------------------------------------------------------
\* The sizes of the three buffers.
LEMMA SizesOK == \A r \in Rings : Size(r) \in Nat /\ Size(r) > 1
  BY SizesAreRings DEF Size

\* A buffer that has just been allocated is empty.
LEMMA Allocated ==
    ASSUME NEW r \in Rings
    PROVE  /\ EmptyRings[r] \in CircBufOf(Size(r), Element(r))
           /\ Contents(EmptyRings[r]) = <<>>
<1> DEFINE c == EmptyRings[r]
<1>1. Size(r) \in Nat /\ Size(r) > 1
  BY SizesOK
<1>2. Unset(r) \in Element(r)
  <2>1. MaxIrq \in Nat
    BY NumbersArePositive
  <2>2. CASE r = "avg"
    BY SMT, <2>1, <2>2 DEF Unset, Element, Average
  <2>3. CASE r # "avg"
    BY SMT, <2>1, <2>3 DEF Unset, Element
  <2> QED BY <2>2, <2>3
<1>3. c = [buf |-> [i \in 0..(Size(r) - 1) |-> Unset(r)],
           head |-> 0, tail |-> 0, size |-> Size(r)]
  BY DEF EmptyRings, alloc_dsm_circ_buf
<1>4. c \in CircBufOf(Size(r), Element(r))
  BY SMT, <1>1, <1>2, <1>3 DEF CircBufOf
<1>5. CIRC_CNT(c.head, c.tail, Size(r)) = 0
  <2>1. c.head = 0 /\ c.tail = 0
    BY SMT, <1>3
  <2>2. CIRC_CNT(0, 0, Size(r)) = 0
    BY SMT, <1>1, CountIs
  <2> QED BY <2>1, <2>2
<1>6. Contents(c) \in Seq(Element(r)) /\ Len(Contents(c)) = 0
  BY <1>1, <1>4, <1>5, ContentsAre
<1> QED BY SMT, <1>4, <1>6

\* A write into the element at the head leaves the contents alone.
LEMMA Written ==
    ASSUME RingInv, NEW r \in Rings, NEW x \in Element(r), NEW d,
           d = WriteHead(ring[r], x)
    PROVE  /\ d \in CircBufOf(Size(r), Element(r))
           /\ Contents(d) = Contents(ring[r])
           /\ HasHead(d) <=> HasHead(ring[r])
           /\ HasTail(d) <=> HasTail(ring[r])
           /\ d.buf[d.head] = x
<1>1. Size(r) \in Nat /\ Size(r) > 1 /\ ring[r] \in CircBufOf(Size(r), Element(r))
  BY SizesOK DEF RingInv
<1>2. /\ d \in CircBufOf(Size(r), Element(r))
      /\ Contents(d) = Contents(ring[r])
      /\ d.buf[d.head] = x
  BY SMT, <1>1, WriteHeadKeeps
<1> QED BY <1>1, <1>2, HasAre

\* INCREMENT_HEAD() appends the element at the head.
LEMMA HeadMoved ==
    ASSUME RingInv, NEW r \in Rings, HasHead(ring[r]), NEW d,
           d = INCREMENT_HEAD(ring[r]), HeadOf(r) \in ItemOf(r)
    PROVE  /\ d \in CircBufOf(Size(r), Element(r))
           /\ Contents(d) = Append(Contents(ring[r]), HeadOf(r))
           /\ Contents(d) \in Seq(ItemOf(r))
           /\ Len(Contents(ring[r])) < Size(r) - 1
           /\ HasTail(d)
<1>1. Size(r) \in Nat /\ Size(r) > 1 /\ ring[r] \in CircBufOf(Size(r), Element(r))
      /\ Contents(ring[r]) \in Seq(ItemOf(r))
  BY SizesOK DEF RingInv
<1>2. /\ d \in CircBufOf(Size(r), Element(r))
      /\ Contents(d) = Append(Contents(ring[r]), HeadOf(r))
  BY <1>1, IncrementHeadAppends DEF HeadOf
<1>3. Contents(d) \in Seq(ItemOf(r)) /\ Len(Contents(d)) > 0
  BY SMT, <1>1, <1>2
<1>4. Len(Contents(ring[r])) < Size(r) - 1
  BY <1>1, HasAre
<1>5. HasTail(d)
  BY <1>1, <1>2, <1>3, HasAre
<1> QED BY <1>2, <1>3, <1>4, <1>5

\* INCREMENT_TAIL() removes the first sample and leaves the head alone.
LEMMA TailMoved ==
    ASSUME RingInv, NEW r \in Rings, HasTail(ring[r]), NEW d,
           d = INCREMENT_TAIL(ring[r])
    PROVE  /\ d \in CircBufOf(Size(r), Element(r))
           /\ Contents(ring[r]) # <<>>
           /\ Contents(d) = Tail(Contents(ring[r]))
           /\ Contents(d) \in Seq(ItemOf(r))
           /\ HasHead(d)
           /\ d.head = ring[r].head /\ d.buf = ring[r].buf
<1>1. Size(r) \in Nat /\ Size(r) > 1 /\ ring[r] \in CircBufOf(Size(r), Element(r))
      /\ Contents(ring[r]) \in Seq(ItemOf(r))
  BY SizesOK DEF RingInv
<1>2. /\ d \in CircBufOf(Size(r), Element(r))
      /\ Contents(ring[r]) # <<>>
      /\ Contents(d) = Tail(Contents(ring[r]))
  BY <1>1, IncrementTailRemoves
<1>3. /\ Contents(d) \in Seq(ItemOf(r))
      /\ Len(Contents(d)) = Len(Contents(ring[r])) - 1
  BY SMT, <1>1, <1>2
<1>4. Len(Contents(ring[r])) \in 0..(Size(r) - 1)
  BY <1>1, ContentsAre
<1>5. HasHead(d)
  BY SMT, <1>1, <1>2, <1>3, <1>4, HasAre
<1>6. d.head = ring[r].head /\ d.buf = ring[r].buf
  BY <1>1 DEF INCREMENT_TAIL, CircBufOf
<1> QED BY <1>2, <1>3, <1>5, <1>6

\* The sample that GET_TAIL finds is a complete one.
LEMMA Found ==
    ASSUME RingInv, NEW r \in Rings
    PROVE  /\ AtTail(ring[r]) \in Element(r)
           /\ HasTail(ring[r]) => AtTail(ring[r]) \in ItemOf(r)
<1>1. Size(r) \in Nat /\ Size(r) > 1 /\ ring[r] \in CircBufOf(Size(r), Element(r))
      /\ Contents(ring[r]) \in Seq(ItemOf(r))
  BY SizesOK DEF RingInv
<1>2. AtTail(ring[r]) \in Element(r)
  BY <1>1 DEF CircBufOf, AtTail
<1>3. ASSUME HasTail(ring[r]) PROVE AtTail(ring[r]) \in ItemOf(r)
  <2>1. Contents(ring[r]) # <<>> /\ AtTail(ring[r]) = Contents(ring[r])[1]
    BY <1>1, <1>3, IncrementTailRemoves
  <2> QED BY SMT, <1>1, <2>1
<1> QED BY <1>2, <1>3

-----------------------------------------------------------------------------
(***************************************************************************)
(* What a step of one activity leaves of the invariant of another          *)
(***************************************************************************)
\* One buffer changes.
LEMMA OneRing ==
    ASSUME RingInv, NEW r \in Rings, NEW d,
           ring' = [ring EXCEPT ![r] = d],
           d \in CircBufOf(Size(r), Element(r)),
           Contents(d) \in Seq(ItemOf(r))
    PROVE  /\ RingInv'
           /\ ring'[r] = d
           /\ \A q \in Rings : q # r => ring'[q] = ring[q]
<1>1. /\ ring'[r] = d
      /\ \A q \in Rings : q # r => ring'[q] = ring[q]
      /\ ring' = [q \in Rings |-> ring'[q]]
  BY DEF RingInv
<1>2. ASSUME NEW q \in Rings
      PROVE  /\ ring'[q] \in CircBufOf(Size(q), Element(q))
             /\ Contents(ring'[q]) \in Seq(ItemOf(q))
  <2>1. CASE q = r
    BY <1>1, <2>1
  <2>2. CASE q # r
    BY <1>1, <2>2 DEF RingInv
  <2> QED BY <2>1, <2>2
<1> QED BY <1>1, <1>2 DEF RingInv

\* The interrupt handler still has its free elements, and what it wrote.
LEMMA IsrKept ==
    ASSUME IsrInv, UNCHANGED <<accepted, isr>>,
           \A r \in {"isr", "peak"} :
              /\ HasHead(ring[r]) => HasHead(ring'[r])
              /\ HeadOf(r)' = HeadOf(r)
    PROVE  IsrInv'
  BY DEF IsrInv, isr

\* The bottom half still has its spectrum and its free element.
LEMMA BhKept ==
    ASSUME BhInv, UNCHANGED work,
           HasTail(ring["isr"]) => HasTail(ring'["isr"]),
           HasHead(ring["avg"]) => HasHead(ring'["avg"]),
           HeadOf("avg")' = HeadOf("avg")
    PROVE  BhInv'
  BY DEF BhInv, work

\* The reader still has its samples; it may have been woken.
LEMMA UserKept ==
    ASSUME UserInv, UNCHANGED <<kind, bytesLeft, count, scanner, opens>>,
           upc' = upc \/ wake_up,
           \A k \in Out : HasTail(ring[k]) => HasTail(ring'[k])
    PROVE  UserInv' /\ (upc' = "closed" <=> upc = "closed")
                    /\ (upc' = "closing" <=> upc = "closing")
<1>1. /\ upc' \in {"closed", "N_AVG", "N_PEAKS", "idle", "polling", "check",
                   "asleep", "copy", "inc", "tail", "scan", "lost", "closing"}
      /\ upc' = "inc" <=> upc = "inc"
      /\ upc' = "closed" <=> upc = "closed"
      /\ upc' = "closing" <=> upc = "closing"
  <2>1. CASE upc' = upc
    BY <2>1 DEF UserInv
  <2>2. CASE wake_up
    BY SMT, <2>2 DEF UserInv, wake_up, Woken
  <2> QED BY <2>1, <2>2
<1> QED BY <1>1 DEF UserInv, scanner

-----------------------------------------------------------------------------
(***************************************************************************)
(* Every step preserves the invariant and is a step of the queues          *)
(***************************************************************************)
\* The contents of a buffer stay, get one more sample at the end, lose the
\* first one or are cleared.
Kept(r) == Contents(ring'[r]) = Contents(ring[r])
Appended(r) ==
    /\ Len(Contents(ring[r])) < Size(r) - 1
    /\ \E x \in ItemOf(r) : Contents(ring'[r]) = Append(Contents(ring[r]), x)
Removed(r) ==
    /\ Contents(ring[r]) # <<>>
    /\ Contents(ring'[r]) = Tail(Contents(ring[r]))
Cleared(r) == Contents(ring'[r]) = <<>>

QueueStep == \A r \in Rings : Kept(r) \/ Appended(r) \/ Removed(r) \/ Cleared(r)

\* The interrupt handler.
LEMMA IsrNext ==
    ASSUME IInv, InterruptMissed \/ Interrupt \/ lams_irq_handler
    PROVE  IInv' /\ QueueStep
<1> USE DEF IInv
<1>0. "isr" \in Rings /\ "peak" \in Rings /\ "avg" \in Rings
  BY DEF Rings, Out
<1>1. CASE InterruptMissed
  <2>1. ring' = ring /\ UNCHANGED <<accepted, ipc, psamp, work, user>>
    BY <1>1 DEF InterruptMissed
  <2>2. RingInv'
    BY <2>1 DEF RingInv
  <2>3. IsrInv'
    BY SMT, <1>1, <2>1, NumbersArePositive DEF InterruptMissed, IsrInv, HeadOf
  <2>4. BhInv'
    BY <2>1, BhKept DEF HeadOf
  <2>5. BrdInv' /\ brd'.num_opened = brd.num_opened /\ brd'.irq = brd.irq
    <3>1. brd' = brd /\ status' = [status EXCEPT !.missedISRSamples = @ + 1]
      BY <1>1 DEF InterruptMissed
    <3>2. status' \in [missedISRSamples : Nat, missedOutSamples : Nat]
      BY SMT, <3>1 DEF BrdInv
    <3> QED BY <3>1, <3>2 DEF BrdInv
  <2>6. UserInv'
    BY <2>1, UserKept DEF user
  <2>7. LifeInv'
    BY <2>1, <2>5 DEF LifeInv, work, user
  <2>8. QueueStep
    BY <2>1 DEF QueueStep, Kept
  <2> QED BY <2>2, <2>3, <2>4, <2>5, <2>6, <2>7, <2>8
<1>2. CASE Interrupt
  <2> DEFINE get == psamp'
  <2>1. /\ brd.irq /\ ipc = "idle" /\ irqs < MaxIrq /\ HasHead(ring["isr"])
        /\ psamp' \in BOOLEAN /\ (psamp' => HasHead(ring["peak"]))
        /\ ring' = [r \in Rings |-> IF r = "isr" \/ (r = "peak" /\ get)
                                    THEN WriteHead(ring[r], Unset(r)) ELSE ring[r]]
        /\ ipc' = "inw" /\ irqs' = irqs + 1
        /\ UNCHANGED <<accepted, work, user>>
    BY <1>2 DEF Interrupt
  <2>2. Unset("isr") \in Element("isr") /\ Unset("peak") \in Element("peak")
    BY SMT, NumbersArePositive DEF Unset, Element
  <2>3. ASSUME NEW r \in Rings
        PROVE  /\ ring'[r] \in CircBufOf(Size(r), Element(r))
               /\ Contents(ring'[r]) = Contents(ring[r])
               /\ HasHead(ring'[r]) <=> HasHead(ring[r])
               /\ HasTail(ring'[r]) <=> HasTail(ring[r])
    <3>1. CASE r = "isr" \/ (r = "peak" /\ get)
      <4>1. ring'[r] = WriteHead(ring[r], Unset(r))
        BY <2>1, <3>1
      <4> QED BY SMT, <2>2, <3>1, <4>1, Written
    <3>2. CASE ~(r = "isr" \/ (r = "peak" /\ get))
      <4>1. ring'[r] = ring[r]
        BY <2>1, <3>2
      <4> QED BY <4>1 DEF RingInv
    <3> QED BY <3>1, <3>2
  <2>4. RingInv'
    <3>1. ring' = [r \in Rings |-> ring'[r]]
      BY <2>1
    <3> QED BY <2>3, <3>1 DEF RingInv
  <2>5. IsrInv'
    BY SMT, <2>1, <2>3, <1>0, NumbersArePositive DEF IsrInv
  <2>6. ring'["avg"] = ring["avg"]
    BY <2>1, <1>0
  <2>7. BhInv'
    BY <2>1, <2>3, <2>6, <1>0, BhKept DEF HeadOf
  <2>8. BrdInv' /\ brd'.num_opened = brd.num_opened /\ brd'.irq = brd.irq
    <3>1. PICK n \in 0..1 :
             /\ brd' = [brd EXCEPT !.nPeaks = @ + 1]
             /\ status' = [status EXCEPT !.missedOutSamples = @ + n]
      BY SMT, <1>2 DEF Interrupt
    <3>2. status' \in [missedISRSamples : Nat, missedOutSamples : Nat]
      BY SMT, <3>1 DEF BrdInv
    <3> QED BY SMT, <3>1, <3>2 DEF BrdInv
  <2>9. UserInv'
    BY <2>1, <2>3, UserKept DEF user, Rings
  <2>10. LifeInv'
    BY <2>1, <2>8 DEF LifeInv, work, user, BrdInv
  <2>11. QueueStep
    BY <2>3 DEF QueueStep, Kept
  <2> QED BY <2>4, <2>5, <2>7, <2>8, <2>9, <2>10, <2>11
<1>3. CASE ReadBoard
  <2>1. /\ ipc = "inw"
        /\ ring' = [r \in Rings |-> IF r = "isr" \/ (r = "peak" /\ psamp)
                                    THEN WriteHead(ring[r], accepted + 1)
                                    ELSE ring[r]]
        /\ ipc' = "head"
        /\ UNCHANGED <<accepted, psamp, irqs, work, user>>
    BY <1>3 DEF ReadBoard
  <2>2. /\ accepted + 1 \in 1..MaxIrq
        /\ accepted + 1 \in Element("isr") /\ accepted + 1 \in Element("peak")
    BY SMT, <2>1, NumbersArePositive DEF IsrInv, Element
  <2>3. ASSUME NEW r \in Rings
        PROVE  /\ ring'[r] \in CircBufOf(Size(r), Element(r))
               /\ Contents(ring'[r]) = Contents(ring[r])
               /\ HasHead(ring'[r]) <=> HasHead(ring[r])
               /\ HasTail(ring'[r]) <=> HasTail(ring[r])
               /\ r = "isr" \/ (r = "peak" /\ psamp)
                     => ring'[r].buf[ring'[r].head] = accepted + 1
    <3>1. CASE r = "isr" \/ (r = "peak" /\ psamp)
      <4>1. ring'[r] = WriteHead(ring[r], accepted + 1)
        BY <2>1, <3>1
      <4> QED BY SMT, <2>2, <3>1, <4>1, Written
    <3>2. CASE ~(r = "isr" \/ (r = "peak" /\ psamp))
      <4>1. ring'[r] = ring[r]
        BY <2>1, <3>2
      <4> QED BY <3>2, <4>1 DEF RingInv
    <3> QED BY <3>1, <3>2
  <2>4. RingInv'
    <3>1. ring' = [r \in Rings |-> ring'[r]]
      BY <2>1
    <3> QED BY <2>3, <3>1 DEF RingInv
  <2>5. IsrInv'
    <3>1. accepted + 1 \in ItemOf("isr") /\ accepted + 1 \in ItemOf("peak")
      BY <2>2 DEF ItemOf
    <3> QED BY <2>1, <2>3, <3>1, <1>0 DEF IsrInv, HeadOf
  <2>6. ring'["avg"] = ring["avg"]
    BY <2>1, <1>0
  <2>7. BhInv'
    BY <2>1, <2>3, <2>6, <1>0, BhKept DEF HeadOf
  <2>8. BrdInv' /\ brd'.num_opened = brd.num_opened /\ brd'.irq = brd.irq
    BY <1>3 DEF ReadBoard, BrdInv
  <2>9. UserInv'
    BY <2>1, <2>3, UserKept DEF user, Rings
  <2>10. LifeInv'
    BY <2>1, <2>8 DEF LifeInv, work, user
  <2>11. QueueStep
    BY <2>3 DEF QueueStep, Kept
  <2> QED BY <2>4, <2>5, <2>7, <2>8, <2>9, <2>10, <2>11
<1>4. CASE IsrHead
  <2> DEFINE d == INCREMENT_HEAD(ring["isr"])
  <2>1. /\ ipc = "head" /\ ipc' = "queue"
        /\ ring' = [ring EXCEPT !["isr"] = d]
        /\ accepted' = accepted + 1
        /\ UNCHANGED <<brd, status, psamp, irqs, work, user>>
    BY <1>4 DEF IsrHead
  <2>2. HasHead(ring["isr"]) /\ HeadOf("isr") \in ItemOf("isr")
    BY <2>1 DEF IsrInv
  <2>3. /\ d \in CircBufOf(Size("isr"), Element("isr"))
        /\ Contents(d) = Append(Contents(ring["isr"]), HeadOf("isr"))
        /\ Contents(d) \in Seq(ItemOf("isr"))
        /\ Len(Contents(ring["isr"])) < Size("isr") - 1
        /\ HasTail(d)
    BY <1>0, <2>2, HeadMoved
  <2> HIDE DEF d
  <2>4. RingInv' /\ ring'["isr"] = d /\ \A q \in Rings : q # "isr" => ring'[q] = ring[q]
    BY <1>0, <2>1, <2>3, OneRing
  <2>5. IsrInv'
    BY SMT, <1>0, <2>1, <2>4 DEF IsrInv, HeadOf
  <2>6. BhInv'
    BY <1>0, <2>1, <2>3, <2>4, BhKept DEF HeadOf
  <2>7. UserInv'
    BY <2>1, <2>4, UserKept DEF user, Rings, Out
  <2>8. BrdInv' /\ LifeInv'
    BY <2>1 DEF BrdInv, LifeInv, work, user
  <2>9. QueueStep
    BY <2>2, <2>3, <2>4 DEF QueueStep, Kept, Appended
  <2> QED BY <2>4, <2>5, <2>6, <2>7, <2>8, <2>9
<1>5. CASE QueueWork
  <2>1. /\ ipc = "queue" /\ ipc' = (IF psamp THEN "peak" ELSE "idle")
        /\ pending' = TRUE
        /\ ring' = ring /\ UNCHANGED <<brd, status, accepted, psamp, irqs, bpc, bhd, nshift, load, user>>
    BY <1>5 DEF QueueWork, driver
  <2>2. RingInv' /\ BrdInv'
    BY <2>1 DEF RingInv, BrdInv
  <2>3. IsrInv'
    BY <2>1 DEF IsrInv, HeadOf
  <2>4. BhInv'
    BY <2>1 DEF BhInv, HeadOf
  <2>5. UserInv'
    BY <2>1, UserKept DEF user
  <2>6. LifeInv'
    BY <2>1 DEF LifeInv, user
  <2>7. QueueStep
    BY <2>1 DEF QueueStep, Kept
  <2> QED BY <2>2, <2>3, <2>4, <2>5, <2>6, <2>7
<1>6. CASE PeakHead
  <2> DEFINE d == INCREMENT_HEAD(ring["peak"])
  <2>1. /\ ipc = "peak" /\ ipc' = "wake"
        /\ ring' = [ring EXCEPT !["peak"] = d]
        /\ UNCHANGED <<brd, status, accepted, psamp, irqs, work, user>>
    BY <1>6 DEF PeakHead
  <2>2. HasHead(ring["peak"]) /\ HeadOf("peak") \in ItemOf("peak")
    BY <2>1 DEF IsrInv
  <2>3. /\ d \in CircBufOf(Size("peak"), Element("peak"))
        /\ Contents(d) = Append(Contents(ring["peak"]), HeadOf("peak"))
        /\ Contents(d) \in Seq(ItemOf("peak"))
        /\ Len(Contents(ring["peak"])) < Size("peak") - 1
        /\ HasTail(d)
    BY <1>0, <2>2, HeadMoved
  <2> HIDE DEF d
  <2>4. RingInv' /\ ring'["peak"] = d /\ \A q \in Rings : q # "peak" => ring'[q] = ring[q]
    BY <1>0, <2>1, <2>3, OneRing
  <2>5. IsrInv'
    BY <1>0, <2>1, <2>4 DEF IsrInv, HeadOf
  <2>6. BhInv'
    BY <1>0, <2>1, <2>3, <2>4, BhKept DEF HeadOf
  <2>7. UserInv'
    BY <2>1, <2>3, <2>4, UserKept DEF user, Rings, Out
  <2>8. BrdInv' /\ LifeInv'
    BY <2>1 DEF BrdInv, LifeInv, work, user
  <2>9. QueueStep
    BY <2>2, <2>3, <2>4 DEF QueueStep, Kept, Appended
  <2> QED BY <2>4, <2>5, <2>6, <2>7, <2>8, <2>9
<1>7. CASE PeakWake
  <2>1. /\ ipc = "wake" /\ ipc' = "idle" /\ psamp' = FALSE /\ wake_up
        /\ ring' = ring
        /\ UNCHANGED <<brd, status, accepted, irqs, work, kind, bytesLeft, count, scanner, opens>>
    BY <1>7 DEF PeakWake, driver
  <2>2. RingInv' /\ BrdInv'
    BY <2>1 DEF RingInv, BrdInv
  <2>3. IsrInv'
    BY <2>1 DEF IsrInv, HeadOf
  <2>4. BhInv'
    BY <2>1, BhKept DEF HeadOf
  <2>5. UserInv' /\ (upc' = "closed" <=> upc = "closed") /\ (upc' = "closing" <=> upc = "closing")
    BY <2>1, UserKept
  <2>6. LifeInv'
    BY <2>1, <2>5 DEF LifeInv, work
  <2>7. QueueStep
    BY <2>1 DEF QueueStep, Kept
  <2> QED BY <2>2, <2>3, <2>4, <2>5, <2>6, <2>7
<1> QED BY <1>1, <1>2, <1>3, <1>4, <1>5, <1>6, <1>7 DEF lams_irq_handler

\* The bottom half.
LEMMA BhNext ==
    ASSUME IInv, lams_bottom_half
    PROVE  IInv' /\ QueueStep
<1> USE DEF IInv
<1>0. "isr" \in Rings /\ "peak" \in Rings /\ "avg" \in Rings
  BY DEF Rings, Out
<1>1. CASE BottomHalfStart
  <2>1. /\ pending /\ bpc = "idle" /\ pending' = FALSE /\ bpc' = "tail"
        /\ nshift' = brd.nAVG
        /\ ring' = ring
        /\ UNCHANGED <<brd, status, accepted, isr, bhd, load, user>>
    BY <1>1 DEF BottomHalfStart, driver
  <2>2. RingInv' /\ BrdInv'
    BY <2>1 DEF RingInv, BrdInv
  <2>3. IsrInv'
    BY <2>1, IsrKept DEF HeadOf
  <2>4. BhInv'
    BY <2>1 DEF BhInv, BrdInv
  <2>5. UserInv'
    BY <2>1, UserKept DEF user
  <2>6. LifeInv'
    BY <2>1 DEF LifeInv, isr, user
  <2>7. QueueStep
    BY <2>1 DEF QueueStep, Kept
  <2> QED BY <2>2, <2>3, <2>4, <2>5, <2>6, <2>7
<1>2. CASE BottomHalfSum
  <2> DEFINE n == AtTail(ring["isr"])
  <2>1. /\ bpc = "tail" /\ ring' = ring
        /\ UNCHANGED <<brd, status, accepted, isr, pending, nshift, load, user>>
    BY <1>2 DEF BottomHalfSum, driver
  <2>2. RingInv' /\ BrdInv'
    BY <2>1 DEF RingInv, BrdInv
  <2>3. IsrInv'
    BY <2>1, IsrKept DEF HeadOf
  <2>4. BhInv'
    <3>1. CASE ~HasTail(ring["isr"])
      <4>1. bpc' = "end" /\ bhd' = bhd
        BY <1>2, <3>1 DEF BottomHalfSum
      <4> QED BY <2>1, <4>1 DEF BhInv
    <3>2. CASE HasTail(ring["isr"])
      <4>1. n \in 1..MaxIrq
        BY <1>0, <3>2, Found DEF ItemOf
      <4>2. /\ bpc' = "inc"
            /\ bhd' = [sum |-> Append(bhd.sum, <<n, nshift>>),
                       nAvg |-> bhd.nAvg + 1,
                       timetag |-> IF bhd.nAvg + 1 >= brd.nAVG
                                   THEN n ELSE bhd.timetag]
        BY <1>2, <3>2 DEF BottomHalfSum
      <4> HIDE DEF n
      <4>3. /\ bhd.sum \in Seq((1..MaxIrq) \X Nat) /\ <<n, nshift>> \in (1..MaxIrq) \X Nat
            /\ bhd.timetag \in 0..MaxIrq /\ bhd.nAvg \in Nat /\ n \in 0..MaxIrq
        BY SMT, <4>1 DEF BhInv, Sums
      <4>4. /\ Append(bhd.sum, <<n, nshift>>) \in Seq((1..MaxIrq) \X Nat)
            /\ Append(bhd.sum, <<n, nshift>>) # <<>>
        BY SMT, <4>3
      <4>5. PICK t \in 0..MaxIrq :
                bhd' = [sum |-> Append(bhd.sum, <<n, nshift>>),
                        nAvg |-> bhd.nAvg + 1, timetag |-> t]
        BY <4>2, <4>3
      <4>6. PICK s \in Seq((1..MaxIrq) \X Nat), m \in Nat :
                s # <<>> /\ bhd' = [sum |-> s, nAvg |-> m, timetag |-> t]
        <5>1. bhd.nAvg + 1 \in Nat
          BY SMT, <4>3
        <5> QED BY <4>4, <4>5, <5>1
      <4>7. bhd' \in Sums /\ bhd'.sum # <<>>
        BY <4>6 DEF Sums
      <4> QED BY <2>1, <3>2, <4>2, <4>7 DEF BhInv
    <3> QED BY <3>1, <3>2
  <2>5. UserInv'
    BY <2>1, UserKept DEF user
  <2>6. LifeInv'
    BY <2>1 DEF LifeInv, isr, user
  <2>7. QueueStep
    BY <2>1 DEF QueueStep, Kept
  <2> QED BY <2>2, <2>3, <2>4, <2>5, <2>6, <2>7
<1>3. CASE BottomHalfTail
  <2> DEFINE d == INCREMENT_TAIL(ring["isr"])
  <2>1. /\ bpc = "inc" /\ bpc' = "test"
        /\ ring' = [ring EXCEPT !["isr"] = d]
        /\ UNCHANGED <<brd, status, accepted, isr, pending, bhd, nshift, load, user>>
    BY <1>3 DEF BottomHalfTail
  <2>2. HasTail(ring["isr"])
    BY <2>1 DEF BhInv
  <2>3. /\ d \in CircBufOf(Size("isr"), Element("isr"))
        /\ Contents(ring["isr"]) # <<>>
        /\ Contents(d) = Tail(Contents(ring["isr"]))
        /\ Contents(d) \in Seq(ItemOf("isr"))
        /\ HasHead(d)
        /\ d.head = ring["isr"].head /\ d.buf = ring["isr"].buf
    BY <1>0, <2>2, TailMoved
  <2> HIDE DEF d
  <2>4. RingInv' /\ ring'["isr"] = d /\ \A q \in Rings : q # "isr" => ring'[q] = ring[q]
    BY <1>0, <2>1, <2>3, OneRing
  <2>5. IsrInv'
    BY <1>0, <2>1, <2>3, <2>4, IsrKept DEF HeadOf
  <2>6. BhInv'
    BY <2>1 DEF BhInv
  <2>7. UserInv'
    BY <2>1, <2>4, UserKept DEF user, Rings, Out
  <2>8. BrdInv' /\ LifeInv'
    BY <2>1 DEF BrdInv, LifeInv, isr, user
  <2>9. QueueStep
    BY <2>3, <2>4 DEF QueueStep, Kept, Removed
  <2> QED BY <2>4, <2>5, <2>6, <2>7, <2>8, <2>9
<1>4. CASE BottomHalfHead
  <2>1. /\ bpc = "test" /\ bpc' \in {"tail", "fill", "missed"}
        /\ UNCHANGED <<brd, status, accepted, isr, pending, bhd, nshift, user>>
        /\ load' \in Nat
    BY <1>4 DEF BottomHalfHead, BrdInv, BhInv
  <2>2. CASE bpc' # "fill"
    <3>1. ring' = ring
      BY <1>4, <2>2 DEF BottomHalfHead
    <3>2. RingInv' /\ BrdInv'
      BY <2>1, <3>1 DEF RingInv, BrdInv
    <3>3. IsrInv'
      BY <2>1, <3>1, IsrKept DEF HeadOf
    <3>4. BhInv'
      BY <2>1, <2>2 DEF BhInv
    <3>5. UserInv'
      BY <2>1, <3>1, UserKept DEF user
    <3>6. LifeInv'
      BY <2>1 DEF LifeInv, isr, user
    <3>7. QueueStep
      BY <3>1 DEF QueueStep, Kept
    <3> QED BY <3>2, <3>3, <3>4, <3>5, <3>6, <3>7
  <2>3. CASE bpc' = "fill"
    <3> DEFINE d == WriteHead(ring["avg"], Unset("avg"))
    <3>1. HasHead(ring["avg"]) /\ ring' = [ring EXCEPT !["avg"] = d]
      BY <1>4, <2>3 DEF BottomHalfHead
    <3>2. Unset("avg") \in Element("avg")
      BY SMT, NumbersArePositive DEF Unset, Element, Average
    <3>3. /\ d \in CircBufOf(Size("avg"), Element("avg"))
          /\ Contents(d) = Contents(ring["avg"])
          /\ HasHead(d) /\ (HasTail(d) <=> HasTail(ring["avg"]))
      BY SMT, <1>0, <3>1, <3>2, Written
    <3> HIDE DEF d
    <3>4. RingInv' /\ ring'["avg"] = d /\ \A q \in Rings : q # "avg" => ring'[q] = ring[q]
      <4>1. Contents(d) \in Seq(ItemOf("avg"))
        BY <1>0, <3>3 DEF RingInv
      <4> QED BY <1>0, <3>1, <3>3, <4>1, OneRing
    <3>5. IsrInv'
      BY <1>0, <2>1, <3>4, IsrKept DEF HeadOf
    <3>6. BhInv'
      BY <2>1, <2>3, <3>3, <3>4 DEF BhInv
    <3>7. UserInv'
      BY <2>1, <3>3, <3>4, UserKept DEF user, Rings, Out
    <3>8. BrdInv' /\ LifeInv'
      BY <2>1 DEF BrdInv, LifeInv, isr, user
    <3>9. QueueStep
      BY <3>3, <3>4 DEF QueueStep, Kept
    <3> QED BY <3>4, <3>5, <3>6, <3>7, <3>8, <3>9
  <2> QED BY <2>2, <2>3
<1>5. CASE BottomHalfMissed
  <2>1. /\ bpc = "missed" /\ bpc' = "tail" /\ load' = 0 /\ ring' = ring
        /\ status' = [status EXCEPT !.missedOutSamples = load + 1]
        /\ UNCHANGED <<brd, accepted, isr, pending, bhd, nshift, user>>
    BY <1>5 DEF BottomHalfMissed
  <2>2. RingInv'
    BY <2>1 DEF RingInv
  <2>3. BrdInv'
    <3>1. status' \in [missedISRSamples : Nat, missedOutSamples : Nat]
      BY SMT, <2>1 DEF BrdInv, BhInv
    <3> QED BY <2>1, <3>1 DEF BrdInv
  <2>4. IsrInv'
    BY <2>1, IsrKept DEF HeadOf
  <2>5. BhInv'
    BY <2>1 DEF BhInv
  <2>6. UserInv'
    BY <2>1, UserKept DEF user
  <2>7. LifeInv'
    BY <2>1 DEF LifeInv, isr, user
  <2>8. QueueStep
    BY <2>1 DEF QueueStep, Kept
  <2> QED BY <2>2, <2>3, <2>4, <2>5, <2>6, <2>7, <2>8
<1>6. CASE BottomHalfFill
  <2> DEFINE x == [sum |-> bhd.sum, timetag |-> bhd.timetag]
             d == WriteHead(ring["avg"], x)
  <2>1. /\ bpc = "fill" /\ bpc' = "head"
        /\ ring' = [ring EXCEPT !["avg"] = d]
        /\ UNCHANGED <<brd, status, accepted, isr, pending, bhd, nshift, load, user>>
    BY <1>6 DEF BottomHalfFill
  <2>2. x \in Element("avg") /\ x \in ItemOf("avg") /\ HasHead(ring["avg"])
    BY <2>1 DEF BhInv, Sums, Element, ItemOf, Average
  <2>3. /\ d \in CircBufOf(Size("avg"), Element("avg"))
        /\ Contents(d) = Contents(ring["avg"])
        /\ HasHead(d) /\ (HasTail(d) <=> HasTail(ring["avg"]))
        /\ d.buf[d.head] = x
    BY SMT, <1>0, <2>2, Written
  <2> HIDE DEF d, x
  <2>4. RingInv' /\ ring'["avg"] = d /\ \A q \in Rings : q # "avg" => ring'[q] = ring[q]
    <3>1. Contents(d) \in Seq(ItemOf("avg"))
      BY <1>0, <2>3 DEF RingInv
    <3> QED BY <1>0, <2>1, <2>3, <3>1, OneRing
  <2>5. IsrInv'
    BY <1>0, <2>1, <2>4, IsrKept DEF HeadOf
  <2>6. BhInv'
    BY <2>1, <2>2, <2>3, <2>4 DEF BhInv, HeadOf
  <2>7. UserInv'
    BY <2>1, <2>3, <2>4, UserKept DEF user, Rings, Out
  <2>8. BrdInv' /\ LifeInv'
    BY <2>1 DEF BrdInv, LifeInv, isr, user
  <2>9. QueueStep
    BY <2>3, <2>4 DEF QueueStep, Kept
  <2> QED BY <2>4, <2>5, <2>6, <2>7, <2>8, <2>9
<1>7. CASE BottomHalfPut
  <2> DEFINE d == INCREMENT_HEAD(ring["avg"])
  <2>1. /\ bpc = "head" /\ bpc' = "wake"
        /\ ring' = [ring EXCEPT !["avg"] = d]
        /\ UNCHANGED <<brd, status, accepted, isr, pending, bhd, nshift, load, user>>
    BY <1>7 DEF BottomHalfPut
  <2>2. HasHead(ring["avg"]) /\ HeadOf("avg") \in ItemOf("avg")
    BY <2>1 DEF BhInv
  <2>3. /\ d \in CircBufOf(Size("avg"), Element("avg"))
        /\ Contents(d) = Append(Contents(ring["avg"]), HeadOf("avg"))
        /\ Contents(d) \in Seq(ItemOf("avg"))
        /\ Len(Contents(ring["avg"])) < Size("avg") - 1
        /\ HasTail(d)
    BY <1>0, <2>2, HeadMoved
  <2> HIDE DEF d
  <2>4. RingInv' /\ ring'["avg"] = d /\ \A q \in Rings : q # "avg" => ring'[q] = ring[q]
    BY <1>0, <2>1, <2>3, OneRing
  <2>5. IsrInv'
    BY <1>0, <2>1, <2>4, IsrKept DEF HeadOf
  <2>6. BhInv'
    BY <2>1 DEF BhInv
  <2>7. UserInv'
    BY <2>1, <2>3, <2>4, UserKept DEF user, Rings, Out
  <2>8. BrdInv' /\ LifeInv'
    BY <2>1 DEF BrdInv, LifeInv, isr, user
  <2>9. QueueStep
    BY <2>2, <2>3, <2>4 DEF QueueStep, Kept, Appended
  <2> QED BY <2>4, <2>5, <2>6, <2>7, <2>8, <2>9
<1>8. CASE BottomHalfWake
  <2>1. /\ bpc = "wake" /\ bpc' = "tail" /\ bhd' = NoSums /\ wake_up
        /\ ring' = ring
        /\ UNCHANGED <<brd, status, accepted, isr, pending, nshift, load,
                       kind, bytesLeft, count, scanner, opens>>
    BY <1>8 DEF BottomHalfWake, driver
  <2>2. RingInv' /\ BrdInv'
    BY <2>1 DEF RingInv, BrdInv
  <2>3. IsrInv'
    BY <2>1, IsrKept DEF HeadOf
  <2>4. BhInv'
    <3>1. NoSums \in Sums
      BY SMT, NumbersArePositive DEF NoSums, Sums
    <3> QED BY <2>1, <3>1 DEF BhInv
  <2>5. UserInv' /\ (upc' = "closed" <=> upc = "closed") /\ (upc' = "closing" <=> upc = "closing")
    BY <2>1, UserKept
  <2>6. LifeInv'
    BY <2>1, <2>5 DEF LifeInv, isr
  <2>7. QueueStep
    BY <2>1 DEF QueueStep, Kept
  <2> QED BY <2>2, <2>3, <2>4, <2>5, <2>6, <2>7
<1>9. CASE BottomHalfEnd
  <2>1. /\ bpc = "end" /\ bpc' = "idle" /\ ring' = ring
        /\ UNCHANGED <<brd, status, accepted, isr, pending, bhd, nshift, load, user>>
    BY <1>9 DEF BottomHalfEnd, driver
  <2>2. RingInv' /\ BrdInv'
    BY <2>1 DEF RingInv, BrdInv
  <2>3. IsrInv'
    BY <2>1, IsrKept DEF HeadOf
  <2>4. BhInv'
    BY <2>1 DEF BhInv
  <2>5. UserInv'
    BY <2>1, UserKept DEF user
  <2>6. LifeInv'
    BY <2>1 DEF LifeInv, isr, user
  <2>7. QueueStep
    BY <2>1 DEF QueueStep, Kept
  <2> QED BY <2>2, <2>3, <2>4, <2>5, <2>6, <2>7
<1> QED BY <1>1, <1>2, <1>3, <1>4, <1>5, <1>6, <1>7, <1>8, <1>9 DEF lams_bottom_half

\* A step that leaves the buffers and the handlers alone.
LEMMA HandlersKept ==
    ASSUME IInv, ring' = ring, UNCHANGED <<accepted, isr, work>>
    PROVE  RingInv' /\ IsrInv' /\ BhInv' /\ QueueStep
<1> USE DEF IInv
<1>1. RingInv'
  BY DEF RingInv
<1>2. IsrInv'
  BY IsrKept DEF HeadOf
<1>3. BhInv'
  BY BhKept DEF HeadOf
<1>4. QueueStep
  BY DEF QueueStep, Kept
<1> QED BY <1>1, <1>2, <1>3, <1>4

\* The buffers are allocated or freed while no handler runs.
LEMMA RingsEmptied ==
    ASSUME ring' = EmptyRings, BhInv, IsrInv, bpc' = "idle", ipc' = "idle",
           bhd' \in Sums, accepted' \in {0, accepted},
           UNCHANGED <<isr, pending, nshift, load>>
    PROVE  RingInv' /\ IsrInv' /\ BhInv' /\ QueueStep
<1>1. \A r \in Rings : /\ ring'[r] \in CircBufOf(Size(r), Element(r))
                       /\ Contents(ring'[r]) = <<>>
  BY Allocated
<1>2. ring' = [r \in Rings |-> ring'[r]]
  BY DEF EmptyRings
<1>3. RingInv'
  <2>1. \A S : <<>> \in Seq(S)
    BY SMT
  <2>2. \A r \in Rings : Contents(ring'[r]) \in Seq(ItemOf(r))
    BY <1>1, <2>1
  <2> QED BY <1>1, <1>2, <2>2 DEF RingInv
<1>4. IsrInv'
  BY SMT DEF IsrInv, isr
<1>5. BhInv'
  BY DEF BhInv
<1>6. QueueStep
  BY <1>1 DEF QueueStep, Cleared
<1> QED BY <1>3, <1>4, <1>5, <1>6

\* Opening and closing.
LEMMA OpenNext ==
    ASSUME IInv,
           lams_open \/ OpenFails \/ OpenBusy \/ setNAvg \/ SetNPeaks
              \/ Close \/ lams_release
    PROVE  IInv' /\ QueueStep
<1> USE DEF IInv
<1>1. CASE lams_open
  <2>1. /\ upc = "closed" /\ opens < MaxOpens /\ ring' = EmptyRings
        /\ brd' = [brd EXCEPT !.num_opened = 1, !.irq = TRUE, !.nPeaks = 0]
        /\ status' = Status0 /\ bhd' = NoSums
        /\ bytesLeft' = [k \in Out |-> 0]
        /\ upc' = "N_AVG" /\ opens' = opens + 1
        /\ UNCHANGED <<accepted, isr, pending, bpc, nshift, load, kind, count,
                       scanner>>
    BY <1>1 DEF lams_open
  <2>2. bpc = "idle" /\ ipc = "idle" /\ NoSums \in Sums
    BY SMT, <2>1, NumbersArePositive DEF LifeInv, NoSums, Sums
  <2>3. RingInv' /\ IsrInv' /\ BhInv' /\ QueueStep
    BY <2>1, <2>2, RingsEmptied DEF isr
  <2>4. BrdInv' /\ brd'.num_opened = 1
    <3>1. status' \in [missedISRSamples : Nat, missedOutSamples : Nat]
      BY <2>1 DEF Status0
    <3>2. brd \in [num_opened : 0..1, irq : BOOLEAN, nAVG : Nat \ {0},
                   nPEAKS : Nat \ {0}, nPeaks : Nat]
      BY DEF BrdInv
    <3>3. brd' = [num_opened |-> 1, irq |-> TRUE, nAVG |-> brd.nAVG,
                  nPEAKS |-> brd.nPEAKS, nPeaks |-> 0]
      BY <2>1, <3>2
    <3> QED BY SMT, <3>1, <3>2, <3>3 DEF BrdInv
  <2>5. UserInv'
    <3>1. bytesLeft' \in [Out -> Nat] /\ \A k \in Out : bytesLeft'[k] = 0
      BY <2>1
    <3>2. AvgLen \in Nat /\ PeakLen \in Nat
      BY LengthsArePositive
    <3>3. \A k \in Out : bytesLeft'[k] <= LenOf(k)
      BY SMT, <3>1, <3>2 DEF LenOf
    <3>4. opens' \in 0..MaxOpens
      BY SMT, <2>1, NumbersArePositive DEF UserInv
    <3> QED BY SMT, <2>1, <3>1, <3>3, <3>4 DEF UserInv, scanner
  <2>6. LifeInv'
    BY <2>1, <2>4 DEF LifeInv
  <2> QED BY <2>3, <2>4, <2>5, <2>6
<1>2. CASE OpenFails
  <2>1. /\ upc = "closed" /\ opens < MaxOpens /\ opens' = opens + 1
        /\ brd' = [brd EXCEPT !.num_opened = 1]
        /\ UNCHANGED <<ring, status, accepted, isr, work, upc, kind, bytesLeft,
                       count, scanner>>
    BY <1>2 DEF OpenFails
  <2>2. BrdInv' /\ brd'.irq = brd.irq
    BY SMT, <2>1 DEF BrdInv
  <2>3. UserInv'
    <3>1. opens' \in 0..MaxOpens
      BY SMT, <2>1, NumbersArePositive DEF UserInv
    <3> QED BY <2>1, <3>1 DEF UserInv, scanner
  <2>4. LifeInv'
    BY <2>1, <2>2 DEF LifeInv, isr, work
  <2> QED BY <2>1, <2>2, <2>3, <2>4, HandlersKept
<1>3. CASE OpenBusy
  <2>1. /\ upc = "closed" /\ opens < MaxOpens /\ opens' = opens + 1
        /\ UNCHANGED <<ring, brd, status, accepted, isr, work, upc, kind, bytesLeft,
                       count, scanner>>
    BY <1>3 DEF OpenBusy, driver
  <2>2. BrdInv' /\ LifeInv'
    BY <2>1 DEF BrdInv, LifeInv, isr, work
  <2>3. UserInv'
    <3>1. opens' \in 0..MaxOpens
      BY SMT, <2>1, NumbersArePositive DEF UserInv
    <3> QED BY <2>1, <3>1 DEF UserInv, scanner
  <2> QED BY <2>1, <2>2, <2>3, HandlersKept
<1>4. CASE setNAvg \/ SetNPeaks
  <2>1. /\ upc \in {"N_AVG", "N_PEAKS"} /\ upc' \in {"N_PEAKS", "idle"}
        /\ \/ brd' = [brd EXCEPT !.nAVG = NAvg]
           \/ brd' = [brd EXCEPT !.nPEAKS = NPeaks]
        /\ UNCHANGED <<ring, status, accepted, isr, work, kind, bytesLeft,
                       count, scanner, opens>>
    BY <1>4 DEF setNAvg, SetNPeaks
  <2>2. BrdInv' /\ brd'.num_opened = brd.num_opened
    BY <2>1, NumbersArePositive DEF BrdInv
  <2>3. UserInv'
    BY <2>1 DEF UserInv, scanner
  <2>4. LifeInv'
    BY <2>1, <2>2 DEF LifeInv
  <2> QED BY <2>1, <2>2, <2>3, <2>4, HandlersKept
<1>5. CASE Close
  <2>1. /\ upc \in {"idle", "lost"} /\ ipc = "idle" /\ upc' = "closing"
        /\ brd' = [brd EXCEPT !.irq = FALSE]
        /\ broken' \in BOOLEAN
        /\ UNCHANGED <<ring, status, accepted, isr, work, kind, bytesLeft,
                       count, buffer, osamp, scanned, opens>>
    BY <1>5 DEF Close, UserInv
  <2>2. BrdInv' /\ brd'.num_opened = brd.num_opened /\ brd'.irq = FALSE
    BY <2>1 DEF BrdInv
  <2>3. UserInv'
    BY <2>1 DEF UserInv
  <2>4. LifeInv'
    BY <2>1, <2>2 DEF LifeInv, isr
  <2> QED BY <2>1, <2>2, <2>3, <2>4, HandlersKept
<1>6. CASE lams_release
  <2>1. /\ upc = "closing" /\ pending = FALSE /\ bpc = "idle" /\ upc' = "closed"
        /\ ring' = EmptyRings /\ accepted' = 0
        /\ brd' = [brd EXCEPT !.num_opened = @ - 1]
        /\ UNCHANGED <<status, isr, work, kind, bytesLeft, count, buffer, osamp,
                       broken, opens>>
    BY <1>6 DEF lams_release, BhInv
  <2>2. ipc = "idle" /\ brd.num_opened = 1 /\ brd.irq = FALSE /\ bhd \in Sums
    BY <2>1 DEF LifeInv, BhInv
  <2>3. RingInv' /\ IsrInv' /\ BhInv' /\ QueueStep
    BY <2>1, <2>2, RingsEmptied DEF isr, work
  <2>4. BrdInv' /\ brd'.irq = FALSE
    BY SMT, <2>1, <2>2 DEF BrdInv
  <2>5. UserInv'
    BY <2>1 DEF UserInv
  <2>6. LifeInv'
    BY <2>1, <2>2, <2>4 DEF LifeInv, isr, work
  <2> QED BY <2>3, <2>4, <2>5, <2>6
<1> QED BY <1>1, <1>2, <1>3, <1>4, <1>5, <1>6

\* The end of one of the two halves of lams_read().
LEMMA Ended ==
    ASSUME UserInv, NEW room \in Nat, room <= count, ReadEnds(room)
    PROVE  /\ kind' \in Out /\ upc' \in {"copy", "scan"}
           /\ count' \in Nat /\ count' <= room
  BY SMT DEF UserInv, ReadEnds, Out

\* Reading: the copy to the user and the scanner.
LEMMA ReadNext ==
    ASSUME IInv,
           lams_poll \/ readBuffer \/ lams_read \/ Signal \/ CopyToUser
              \/ ReadIncTail \/ ReadGetTail \/ nextSample
    PROVE  IInv' /\ QueueStep
<1> USE DEF IInv
<1>1. CASE lams_poll \/ readBuffer \/ lams_read \/ Signal
  <2>1. /\ upc \in {"idle", "check", "asleep", "polling"}
        /\ upc' \in {"idle", "polling", "scan", "check", "copy", "asleep"}
        /\ UNCHANGED <<ring, brd, status, accepted, isr, work, kind, bytesLeft,
                       scanner, opens>>
    BY <1>1 DEF lams_poll, readBuffer, lams_read, Signal, Woken, driver
  <2>2. count' \in Nat /\ Len(buffer) + count' <= BufSize
    BY SMT, <1>1, LengthsArePositive DEF lams_poll, readBuffer, lams_read, Signal, UserInv
  <2>3. BrdInv' /\ LifeInv'
    BY <2>1 DEF BrdInv, LifeInv
  <2>4. UserInv'
    BY <2>1, <2>2 DEF UserInv, scanner
  <2> QED BY <2>1, <2>3, <2>4, HandlersKept
<1>2. CASE CopyToUser
  <2> DEFINE n == IF bytesLeft[kind] < count THEN bytesLeft[kind] ELSE count
             left == bytesLeft[kind] - n
             x == AtTail(ring[kind])
             copy == [i \in 1..n |-> Byte(kind, x, samplePtr(kind) + i)]
  <2>1. /\ upc = "copy"
        /\ bytesLeft' = [bytesLeft EXCEPT ![kind] = left]
        /\ buffer' = buffer \o copy
        /\ broken' \in BOOLEAN
        /\ \/ left > 0 /\ ReadEnds(count - n)
           \/ /\ left = 0 /\ upc' = (IF n > 0 THEN "inc" ELSE "tail")
              /\ count' = count - n /\ kind' = kind
        /\ UNCHANGED <<ring, brd, status, accepted, isr, work, osamp, scanned,
                       opens>>
    BY SMT, <1>2 DEF CopyToUser, driver, UserInv
  <2>2. /\ n \in Nat /\ left \in Nat /\ count - n \in Nat
        /\ left <= bytesLeft[kind] /\ n <= bytesLeft[kind]
        /\ bytesLeft[kind] \in Nat /\ count \in Nat /\ kind \in Out
        /\ samplePtr(kind) \in Int
    <3>1. bytesLeft[kind] \in Nat /\ count \in Nat /\ kind \in Out
      BY DEF UserInv
    <3>2. samplePtr(kind) \in Int
      BY SMT, <3>1, LengthsArePositive DEF samplePtr, LenOf
    <3> QED BY SMT, <3>1, <3>2
  <2>3. x \in Average \union (0..MaxIrq)
    BY <2>2, Found DEF Element, Out, Rings
  <2> HIDE DEF x
  <2>4. copy \in Seq(ByteSet) /\ Len(copy) = n
    <3>1. \A i \in 1..n : Byte(kind, x, samplePtr(kind) + i) \in ByteSet
      BY SMT, <2>2, <2>3 DEF Byte, ByteSet
    <3> HIDE DEF n
    <3> QED BY SMT, <2>2, <3>1
  <2> HIDE DEF copy, n, left
  <2>5. /\ kind' \in Out /\ upc' \in {"copy", "scan", "inc", "tail"}
        /\ count' \in Nat /\ count' <= count - n
        /\ upc' = "inc" => kind' = kind /\ n > 0 /\ left = 0
    <3>1. CASE left > 0 /\ ReadEnds(count - n)
      BY SMT, <2>2, <3>1, Ended
    <3>2. CASE /\ left = 0 /\ upc' = (IF n > 0 THEN "inc" ELSE "tail")
               /\ count' = count - n /\ kind' = kind
      BY SMT, <2>2, <3>2
    <3> QED BY <2>1, <3>1, <3>2
  <2>6. buffer' \in Seq(ByteSet) /\ Len(buffer') + count' <= BufSize
    <3>1. buffer \in Seq(ByteSet) /\ Len(buffer) + count <= BufSize
          /\ Len(buffer) \in Nat /\ BufSize \in Nat
      BY SMT, LengthsArePositive DEF UserInv
    <3>2. buffer' \in Seq(ByteSet) /\ Len(buffer') = Len(buffer) + n
      <4>1. \A s, t \in Seq(ByteSet) :
                s \o t \in Seq(ByteSet) /\ Len(s \o t) = Len(s) + Len(t)
        BY SMT
      <4> QED BY <2>1, <2>4, <3>1, <4>1
    <3> QED BY SMT, <2>2, <2>5, <3>1, <3>2
  <2>7. /\ bytesLeft' \in [Out -> Nat]
        /\ \A k \in Out : bytesLeft'[k] <= LenOf(k)
        /\ \A k \in Out : bytesLeft'[k] > 0 => bytesLeft[k] > 0
        /\ bytesLeft'[kind] = left
    BY SMTT(30), <2>1, <2>2, LengthsArePositive DEF UserInv, LenOf
  <2>8. \A k \in Out : bytesLeft'[k] > 0 \/ (upc' = "inc" /\ kind' = k)
                          => HasTail(ring[k])
    BY SMT, <2>1, <2>2, <2>5, <2>7 DEF UserInv
  <2>9. UserInv'
    BY <2>1, <2>5, <2>6, <2>7, <2>8 DEF UserInv
  <2>10. BrdInv' /\ LifeInv'
    BY <2>1, <2>5 DEF BrdInv, LifeInv
  <2> QED BY <2>1, <2>9, <2>10, HandlersKept
<1>3. CASE ReadIncTail
  <2> DEFINE d == INCREMENT_TAIL(ring[kind])
  <2>1. /\ upc = "inc" /\ upc' = "tail"
        /\ ring' = [ring EXCEPT ![kind] = d]
        /\ UNCHANGED <<brd, status, accepted, isr, work, kind, bytesLeft, count,
                       scanner, opens>>
    BY <1>3 DEF ReadIncTail
  <2>2. kind \in Out /\ kind \in Rings /\ kind # "isr" /\ HasTail(ring[kind])
    BY <2>1 DEF UserInv, Out, Rings
  <2>3. /\ d \in CircBufOf(Size(kind), Element(kind))
        /\ Contents(ring[kind]) # <<>>
        /\ Contents(d) = Tail(Contents(ring[kind]))
        /\ Contents(d) \in Seq(ItemOf(kind))
        /\ HasHead(d)
        /\ d.head = ring[kind].head /\ d.buf = ring[kind].buf
    BY <2>2, TailMoved
  <2> HIDE DEF d
  <2>4. RingInv' /\ ring'[kind] = d /\ \A q \in Rings : q # kind => ring'[q] = ring[q]
    BY <2>1, <2>2, <2>3, OneRing
  <2>5. \A r \in Rings : /\ HasHead(ring[r]) => HasHead(ring'[r])
                         /\ HeadOf(r)' = HeadOf(r)
    BY <2>2, <2>3, <2>4 DEF HeadOf
  <2>6. IsrInv'
    BY <2>1, <2>5, IsrKept DEF Rings, Out
  <2>7. BhInv'
    BY <2>1, <2>2, <2>4, <2>5, BhKept DEF Rings, Out
  <2>8. bytesLeft[kind] = 0
    BY <2>1 DEF UserInv
  <2>9. UserInv'
    BY SMT, <2>1, <2>2, <2>4, <2>8 DEF UserInv, scanner, Out, Rings
  <2>10. BrdInv' /\ LifeInv'
    BY <2>1 DEF BrdInv, LifeInv
  <2>11. QueueStep
    BY <2>2, <2>3, <2>4 DEF QueueStep, Kept, Removed
  <2> QED BY <2>4, <2>6, <2>7, <2>9, <2>10, <2>11
<1>4. CASE ReadGetTail
  <2>1. /\ upc = "tail"
        /\ UNCHANGED <<ring, brd, status, accepted, isr, work, scanner, opens>>
        /\ kind' \in Out /\ upc' \in {"copy", "scan"}
        /\ count' \in Nat /\ count' <= count
    <3>1. CASE ReadEnds(count)
      <4>1. count \in Nat /\ count <= count
        BY SMT DEF UserInv
      <4> QED BY <1>4, <3>1, <4>1, Ended DEF ReadGetTail, driver
    <3>2. CASE upc' = "copy" /\ UNCHANGED <<kind, count>>
      BY SMT, <1>4, <3>2 DEF ReadGetTail, driver, UserInv
    <3> QED BY <1>4, <3>1, <3>2 DEF ReadGetTail
  <2>2. /\ bytesLeft' \in [Out -> Nat]
        /\ \A k \in Out : bytesLeft'[k] <= LenOf(k)
        /\ \A k \in Out : bytesLeft'[k] > 0 => HasTail(ring[k])
    <3>1. AvgLen \in Nat /\ PeakLen \in Nat
      BY LengthsArePositive
    <3>2. CASE HasTail(ring[kind])
      <4>1. bytesLeft' = [bytesLeft EXCEPT ![kind] = LenOf(kind)]
        BY <1>4, <3>2 DEF ReadGetTail
      <4> QED BY SMT, <2>1, <3>1, <3>2, <4>1 DEF UserInv, LenOf
    <3>3. CASE ~HasTail(ring[kind])
      <4>1. bytesLeft' = bytesLeft
        BY <1>4, <3>3 DEF ReadGetTail
      <4> QED BY <2>1, <4>1 DEF UserInv
    <3> QED BY <3>2, <3>3
  <2>3. UserInv'
    <3>1. Len(buffer) + count' <= BufSize
      BY SMT, <2>1, LengthsArePositive DEF UserInv
    <3> QED BY <2>1, <2>2, <3>1 DEF UserInv, scanner
  <2>4. BrdInv' /\ LifeInv'
    BY <2>1 DEF BrdInv, LifeInv
  <2> QED BY <2>1, <2>3, <2>4, HandlersKept
<1>5. CASE nextSample
  <2> DEFINE all == osamp \o buffer
             len == IF all = <<>> THEN 0 ELSE LenOf(all[1][1])
  <2>1. /\ upc = "scan" /\ upc' \in {"lost", "idle", "scan"}
        /\ UNCHANGED <<ring, brd, status, accepted, isr, work, kind, bytesLeft,
                       count, broken, opens>>
    BY <1>5 DEF nextSample, driver
  <2>2. \/ buffer' = buffer /\ osamp' = osamp
        \/ all = <<>> /\ osamp' = all /\ buffer' = <<>>
        \/ all # <<>> /\ Len(all) < len /\ osamp' = all /\ buffer' = <<>>
        \/ /\ all # <<>> /\ ~(Len(all) < len)
           /\ osamp' = <<>> /\ buffer' = SubSeq(all, len + 1, Len(all))
    BY <1>5 DEF nextSample
  <2>3. /\ buffer \in Seq(ByteSet) /\ osamp \in Seq(ByteSet)
        /\ osamp # <<>> => Len(osamp) < LenOf(osamp[1][1])
        /\ Len(buffer) + count <= BufSize /\ count \in Nat
    BY DEF UserInv
  <2>4. /\ all \in Seq(ByteSet) /\ Len(all) = Len(osamp) + Len(buffer)
        /\ osamp # <<>> => all[1] = osamp[1]
    BY SMT, <2>3
  <2>5. AvgLen \in Nat /\ PeakLen \in Nat /\ BufSize \in Nat
    BY LengthsArePositive
  <2>6. /\ buffer' \in Seq(ByteSet) /\ osamp' \in Seq(ByteSet)
        /\ osamp' # <<>> => Len(osamp') < LenOf(osamp'[1][1])
        /\ Len(buffer') <= Len(buffer)
    <3> HIDE DEF all
    <3>1. CASE buffer' = buffer /\ osamp' = osamp
      BY SMT, <2>3, <3>1
    <3>2. CASE /\ all = <<>> \/ Len(all) < len
               /\ osamp' = all /\ buffer' = <<>>
      <4>1. buffer' \in Seq(ByteSet) /\ Len(buffer') = 0 /\ Len(buffer) \in Nat
        BY SMT, <2>3, <3>2
      <4>2. osamp' # <<>> => Len(osamp') < LenOf(osamp'[1][1])
        BY <3>2
      <4> HIDE DEF len
      <4> QED BY SMT, <2>4, <3>2, <4>1, <4>2
    <3>3. CASE /\ all # <<>> /\ ~(Len(all) < len)
               /\ osamp' = <<>> /\ buffer' = SubSeq(all, len + 1, Len(all))
      <4>1. len = LenOf(all[1][1]) /\ len \in Nat
        BY <2>5, <3>3 DEF LenOf
      <4> HIDE DEF len
      <4>2. osamp # <<>> => Len(osamp) < len
        BY <2>3, <2>4, <4>1
      <4>3. Len(osamp) \in Nat /\ Len(buffer) \in Nat /\ (osamp = <<>> => Len(osamp) = 0)
        BY SMT, <2>3
      <4>4. buffer' \in Seq(ByteSet) /\ Len(buffer') = Len(all) - len
        BY SMT, <2>4, <3>3, <4>1
      <4>5. Len(buffer') <= Len(buffer)
        BY SMT, <2>4, <4>1, <4>2, <4>3, <4>4
      <4>6. osamp' \in Seq(ByteSet)
        BY SMT, <3>3
      <4> QED BY <3>3, <4>4, <4>5, <4>6
    <3> QED BY <2>2, <3>1, <3>2, <3>3
  <2>7. Len(buffer') + count <= BufSize
    <3>1. Len(buffer) \in Nat /\ Len(buffer') \in Nat
      BY SMT, <2>3, <2>6
    <3> QED BY SMT, <2>3, <2>5, <2>6, <3>1
  <2>8. UserInv'
    BY <2>1, <2>6, <2>7 DEF UserInv
  <2>9. BrdInv' /\ LifeInv'
    BY <2>1 DEF BrdInv, LifeInv
  <2> QED BY <2>1, <2>8, <2>9, HandlersKept
<1> QED BY <1>1, <1>2, <1>3, <1>4, <1>5

-----------------------------------------------------------------------------
(***************************************************************************)
(* The theorems                                                            *)
(***************************************************************************)
\* The driver starts with the device closed and its buffers empty.
LEMMA LamsInit == ASSUME Init PROVE IInv /\ \A r \in Rings : Contents(ring[r]) = <<>>
<1> USE DEF Init
<1>1. \A r \in Rings : /\ ring[r] \in CircBufOf(Size(r), Element(r))
                       /\ Contents(ring[r]) = <<>>
  BY Allocated
<1>2. RingInv
  <2>1. ring = [r \in Rings |-> ring[r]]
    BY DEF EmptyRings
  <2>2. \A S : <<>> \in Seq(S)
    BY SMT
  <2>3. \A r \in Rings : Contents(ring[r]) \in Seq(ItemOf(r))
    BY <1>1, <2>2
  <2> QED BY <1>1, <2>1, <2>3 DEF RingInv
<1>3. IsrInv
  <2>1. ipc = "idle" /\ psamp = FALSE /\ accepted = 0 /\ irqs = 0
    OBVIOUS
  <2>2. 0 \in Nat /\ 0 <= 0 /\ 0 <= MaxIrq
    BY SMT, NumbersArePositive
  <2> QED BY <2>1, <2>2 DEF IsrInv
<1>4. BhInv
  <2>1. NoSums \in Sums
    BY SMT, NumbersArePositive DEF NoSums, Sums
  <2> QED BY <2>1, NumbersArePositive DEF BhInv
<1>5. BrdInv
  BY SMT, NumbersArePositive DEF BrdInv, Status0
<1>6. UserInv
  <2>1. \A S : <<>> \in Seq(S)
    BY SMT
  <2>2. \A k \in Out : LenOf(k) \in Nat
    BY LengthsArePositive DEF LenOf
  <2>3. /\ bytesLeft \in [Out -> Nat] /\ \A k \in Out : bytesLeft[k] = 0
        /\ kind \in Out /\ count = 0 /\ opens = 0 /\ broken = FALSE
        /\ upc = "closed" /\ buffer = <<>> /\ osamp = <<>>
    BY DEF Out
  <2>4. Len(buffer) + count <= BufSize /\ opens \in 0..MaxOpens /\ count \in Nat
    BY SMT, <2>3, LengthsArePositive, NumbersArePositive
  <2>5. \A k \in Out : bytesLeft[k] <= LenOf(k)
    BY SMT, <2>2, <2>3
  <2>6. buffer \in Seq(ByteSet) /\ osamp \in Seq(ByteSet) /\ broken \in BOOLEAN
    BY <2>1, <2>3
  <2> HIDE DEF Init
  <2> QED BY <2>3, <2>4, <2>5, <2>6 DEF UserInv
<1>7. LifeInv
  BY DEF LifeInv
<1> QED BY <1>1, <1>2, <1>3, <1>4, <1>5, <1>6, <1>7 DEF IInv

\* Every step of the driver and of its reader.
LEMMA LamsNext == ASSUME IInv, [Next]_vars PROVE IInv' /\ QueueStep
<1>1. CASE InterruptMissed \/ Interrupt \/ lams_irq_handler
  BY <1>1, IsrNext
<1>2. CASE lams_bottom_half
  BY <1>2, BhNext
<1>3. CASE lams_open \/ OpenFails \/ OpenBusy \/ Close
  BY <1>3, OpenNext
<1>4. CASE Signal
  BY <1>4, ReadNext
<1>5. CASE Reading
  BY <1>5, OpenNext, ReadNext DEF Reading
<1>6. CASE UNCHANGED vars
  <2>1. RingInv' /\ IsrInv' /\ BhInv' /\ QueueStep
    BY <1>6, HandlersKept DEF vars, driver
  <2>2. BrdInv' /\ LifeInv' /\ UserInv'
    BY <1>6 DEF IInv, BrdInv, LifeInv, UserInv, vars, driver, isr, work, user, scanner
  <2> QED BY <2>1, <2>2 DEF IInv
<1> QED BY <1>1, <1>2, <1>3, <1>4, <1>5, <1>6 DEF Next

\* The invariant holds in every state.
LEMMA LamsInvariant == Spec => []IInv
<1>1. Init => IInv
  BY LamsInit
<1>2. IInv /\ [Next]_vars => IInv'
  BY LamsNext
<1> QED BY <1>1, <1>2, PTL DEF Spec

\* The driver and its reader keep their types; the indices into the circular
\* buffers, the bytes left of a sample and the scanner's buffer stay in
\* bounds.
THEOREM LamsTypeCorrect == Spec => []TypeOK
<1>1. IInv => TypeOK
  <2> SUFFICES ASSUME IInv PROVE TypeOK
    OBVIOUS
  <2> USE DEF IInv
  <2>1. DOMAIN ring = Rings /\ \A r \in Rings : ring[r] \in Ring(r)
    BY DEF RingInv, CircBufOf, Ring
  <2>2. /\ accepted \in 0..irqs /\ irqs \in 0..MaxIrq
    BY SMT, NumbersArePositive DEF IsrInv
  <2>3. /\ \A k \in Out : bytesLeft[k] \in 0..LenOf(k)
        /\ count \in 0..BufSize
    BY SMT, LengthsArePositive DEF UserInv, LenOf
  <2> QED BY <2>1, <2>2, <2>3
          DEF TypeOK, IsrInv, BhInv, BrdInv, UserInv, Sums
<1> QED BY <1>1, LamsInvariant, PTL

\* lams_release() frees the buffers only when neither handler can run again.
THEOREM FreedUnused == Spec => []NoUseAfterFree
<1>1. IInv => NoUseAfterFree
  BY DEF IInv, LifeInv, NoUseAfterFree
<1> QED BY <1>1, LamsInvariant, PTL

\* A step that keeps, extends, shortens or clears a sequence is a step of
\* the queue.
LEMMA RingStep ==
    ASSUME RingInv, QueueStep
    PROVE  /\ [IsrFifo!Next]_(Contents(ring["isr"]))
           /\ [AvgFifo!Next]_(Contents(ring["avg"]))
           /\ [PeakFifo!Next]_(Contents(ring["peak"]))
<1>1. /\ "isr" \in Rings /\ Size("isr") = IsrSize
      /\ "avg" \in Rings /\ Size("avg") = OutSize
      /\ "peak" \in Rings /\ Size("peak") = OutSize
  BY DEF Rings, Out, Size
<1>2. ASSUME NEW q, NEW x, q \in Seq({q[i] : i \in 1..Len(q)})
      PROVE  Len(Append(q, x)) > 0 /\ Append(q, x)[Len(Append(q, x))] = x
  BY SMT, <1>2
<1>3. [IsrFifo!Next]_(Contents(ring["isr"]))
  BY SMT, <1>1, <1>2 DEF QueueStep, Kept, Appended, Removed, Cleared, RingInv,
     IsrFifo!Next, IsrFifo!Put, IsrFifo!Get, IsrFifo!Clear
<1>4. [AvgFifo!Next]_(Contents(ring["avg"]))
  BY SMT, <1>1, <1>2 DEF QueueStep, Kept, Appended, Removed, Cleared, RingInv,
     AvgFifo!Next, AvgFifo!Put, AvgFifo!Get, AvgFifo!Clear
<1>5. [PeakFifo!Next]_(Contents(ring["peak"]))
  BY SMT, <1>1, <1>2 DEF QueueStep, Kept, Appended, Removed, Cleared, RingInv,
     PeakFifo!Next, PeakFifo!Put, PeakFifo!Get, PeakFifo!Clear
<1> QED BY <1>3, <1>4, <1>5

\* Refinement: each of the three circular buffers that the interrupt handler,
\* the bottom half and the reader share without a lock implements the queue
\* of SampleFifo.
THEOREM RingsImplementFifos == Spec => RingsAreFifos
<1>1. Init => IsrFifo!Init /\ AvgFifo!Init /\ PeakFifo!Init
  BY LamsInit DEF IsrFifo!Init, AvgFifo!Init, PeakFifo!Init, Rings, Out
<1>2. IInv /\ [Next]_vars => /\ [IsrFifo!Next]_(Contents(ring["isr"]))
                             /\ [AvgFifo!Next]_(Contents(ring["avg"]))
                             /\ [PeakFifo!Next]_(Contents(ring["peak"]))
  BY LamsNext, RingStep DEF IInv
<1> QED BY <1>1, <1>2, LamsInvariant, PTL
        DEF Spec, RingsAreFifos, IsrFifo!Spec, AvgFifo!Spec, PeakFifo!Spec

-----------------------------------------------------------------------------
(***************************************************************************)
(* The samples come out whole                                              *)
(***************************************************************************)
\* The bytes that the scanner has not yet assembled.
Held == osamp \o buffer

\* A read ended amid the sample at the tail.
Partial(k) == bytesLeft[k] > 0 /\ bytesLeft[k] < LenOf(k)

\* The scanner's bytes are whole samples, followed by the bytes of the one of which
\* a read has copied the first part.
StreamInv ==
    /\ Framed(Held)
    /\ \A k \in Out : Partial(k) =>
          Held # <<>> /\ Held[Len(Held)] = Byte(k, AtTail(ring[k]), samplePtr(k))
    /\ (\A k \in Out : ~Partial(k)) => Ends(Held)

\* The inductive invariant of ScannedWhole, beside IInv.  An average is never begun
\* amid a peak sample unless broken says so, and lams_read() only goes from the
\* averages to the peaks when no average is partly read.
FrameInv ==
    /\ scanned \in Seq(Seq(ByteSet))
    /\ kind = "peak" => bytesLeft["avg"] = 0
    /\ upc = "tail" => bytesLeft[kind] = 0
    /\ ~broken => /\ StreamInv /\ ScannedWhole
                  /\ upc \in {"closing", "closed"} => Held = <<>>

\* The producer neither writes into the element at the tail nor moves it.
LEMMA TailStays ==
    ASSUME RingInv, NEW r \in Rings, HasTail(ring[r]), NEW x
    PROVE  /\ AtTail(WriteHead(ring[r], x)) = AtTail(ring[r])
           /\ AtTail(INCREMENT_HEAD(ring[r])) = AtTail(ring[r])
<1> DEFINE c == ring[r]
           n == Size(r)
<1>1. n \in Nat /\ n > 1 /\ c \in CircBufOf(n, Element(r))
  BY SizesOK DEF RingInv
<1>2. HasTail(c)
  OBVIOUS
<1> HIDE DEF c, n
<1>3. c.head \in 0..(n - 1) /\ c.tail \in 0..(n - 1) /\ c.size = n
  BY <1>1 DEF CircBufOf
<1>4. c.head # c.tail
  <2> SUFFICES ASSUME c.head = c.tail PROVE FALSE
    OBVIOUS
  <2>1. CIRC_CNT(c.tail, c.tail, n) = 0
    <3>1. \A q \in 0..(n - 1) : (IF q >= q THEN q - q ELSE q - q + n) = 0
      BY SMT, <1>1
    <3> QED BY <1>1, <1>3, <3>1, CountIs
  <2>2. CIRC_CNT(c.tail, c.tail, n) > 0
    BY <1>2, <1>3 DEF HasTail
  <2> QED BY SMT, <2>1, <2>2
<1>5. /\ AtTail(WriteHead(c, x)) = AtTail(c)
      /\ AtTail(INCREMENT_HEAD(c)) = AtTail(c)
  BY SMT, <1>1, <1>3, <1>4 DEF CircBufOf, AtTail, WriteHead, INCREMENT_HEAD
<1> QED BY <1>5 DEF c

\* The handlers leave the sample that is being read alone.
LEMMA TailsKept ==
    ASSUME IInv, InterruptMissed \/ Interrupt \/ lams_irq_handler \/ lams_bottom_half
    PROVE  /\ \A k \in Out : HasTail(ring[k]) => AtTail(ring'[k]) = AtTail(ring[k])
           /\ UNCHANGED <<kind, bytesLeft, scanner>>
           /\ upc' = upc \/ wake_up
<1>1. /\ UNCHANGED <<kind, bytesLeft, scanner>>
      /\ upc' = upc \/ wake_up
  BY DEF InterruptMissed, Interrupt, lams_irq_handler, lams_bottom_half, ReadBoard,
         IsrHead, QueueWork, PeakHead, PeakWake, BottomHalfStart, BottomHalfSum,
         BottomHalfTail, BottomHalfHead, BottomHalfMissed, BottomHalfFill,
         BottomHalfPut, BottomHalfWake, BottomHalfEnd, user
<1>2. ASSUME NEW k \in Out
      PROVE  \/ ring'[k] = ring[k]
             \/ \E x : ring'[k] = WriteHead(ring[k], x)
             \/ ring'[k] = INCREMENT_HEAD(ring[k])
  <2>1. k \in Rings /\ k # "isr" /\ "avg" \in Rings /\ "peak" \in Rings
        /\ "avg" # "isr" /\ "peak" # "isr"
    BY DEF Rings, Out
  <2>2. ring = [r \in Rings |-> ring[r]]
    BY DEF IInv, RingInv
  <2>3. CASE Interrupt
    BY <2>1, <2>3 DEF Interrupt
  <2>4. CASE ReadBoard
    BY <2>1, <2>4 DEF ReadBoard
  <2>5. CASE IsrHead \/ BottomHalfTail
    BY <2>1, <2>2, <2>5 DEF IsrHead, BottomHalfTail
  <2>6. CASE PeakHead \/ BottomHalfFill \/ BottomHalfPut
    BY <2>1, <2>2, <2>6 DEF PeakHead, BottomHalfFill, BottomHalfPut
  <2>7. CASE BottomHalfHead
    BY <2>1, <2>2, <2>7 DEF BottomHalfHead
  <2>8. CASE InterruptMissed \/ QueueWork \/ PeakWake \/ BottomHalfStart
             \/ BottomHalfSum \/ BottomHalfMissed \/ BottomHalfWake \/ BottomHalfEnd
    BY <2>8 DEF InterruptMissed, QueueWork, PeakWake, BottomHalfStart, BottomHalfSum,
                BottomHalfMissed, BottomHalfWake, BottomHalfEnd, driver
  <2> QED BY <2>3, <2>4, <2>5, <2>6, <2>7, <2>8 DEF lams_irq_handler, lams_bottom_half
<1>3. \A k \in Out : k \in Rings
  BY DEF Rings, Out
<1>4. RingInv
  BY DEF IInv
<1> QED BY <1>1, <1>2, <1>3, <1>4, TailStays

\* A step that leaves the scanner, the bytes left and the partial sample alone.
LEMMA StreamKept ==
    ASSUME StreamInv, Held' = Held, bytesLeft' = bytesLeft,
           \A k \in Out : Partial(k) => AtTail(ring'[k]) = AtTail(ring[k])
    PROVE  StreamInv'
<1>1. \A k \in Out : Partial(k)' = Partial(k) /\ samplePtr(k)' = samplePtr(k)
  BY DEF Partial, samplePtr
<1>2. Framed(Held)' /\ ((\A k \in Out : ~Partial(k)') => Ends(Held)')
  BY <1>1 DEF StreamInv, Framed, FrameAt, Ends
<1>3. ASSUME NEW k \in Out, Partial(k)
      PROVE  Held # <<>> /\ Held[Len(Held)] = Byte(k, AtTail(ring'[k]), samplePtr(k))
  BY <1>3 DEF StreamInv
<1> QED BY <1>1, <1>2, <1>3 DEF StreamInv

\* The steps that neither copy nor scan.
LEMMA FrameKept ==
    ASSUME FrameInv, UNCHANGED <<bytesLeft, scanner>>,
           kind' = kind \/ kind' = "avg",
           upc' \in {"closing", "closed"} => upc \in {"closing", "closed"},
           upc' = "tail" => bytesLeft[kind'] = 0,
           \A k \in Out : Partial(k) /\ ~broken => AtTail(ring'[k]) = AtTail(ring[k])
    PROVE  FrameInv'
<1>1. /\ Held' = Held /\ broken' = broken /\ scanned' = scanned
      /\ bytesLeft' = bytesLeft
  BY DEF Held, scanner
<1>2. ScannedWhole => ScannedWhole'
  BY <1>1 DEF ScannedWhole
<1>3. ASSUME ~broken PROVE StreamInv'
  BY <1>1, <1>3, StreamKept DEF FrameInv
<1> QED BY <1>1, <1>2, <1>3 DEF FrameInv

\* A sensor is opened with nothing left in the scanner, or broken is set.
LEMMA FrameOpen ==
    ASSUME IInv, FrameInv, lams_open \/ Close \/ lams_release
    PROVE  FrameInv'
<1>1. Framed(<<>>) /\ Ends(<<>>) /\ <<>> \in Seq(Seq(ByteSet)) /\ 1..Len(<<>>) = {}
      /\ <<>> \o <<>> = <<>>
  <2>1. 1..Len(<<>>) = {} /\ <<>> \in Seq(Seq(ByteSet)) /\ <<>> \o <<>> = <<>>
    BY SMT
  <2> QED BY <2>1 DEF Framed, Ends
<1>2. \A k \in Out : bytesLeft[k] = 0 => ~Partial(k)
  BY SMT, LengthsArePositive DEF Partial, LenOf
<1>3. ASSUME ~broken, Held = <<>> PROVE \A k \in Out : ~Partial(k)
  BY <1>3 DEF FrameInv, StreamInv
<1>4. /\ kind' = kind /\ upc' # "tail" /\ (~broken' => ~broken)
      /\ osamp' = osamp /\ buffer' = buffer /\ scanned' \in {scanned, <<>>}
      /\ bytesLeft' = bytesLeft \/ bytesLeft' = [k \in Out |-> 0]
  <2>1. CASE lams_open
    BY <2>1 DEF lams_open, scanner
  <2>2. CASE Close
    BY <2>2 DEF Close
  <2>3. CASE lams_release
    BY <2>3 DEF lams_release
  <2> QED BY <2>1, <2>2, <2>3
<1>5. Held' = Held
  BY <1>4 DEF Held
<1>6. ASSUME ~broken' PROVE Held = <<>>
  <2>1. CASE upc \in {"closed", "closing"}
    BY <1>4, <1>6, <2>1 DEF FrameInv
  <2>2. CASE Close
    BY <1>1, <1>6, <2>2 DEF Close, Held
  <2> QED BY <2>1, <2>2 DEF lams_open, lams_release
<1>7. ASSUME ~broken' PROVE \A k \in Out : ~Partial(k)'
  <2>1. \A k \in Out : ~Partial(k)
    BY <1>3, <1>4, <1>6, <1>7
  <2>2. CASE bytesLeft' = bytesLeft
    BY <2>1, <2>2 DEF Partial
  <2>3. CASE bytesLeft' = [k \in Out |-> 0]
    <3>1. ~(0 > 0)
      BY SMT
    <3> QED BY <2>3, <3>1 DEF Partial
  <2> QED BY <1>4, <2>2, <2>3
<1>8. ASSUME ~broken' PROVE ScannedWhole'
  BY <1>1, <1>4, <1>8 DEF FrameInv, ScannedWhole
<1>9. ASSUME ~broken' PROVE Framed(Held)' /\ Ends(Held)' /\ Held' = <<>>
  <2>1. Held' = <<>>
    BY <1>5, <1>6, <1>9
  <2>2. Framed(Held') /\ Ends(Held')
    BY <1>1, <2>1
  <2> QED BY <2>1, <2>2 DEF Framed, FrameAt, Ends
<1>10. scanned' \in Seq(Seq(ByteSet)) /\ (kind' = "peak" => bytesLeft'["avg"] = 0)
  BY <1>1, <1>4 DEF FrameInv, Out
<1> QED BY <1>4, <1>7, <1>8, <1>9, <1>10 DEF FrameInv, StreamInv

\* The scanner holds bytes.
LEMMA HeldType ==
    ASSUME UserInv PROVE Held \in Seq(ByteSet)
  BY SMT DEF UserInv, Held

\* nidas_circbuf_read_nowait() copies the next bytes of the sample at the tail.
LEMMA CopyExtends ==
    ASSUME IInv, CopyToUser, NEW n,
           n = IF bytesLeft[kind] < count THEN bytesLeft[kind] ELSE count
    PROVE  /\ Held \in Seq(ByteSet)
           /\ Extends(Held, Held', kind, AtTail(ring[kind]), samplePtr(kind), n)
<1> DEFINE x == AtTail(ring[kind])
           p == samplePtr(kind)
           copy == [i \in 1..n |-> Byte(kind, x, p + i)]
<1>1. buffer' = buffer \o copy /\ osamp' = osamp
  BY DEF CopyToUser
<1>2. kind \in Out /\ p \in Nat /\ n \in Nat
  <2>1. /\ kind \in Out /\ bytesLeft[kind] \in Nat /\ count \in Nat
        /\ bytesLeft[kind] <= LenOf(kind) /\ LenOf(kind) \in Nat
    BY LengthsArePositive DEF IInv, UserInv, LenOf
  <2> QED BY SMT, <2>1 DEF samplePtr
<1> HIDE DEF x, p, copy
<1>3. osamp \in Seq(ByteSet) /\ buffer \in Seq(ByteSet)
  BY DEF IInv, UserInv
<1>4. x \in Average \union (0..MaxIrq)
  BY <1>2, Found DEF IInv, Element, Out, Rings, x
<1>5. \A i \in 1..n : Byte(kind, x, p + i) \in ByteSet
  BY SMT, <1>2, <1>4 DEF Byte, ByteSet
<1>6. copy \in Seq(ByteSet) /\ Len(copy) = n
  BY SMT, <1>2, <1>5 DEF copy
<1>7. \A j \in 1..n : copy[j] = Byte(kind, x, p + j)
  BY DEF copy
<1>8. Held' = osamp \o (buffer \o copy)
  BY <1>1 DEF Held
<1>9. LongerBy(osamp \o buffer, osamp \o (buffer \o copy), copy, ByteSet)
  BY <1>3, <1>6, Longer
<1>10. LongerBy(Held, Held', copy, ByteSet)
  BY <1>8, <1>9 DEF Held
<1>11. Held \in Seq(ByteSet) /\ Extends(Held, Held', kind, x, p, n)
  BY <1>6, <1>7, <1>10 DEF Extends, LongerBy
<1> QED BY <1>11 DEF x, p

\* nidas_circbuf_read_nowait() copies the bytes of one sample after another, and
\* broken tells when one is begun amid another.
LEMMA FrameCopy ==
    ASSUME IInv, FrameInv, CopyToUser
    PROVE  FrameInv'
<1> DEFINE n == IF bytesLeft[kind] < count THEN bytesLeft[kind] ELSE count
           left == bytesLeft[kind] - n
           x == AtTail(ring[kind])
           p == samplePtr(kind)
           copy == [i \in 1..n |-> Byte(kind, x, p + i)]
<1>1. /\ upc = "copy" /\ buffer' = buffer \o copy
      /\ bytesLeft' = [bytesLeft EXCEPT ![kind] = left]
      /\ broken' = (broken \/ /\ kind = "avg" /\ n > 0
                              /\ bytesLeft["peak"] \in 1..(PeakLen - 1))
      /\ \/ left > 0 /\ ReadEnds(count - n)
         \/ ~(left > 0) /\ kind' = kind
      /\ UNCHANGED <<ring, osamp, scanned>>
  BY DEF CopyToUser, driver
<1>2. /\ kind \in Out /\ bytesLeft[kind] \in Nat /\ count \in Nat
      /\ bytesLeft[kind] <= LenOf(kind) /\ LenOf(kind) \in Nat
      /\ bytesLeft \in [Out -> Nat]
  BY LengthsArePositive DEF IInv, UserInv, LenOf
<1>3. /\ n \in Nat /\ left \in Nat /\ p \in Nat /\ p + n = LenOf(kind) - left
      /\ p + n <= LenOf(kind) /\ (left > 0 => count - n = 0)
      /\ (n = 0 => left = bytesLeft[kind])
  BY SMT, <1>2 DEF samplePtr
<1> HIDE DEF n, left, p, x, copy
<1>4. Held \in Seq(ByteSet) /\ Extends(Held, Held', kind, x, p, n)
  BY CopyExtends DEF n, x, p
<1>5. ~broken' => ~broken
  BY <1>1
<1>6. kind' = "peak" => bytesLeft'["avg"] = 0
  <2>1. CASE kind = "peak"
    <3>1. bytesLeft["avg"] = 0
      BY <2>1 DEF FrameInv
    <3> QED BY <2>1, <3>1, <1>1, <1>2 DEF Out
  <2>2. CASE kind # "peak"
    <3>1. ~(0 > 0)
      BY SMT
    <3> QED BY <2>2, <3>1, <1>1, <1>3 DEF ReadEnds
  <2> QED BY <2>1, <2>2
<1>7. upc' = "tail" => bytesLeft'[kind'] = 0
  <2>1. CASE left > 0 /\ ReadEnds(count - n)
    BY <2>1 DEF ReadEnds
  <2>2. CASE ~(left > 0) /\ kind' = kind
    <3>1. left = 0
      BY SMT, <1>3, <2>2
    <3> QED BY <1>1, <1>2, <2>2, <3>1
  <2> QED BY <1>1, <2>1, <2>2
<1>8. ASSUME ~broken' PROVE StreamInv'
  <2>1. StreamInv
    BY <1>5, <1>8 DEF FrameInv
  <2>2. CASE n = 0
    <3>1. Held' = Held
      <4>1. /\ Held' \in Seq(ByteSet) /\ Len(Held') = Len(Held) + 0
            /\ \A i \in 1..Len(Held) : Held'[i] = Held[i]
        BY <1>4, <2>2 DEF Extends
      <4> QED BY <1>4, <4>1, SameSeq
    <3>2. bytesLeft' = bytesLeft
      BY <1>1, <1>2, <1>3, <2>2
    <3> QED BY <1>1, <2>1, <3>1, <3>2, StreamKept
  <2>3. CASE n # 0
    <3> DEFINE m == Len(Held)
    <3>1. /\ n > 0 /\ bytesLeft[kind] > 0 /\ left < LenOf(kind)
          /\ p = 0 => ~(bytesLeft[kind] < LenOf(kind))
          /\ p # 0 => bytesLeft[kind] < LenOf(kind)
          /\ left > 0 \/ (left = 0 /\ ~(0 > 0))
      BY SMT, <1>2, <1>3, <2>3 DEF n, left, p, samplePtr
    <3>2. ASSUME NEW k \in Out, k # kind PROVE ~Partial(k)
      <4>1. CASE kind = "peak"
        <5>1. k = "avg" /\ bytesLeft["avg"] = 0 /\ ~(0 > 0)
          BY SMT, <3>2, <4>1 DEF FrameInv, Out
        <5> QED BY <5>1 DEF Partial
      <4>2. CASE kind = "avg"
        <5>1. k = "peak" /\ bytesLeft["peak"] \notin 1..(PeakLen - 1)
          BY <1>1, <1>8, <3>1, <3>2, <4>2 DEF Out
        <5>2. bytesLeft["peak"] \in Nat /\ LenOf("peak") = PeakLen
          BY <1>2 DEF Out, LenOf
        <5> QED BY SMT, <5>1, <5>2, LengthsArePositive DEF Partial
      <4> QED BY <1>2, <4>1, <4>2 DEF Out
    <3>3. Copied(Held, kind, x, p)
      <4>1. CASE p = 0
        BY <2>1, <3>1, <3>2, <4>1 DEF StreamInv, Partial, Copied
      <4>2. CASE p # 0
        BY <1>2, <2>1, <3>1, <4>2 DEF StreamInv, Partial, Copied, x, p
      <4> QED BY <4>1, <4>2
    <3>4. Framed(Held')
      BY <1>2, <1>3, <1>4, <2>1, <3>3, FramedExtends DEF StreamInv
    <3>5. Held'[Len(Held')] = Byte(kind, x, p + n)
      <4>1. n \in 1..n
        BY SMT, <1>3, <3>1
      <4>2. Len(Held') = Len(Held) + n
        BY <1>4 DEF Extends
      <4> QED BY <1>4, <4>1, <4>2 DEF Extends
    <3>6. Held' # <<>>
      <4>1. Len(Held') = Len(Held) + n
        BY <1>4 DEF Extends
      <4>2. Len(Held) \in Nat /\ Len(<<>>) = 0
        BY SMT, <1>4
      <4>3. Len(Held) + n # 0
        BY SMT, <1>3, <3>1, <4>2
      <4> QED BY <4>1, <4>2, <4>3
    <3> PICK k0 \in Out : k0 = kind
      BY <1>2
    <3>7. ASSUME NEW k \in Out
          PROVE  Partial(k)' <=> k = k0 /\ left > 0
      <4>1. CASE k = k0
        BY <1>1, <1>2, <3>1, <4>1 DEF Partial
      <4>2. CASE k # k0
        BY <1>1, <1>2, <3>2, <4>2 DEF Partial
      <4> QED BY <4>1, <4>2
    <3>8. samplePtr(k0)' = p + n
      BY <1>1, <1>2, <1>3 DEF samplePtr
    <3>9. ~(left > 0) => Ends(Held')
      <4>1. Byte(kind, x, p + n)[1] = kind /\ Byte(kind, x, p + n)[3] = p + n
        BY SMT DEF Byte
      <4>2. ~(left > 0) => p + n = LenOf(kind)
        BY SMT, <1>2, <1>3
      <4> QED BY <3>5, <4>1, <4>2 DEF Ends
    <3>10. AtTail(ring'[k0]) = x
      BY <1>1 DEF x
    <3>11. Framed(Held)' /\ (Ends(Held') => Ends(Held)')
      BY <3>4 DEF Framed, FrameAt, Ends
    <3>12. Held'[Len(Held')] = Byte(k0, AtTail(ring'[k0]), samplePtr(k0)')
      BY <3>5, <3>8, <3>10
    <3> QED BY <3>6, <3>7, <3>9, <3>11, <3>12 DEF StreamInv
  <2> QED BY <2>2, <2>3
<1>9. ~broken' => ScannedWhole'
  BY <1>1, <1>5 DEF FrameInv, ScannedWhole
<1>10. scanned' \in Seq(Seq(ByteSet)) /\ upc' \notin {"closing", "closed"}
  BY <1>1 DEF FrameInv, CopyToUser, ReadEnds
<1> QED BY <1>6, <1>7, <1>8, <1>9, <1>10 DEF FrameInv

\* ReadGetTail: a sample of which nothing is copied yet.
LEMMA FrameTail ==
    ASSUME IInv, FrameInv, ReadGetTail
    PROVE  FrameInv'
<1>1. /\ upc = "tail" /\ UNCHANGED <<ring, scanner>>
      /\ kind' \in {"avg", "peak"} /\ upc' \in {"copy", "scan"}
      /\ bytesLeft[kind] = 0 /\ bytesLeft \in [Out -> Nat] /\ kind \in Out
  BY DEF ReadGetTail, ReadEnds, driver, FrameInv, IInv, UserInv, Out
<1>2. Held' = Held /\ broken' = broken /\ scanned' = scanned
  BY <1>1 DEF Held, scanner
<1>3. ~(0 > 0) /\ \A k \in Out : ~(LenOf(k) < LenOf(k))
  BY SMT, LengthsArePositive DEF LenOf
<1>4. CASE HasTail(ring[kind])
  <2>1. /\ bytesLeft' = [bytesLeft EXCEPT ![kind] = LenOf(kind)]
        /\ kind' = kind \/ (ReadEnds(count) /\ ~(count > 0))
    BY <1>4 DEF ReadGetTail
  <2>2. kind' = "peak" => bytesLeft'["avg"] = 0
    <3>1. kind' = "peak" => kind = "peak"
      BY <2>1 DEF ReadEnds
    <3> QED BY <1>1, <2>1, <3>1 DEF FrameInv, Out
  <2>3. ASSUME NEW k \in Out
        PROVE  /\ Partial(k)' <=> Partial(k)
               /\ Partial(k) => samplePtr(k)' = samplePtr(k)
    <3>1. CASE k = kind
      BY <1>1, <1>3, <2>1, <3>1 DEF Partial
    <3>2. CASE k # kind
      BY <1>1, <2>1, <3>2 DEF Partial, samplePtr
    <3> QED BY <3>1, <3>2
  <2>4. ASSUME ~broken PROVE StreamInv'
    <3>1. StreamInv
      BY <2>4 DEF FrameInv
    <3>2. Framed(Held)' /\ ((\A k \in Out : ~Partial(k)') => Ends(Held)')
      BY <1>2, <2>3, <3>1 DEF StreamInv, Framed, FrameAt, Ends
    <3>3. ASSUME NEW k \in Out, Partial(k)
          PROVE  /\ Held' # <<>>
                 /\ Held'[Len(Held')] = Byte(k, AtTail(ring'[k]), samplePtr(k)')
      BY <1>1, <1>2, <2>3, <3>1, <3>3 DEF StreamInv
    <3> QED BY <2>3, <3>2, <3>3 DEF StreamInv
  <2>5. ScannedWhole => ScannedWhole'
    BY <1>2 DEF ScannedWhole
  <2> QED BY <1>1, <1>2, <2>2, <2>4, <2>5 DEF FrameInv
<1>5. CASE ~HasTail(ring[kind])
  <2>1. bytesLeft' = bytesLeft /\ ReadEnds(count)
    BY <1>5 DEF ReadGetTail
  <2>2. kind' = "peak" => bytesLeft'["avg"] = 0
    BY <1>1, <2>1 DEF FrameInv, ReadEnds
  <2>3. ASSUME ~broken PROVE StreamInv'
    BY <1>1, <1>2, <2>1, <2>3, StreamKept DEF FrameInv
  <2>4. ScannedWhole => ScannedWhole'
    BY <1>2 DEF ScannedWhole
  <2> QED BY <1>1, <1>2, <2>2, <2>3, <2>4 DEF FrameInv
<1> QED BY <1>4, <1>5

\* nextSample() never loses the framing: the first byte is a header.
LEMMA FrameScan ==
    ASSUME IInv, FrameInv, nextSample
    PROVE  FrameInv'
<1> DEFINE len == IF Held = <<>> THEN 0 ELSE LenOf(Held[1][1])
           rest == SubSeq(Held, len + 1, Len(Held))
           first == SubSeq(Held, 1, len)
<1>1. /\ upc = "scan" /\ upc' \in {"lost", "idle", "scan"}
      /\ UNCHANGED <<ring, kind, bytesLeft, broken>>
      /\ \/ Held # <<>> /\ Held[1][3] # 1 /\ scanned' = scanned
         \/ osamp' = Held /\ buffer' = <<>> /\ scanned' = scanned
         \/ /\ Held # <<>> /\ ~(Len(Held) < len) /\ scanned' = Append(scanned, first)
            /\ osamp' = <<>> /\ buffer' = rest
  BY DEF nextSample, driver, Held
<1>2. Held \in Seq(ByteSet) /\ len \in Nat
  <2>1. Held \in Seq(ByteSet)
    BY HeldType DEF IInv
  <2>2. \A k : LenOf(k) \in Nat
    BY LengthsArePositive DEF LenOf
  <2>3. 0 \in Nat
    BY SMT
  <2> QED BY <2>1, <2>2, <2>3
<1>3. scanned \in Seq(Seq(ByteSet))
  BY DEF FrameInv
<1> HIDE DEF len
<1>4. ~(Len(Held) < len) => first \in Seq(ByteSet)
  BY SMT, <1>2
<1> HIDE DEF first
<1>5. scanned' \in Seq(Seq(ByteSet))
  <2>1. \A s \in Seq(Seq(ByteSet)), b \in Seq(ByteSet) :
           Append(s, b) \in Seq(Seq(ByteSet))
    BY SMT
  <2> QED BY <1>1, <1>3, <1>4, <2>1
<1>6. kind' = "peak" => bytesLeft'["avg"] = 0
  BY <1>1 DEF FrameInv
<1>7. ASSUME ~broken PROVE StreamInv' /\ ScannedWhole'
  <2>1. StreamInv /\ ScannedWhole /\ Framed(Held)
    BY <1>7 DEF FrameInv, StreamInv
  <2>2. CASE Held # <<>> /\ Held[1][3] # 1
    BY <1>2, <2>1, <2>2, FramedFirst
  <2>3. CASE osamp' = Held /\ buffer' = <<>> /\ scanned' = scanned
    <3>1. Held' = Held
      <4>1. \A s \in Seq(ByteSet) : s \o <<>> = s
        BY SMT
      <4> QED BY <1>2, <2>3, <4>1 DEF Held
    <3> QED BY <1>1, <2>1, <2>3, <3>1, StreamKept DEF ScannedWhole
  <2>4. CASE /\ Held # <<>> /\ ~(Len(Held) < len) /\ scanned' = Append(scanned, first)
             /\ osamp' = <<>> /\ buffer' = rest
    <3>1. len = LenOf(Held[1][1])
      BY <2>4 DEF len
    <3>2. /\ Rest(Held, len, rest) /\ rest \in Seq(ByteSet)
          /\ first = Bytes(Held[1][1], Held[1][2]) /\ first[1] = Held[1]
      BY <1>2, <2>1, <2>4, <3>1, FirstTaken DEF first
    <3> HIDE DEF rest
    <3>3. Held' = rest
      <4>1. \A s \in Seq(ByteSet) : <<>> \o s = s
        BY SMT
      <4> QED BY <2>4, <3>2, <4>1 DEF Held
    <3>4. Framed(rest)
      BY <1>2, <2>1, <2>4, <3>2, FramedRest
    <3>5. rest # <<>> => rest[Len(rest)] = Held[Len(Held)]
      <4>1. /\ Len(rest) = Len(Held) - len
            /\ \A i \in 1..Len(rest) : rest[i] = Held[len + i]
        BY <3>2 DEF Rest
      <4>2. rest # <<>> => Len(rest) \in 1..Len(rest)
        BY SMT, <3>2
      <4>3. Len(Held) \in Nat
        BY SMT, <1>2
      <4>4. len + (Len(Held) - len) = Len(Held)
        BY SMT, <1>2, <4>3
      <4> QED BY <4>1, <4>2, <4>4
    <3>6. ASSUME rest = <<>>
          PROVE  /\ Held[Len(Held)][1] = Held[1][1]
                 /\ Held[Len(Held)][3] = LenOf(Held[1][1])
      <4>1. Len(rest) = 0 /\ Len(rest) = Len(Held) - len
        BY SMT, <3>2, <3>6 DEF Rest
      <4>2. Len(Held) = len /\ len \in 1..len /\ len <= len
        <5>1. len # 0
          BY SMT, <3>1, LengthsArePositive DEF LenOf
        <5>2. Len(Held) \in Nat
          BY SMT, <1>2
        <5> QED BY SMT, <1>2, <4>1, <5>1, <5>2
      <4>3. Held[len] = Byte(Held[1][1], Held[1][2], len)
        BY <1>2, <2>1, <2>4, <3>1, <4>2, FramedFirst
      <4> QED BY SMT, <3>1, <4>2, <4>3 DEF Byte
    <3>7. ASSUME NEW k \in Out, Partial(k)
          PROVE  rest # <<>> /\ rest[Len(rest)] = Byte(k, AtTail(ring[k]), samplePtr(k))
      <4>1. Held[Len(Held)] = Byte(k, AtTail(ring[k]), samplePtr(k))
        BY <2>1, <3>7 DEF StreamInv
      <4>2. Held[Len(Held)][1] = k /\ Held[Len(Held)][3] = samplePtr(k)
        BY SMT, <4>1 DEF Byte
      <4>3. samplePtr(k) # LenOf(k)
        <5>1. bytesLeft[k] \in Nat /\ LenOf(k) \in Nat
          BY LengthsArePositive DEF IInv, UserInv, LenOf
        <5> QED BY SMT, <3>7, <5>1 DEF Partial, samplePtr
      <4> QED BY <3>5, <3>6, <4>1, <4>2, <4>3
    <3>8. (\A k \in Out : ~Partial(k)) => Ends(rest)
      BY <2>1, <2>4, <3>5 DEF StreamInv, Ends
    <3>9. \A k \in Out : Partial(k)' = Partial(k) /\ samplePtr(k)' = samplePtr(k)
      BY <1>1 DEF Partial, samplePtr
    <3>10. Framed(Held)' /\ (Ends(Held') => Ends(Held)')
      <4>1. Framed(Held')
        BY <3>3, <3>4
      <4> QED BY <4>1 DEF Framed, FrameAt, Ends
    <3>11. StreamInv'
      BY <1>1, <3>3, <3>7, <3>8, <3>9, <3>10 DEF StreamInv
    <3>12. ScannedWhole'
      <4>1. ASSUME NEW i \in 1..Len(Append(scanned, first))
            PROVE  Append(scanned, first)[i] = first \/
                      (i \in 1..Len(scanned) /\ Append(scanned, first)[i] = scanned[i])
        BY SMT, <1>3
      <4>2. \A i \in 1..Len(scanned) :
               scanned[i] = Bytes(scanned[i][1][1], scanned[i][1][2])
        BY <1>7, <2>1 DEF ScannedWhole
      <4>3. first = Bytes(first[1][1], first[1][2])
        BY <3>2
      <4>4. ASSUME NEW i \in 1..Len(scanned')
            PROVE  scanned'[i] = Bytes(scanned'[i][1][1], scanned'[i][1][2])
        BY <2>4, <4>1, <4>2, <4>3
      <4> QED BY <4>4 DEF ScannedWhole, Bytes
    <3> QED BY <3>11, <3>12
  <2> QED BY <1>1, <2>2, <2>3, <2>4
<1> QED BY <1>1, <1>3, <1>5, <1>6, <1>7 DEF FrameInv

\* Every step keeps the samples whole.
LEMMA FrameNext == IInv /\ FrameInv /\ [Next]_vars => FrameInv'
<1> SUFFICES ASSUME IInv, FrameInv, [Next]_vars PROVE FrameInv'
  OBVIOUS
<1>1. \A k \in Out : Partial(k) => upc = "closed" \/ HasTail(ring[k])
  BY DEF Partial, IInv, UserInv
<1>2. \A k \in Out : Partial(k) /\ ~broken => HasTail(ring[k])
  BY <1>1 DEF FrameInv, StreamInv
<1>3. CASE InterruptMissed \/ Interrupt \/ lams_irq_handler \/ lams_bottom_half
  <2>1. /\ \A k \in Out : HasTail(ring[k]) => AtTail(ring'[k]) = AtTail(ring[k])
        /\ UNCHANGED <<kind, bytesLeft, scanner>>
        /\ upc' = upc \/ wake_up
    BY <1>3, TailsKept
  <2>2. upc' = upc \/ upc' \in {"check", "idle"}
    BY SMT, <2>1 DEF wake_up, Woken
  <2> QED BY <1>2, <2>1, <2>2, FrameKept DEF FrameInv
<1>4. CASE lams_open \/ Close \/ lams_release
  BY <1>4, FrameOpen
<1>5. CASE OpenFails \/ OpenBusy \/ setNAvg \/ SetNPeaks \/ lams_poll \/ readBuffer
           \/ lams_read \/ Signal \/ UNCHANGED vars
  <2>1. /\ UNCHANGED <<ring, kind, bytesLeft, scanner>>
        /\ upc' = upc \/ upc' \in {"N_PEAKS", "idle", "polling", "scan", "check",
                                    "copy", "asleep"}
    BY <1>5 DEF OpenFails, OpenBusy, setNAvg, SetNPeaks, lams_poll, readBuffer,
                lams_read, Signal, vars, driver, user
  <2> QED BY <2>1, FrameKept DEF FrameInv
<1>6. CASE ReadIncTail
  <2>1. /\ upc = "inc" /\ upc' = "tail" /\ UNCHANGED <<kind, bytesLeft, scanner>>
        /\ ring' = [ring EXCEPT ![kind] = INCREMENT_TAIL(@)]
        /\ bytesLeft[kind] = 0
    BY <1>6 DEF ReadIncTail, IInv, UserInv
  <2>2. \A k \in Out : Partial(k) => k # kind
    BY SMT, <2>1 DEF Partial
  <2>3. \A k \in Out : k # kind => ring'[k] = ring[k]
    BY <2>1 DEF IInv, RingInv, Rings, Out
  <2> QED BY <2>1, <2>2, <2>3, FrameKept
<1> QED BY <1>3, <1>4, <1>5, <1>6, FrameCopy, FrameTail, FrameScan DEF Next, Reading

\* The samples stay whole in every run.
LEMMA FrameInvariant == Spec => []FrameInv
<1>1. Init => FrameInv
  <2> SUFFICES ASSUME Init PROVE FrameInv
    OBVIOUS
  <2>1. Framed(<<>>) /\ Ends(<<>>) /\ <<>> \in Seq(Seq(ByteSet)) /\ 1..Len(<<>>) = {}
        /\ <<>> \o <<>> = <<>> /\ ~(0 > 0)
    <3>1. 1..Len(<<>>) = {} /\ <<>> \in Seq(Seq(ByteSet)) /\ <<>> \o <<>> = <<>>
          /\ ~(0 > 0)
      BY SMT
    <3> QED BY <3>1 DEF Framed, Ends
  <2>2. Held = <<>> /\ scanned = <<>> /\ kind = "avg" /\ upc = "closed"
    BY <2>1 DEF Init, Held
  <2>3. \A k \in Out : ~Partial(k)
    BY <2>1 DEF Init, Partial
  <2>4. ScannedWhole
    BY <2>1, <2>2 DEF ScannedWhole
  <2> QED BY <2>1, <2>2, <2>3, <2>4 DEF FrameInv, StreamInv
<1>2. IInv /\ FrameInv /\ [Next]_vars => FrameInv'
  BY FrameNext
<1> QED BY <1>1, <1>2, LamsInvariant, PTL DEF Spec

\* However lams_read() cuts the averages and the peaks into reads, and however long
\* a sample and the scanner's buffer are, each sample that the scanner assembles is
\* one sample of the driver, byte for byte, until one is begun amid another.
THEOREM SamplesScannedWhole == Spec => []ScannedWhole
<1>1. FrameInv => ScannedWhole
  BY DEF FrameInv, ScannedWhole
<1> QED BY <1>1, FrameInvariant, PTL
=============================================================================
