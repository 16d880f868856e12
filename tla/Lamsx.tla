-------------------------------- MODULE Lamsx --------------------------------
(***************************************************************************)
(* The LAMS driver linux/lams/lamsx.c and the program that reads it, as    *)
(* far as core/DriverSampleScanner.  Three activities run concurrently and *)
(* share no lock, only circular buffers:                                   *)
(*                                                                         *)
(*   interrupt handler --isr--> bottom half --avg--> \                     *)
(*           \------------------------------peak---> /  lams_read, scanner *)
(*                                                                         *)
(* A spectrum is the number of the interrupt that delivered it, counted    *)
(* from the opening of the device; an average is the sequence of spectra   *)
(* summed in it.  A sample is a few units of bytes, of which the first is  *)
(* the header that holds its length.                                       *)
(***************************************************************************)
EXTENDS CircBuf

CONSTANTS
    IsrSize,    \* LAMS_ISR_SAMPLE_QUEUE_SIZE
    OutSize,    \* LAMS_OUTPUT_SAMPLE_QUEUE_SIZE
    AvgLen,     \* units of bytes of an average, header included
    PeakLen,    \* units of bytes of a peak sample, header included
    BufSize,    \* units of bytes of the scanner's buffer
    DefaultNAvg, DefaultNPeaks,     \* set by lams_init()
    NAvg, NPeaks,                   \* set by LamsSensor::open()
    MaxIrq,     \* bound: interrupts
    MaxOpens    \* bound: calls of open

ASSUME SizesAreRings == /\ IsrSize \in Nat /\ IsrSize > 1
                        /\ OutSize \in Nat /\ OutSize > 1
ASSUME LengthsArePositive == /\ AvgLen \in Nat \ {0} /\ PeakLen \in Nat \ {0}
                             /\ BufSize \in Nat \ {0}
ASSUME NumbersArePositive ==
    /\ DefaultNAvg \in Nat \ {0} /\ DefaultNPeaks \in Nat \ {0}
    /\ NAvg \in Nat \ {0} /\ NPeaks \in Nat \ {0}
    /\ MaxIrq \in Nat /\ MaxOpens \in Nat

VARIABLES
    ring,       \* isr_avg_samples, avg_samples and peak_samples
    brd,        \* the scalars of struct LAMS_board
    status,     \* its struct lams_status
    accepted,   \* number of spectra the handler has stored since the open
    ipc, psamp, irqs,       \* the interrupt handler, its psamp # 0, its calls
    pending,                    \* the work is queued
    bpc, bhd, nshift, load,     \* the bottom half, its sums and registers
    upc, kind, bytesLeft, count,    \* the caller of open, read, poll, release
    buffer, osamp,              \* the scanner: bytes to scan, partial sample
    scanned,    \* the samples scanned since the open, as bytes
    broken,     \* a sample was begun amid another
    opens

driver == <<ring, brd, status, accepted>>
isr == <<ipc, psamp, irqs>>
work == <<pending, bpc, bhd, nshift, load>>
scanner == <<buffer, osamp, scanned, broken>>
user == <<upc, kind, bytesLeft, count, scanner, opens>>
vars == <<driver, isr, work, user>>

Out == {"avg", "peak"}
Rings == {"isr"} \union Out
Size(r) == IF r = "isr" THEN IsrSize ELSE OutSize
LenOf(k) == IF k = "avg" THEN AvgLen ELSE PeakLen

\* The contents of an element while it is written.
Unset(r) == IF r = "avg" THEN [sum |-> <<>>, timetag |-> 0] ELSE 0
NoSums == [sum |-> <<>>, nAvg |-> 0, timetag |-> 0]
Status0 == [missedISRSamples |-> 0, missedOutSamples |-> 0]
EmptyRings == [r \in Rings |-> alloc_dsm_circ_buf(Size(r), Unset(r))]

Byte(k, x, i) == <<k, x, i>>
Bytes(k, x) == [i \in 1..LenOf(k) |-> Byte(k, x, i)]

Init ==
    /\ ring = EmptyRings
    /\ brd = [num_opened |-> 0, irq |-> FALSE, nAVG |-> DefaultNAvg,
              nPEAKS |-> DefaultNPeaks, nPeaks |-> 0]
    /\ status = Status0
    /\ accepted = 0
    /\ ipc = "idle" /\ psamp = FALSE /\ irqs = 0
    /\ pending = FALSE /\ bpc = "idle" /\ bhd = NoSums /\ nshift = DefaultNAvg
    /\ load = 0
    /\ upc = "closed" /\ kind = "avg" /\ bytesLeft = [k \in Out |-> 0]
    /\ count = 0
    /\ buffer = <<>> /\ osamp = <<>> /\ scanned = <<>> /\ broken = FALSE
    /\ opens = 0

-----------------------------------------------------------------------------
\* wake_up_interruptible(&brd->read_queue): lams_read tests its condition
\* again, and so does poll.
Woken == [asleep |-> "check", polling |-> "idle"]
wake_up == upc' = IF upc \in DOMAIN Woken THEN Woken[upc] ELSE upc

-----------------------------------------------------------------------------
(***************************************************************************)
(* lams_irq_handler()                                                      *)
(***************************************************************************)
\* No element for the spectrum: the interrupt is acknowledged.
InterruptMissed ==
    /\ brd.irq /\ ipc = "idle" /\ irqs < MaxIrq
    /\ ~HasHead(ring["isr"])
    /\ status' = [status EXCEPT !.missedISRSamples = @ + 1]
    /\ irqs' = irqs + 1
    /\ UNCHANGED <<ring, brd, accepted, ipc, psamp, work, user>>

\* The elements of the spectrum and, every nAVG interrupts, of the peaks.
Interrupt ==
    /\ brd.irq /\ ipc = "idle" /\ irqs < MaxIrq
    /\ HasHead(ring["isr"])
    /\ LET due == (brd.nPeaks + 1) % brd.nAVG = 0
           get == due /\ HasHead(ring["peak"])
           miss == IF due /\ ~get THEN 1 ELSE 0
       IN  /\ brd' = [brd EXCEPT !.nPeaks = @ + 1]
           /\ status' = [status EXCEPT !.missedOutSamples = @ + miss]
           /\ psamp' = get
           /\ ring' = [r \in Rings |->
                          IF r = "isr" \/ (r = "peak" /\ get)
                          THEN WriteHead(ring[r], Unset(r)) ELSE ring[r]]
    /\ ipc' = "inw" /\ irqs' = irqs + 1
    /\ UNCHANGED <<accepted, work, user>>

\* Mutant: the peaks are read from the board but not stored.
ReadBoardNoPeaks ==
    /\ ipc = "inw"
    /\ ring' = [ring EXCEPT !["isr"] = WriteHead(@, accepted + 1)]
    /\ brd' = [brd EXCEPT !.nPeaks = IF @ >= brd.nPEAKS THEN 0 ELSE @]
    /\ ipc' = "head"
    /\ UNCHANGED <<status, accepted, psamp, irqs, work, user>>

ReadBoard ==
    /\ ipc = "inw"
    /\ ring' = [r \in Rings |->
                   IF r = "isr" \/ (r = "peak" /\ psamp)
                   THEN WriteHead(ring[r], accepted + 1) ELSE ring[r]]
    /\ brd' = [brd EXCEPT !.nPeaks = IF @ >= brd.nPEAKS THEN 0 ELSE @]
    /\ ipc' = "head"
    /\ UNCHANGED <<status, accepted, psamp, irqs, work, user>>

IsrHead ==
    /\ ipc = "head"
    /\ ring' = [ring EXCEPT !["isr"] = INCREMENT_HEAD(@)]
    /\ accepted' = accepted + 1
    /\ ipc' = "queue"
    /\ UNCHANGED <<brd, status, psamp, irqs, work, user>>

\* Mutant: no work is queued while the bottom half runs.
QueueWorkIfIdle ==
    /\ ipc = "queue"
    /\ pending' = (pending \/ bpc = "idle")
    /\ ipc' = IF psamp THEN "peak" ELSE "idle"
    /\ UNCHANGED <<driver, psamp, irqs, bpc, bhd, nshift, load, user>>

QueueWork ==
    /\ ipc = "queue"
    /\ pending' = TRUE
    /\ ipc' = IF psamp THEN "peak" ELSE "idle"
    /\ UNCHANGED <<driver, psamp, irqs, bpc, bhd, nshift, load, user>>

PeakHead ==
    /\ ipc = "peak"
    /\ ring' = [ring EXCEPT !["peak"] = INCREMENT_HEAD(@)]
    /\ ipc' = "wake"
    /\ UNCHANGED <<brd, status, accepted, psamp, irqs, work, user>>

PeakWake ==
    /\ ipc = "wake"
    /\ wake_up
    /\ ipc' = "idle" /\ psamp' = FALSE
    /\ UNCHANGED <<driver, irqs, work, kind, bytesLeft, count, scanner, opens>>

lams_irq_handler ==
    \/ ReadBoard \/ IsrHead \/ QueueWork \/ PeakHead \/ PeakWake

-----------------------------------------------------------------------------
(***************************************************************************)
(* lams_bottom_half(), one run of the queued work.  Work that is queued    *)
(* while it runs is run once more.                                         *)
(***************************************************************************)
BottomHalfStart ==
    /\ pending /\ bpc = "idle"
    /\ pending' = FALSE
    /\ nshift' = brd.nAVG
    /\ bpc' = "tail"
    /\ UNCHANGED <<driver, isr, bhd, load, user>>

\* The end of the loop, or the next spectrum added to the sums.
BottomHalfSum ==
    /\ bpc = "tail"
    /\ IF ~HasTail(ring["isr"])
       THEN bpc' = "end" /\ UNCHANGED bhd
       ELSE LET n == AtTail(ring["isr"])
            IN  /\ bhd' = [sum |-> Append(bhd.sum, <<n, nshift>>),
                           nAvg |-> bhd.nAvg + 1,
                           timetag |-> IF bhd.nAvg + 1 >= brd.nAVG
                                       THEN n ELSE bhd.timetag]
                /\ bpc' = "inc"
    /\ UNCHANGED <<driver, isr, pending, nshift, load, user>>

BottomHalfEnd ==
    /\ bpc = "end" /\ bpc' = "idle"
    /\ UNCHANGED <<driver, isr, pending, bhd, nshift, load, user>>

BottomHalfTail ==
    /\ bpc = "inc"
    /\ ring' = [ring EXCEPT !["isr"] = INCREMENT_TAIL(@)]
    /\ bpc' = "test"
    /\ UNCHANGED <<brd, status, accepted, isr, pending, bhd, nshift, load, user>>

\* A complete average: an element for it, or missedOutSamples is loaded.
BottomHalfHead ==
    /\ bpc = "test"
    /\ IF bhd.nAvg < brd.nAVG THEN bpc' = "tail" /\ UNCHANGED <<ring, load>>
       ELSE IF HasHead(ring["avg"])
       THEN /\ ring' = [ring EXCEPT !["avg"] = WriteHead(@, Unset("avg"))]
            /\ bpc' = "fill"
            /\ UNCHANGED load
       ELSE /\ load' = status.missedOutSamples
            /\ bpc' = "missed"
            /\ UNCHANGED ring
    /\ UNCHANGED <<brd, status, accepted, isr, pending, bhd, nshift, user>>

\* Mutant: an average without an element is dropped.
MissedZeroed ==
    /\ bpc = "missed"
    /\ status' = [status EXCEPT !.missedOutSamples = load + 1]
    /\ bpc' = "tail" /\ load' = 0 /\ bhd' = NoSums
    /\ UNCHANGED <<ring, brd, accepted, isr, pending, nshift, user>>

\* missedOutSamples is stored, over what the handler may have stored since.
BottomHalfMissed ==
    /\ bpc = "missed"
    /\ status' = [status EXCEPT !.missedOutSamples = load + 1]
    /\ bpc' = "tail" /\ load' = 0
    /\ UNCHANGED <<ring, brd, accepted, isr, pending, bhd, nshift, user>>

BottomHalfFill ==
    /\ bpc = "fill"
    /\ ring' = [ring EXCEPT !["avg"] =
                   WriteHead(@, [sum |-> bhd.sum, timetag |-> bhd.timetag])]
    /\ bpc' = "head"
    /\ UNCHANGED <<brd, status, accepted, isr, pending, bhd, nshift, load, user>>

BottomHalfPut ==
    /\ bpc = "head"
    /\ ring' = [ring EXCEPT !["avg"] = INCREMENT_HEAD(@)]
    /\ bpc' = "wake"
    /\ UNCHANGED <<brd, status, accepted, isr, pending, bhd, nshift, load, user>>

\* The reader is woken and the sums are zeroed.
BottomHalfWake ==
    /\ bpc = "wake"
    /\ wake_up
    /\ bhd' = NoSums
    /\ bpc' = "tail"
    /\ UNCHANGED <<driver, isr, pending, nshift, load,
                   kind, bytesLeft, count, scanner, opens>>

lams_bottom_half ==
    \/ BottomHalfStart \/ BottomHalfSum \/ BottomHalfTail \/ BottomHalfHead
    \/ BottomHalfMissed \/ BottomHalfFill \/ BottomHalfPut \/ BottomHalfWake
    \/ BottomHalfEnd

-----------------------------------------------------------------------------
(***************************************************************************)
(* The program: LamsSensor::open(), the reading of the sensor by           *)
(* DSMSensor::readSamples(), and close().                                  *)
(***************************************************************************)
\* lams_open() allocates the buffers and requests the interrupt; the
\* scanner keeps what it held when the sensor was closed.
lams_open ==
    /\ upc = "closed" /\ opens < MaxOpens
    /\ brd.num_opened = 0
    /\ ring' = EmptyRings
    /\ brd' = [brd EXCEPT !.num_opened = 1, !.irq = TRUE, !.nPeaks = 0]
    /\ status' = Status0
    /\ bhd' = NoSums
    /\ bytesLeft' = [k \in Out |-> 0]
    /\ upc' = "N_AVG" /\ opens' = opens + 1
    /\ UNCHANGED <<accepted, isr, pending, bpc, nshift, load, kind, count,
                   scanner>>

\* No memory, or no interrupt: num_opened keeps its increment.
OpenFails ==
    /\ upc = "closed" /\ opens < MaxOpens
    /\ brd.num_opened = 0
    /\ brd' = [brd EXCEPT !.num_opened = 1]
    /\ opens' = opens + 1
    /\ UNCHANGED <<ring, status, accepted, isr, work, upc, kind, bytesLeft, count,
                   scanner>>

OpenBusy ==
    /\ upc = "closed" /\ opens < MaxOpens
    /\ brd.num_opened > 0
    /\ opens' = opens + 1
    /\ UNCHANGED <<driver, isr, work, upc, kind, bytesLeft, count, scanner>>

\* The ioctls of LamsSensor::open(), with interrupts already coming.
setNAvg ==
    /\ upc = "N_AVG"
    /\ brd' = [brd EXCEPT !.nAVG = NAvg]
    /\ upc' = "N_PEAKS"
    /\ UNCHANGED <<ring, status, accepted, isr, work, kind, bytesLeft, count,
                   scanner, opens>>

SetNPeaks ==
    /\ upc = "N_PEAKS"
    /\ brd' = [brd EXCEPT !.nPEAKS = NPeaks]
    /\ upc' = "idle"
    /\ UNCHANGED <<ring, status, accepted, isr, work, kind, bytesLeft, count,
                   scanner, opens>>

Readable == \E k \in Out : bytesLeft[k] > 0 \/ HasTail(ring[k])

\* lams_poll() finds nothing, and the thread sleeps on the read_queue; when
\* it finds something the thread goes on to read.
lams_poll ==
    /\ upc = "idle" /\ ~Readable
    /\ upc' = "polling"
    /\ UNCHANGED <<driver, isr, work, kind, bytesLeft, count, scanner, opens>>

\* SampleScanner::readBuffer() reads as much as its buffer has room for.
readBuffer ==
    /\ upc = "idle"
    /\ count' = BufSize - Len(buffer)
    /\ upc' = IF count' = 0 THEN "scan" ELSE "check"
    /\ UNCHANGED <<driver, isr, work, kind, bytesLeft, scanner, opens>>

\* lams_read(); wait_event tests its condition once the thread is on the
\* queue, so that no wake-up falls between the test and the sleep.
lams_read ==
    /\ upc = "check"
    /\ upc' = IF Readable THEN "copy" ELSE "asleep"
    /\ UNCHANGED <<driver, isr, work, kind, bytesLeft, count, scanner, opens>>

\* A signal ends the wait of read or poll, or poll times out.
Signal ==
    /\ upc \in DOMAIN Woken
    /\ upc' = "idle" /\ count' = 0
    /\ UNCHANGED <<driver, isr, work, kind, bytesLeft, scanner, opens>>

\* nidas_circbuf_read_nowait() ends; lams_read goes from the averages to
\* the peaks while the user's buffer has room.
ReadEnds(room) ==
    IF kind = "avg" /\ room > 0
    THEN kind' = "peak" /\ upc' = "copy" /\ count' = room
    ELSE kind' = "avg" /\ upc' = "scan" /\ count' = 0

\* Mutant: each read starts at the beginning of the sample.
SamplePtrReset(k) == 0

\* The bytes of the sample at the tail that are already copied.
samplePtr(k) == LenOf(k) - bytesLeft[k]

CopyToUser ==
    /\ upc = "copy"
    /\ LET n == IF bytesLeft[kind] < count THEN bytesLeft[kind] ELSE count
           left == bytesLeft[kind] - n
       IN  /\ bytesLeft' = [bytesLeft EXCEPT ![kind] = left]
           /\ buffer' = buffer \o [i \in 1..n |->
                           Byte(kind, AtTail(ring[kind]), samplePtr(kind) + i)]
           /\ broken' = (broken \/ /\ kind = "avg" /\ n > 0
                                   /\ bytesLeft["peak"] \in 1..(PeakLen - 1))
           /\ IF left > 0 THEN ReadEnds(count - n)
              ELSE /\ upc' = IF n > 0 THEN "inc" ELSE "tail"
                   /\ count' = count - n /\ UNCHANGED kind
    /\ UNCHANGED <<driver, isr, work, osamp, scanned, opens>>

ReadIncTail ==
    /\ upc = "inc"
    /\ ring' = [ring EXCEPT ![kind] = INCREMENT_TAIL(@)]
    /\ upc' = "tail"
    /\ UNCHANGED <<brd, status, accepted, isr, work, kind, bytesLeft, count, scanner,
                   opens>>

ReadGetTail ==
    /\ upc = "tail"
    /\ IF HasTail(ring[kind])
       THEN /\ bytesLeft' = [bytesLeft EXCEPT ![kind] = LenOf(kind)]
            /\ IF count > 0 THEN upc' = "copy" /\ UNCHANGED <<kind, count>>
               ELSE ReadEnds(count)
       ELSE UNCHANGED bytesLeft /\ ReadEnds(count)
    /\ UNCHANGED <<driver, isr, work, scanner, opens>>

\* DriverSampleScanner::nextSample().  A sample whose time tag the clock
\* refuses ends the loop of readSamples() as an empty buffer does.  A header
\* that is not one holds an arbitrary length: the framing is lost.
nextSample ==
    /\ upc = "scan"
    /\ LET all == osamp \o buffer
           len == IF all = <<>> THEN 0 ELSE LenOf(all[1][1])
       IN  IF all # <<>> /\ all[1][3] # 1
           THEN upc' = "lost" /\ UNCHANGED <<buffer, osamp, scanned>>
           ELSE IF all = <<>> \/ Len(all) < len
           THEN /\ osamp' = all /\ buffer' = <<>>
                /\ upc' = "idle" /\ UNCHANGED scanned
           ELSE /\ scanned' = Append(scanned, SubSeq(all, 1, len))
                /\ osamp' = <<>> /\ buffer' = SubSeq(all, len + 1, Len(all))
                /\ upc' \in {"scan", "idle"}
    /\ UNCHANGED <<driver, isr, work, kind, bytesLeft, count, broken, opens>>

\* free_irq() waits for a running handler.
Close ==
    /\ upc \in {"idle", "lost"} /\ ipc = "idle"
    /\ brd' = [brd EXCEPT !.irq = FALSE]
    /\ upc' = "closing"
    /\ broken' = (broken \/ osamp # <<>> \/ buffer # <<>>)
    /\ UNCHANGED <<ring, status, accepted, isr, work, kind, bytesLeft, count, buffer,
                   osamp, scanned, opens>>

\* Mutant: the buffers are freed without flush_workqueue().
ReleaseUnflushed ==
    /\ upc = "closing"
    /\ ring' = EmptyRings /\ accepted' = 0 /\ scanned' = <<>>
    /\ brd' = [brd EXCEPT !.num_opened = @ - 1]
    /\ upc' = "closed"
    /\ UNCHANGED <<status, isr, work, kind, bytesLeft, count, buffer, osamp, broken,
                   opens>>

\* flush_workqueue() waits for the bottom half; the buffers are freed, for
\* which empty ones stand.
lams_release ==
    /\ upc = "closing"
    /\ ~pending /\ bpc = "idle"
    /\ ring' = EmptyRings /\ accepted' = 0 /\ scanned' = <<>>
    /\ brd' = [brd EXCEPT !.num_opened = @ - 1]
    /\ upc' = "closed"
    /\ UNCHANGED <<status, isr, work, kind, bytesLeft, count, buffer, osamp, broken,
                   opens>>

Reading ==
    \/ setNAvg \/ SetNPeaks \/ lams_poll \/ readBuffer \/ lams_read
    \/ CopyToUser \/ ReadIncTail \/ ReadGetTail \/ nextSample \/ lams_release

Next ==
    \/ InterruptMissed \/ Interrupt \/ lams_irq_handler
    \/ lams_bottom_half
    \/ lams_open \/ OpenFails \/ OpenBusy \/ Signal \/ Close
    \/ Reading

\* A handler that has begun ends, the kernel runs queued work, and the
\* program goes on reading; interrupts, signals and closing are not forced.
Fairness == /\ WF_vars(lams_irq_handler)
            /\ WF_vars(lams_bottom_half)
            /\ WF_vars(Reading)

Spec == Init /\ [][Next]_vars /\ Fairness

-----------------------------------------------------------------------------
(***************************************************************************)
(* Properties                                                              *)
(***************************************************************************)
Average == [sum : Seq((1..MaxIrq) \X Nat), timetag : 0..MaxIrq]
ItemOf(r) == IF r = "avg" THEN {x \in Average : x.sum # <<>>} ELSE 1..MaxIrq
Element(r) == IF r = "avg" THEN Average ELSE 0..MaxIrq
Ring(r) == [buf : [0..(Size(r) - 1) -> Element(r)], head : 0..(Size(r) - 1),
            tail : 0..(Size(r) - 1), size : {Size(r)}]

\* Every variable has its type: the indices of the circular buffers stay
\* within their arrays.
TypeOK ==
    /\ DOMAIN ring = Rings /\ \A r \in Rings : ring[r] \in Ring(r)
    /\ brd \in [num_opened : 0..1, irq : BOOLEAN, nAVG : Nat \ {0},
                nPEAKS : Nat \ {0}, nPeaks : Nat]
    /\ status \in [missedISRSamples : Nat, missedOutSamples : Nat]
    /\ accepted \in 0..irqs
    /\ ipc \in {"idle", "inw", "head", "queue", "peak", "wake"}
    /\ psamp \in BOOLEAN /\ pending \in BOOLEAN
    /\ bpc \in {"idle", "tail", "inc", "test", "missed", "fill", "head", "wake", "end"}
    /\ bhd \in [sum : Seq((1..MaxIrq) \X Nat), nAvg : Nat, timetag : 0..MaxIrq]
    /\ nshift \in Nat /\ load \in Nat
    /\ upc \in {"closed", "N_AVG", "N_PEAKS", "idle", "polling", "check",
                "asleep", "copy", "inc", "tail", "scan", "lost", "closing"}
    /\ kind \in Out
    /\ \A k \in Out : bytesLeft[k] \in 0..LenOf(k)
    /\ count \in 0..BufSize /\ Len(buffer) + count <= BufSize
    /\ broken \in BOOLEAN /\ opens \in 0..MaxOpens /\ irqs \in 0..MaxIrq

IsrFifo == INSTANCE SampleFifo WITH
    queue <- Contents(ring["isr"]), Item <- ItemOf("isr"), Capacity <- IsrSize - 1
AvgFifo == INSTANCE SampleFifo WITH
    queue <- Contents(ring["avg"]), Item <- ItemOf("avg"), Capacity <- OutSize - 1
PeakFifo == INSTANCE SampleFifo WITH
    queue <- Contents(ring["peak"]), Item <- ItemOf("peak"),
    Capacity <- OutSize - 1

\* Each circular buffer, shared without a lock by the interrupt handler, the
\* bottom half and the reader, is a queue: no element is overwritten before
\* it is read, none is read before it is complete.
RingsAreFifos == IsrFifo!Spec /\ AvgFifo!Spec /\ PeakFifo!Spec

\* Until a sample is begun amid another, each sample that the scanner
\* assembles from the reads of lams_read() is one sample of the driver,
\* byte for byte, however the reads cut the stream.
ScannedWhole ==
    ~broken => \A i \in 1..Len(scanned) :
                  LET b == scanned[i][1] IN scanned[i] = Bytes(b[1], b[2])

\* The spectra in the averages that the scanner has assembled, in those of which
\* a read has copied the header, in the averages that wait to be read, in the sums
\* of the bottom half, and in its queue.
HeaderRead == bytesLeft["avg"] \in 1..(AvgLen - 1) \/ (upc = "inc" /\ kind = "avg")
ScannedSums ==
    [i \in {j \in 1..Len(scanned) : scanned[j][1][1] = "avg"} |-> scanned[i][1][2].sum]
HeldSums ==
    LET held == osamp \o buffer
    IN  [i \in {j \in 1..Len(held) : held[j][1] = "avg" /\ held[j][3] = 1} |->
            held[i][2].sum]
StoredSums ==
    LET avgs == Contents(ring["avg"])
    IN  [i \in (IF HeaderRead THEN 2 ELSE 1)..Len(avgs) |-> avgs[i].sum]
BhSum == IF bpc = "wake" THEN <<>> ELSE bhd.sum
RawSums ==
    LET raw == Contents(ring["isr"])
    IN  [i \in (IF bpc = "inc" THEN 2 ELSE 1)..Len(raw) |-> <<<<raw[i], 0>>>>]
Stages == <<ScannedSums, HeldSums, StoredSums, <<BhSum>>, RawSums>>

\* The occurrences of spectra, in the order in which they were and will be scanned.
Occurrence ==
    UNION {UNION {{<<k, i, j>> : j \in 1..Len(Stages[k][i])} : i \in DOMAIN Stages[k]}
              : k \in 1..5}
Spectrum(o) == Stages[o[1]][o[2]][o[3]][1]
Before(o, p) ==
    \/ o[1] < p[1]
    \/ o[1] = p[1] /\ o[2] < p[2]
    \/ o[1] = p[1] /\ o[2] = p[2] /\ o[3] < p[3]

\* Every spectrum that the interrupt handler stored is summed in exactly one
\* average, in the order of the interrupts, and no average is lost or read
\* twice, also when an output buffer is full.
SpectraConserved ==
    ~broken /\ upc \notin {"lost", "closed"} =>
        /\ {Spectrum(o) : o \in Occurrence} = 1..accepted
        /\ \A o, p \in Occurrence : Before(o, p) => Spectrum(o) < Spectrum(p)

\* Once release has freed the buffers neither the interrupt handler nor the
\* bottom half runs, nor is work queued that would.
NoUseAfterFree ==
    upc = "closed" => ipc = "idle" /\ bpc = "idle" /\ ~pending /\ ~brd.irq

\* Whenever the interrupts pause, everything stored is read: the bottom half
\* also takes a spectrum stored while it was about to end, because
\* queue_work() comes after the head moves, and the reader is woken after
\* the head of an output buffer moves and tests both of them.
EverythingIsRead ==
    []<>(upc = "closed" \/ /\ ~HasTail(ring["isr"])
                           /\ ~Readable \/ upc = "lost")

\* util.h promises that the rest of a sample, of which a read returned the
\* first part, is what the next read gets: every sample is scanned whole.
ReadsKeepSamplesWhole ==
    \A i \in 1..Len(scanned) :
        LET b == scanned[i][1] IN scanned[i] = Bytes(b[1], b[2])
=============================================================================
