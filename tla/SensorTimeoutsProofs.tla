------------------------ MODULE SensorTimeoutsProofs ------------------------
(***************************************************************************)
(* When every timeout is a multiple of the shorter ones, the rescaling in  *)
(* setupTimeouts() is exact and the count of checks never passes the       *)
(* maximum that checkTimeout() compares it with for equality.              *)
(*                                                                         *)
(* For any timeouts, until the first set of sensors changes: a quiet       *)
(* sensor is found soon after its timeout, and none is found before it by  *)
(* more than a check interval.                                             *)
(***************************************************************************)
EXTENDS SensorTimeouts, WellFoundedInduction, TLAPS

\* The values _sensorCheckIntervalMsecs can have.
Interval == {Second} \cup {Timeout[s] : s \in {r \in Sensor : Timeout[r] > Second}}

\* Each is a multiple of the smaller ones.
Commensurate == \A a, b \in Interval : a <= b => \E k \in Nat : b = k * a

\* What is polled with a timeout is checked at an interval that divides the
\* timeout, unless that is below a second.
Exact(s) ==
    /\ nTimeoutChecksMax[s] \in Nat
    /\ Timeout[s] < Second => checkInterval = Second /\ nTimeoutChecksMax[s] = 1
    /\ Timeout[s] >= Second => Timeout[s] = nTimeoutChecksMax[s] * checkInterval

\* The inductive invariant.
CountInv ==
    /\ polled \subseteq Sensor
    /\ nTimeoutChecks \in [Sensor -> Nat]
    /\ checkInterval \in {-1} \cup Interval
    /\ \A s \in polled : lastCheckInterval[s] = checkInterval
    /\ \A s \in polled : Timeout[s] > 0 =>
          /\ checkInterval \in Interval
          /\ Exact(s)
          /\ nTimeoutChecks[s] <= nTimeoutChecksMax[s]

-----------------------------------------------------------------------------
(* Arithmetic.                                                             *)

\* Multiplication by a positive number keeps the order.
LEMMA Cancel ==
    ASSUME NEW x \in Nat, NEW y \in Nat, NEW a \in Nat \ {0}, x * a <= y * a
    PROVE  x <= y
  <1> SUFFICES ASSUME y + 1 <= x PROVE FALSE
    OBVIOUS
  <1>1. (y + 1) * a <= x * a
    OBVIOUS
  <1>2. (y + 1) * a = y * a + a
    OBVIOUS
  <1> QED
    BY <1>1, <1>2

\* It keeps it in the other direction too.
LEMMA Order ==
    ASSUME NEW x \in Nat, NEW y \in Nat, NEW a \in Nat, x <= y
    PROVE  x * a <= y * a
  OBVIOUS

\* A quotient without remainder.
LEMMA Quotient ==
    ASSUME NEW k \in Nat, NEW a \in Nat \ {0}
    PROVE  /\ (k * a) \div a = k
           /\ (k * a + a - 1) \div a = k
  OBVIOUS

\* The smallest of a set of numbers.
LEMMA MinIsLeast ==
    ASSUME NEW T, T \subseteq Nat, T # {}
    PROVE  Min(T) \in T /\ \A y \in T : Min(T) <= y
  <1>1. PICK x \in T : \A y \in T : ~(<<y, x>> \in OpToRel(<, Nat))
    BY NatLessThanWellFounded, WFMin
  <1>2. ASSUME NEW y \in T PROVE x <= y
    <2>1. x \in Nat /\ y \in Nat
      OBVIOUS
    <2>2. <<y, x>> \in Nat \X Nat /\ <<y, x>>[1] = y /\ <<y, x>>[2] = x
      BY <2>1
    <2>3. y < x => <<y, x>> \in OpToRel(<, Nat)
      BY <2>2 DEF OpToRel
    <2>4. ~(y < x)
      BY <1>1, <2>3, Zenon
    <2> QED
      BY <2>1, <2>4
  <1> QED
    BY <1>2 DEF Min

\* handlePollingChange() takes the interval from Interval, not above any timeout
\* of a second or more.
LEMMA CheckIntervalFits ==
    ASSUME NEW S \in SUBSET Sensor
    PROVE  /\ CheckInterval(S) \in {-1} \cup Interval
           /\ \A s \in S : Timeout[s] > 0 =>
                 /\ CheckInterval(S) \in Interval
                 /\ Timeout[s] < Second => CheckInterval(S) = Second
                 /\ Timeout[s] >= Second => CheckInterval(S) <= Timeout[s]
  <1> DEFINE timeouts == {Timeout[s] : s \in S} \ {0}
  <1>1. CASE timeouts = {}
    BY <1>1, TimeoutsAssumption DEF CheckInterval
  <1>2. CASE timeouts # {}
    <2>1. timeouts \subseteq Nat
      BY TimeoutsAssumption
    <2>2. Min(timeouts) \in timeouts /\ \A y \in timeouts : Min(timeouts) <= y
      BY <1>2, <2>1, MinIsLeast
    <2>3. CheckInterval(S) = Max({Second, Min(timeouts)})
      BY <1>2 DEF CheckInterval
    <2> HIDE DEF timeouts
    <2>4. Max({Second, Min(timeouts)}) =
             IF Second >= Min(timeouts) THEN Second ELSE Min(timeouts)
      BY <2>1, <2>2, TimeoutsAssumption DEF Max
    <2>5. CheckInterval(S) \in Interval
      <3>1. PICK s \in S : Min(timeouts) = Timeout[s]
        BY <2>2 DEF timeouts
      <3>2. Min(timeouts) > Second => Min(timeouts) \in Interval
        BY <3>1 DEF Interval
      <3>3. Min(timeouts) \in Nat /\ Second \in Nat
        BY <2>1, <2>2, TimeoutsAssumption
      <3>4. Second \in Interval
        BY DEF Interval
      <3> QED
        BY <2>3, <2>4, <3>2, <3>3, <3>4
    <2>6. ASSUME NEW s \in S, Timeout[s] > 0
          PROVE  /\ Timeout[s] < Second => CheckInterval(S) = Second
                 /\ Timeout[s] >= Second => CheckInterval(S) <= Timeout[s]
      <3>1. Timeout[s] \in timeouts
        BY <2>6 DEF timeouts
      <3>2. Min(timeouts) <= Timeout[s]
        BY <2>2, <3>1
      <3>3. Min(timeouts) \in Nat /\ Second \in Nat /\ Timeout[s] \in Nat
        BY <2>1, <2>2, TimeoutsAssumption
      <3> QED
        BY <2>3, <2>4, <3>2, <3>3
    <2> QED
      BY <2>5, <2>6
  <1> QED
    BY <1>1, <1>2

\* setupTimeouts() computes the maximum without a remainder.
LEMMA MaxExact ==
    ASSUME Commensurate, NEW S \in SUBSET Sensor, NEW s \in S, Timeout[s] > 0,
           NEW i, i = CheckInterval(S)
    PROVE  /\ ChecksMax(s, i) \in Nat
           /\ Timeout[s] < Second => ChecksMax(s, i) = 1
           /\ Timeout[s] >= Second => Timeout[s] = ChecksMax(s, i) * i
  <1>1. /\ i \in Interval /\ Interval \subseteq Nat \ {0} /\ Timeout[s] \in Nat
        /\ Timeout[s] < Second => i = Second
        /\ Timeout[s] >= Second => i <= Timeout[s] /\ Timeout[s] \in Interval
    BY CheckIntervalFits, TimeoutsAssumption DEF Interval
  <1>2. ChecksMax(s, i) = (Timeout[s] + i - 1) \div i
    BY <1>1 DEF ChecksMax
  <1>3. CASE Timeout[s] < Second
    <2>1. (Timeout[s] + i - 1) \div i = 1
      BY <1>1, <1>3
    <2> QED
      BY <1>1, <1>2, <1>3, <2>1
  <1>4. CASE Timeout[s] >= Second
    <2>1. PICK k \in Nat : Timeout[s] = k * i
      BY <1>1, <1>4 DEF Commensurate
    <2>2. (k * i + i - 1) \div i = k
      BY <1>1, Quotient
    <2> QED
      BY <1>1, <1>2, <1>4, <2>1, <2>2
  <1> QED
    BY <1>1, <1>3, <1>4, TimeoutsAssumption

\* Rescaling keeps a count that is within the maximum within the new one.
LEMMA RescaledFits ==
    ASSUME Commensurate, NEW last \in Interval, NEW i \in Interval,
           NEW max \in Nat, NEW new \in Nat, max * last = new * i,
           NEW n \in Nat, n <= max
    PROVE  Rescaled(n, last, i) \in Nat /\ Rescaled(n, last, i) <= new
  <1>1. Interval \subseteq Nat \ {0}
    BY TimeoutsAssumption DEF Interval
  <1>2. CASE i < last
    <2>1. PICK k \in Nat : last = k * i
      BY <1>1, <1>2 DEF Commensurate
    <2>2. Rescaled(n, last, i) = n * k
      BY <1>1, <1>2, <2>1, Quotient DEF Rescaled
    <2>3. (max * k) * i = new * i
      BY <1>1, <2>1
    <2>4. max * k <= new
      BY <1>1, <2>3, Cancel
    <2>5. n * k <= max * k
      OBVIOUS
    <2> QED
      BY <2>2, <2>4, <2>5
  <1>3. CASE i > last
    <2>1. PICK k \in Nat : i = k * last
      BY <1>1, <1>3 DEF Commensurate
    <2>2. k # 0
      BY <1>1, <2>1
    <2>3. Rescaled(n, last, i) = n \div k
      <3>1. i \div last = k
        BY <1>1, <2>1, Quotient
      <3> QED
        BY <1>1, <1>3, <3>1 DEF Rescaled
    <2>4. max * last = (new * k) * last
      BY <1>1, <2>1
    <2>5. n <= new * k
      BY <1>1, <2>4, Cancel
    <2>6. n \div k \in Nat /\ n \div k <= new
      BY <2>2, <2>5
    <2> QED
      BY <2>3, <2>6
  <1>4. CASE i = last
    <2>1. max <= new
      BY <1>1, <1>4, Cancel
    <2> QED
      BY <1>1, <1>4, <2>1 DEF Rescaled
  <1> QED
    BY <1>1, <1>2, <1>3, <1>4

\* A rescaled count is a count.
LEMMA RescaledNat ==
    ASSUME NEW n \in Nat, NEW last \in {-1, 0} \cup Interval, NEW i \in Interval
    PROVE  Rescaled(n, last, i) \in Nat
  <1>1. Interval \subseteq Nat \ {0}
    BY TimeoutsAssumption DEF Interval
  <1>2. CASE i < last
    <2>1. last \div i \in Nat
      BY <1>1, <1>2
    <2>2. Rescaled(n, last, i) = n * (last \div i)
      BY <1>1, <1>2 DEF Rescaled
    <2> QED
      BY <2>1, <2>2
  <1>3. CASE i > last /\ last > 0
    <2>1. i \div last \in Nat \ {0}
      BY <1>1, <1>3
    <2>2. Rescaled(n, last, i) = n \div (i \div last)
      BY <1>1, <1>3 DEF Rescaled
    <2>3. \A d \in Nat \ {0} : n \div d \in Nat
      OBVIOUS
    <2> QED
      BY <2>1, <2>2, <2>3
  <1>4. CASE ~(i < last) /\ ~(i > last /\ last > 0)
    BY <1>4 DEF Rescaled
  <1> QED
    BY <1>2, <1>3, <1>4

-----------------------------------------------------------------------------
(* The inductive invariant.                                                *)

\* Nothing is polled at first.
LEMMA CountInit == Init => CountInv
  BY DEF Init, CountInv

\* handlePollingChange(), whatever leaves and comes.
LEMMA CountChange ==
    ASSUME Commensurate, CountInv, Change PROVE CountInv'
  <1>1. PICK failed \in SUBSET polled, added \in SUBSET (Sensor \ polled) :
           HandlePollingChange(failed, added)
    BY DEF Change
  <1> DEFINE left == polled \ (timedOut \cup failed)
             S == left \cup added
             i == CheckInterval(S)
             n(s) == IF s \in left THEN nTimeoutChecks[s] ELSE 0
             last(s) == IF s \in left THEN lastCheckInterval[s] ELSE 0
  <1>2. /\ polled' = S /\ checkInterval' = i
        /\ nTimeoutChecks' = [s \in Sensor |->
              IF s \in S /\ i > 0 THEN Rescaled(n(s), last(s), i) ELSE 0]
        /\ nTimeoutChecksMax' = [s \in Sensor |->
              IF s \in S /\ i > 0 THEN ChecksMax(s, i)
              ELSE IF s \in left THEN nTimeoutChecksMax[s] ELSE -1]
        /\ lastCheckInterval' = [s \in Sensor |-> IF s \in S THEN i ELSE 0]
    BY <1>1 DEF HandlePollingChange
  <1>3. S \subseteq Sensor /\ left \subseteq polled /\ left \subseteq S
    BY DEF CountInv
  <1>4. /\ i \in {-1} \cup Interval
        /\ \A s \in S : Timeout[s] > 0 =>
              /\ i \in Interval
              /\ Timeout[s] < Second => i = Second
    BY <1>3, CheckIntervalFits
  <1>5. Interval \subseteq Nat \ {0}
    BY TimeoutsAssumption DEF Interval
  <1>6. ASSUME NEW s \in Sensor
        PROVE  n(s) \in Nat /\ last(s) \in {-1, 0} \cup Interval
    BY <1>3 DEF CountInv
  <1> HIDE DEF S, i, n, last
  <1>7. nTimeoutChecks' \in [Sensor -> Nat]
    <2>1. ASSUME NEW s \in Sensor, i > 0 PROVE Rescaled(n(s), last(s), i) \in Nat
      <3>1. i \in Interval
        BY <1>4, <2>1
      <3> QED
        BY <1>6, <3>1, RescaledNat
    <2> QED
      BY <1>2, <2>1
  <1>8. ASSUME NEW s \in S, Timeout[s] > 0
        PROVE  /\ i \in Interval /\ (Exact(s))'
               /\ nTimeoutChecks'[s] <= nTimeoutChecksMax'[s]
    <2>1. s \in Sensor /\ i \in Interval /\ i > 0
      BY <1>3, <1>4, <1>5, <1>8
    <2>2. /\ nTimeoutChecks'[s] = Rescaled(n(s), last(s), i)
          /\ nTimeoutChecksMax'[s] = ChecksMax(s, i)
      BY <1>2, <1>8, <2>1
    <2>3. /\ ChecksMax(s, i) \in Nat
          /\ Timeout[s] < Second => ChecksMax(s, i) = 1
          /\ Timeout[s] >= Second => Timeout[s] = ChecksMax(s, i) * i
      BY <1>3, <1>8, MaxExact DEF i
    <2>4. (Exact(s))'
      BY <1>2, <1>4, <1>8, <2>2, <2>3 DEF Exact
    <2>5. CASE s \in left
      <3>1. /\ n(s) = nTimeoutChecks[s] /\ last(s) = checkInterval
            /\ checkInterval \in Interval /\ Exact(s)
            /\ n(s) \in Nat /\ n(s) <= nTimeoutChecksMax[s]
        BY <1>3, <1>8, <2>1, <2>5 DEF CountInv, n, last
      <3>2. CASE Timeout[s] < Second
        <4>1. i = last(s) /\ nTimeoutChecksMax[s] = 1
          BY <1>4, <1>8, <3>1, <3>2 DEF Exact
        <4>2. Rescaled(n(s), last(s), i) = n(s)
          BY <1>5, <2>1, <4>1 DEF Rescaled
        <4> QED
          BY <2>1, <2>2, <2>3, <2>4, <3>1, <3>2, <4>1, <4>2
      <3>3. CASE Timeout[s] >= Second
        <4>1. /\ nTimeoutChecksMax[s] \in Nat
              /\ nTimeoutChecksMax[s] * last(s) = ChecksMax(s, i) * i
          BY <2>3, <3>1, <3>3 DEF Exact
        <4>2. Rescaled(n(s), last(s), i) <= ChecksMax(s, i)
          BY <2>1, <2>3, <3>1, <4>1, RescaledFits
        <4> QED
          BY <2>1, <2>2, <2>4, <4>2
      <3> QED
        BY <2>1, <3>2, <3>3, TimeoutsAssumption
    <2>6. CASE s \notin left
      <3>1. n(s) = 0 /\ last(s) = 0
        BY <2>6 DEF n, last
      <3>2. Rescaled(n(s), last(s), i) = 0
        BY <1>5, <2>1, <3>1 DEF Rescaled
      <3> QED
        BY <2>1, <2>2, <2>3, <2>4, <3>2
    <2> QED
      BY <2>5, <2>6
  <1> QED
    BY <1>2, <1>3, <1>4, <1>7, <1>8 DEF CountInv

\* checkTimeouts(), whatever was read.
LEMMA CountPoll ==
    ASSUME CountInv, Poll PROVE CountInv'
  <1>1. PICK read \in SUBSET polled :
           LET n(s) == IF s \in read THEN 0 ELSE nTimeoutChecks[s]
               check == checkInterval > 0 /\ due < 0
               out == {s \in polled : check /\ CheckTimeout(s, n(s))} IN
           nTimeoutChecks' = [s \in Sensor |->
              IF s \in out THEN 0
              ELSE n(s) + IF s \in polled /\ check THEN 1 ELSE 0]
    BY DEF Poll
  <1>2. UNCHANGED <<polled, nTimeoutChecksMax, lastCheckInterval, checkInterval>>
    BY DEF Poll
  <1> DEFINE n(s) == IF s \in read THEN 0 ELSE nTimeoutChecks[s]
             check == checkInterval > 0 /\ due < 0
             out == {s \in polled : check /\ CheckTimeout(s, n(s))}
  <1>3. \A s \in Sensor : nTimeoutChecks'[s] =
           IF s \in out THEN 0 ELSE n(s) + IF s \in polled /\ check THEN 1 ELSE 0
    BY <1>1
  <1>4. \A s \in Sensor : n(s) \in Nat /\ n(s) <= nTimeoutChecks[s]
    BY DEF CountInv
  <1>5. nTimeoutChecks' \in [Sensor -> Nat]
    BY <1>1, <1>4
  <1>6. ASSUME NEW s \in polled, Timeout[s] > 0
        PROVE  nTimeoutChecks'[s] <= nTimeoutChecksMax[s]
    <2>1. /\ s \in Sensor /\ nTimeoutChecksMax[s] \in Nat
          /\ n(s) \in Nat /\ n(s) <= nTimeoutChecksMax[s]
      BY <1>4, <1>6 DEF CountInv, Exact
    <2>2. check /\ n(s) = nTimeoutChecksMax[s] => s \in out
      BY <1>6 DEF CheckTimeout
    <2> HIDE DEF n, check, out
    <2> QED
      BY <1>3, <2>1, <2>2
  <1> QED
    BY <1>2, <1>5, <1>6 DEF CountInv, Exact

\* When every timeout is a multiple of the shorter ones, a quiet sensor reaches
\* the count at which checkTimeout() finds it: setupTimeouts() never carries the
\* count beyond, however often sensors come and go.
THEOREM CountNeverPasses ==
    ASSUME Commensurate PROVE Spec => []CountReachesMax
  <1>1. CountInv /\ [Next]_vars => CountInv'
    <2> SUFFICES ASSUME CountInv, [Next]_vars PROVE CountInv'
      OBVIOUS
    <2>1. CASE Tick
      BY <2>1 DEF Tick, CountInv, Exact
    <2>2. CASE UNCHANGED vars
      BY <2>2 DEF vars, CountInv, Exact
    <2> QED
      BY <2>1, <2>2, CountChange, CountPoll DEF Next
  <1>2. CountInv => CountReachesMax
    BY DEF CountInv, CountReachesMax
  <1> QED
    BY <1>1, <1>2, CountInit, PTL DEF Spec

-----------------------------------------------------------------------------
(* When a quiet sensor is found.                                           *)

\* The clock of the checks: epoll_pwait() lasts no longer than an interval, and
\* when it started, _sensorCheckTime was not in the past.
ClockInv ==
    /\ checkInterval \in Nat \ {0} /\ inPoll \in Nat /\ due \in Int
    /\ inPoll <= checkInterval /\ due <= checkInterval /\ due + inPoll >= 0

\* What the checks of s since its last data say about how long it is quiet: a
\* check per interval, but for the one that may still come, or that came in the
\* same turn as the data; for a sensor found, at the check that found it.
Measured(s) ==
    LET max == nTimeoutChecksMax[s] * checkInterval
        n == nTimeoutChecks[s] * checkInterval IN
    /\ nTimeoutChecksMax[s] \in Nat
    /\ Timeout[s] <= max /\ max < Timeout[s] + checkInterval
    /\ IF s \in timedOut
       THEN max - checkInterval < quiet[s] /\ quiet[s] <= max + 2 * checkInterval
       ELSE /\ nTimeoutChecks[s] <= nTimeoutChecksMax[s]
            /\ n - checkInterval <= quiet[s] + due
            /\ quiet[s] + due <= n + checkInterval

\* The inductive invariant, of the first set of sensors.
QuietInv ==
    /\ changes \in Nat /\ now \in Nat
    /\ changes = 0 => polled = {}
    /\ changes = 1 =>
          /\ polled \subseteq Sensor /\ timedOut \subseteq polled
          /\ nTimeoutChecks \in [Sensor -> Nat] /\ quiet \in [Sensor -> Nat]
          /\ \A s \in timedOut : Timeout[s] > 0
          /\ checkInterval > 0 => ClockInv
          /\ checkInterval \in Int
          /\ \A s \in polled : Timeout[s] > 0 => checkInterval > 0 /\ Measured(s)

\* _nTimeoutChecksMax intervals are the timeout, rounded up.
LEMMA Ceiling ==
    ASSUME NEW t \in Nat, NEW i \in Nat \ {0}
    PROVE  LET m == (t + i - 1) \div i IN
           m \in Nat /\ t <= m * i /\ m * i < t + i
  OBVIOUS

\* handlePollingChange() opens the first sensors with all counts zero.
LEMMA QuietChange ==
    ASSUME QuietInv, Change PROVE QuietInv'
  <1>1. PICK failed \in SUBSET polled, added \in SUBSET (Sensor \ polled) :
           HandlePollingChange(failed, added)
    BY DEF Change
  <1>2. changes' = changes + 1 /\ changes \in Nat /\ now' = now /\ now \in Nat
    BY <1>1 DEF HandlePollingChange, QuietInv
  <1>3. SUFFICES ASSUME changes = 0 PROVE QuietInv'
    BY <1>2 DEF QuietInv
  <1>4. polled \ (timedOut \cup failed) = {}
    BY <1>3 DEF QuietInv
  <1> DEFINE S == added
             i == CheckInterval(S)
  <1>5. /\ polled' = S /\ checkInterval' = i /\ timedOut' = {} /\ inPoll' = 0
        /\ due' = IF i > 0 THEN TimeCeiling(i) ELSE due
        /\ nTimeoutChecks' = [s \in Sensor |->
              IF s \in S /\ i > 0 THEN Rescaled(0, 0, i) ELSE 0]
        /\ nTimeoutChecksMax' = [s \in Sensor |->
              IF s \in S /\ i > 0 THEN ChecksMax(s, i) ELSE -1]
        /\ quiet' = [s \in Sensor |-> 0]
    BY <1>1, <1>4, Zenon DEF HandlePollingChange
  <1>6. S \subseteq Sensor
    OBVIOUS
  <1>7. /\ i \in {-1} \cup Interval /\ Interval \subseteq Nat \ {0}
        /\ \A s \in S : Timeout[s] > 0 => i \in Interval
    BY <1>6, CheckIntervalFits, TimeoutsAssumption DEF Interval
  <1> HIDE DEF S, i
  <1>8. i > 0 => Rescaled(0, 0, i) = 0
    BY <1>7 DEF Rescaled
  <1>9. nTimeoutChecks' = [s \in Sensor |-> 0]
    BY <1>5, <1>8
  <1>10. i > 0 => due' \in 1..i
    <2>1. i > 0 => now % i \in 0..(i - 1)
      BY <1>7 DEF QuietInv
    <2> QED
      BY <1>5, <1>7, <2>1 DEF TimeCeiling
  <1>11. i > 0 => ClockInv'
    BY <1>5, <1>7, <1>10 DEF ClockInv
  <1>12. ASSUME NEW s \in S, Timeout[s] > 0 PROVE i > 0 /\ Measured(s)'
    <2>1. s \in Sensor /\ i \in Nat \ {0} /\ Timeout[s] \in Nat
      BY <1>6, <1>7, <1>12, TimeoutsAssumption
    <2>2. nTimeoutChecksMax'[s] = (Timeout[s] + i - 1) \div i
      BY <1>5, <1>12, <2>1 DEF ChecksMax
    <2>3. /\ nTimeoutChecksMax'[s] \in Nat
          /\ Timeout[s] <= nTimeoutChecksMax'[s] * i
          /\ nTimeoutChecksMax'[s] * i < Timeout[s] + i
      BY <2>1, <2>2, Ceiling
    <2>4. nTimeoutChecks'[s] = 0 /\ quiet'[s] = 0 /\ s \notin timedOut'
      BY <1>5, <1>9, <2>1
    <2>5. 0 * i = 0
      BY <2>1
    <2> QED
      BY <1>5, <1>10, <2>1, <2>3, <2>4, <2>5 DEF Measured
  <1> QED
    BY <1>2, <1>3, <1>5, <1>6, <1>7, <1>9, <1>11, <1>12 DEF QuietInv

\* Time passes: what is quiet is so for longer, and the check is nearer.
LEMMA QuietTick ==
    ASSUME QuietInv, Tick PROVE QuietInv'
  <1>1. /\ changes' = changes /\ polled' = polled /\ timedOut' = timedOut
        /\ timedOut = {}
        /\ UNCHANGED <<nTimeoutChecks, nTimeoutChecksMax, checkInterval>>
        /\ quiet' = [s \in Sensor |-> quiet[s] + IF s \in polled THEN 1 ELSE 0]
    BY DEF Tick
  <1>2. now' \in Nat
    BY TimeoutsAssumption DEF Tick, QuietInv
  <1>3. SUFFICES ASSUME changes = 1 PROVE QuietInv'
    BY <1>1, <1>2 DEF QuietInv
  <1>4. quiet' \in [Sensor -> Nat]
    BY <1>1, <1>3 DEF QuietInv
  <1>5. checkInterval > 0 => /\ due' = due - 1 /\ inPoll' = inPoll + 1
                             /\ inPoll < checkInterval /\ ClockInv
    BY <1>3 DEF Tick, QuietInv
  <1>6. checkInterval > 0 => ClockInv'
    BY <1>1, <1>5 DEF ClockInv
  <1>7. ASSUME NEW s \in polled, Timeout[s] > 0
        PROVE  checkInterval > 0 /\ Measured(s)'
    <2>1. checkInterval > 0 /\ Measured(s) /\ s \in Sensor
      BY <1>3, <1>7 DEF QuietInv
    <2>2. quiet'[s] = quiet[s] + 1 /\ quiet[s] \in Nat
      BY <1>1, <1>3, <1>7, <2>1 DEF QuietInv
    <2>3. quiet'[s] + due' = quiet[s] + due
      BY <1>5, <2>1, <2>2 DEF ClockInv
    <2> QED
      BY <1>1, <2>1, <2>3 DEF Measured
  <1> QED
    BY <1>1, <1>2, <1>3, <1>4, <1>6, <1>7 DEF QuietInv

\* epoll_pwait() returns, and the sensors are checked if it is time.
LEMMA QuietPoll ==
    ASSUME QuietInv, Poll PROVE QuietInv'
  <1>1. /\ UNCHANGED <<changes, now, polled, nTimeoutChecksMax, checkInterval>>
        /\ timedOut = {} /\ inPoll' = 0
    BY DEF Poll
  <1>2. SUFFICES ASSUME changes = 1 PROVE QuietInv'
    <2>1. changes # 1 => QuietInv'
      BY <1>1 DEF QuietInv
    <2> QED
      BY <2>1
  <1>3. PICK read \in SUBSET polled :
           LET n(s) == IF s \in read THEN 0 ELSE nTimeoutChecks[s]
               check == checkInterval > 0 /\ due < 0
               out == {s \in polled : check /\ CheckTimeout(s, n(s))}
               next == due + checkInterval IN
           /\ timedOut' = out
           /\ nTimeoutChecks' = [s \in Sensor |->
                 IF s \in out THEN 0
                 ELSE n(s) + IF s \in polled /\ check THEN 1 ELSE 0]
           /\ due' = IF ~check THEN due
                     ELSE IF next < 0 THEN TimeCeiling(checkInterval) ELSE next
           /\ quiet' = [s \in Sensor |-> IF s \in read THEN 0 ELSE quiet[s]]
    BY DEF Poll
  <1> DEFINE n(s) == IF s \in read THEN 0 ELSE nTimeoutChecks[s]
             check == checkInterval > 0 /\ due < 0
             out == {s \in polled : check /\ CheckTimeout(s, n(s))}
             q(s) == IF s \in read THEN 0 ELSE quiet[s]
  <1>4. polled \subseteq Sensor /\ checkInterval \in Int
    BY <1>2 DEF QuietInv
  <1>5. /\ timedOut' = out
        /\ \A s \in Sensor : /\ quiet'[s] = q(s)
                             /\ nTimeoutChecks'[s] =
                                  IF s \in out THEN 0
                                  ELSE n(s) + IF s \in polled /\ check THEN 1 ELSE 0
    BY <1>3
  <1>6. \A s \in Sensor : n(s) \in Nat /\ q(s) \in Nat
    BY <1>2 DEF QuietInv
  <1>7. nTimeoutChecks' \in [Sensor -> Nat] /\ quiet' \in [Sensor -> Nat]
    BY <1>3, <1>6
  <1>8. /\ timedOut' \subseteq polled
        /\ \A s \in timedOut' : check /\ Timeout[s] > 0 /\ n(s) = nTimeoutChecksMax[s]
    BY <1>5 DEF CheckTimeout
  <1>9. checkInterval > 0 => ClockInv
    BY <1>2 DEF QuietInv
  <1>10. checkInterval > 0 => due' = IF due < 0 THEN due + checkInterval ELSE due
    <2>1. checkInterval > 0 => due + checkInterval >= 0
      BY <1>9 DEF ClockInv
    <2>2. due' = IF ~check THEN due
                 ELSE IF due + checkInterval < 0 THEN TimeCeiling(checkInterval)
                 ELSE due + checkInterval
      BY <1>3
    <2> QED
      BY <1>9, <2>1, <2>2 DEF ClockInv
  <1>11. checkInterval > 0 => ClockInv'
    BY <1>1, <1>9, <1>10 DEF ClockInv
  <1>12. ASSUME NEW s \in polled, Timeout[s] > 0
         PROVE  checkInterval > 0 /\ Measured(s)'
    <2>1. /\ checkInterval > 0 /\ Measured(s) /\ s \in Sensor /\ Timeout[s] \in Nat
          /\ n(s) \in Nat /\ q(s) \in Nat
      BY <1>2, <1>6, <1>12, TimeoutsAssumption DEF QuietInv
    <2> DEFINE i == checkInterval
               max == nTimeoutChecksMax[s]
    <2>2. /\ i \in Nat \ {0} /\ due \in Int /\ due <= i /\ due >= -i
          /\ max \in Nat /\ Timeout[s] <= max * i /\ max * i < Timeout[s] + i
      BY <1>9, <2>1 DEF ClockInv, Measured
    \* Before the check, with what has been read.
    <2>3. /\ n(s) <= max /\ n(s) * i - i <= q(s) + due /\ q(s) + due <= n(s) * i + i
      <3>1. CASE s \in read
        BY <2>2, <3>1
      <3>2. CASE s \notin read
        BY <1>1, <2>1, <3>2 DEF Measured
      <3> QED
        BY <3>1, <3>2
    <2>4. s \in out <=> due < 0 /\ n(s) = max
      BY <1>12, <2>1 DEF CheckTimeout
    <2>5. /\ quiet'[s] = q(s)
          /\ nTimeoutChecks'[s] = IF s \in out THEN 0
                                  ELSE n(s) + IF due < 0 THEN 1 ELSE 0
          /\ due' = IF due < 0 THEN due + i ELSE due
      BY <1>5, <1>10, <1>12, <2>1
    <2>6. (n(s) + 1) * i = n(s) * i + i
      BY <2>1, <2>2
    <2>7. /\ nTimeoutChecksMax'[s] = max /\ checkInterval' = i
          /\ s \in timedOut' <=> s \in out
      BY <1>1, <1>5
    <2> HIDE DEF n, q, out, i, max
    <2>8. CASE s \in out
      BY <2>1, <2>2, <2>3, <2>4, <2>5, <2>7, <2>8 DEF Measured
    <2>9. CASE s \notin out /\ due < 0
      BY <2>1, <2>2, <2>3, <2>4, <2>5, <2>6, <2>7, <2>9 DEF Measured
    <2>10. CASE s \notin out /\ ~(due < 0)
      BY <2>1, <2>2, <2>3, <2>4, <2>5, <2>7, <2>10 DEF Measured
    <2> QED
      BY <2>1, <2>8, <2>9, <2>10
  <1> QED
    BY <1>1, <1>2, <1>4, <1>7, <1>8, <1>11, <1>12 DEF QuietInv

\* The invariant of the first set of sensors holds, whatever the timeouts are.
LEMMA QuietInductive == Spec => []QuietInv
  <1>1. Init => QuietInv
    BY TimeoutsAssumption DEF Init, QuietInv
  <1>2. QuietInv /\ [Next]_vars => QuietInv'
    <2>1. QuietInv /\ UNCHANGED vars => QuietInv'
      BY DEF vars, QuietInv, Measured, ClockInv
    <2> QED
      BY <2>1, QuietChange, QuietTick, QuietPoll DEF Next
  <1> QED
    BY <1>1, <1>2, PTL DEF Spec

\* As long as no sensor comes or goes, a sensor that sends nothing is found
\* within three check intervals of its timeout, for any timeouts: reading other
\* sensors, which ends epoll_pwait() early, delays no check beyond that.
THEOREM QuietFound == Spec => []QuietIsFound
  <1>1. QuietInv => QuietIsFound
    <2> SUFFICES ASSUME QuietInv, changes = 1, NEW s \in polled, Timeout[s] > 0
                 PROVE  quiet[s] <= Timeout[s] + 3 * checkInterval
      BY DEF QuietIsFound
    <2>1. /\ s \in Sensor /\ Timeout[s] \in Nat /\ quiet[s] \in Nat
          /\ nTimeoutChecks[s] \in Nat /\ ClockInv /\ Measured(s)
      BY TimeoutsAssumption DEF QuietInv
    <2>2. /\ checkInterval \in Nat \ {0} /\ due \in Int /\ -checkInterval <= due
          /\ nTimeoutChecksMax[s] \in Nat
          /\ nTimeoutChecksMax[s] * checkInterval < Timeout[s] + checkInterval
      BY <2>1 DEF ClockInv, Measured
    <2>3. CASE s \in timedOut
      BY <2>1, <2>2, <2>3 DEF Measured
    <2>4. CASE s \notin timedOut
      <3>1. nTimeoutChecks[s] * checkInterval <= nTimeoutChecksMax[s] * checkInterval
        BY <2>1, <2>2, <2>4, Order DEF Measured
      <3> QED
        BY <2>1, <2>2, <2>4, <3>1 DEF Measured
    <2> QED
      BY <2>3, <2>4
  <1> QED
    BY <1>1, QuietInductive, PTL

\* As long as no sensor comes or goes, a sensor that checkTimeouts() closes has
\* been quiet for its timeout, short of less than one check interval.
THEOREM NotFoundTooEarly == Spec => []NotTooEarly
  <1>1. QuietInv => NotTooEarly
    <2> SUFFICES ASSUME QuietInv, changes = 1, NEW s \in timedOut
                 PROVE  quiet[s] > Timeout[s] - checkInterval
      BY DEF NotTooEarly
    <2>1. /\ s \in Sensor /\ Timeout[s] \in Nat /\ quiet[s] \in Nat
          /\ ClockInv /\ Measured(s)
      BY TimeoutsAssumption DEF QuietInv
    <2> QED
      BY <2>1 DEF Measured, ClockInv
  <1> QED
    BY <1>1, QuietInductive, PTL
=============================================================================
