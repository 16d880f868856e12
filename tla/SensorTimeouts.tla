--------------------------- MODULE SensorTimeouts ---------------------------
(***************************************************************************)
(* How SensorHandler finds out that a sensor has gone quiet.  The handler  *)
(* checks all polled sensors once per check interval, the smallest timeout *)
(* of the sensors polled; PolledDSMSensor counts the checks since its last *)
(* data.  Whenever a sensor comes or goes the interval may change, and the *)
(* counts are rescaled.                                                    *)
(*                                                                         *)
(* Time passes in ticks; nothing else takes time.  The clock is kept       *)
(* modulo Period, a multiple of every interval, and _sensorCheckTime       *)
(* relative to it.                                                         *)
(***************************************************************************)
EXTENDS Integers, FiniteSets, FiniteSetsExt

CONSTANTS
    Sensor,
    Timeout,       \* getTimeoutMsecs() of each sensor, in ticks; 0: none
    Second,        \* the ticks in a second, the smallest check interval
    Period,        \* the clock is kept modulo Period
    MaxChanges,    \* bound: how often the set of polled sensors changes
    MaxQuiet       \* bound: for how many ticks a sensor is quiet

ASSUME TimeoutsAssumption ==
    /\ IsFiniteSet(Sensor)
    /\ Timeout \in [Sensor -> Nat]
    /\ Second \in Nat \ {0} /\ Period \in Nat \ {0}
    /\ \A s \in Sensor : Timeout[s] > Second => Period % Timeout[s] = 0
    /\ Period % Second = 0

VARIABLES
    polled,             \* _polledSensors
    nTimeoutChecks,     \* of each PolledDSMSensor
    nTimeoutChecksMax,
    lastCheckInterval,
    checkInterval,      \* _sensorCheckIntervalMsecs
    due,                \* _sensorCheckTime - now
    now,                \* the time, modulo Period
    inPoll,             \* for how long the handler has been in epoll_pwait()
    timedOut,           \* _pendingSensorReopens
    quiet,              \* the ticks since the sensor was opened or last read
    changes             \* the changes of polled so far

vars == <<polled, nTimeoutChecks, nTimeoutChecksMax, lastCheckInterval,
          checkInterval, due, now, inPoll, timedOut, quiet, changes>>

Init ==
    /\ polled = {} /\ timedOut = {}
    /\ nTimeoutChecks = [s \in Sensor |-> 0]
    /\ nTimeoutChecksMax = [s \in Sensor |-> -1]
    /\ lastCheckInterval = [s \in Sensor |-> 0]
    /\ checkInterval = -1 /\ due = 0
    /\ now \in 0 .. Period - 1 /\ inPoll = 0
    /\ quiet = [s \in Sensor |-> 0]
    /\ changes = 0

\* The smallest multiple of delta after now, relative to now.
TimeCeiling(delta) == delta - (now % delta)

\* The smallest timeout of the sensors in S, but not less than a second.
CheckInterval(S) ==
    LET timeouts == {Timeout[s] : s \in S} \ {0} IN
    IF timeouts = {} THEN -1 ELSE Max({Second, Min(timeouts)})

\* PolledDSMSensor::setupTimeouts(): _nTimeoutChecksMax ...
ChecksMax(s, interval) ==
    IF Timeout[s] = 0 THEN -1 ELSE (Timeout[s] + interval - 1) \div interval

\* Mutant: the count is not rescaled when the interval grows.
RescaledDown(n, last, interval) ==
    IF interval < last THEN n * (last \div interval) ELSE n

\* ... and _nTimeoutChecks, after n checks at the interval last.
Rescaled(n, last, interval) ==
    CASE interval < last -> n * (last \div interval)
      [] interval > last /\ last > 0 -> n \div (interval \div last)
      [] OTHER -> n

\* handlePollingChange(): sensors that timed out or failed are deleted, opened
\* ones are wrapped in a new PolledDSMSensor, and then setupTimeouts().
HandlePollingChange(failed, added) ==
    LET left == polled \ (timedOut \cup failed)
        S == left \cup added
        interval == CheckInterval(S)
        n(s) == IF s \in left THEN nTimeoutChecks[s] ELSE 0
        last(s) == IF s \in left THEN lastCheckInterval[s] ELSE 0 IN
    /\ polled' = S
    /\ checkInterval' = interval
    /\ due' = IF interval > 0 THEN TimeCeiling(interval) ELSE due
    /\ nTimeoutChecks' = [s \in Sensor |->
          IF s \in S /\ interval > 0 THEN Rescaled(n(s), last(s), interval)
          ELSE 0]
    /\ nTimeoutChecksMax' = [s \in Sensor |->
          IF s \in S /\ interval > 0 THEN ChecksMax(s, interval)
          ELSE IF s \in left THEN nTimeoutChecksMax[s] ELSE -1]
    /\ lastCheckInterval' = [s \in Sensor |-> IF s \in S THEN interval ELSE 0]
    /\ quiet' = [s \in Sensor |-> IF s \in left THEN quiet[s] ELSE 0]
    /\ timedOut' = {}
    /\ inPoll' = 0
    /\ changes' = changes + 1
    /\ UNCHANGED now

Change ==
    /\ changes < MaxChanges
    /\ \E failed \in SUBSET polled, added \in SUBSET (Sensor \ polled) :
          /\ timedOut \cup failed \cup added # {}
          /\ HandlePollingChange(failed, added)

\* Time passes while the handler is in epoll_pwait(), which returns when it
\* has lasted for the check interval.
Tick ==
    /\ timedOut = {}
    /\ checkInterval > 0 => inPoll < checkInterval
    /\ \A s \in polled : quiet[s] < MaxQuiet
    /\ now' = (now + 1) % Period
    /\ due' = IF checkInterval > 0 THEN due - 1 ELSE due
    /\ inPoll' = IF checkInterval > 0 THEN inPoll + 1 ELSE 0
    /\ quiet' = [s \in Sensor |-> quiet[s] + IF s \in polled THEN 1 ELSE 0]
    /\ UNCHANGED <<polled, nTimeoutChecks, nTimeoutChecksMax,
                   lastCheckInterval, checkInterval, timedOut, changes>>

\* Mutant: the increment comes before the comparison.
CheckTimeoutPre(s, n) == n + 1 = nTimeoutChecksMax[s] /\ Timeout[s] > 0

\* PolledDSMSensor::checkTimeout(), after n checks.
CheckTimeout(s, n) == n = nTimeoutChecksMax[s] /\ Timeout[s] > 0

\* Mutant: no check when epoll_pwait() returns at its timeout.
PollOnlyData ==
    /\ timedOut = {}
    /\ \E read \in SUBSET polled :
          LET n(s) == IF s \in read THEN 0 ELSE nTimeoutChecks[s]
              check == checkInterval > 0 /\ due < 0 /\ read # {}
              out == {s \in polled : check /\ CheckTimeout(s, n(s))}
              next == due + checkInterval IN
          /\ read # {} \/ inPoll = checkInterval
          /\ timedOut' = out
          /\ nTimeoutChecks' = [s \in Sensor |->
                IF s \in out THEN 0
                ELSE n(s) + IF s \in polled /\ check THEN 1 ELSE 0]
          /\ due' = IF ~check THEN due
                    ELSE IF next < 0 THEN TimeCeiling(checkInterval) ELSE next
          /\ quiet' = [s \in Sensor |-> IF s \in read THEN 0 ELSE quiet[s]]
    /\ inPoll' = 0
    /\ UNCHANGED <<polled, nTimeoutChecksMax, lastCheckInterval,
                   checkInterval, now, changes>>

\* epoll_pwait() returns: read is read, then checkTimeouts() if it is due.
Poll ==
    /\ timedOut = {}
    /\ \E read \in SUBSET polled :
          LET n(s) == IF s \in read THEN 0 ELSE nTimeoutChecks[s]
              check == checkInterval > 0 /\ due < 0
              out == {s \in polled : check /\ CheckTimeout(s, n(s))}
              next == due + checkInterval IN
          /\ read # {} \/ inPoll = checkInterval
          /\ timedOut' = out
          /\ nTimeoutChecks' = [s \in Sensor |->
                IF s \in out THEN 0
                ELSE n(s) + IF s \in polled /\ check THEN 1 ELSE 0]
          /\ due' = IF ~check THEN due
                    ELSE IF next < 0 THEN TimeCeiling(checkInterval) ELSE next
          /\ quiet' = [s \in Sensor |-> IF s \in read THEN 0 ELSE quiet[s]]
    /\ inPoll' = 0
    /\ UNCHANGED <<polled, nTimeoutChecksMax, lastCheckInterval,
                   checkInterval, now, changes>>

Next == Change \/ Tick \/ Poll

Spec == Init /\ [][Next]_vars

-----------------------------------------------------------------------------
\* checkTimeout() compares for equality: a count beyond the maximum would never
\* reach it.
CountReachesMax ==
    \A s \in polled : Timeout[s] > 0 => nTimeoutChecks[s] <= nTimeoutChecksMax[s]

\* "If no data is received for this period, then the sensor is closed, and
\* re-opened": with the delay that checking once per interval allows, as long
\* as no sensor comes or goes.
QuietIsFound ==
    changes = 1 =>
        \A s \in polled :
            Timeout[s] > 0 => quiet[s] <= Timeout[s] + 3 * checkInterval

\* A sensor times out only when it has been quiet for its timeout, short of one
\* check interval, as long as no sensor comes or goes.
NotTooEarly ==
    changes = 1 =>
        \A s \in timedOut : quiet[s] > Timeout[s] - checkInterval

\* A sensor that stays quiet is found in the end, here within MaxQuiet ticks.
QuietNotForgotten ==
    \A s \in polled : Timeout[s] > 0 => quiet[s] < MaxQuiet

=============================================================================
