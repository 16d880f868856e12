---------------------------- MODULE SensorHandler ----------------------------
(***************************************************************************)
(* nidas::core::SensorHandler and SensorOpener: two threads that hand the  *)
(* sensors of a DSM to and fro.  The opener opens the sensors of its       *)
(* queues, one at a time, and gives them to the handler; the handler polls *)
(* them, and on an error or a timeout closes them and gives them back.     *)
(*                                                                         *)
(* A list or set of PolledDSMSensor pointers is a set of sensors: there is *)
(* one PolledDSMSensor for each sensor in polledSensors, and a pointer to  *)
(* it dangles once the sensor has left that set.  SIGUSR1 is blocked       *)
(* except in epoll_pwait(), so it stays pending until the next poll.       *)
(***************************************************************************)
EXTENDS Naturals, Sequences, FiniteSets

CONSTANTS
    Sensor,               \* the sensors of the DSM
    Conn,                 \* remote serial connections
    reopenOnIOException,  \* the sensors for which it returns true
    Timed,                \* the sensors with a timeout
    AddFails,             \* may epoll_ctl(EPOLL_CTL_ADD) fail?
    PollFails             \* may epoll_create() or epoll_pwait() fail?

\* Every class of sensors in the repository returns true.  One that did not, and
\* had a timeout, could fail and time out in one turn of the loop and be removed
\* twice.
ASSUME HandlerAssumption ==
    /\ reopenOnIOException \subseteq Sensor
    /\ Timed \subseteq reopenOnIOException
    /\ AddFails \in BOOLEAN
    /\ PollFails \in BOOLEAN

VARIABLES
    \* SensorOpener
    sensors,                 \* _sensors
    problemSensors,          \* _problemSensors
    opening,                 \* the local variable sensor, as a set
    openerPc,
    openerInterrupted,
    \* SensorHandler
    allSensors,              \* _allSensors
    newOpenedSensors,        \* _newOpenedSensors
    openedSensors,           \* _openedSensors
    polledSensors,           \* _polledSensors
    pendingSensorClosures,   \* _pendingSensorClosures
    pendingSensorReopens,    \* _pendingSensorReopens
    newRserials,             \* _newRserials
    pendingRserialClosures,  \* _pendingRserialClosures
    activeRserialConns,      \* _activeRserialConns
    listening,               \* _rserial is open
    pollingChanged,          \* _pollingChanged
    acceptingOpens,          \* _acceptingOpens
    runPc,
    interrupted,
    signalled,               \* SIGUSR1 is pending for the handler
    ownerPc,
    \* sensors and connections
    isOpen,                  \* the sensors whose device is open
    givenUp,                 \* sensors that no thread will open again
    unpolled,                \* opened, but adding them to the poll failed
    deletedConns

openerVars == <<sensors, problemSensors, opening, openerPc, openerInterrupted>>
pendingVars == <<newOpenedSensors, pendingSensorClosures, pendingSensorReopens>>
polledVars == <<openedSensors, polledSensors>>
connVars == <<newRserials, pendingRserialClosures, activeRserialConns,
              listening, deletedConns>>
threadVars == <<runPc, interrupted, signalled, ownerPc>>
flagVars == <<pollingChanged, acceptingOpens>>
sensorVars == <<isOpen, givenUp, unpolled>>
vars == <<openerVars, allSensors, pendingVars, polledVars, connVars,
          threadVars, flagVars, sensorVars>>

Init ==
    /\ sensors = << >> /\ problemSensors = << >> /\ opening = {}
    /\ openerPc = "none" /\ openerInterrupted = FALSE
    /\ allSensors = {} /\ newOpenedSensors = {}
    /\ openedSensors = {} /\ polledSensors = {}
    /\ pendingSensorClosures = {} /\ pendingSensorReopens = {}
    /\ newRserials = {} /\ pendingRserialClosures = {}
    /\ activeRserialConns = {} /\ listening = FALSE /\ deletedConns = {}
    /\ pollingChanged = FALSE /\ acceptingOpens = TRUE
    /\ runPc = "created" /\ interrupted = FALSE /\ signalled = FALSE
    /\ ownerPc = "idle"
    /\ isOpen = {} /\ givenUp = {} /\ unpolled = {}

\* _sensorCond.signal(): only the opener waits.
SignalOpener(pc) == IF pc = "wait" THEN "loop" ELSE pc

-----------------------------------------------------------------------------
(* The owner: DSMEngine.                                                   *)

\* DSMEngine::openSensors() starts the handler, then adds the sensors.
AddSensor(s) ==
    /\ ownerPc = "started"
    /\ s \notin allSensors
    /\ allSensors' = allSensors \cup {s}
    /\ sensors' = Append(sensors, s)
    /\ openerPc' = SignalOpener(openerPc)
    /\ UNCHANGED <<problemSensors, opening, openerInterrupted, pendingVars,
                   polledVars, connVars, threadVars, flagVars, sensorVars>>

Start ==
    /\ ownerPc = "idle"
    /\ ownerPc' = "started"
    /\ runPc' = "starting"
    /\ UNCHANGED <<openerVars, allSensors, pendingVars, polledVars, connVars,
                   interrupted, signalled, flagVars, sensorVars>>

\* interrupt(): the flag, then SIGUSR1.
Interrupt ==
    /\ ownerPc = "started"
    /\ ownerPc' = "signalling"
    /\ interrupted' = TRUE
    /\ UNCHANGED <<openerVars, allSensors, pendingVars, polledVars, connVars,
                   runPc, signalled, flagVars, sensorVars>>

InterruptSignal ==
    /\ ownerPc = "signalling"
    /\ ownerPc' = "interrupted"
    /\ signalled' = TRUE
    /\ UNCHANGED <<openerVars, allSensors, pendingVars, polledVars, connVars,
                   runPc, interrupted, flagVars, sensorVars>>

\* join(): _opener.join(), unless the opener has no thread (isJoined()) ...
JoinOpener ==
    /\ ownerPc = "interrupted"
    /\ openerPc \in {"none", "done"}
    /\ ownerPc' = "joinRun"
    /\ UNCHANGED <<openerVars, allSensors, pendingVars, polledVars, connVars,
                   runPc, interrupted, signalled, flagVars, sensorVars>>

\* ... then Thread::join().
JoinRun ==
    /\ ownerPc = "joinRun"
    /\ runPc = "done"
    /\ ownerPc' = "joined"
    /\ UNCHANGED <<openerVars, allSensors, pendingVars, polledVars, connVars,
                   runPc, interrupted, signalled, flagVars, sensorVars>>

-----------------------------------------------------------------------------
(* SensorOpener::run()                                                     *)

\* Top of the loop, under _sensorCond.  New sensors come first; before a
\* problem sensor is tried the opener sleeps.
OpenerLoop ==
    /\ openerPc = "loop"
    /\ \/ /\ openerInterrupted
          /\ openerPc' = "done"
          /\ UNCHANGED <<sensors, opening>>
       \/ /\ ~openerInterrupted
          /\ sensors # << >>
          /\ opening' = {Head(sensors)}
          /\ sensors' = Tail(sensors)
          /\ openerPc' = "taken"
       \/ /\ ~openerInterrupted
          /\ sensors = << >>
          /\ openerPc' = IF problemSensors = << >> THEN "wait" ELSE "sleep"
          /\ UNCHANGED <<sensors, opening>>
    /\ UNCHANGED <<problemSensors, openerInterrupted, allSensors, pendingVars,
                   polledVars, connVars, threadVars, flagVars, sensorVars>>

\* Mutant: pop_front() is forgotten.
OpenerWakeKeeps ==
    /\ openerPc = "sleep"
    /\ opening' = {Head(problemSensors)}
    /\ openerPc' = "taken"
    /\ UNCHANGED <<sensors, problemSensors, openerInterrupted, allSensors,
                   pendingVars, polledVars, connVars, threadVars, flagVars, sensorVars>>

\* After nanosleep().
OpenerWake ==
    /\ openerPc = "sleep"
    /\ opening' = {Head(problemSensors)}
    /\ problemSensors' = Tail(problemSensors)
    /\ openerPc' = "taken"
    /\ UNCHANGED <<sensors, openerInterrupted, allSensors, pendingVars,
                   polledVars, connVars, threadVars, flagVars, sensorVars>>

\* The second test of isInterrupted(); then open() starts.
OpenerCheck ==
    /\ openerPc = "taken"
    /\ openerPc' = IF openerInterrupted THEN "done" ELSE "opening"
    /\ opening' = IF openerInterrupted THEN {} ELSE opening
    /\ givenUp' = IF openerInterrupted THEN givenUp \cup opening ELSE givenUp
    /\ UNCHANGED <<sensors, problemSensors, openerInterrupted, allSensors,
                   pendingVars, polledVars, connVars, threadVars, flagVars,
                   isOpen, unpolled>>

\* Mutant: the sensor is not closed when interrupted.
OpenSucceedsLeavesOpen ==
    /\ openerPc = "opening"
    /\ \/ /\ openerInterrupted
          /\ openerPc' = "done"
          /\ opening' = {}
          /\ givenUp' = givenUp \cup opening
          /\ isOpen' = isOpen \cup opening
       \/ /\ ~openerInterrupted
          /\ openerPc' = "opened"
          /\ isOpen' = isOpen \cup opening
          /\ UNCHANGED <<opening, givenUp>>
    /\ UNCHANGED <<sensors, problemSensors, openerInterrupted, allSensors,
                   pendingVars, polledVars, connVars, threadVars, flagVars,
                   unpolled>>

\* open() returns: keep the sensor, or close it if interrupted meanwhile.
OpenSucceeds ==
    /\ openerPc = "opening"
    /\ \/ /\ openerInterrupted
          /\ openerPc' = "done"
          /\ opening' = {}
          /\ givenUp' = givenUp \cup opening
          /\ UNCHANGED isOpen
       \/ /\ ~openerInterrupted
          /\ openerPc' = "opened"
          /\ isOpen' = isOpen \cup opening
          /\ UNCHANGED <<opening, givenUp>>
    /\ UNCHANGED <<sensors, problemSensors, openerInterrupted, allSensors,
                   pendingVars, polledVars, connVars, threadVars, flagVars,
                   unpolled>>

\* Mutant: the local variable still holds the sensor.
OpenFailsKeeps ==
    /\ openerPc = "opening"
    /\ \E s \in opening : problemSensors' = Append(problemSensors, s)
    /\ openerPc' = "loop"
    /\ UNCHANGED <<sensors, opening, openerInterrupted, allSensors, pendingVars,
                   polledVars, connVars, threadVars, flagVars, sensorVars>>

\* open() throws IOException: try again later.
OpenFails ==
    /\ openerPc = "opening"
    /\ \E s \in opening : problemSensors' = Append(problemSensors, s)
    /\ opening' = {}
    /\ openerPc' = "loop"
    /\ UNCHANGED <<sensors, openerInterrupted, allSensors, pendingVars,
                   polledVars, connVars, threadVars, flagVars, sensorVars>>

\* open() throws InvalidParameterException: never try again.
OpenInvalid ==
    /\ openerPc = "opening"
    /\ givenUp' = givenUp \cup opening
    /\ opening' = {}
    /\ openerPc' = "loop"
    /\ UNCHANGED <<sensors, problemSensors, openerInterrupted, allSensors,
                   pendingVars, polledVars, connVars, threadVars, flagVars,
                   isOpen, unpolled>>

\* sensorIsOpen(), called by the opener: under _pollingMutex ...
SensorIsOpen ==
    /\ openerPc = "opened"
    /\ \/ /\ acceptingOpens
          /\ newOpenedSensors' = newOpenedSensors \cup opening
          /\ pollingChanged' = TRUE
          /\ openerPc' = "kill"
          /\ UNCHANGED <<isOpen, givenUp>>
       \/ /\ ~acceptingOpens
          /\ isOpen' = isOpen \ opening
          /\ givenUp' = givenUp \cup opening
          /\ openerPc' = "loop"
          /\ UNCHANGED <<newOpenedSensors, pollingChanged>>
    /\ opening' = {}
    /\ UNCHANGED <<sensors, problemSensors, openerInterrupted, allSensors,
                   pendingSensorClosures, pendingSensorReopens, polledVars,
                   connVars, threadVars, acceptingOpens, unpolled>>

\* Mutant: the handler is not signalled.
SensorIsOpenSilently ==
    /\ openerPc = "kill"
    /\ openerPc' = "loop"
    /\ UNCHANGED <<sensors, problemSensors, opening, openerInterrupted,
                   allSensors, pendingVars, polledVars, connVars, runPc, signalled,
                   interrupted, ownerPc, flagVars, sensorVars>>

\* ... and, unlocked, SIGUSR1 to the handler.
SensorIsOpenSignal ==
    /\ openerPc = "kill"
    /\ openerPc' = "loop"
    /\ signalled' = TRUE
    /\ UNCHANGED <<sensors, problemSensors, opening, openerInterrupted,
                   allSensors, pendingVars, polledVars, connVars, runPc,
                   interrupted, ownerPc, flagVars, sensorVars>>

-----------------------------------------------------------------------------
(* SensorHandler::run()                                                    *)

\* epoll_create() fails: run() throws.
RunThrows ==
    /\ runPc = "starting"
    /\ PollFails
    /\ runPc' = "done"
    /\ UNCHANGED <<openerVars, allSensors, pendingVars, polledVars, connVars,
                   interrupted, signalled, ownerPc, flagVars, sensorVars>>

\* Up to the loop: start the opener, try to listen for remote serial clients.
RunBegin ==
    /\ runPc = "starting"
    /\ runPc' = "loop"
    /\ openerPc' = "loop"
    /\ openerInterrupted' = FALSE
    /\ listening' \in BOOLEAN
    /\ pollingChanged' = TRUE
    /\ UNCHANGED <<sensors, problemSensors, opening, allSensors, pendingVars,
                   polledVars, newRserials, pendingRserialClosures,
                   activeRserialConns, deletedConns, interrupted, signalled,
                   ownerPc, acceptingOpens, sensorVars>>

\* Top of the loop, and handlePollingChange() with nothing to do.
RunLoop ==
    /\ runPc = "loop"
    /\ interrupted \/ ~pollingChanged
    /\ runPc' = IF interrupted THEN "exit" ELSE "poll"
    /\ UNCHANGED <<openerVars, allSensors, pendingVars, polledVars, connVars,
                   interrupted, signalled, ownerPc, flagVars, sensorVars>>

\* handlePollingChange(), from the loop or at the end of run().
PollingChanged ==
    /\ pollingChanged
    /\ runPc = "change" \/ (runPc = "loop" /\ ~interrupted)
    /\ pollingChanged' = FALSE
    /\ runPc' = "closures"
    /\ UNCHANGED <<openerVars, allSensors, pendingVars, polledVars, connVars,
                   interrupted, signalled, ownerPc, acceptingOpens, sensorVars>>

\* remove(psensor).  The process aborts on its first assertion when psensor is
\* not there any more; the pointer was dangling before that.
Remove(s, next) ==
    /\ openedSensors' = openedSensors \ {s}
    /\ polledSensors' = polledSensors \ {s}
    /\ isOpen' = isOpen \ {s}
    /\ runPc' = IF s \in openedSensors THEN next ELSE "aborted"

\* The loop over the copy of _pendingSensorClosures.
RemoveClosed(s) ==
    /\ runPc = "closures"
    /\ s \in pendingSensorClosures
    /\ pendingSensorClosures' = pendingSensorClosures \ {s}
    /\ Remove(s, "closures")
    /\ givenUp' = givenUp \cup {s}
    /\ UNCHANGED <<openerVars, allSensors, newOpenedSensors,
                   pendingSensorReopens, connVars, interrupted, signalled,
                   ownerPc, flagVars, unpolled>>

ClosuresDone ==
    /\ runPc = "closures"
    /\ pendingSensorClosures = {}
    /\ runPc' = "reopens"
    /\ UNCHANGED <<openerVars, allSensors, pendingVars, polledVars, connVars,
                   interrupted, signalled, ownerPc, flagVars, sensorVars>>

\* Mutant: _pendingSensorReopens is not cleared.
RemoveReopenedKeeps(s) ==
    /\ runPc = "reopens"
    /\ s \in pendingSensorReopens
    /\ Remove(s, "reopens")
    /\ IF acceptingOpens
       THEN /\ problemSensors' = Append(problemSensors, s)
            /\ openerPc' = SignalOpener(openerPc)
            /\ UNCHANGED givenUp
       ELSE /\ givenUp' = givenUp \cup {s}
            /\ UNCHANGED <<problemSensors, openerPc>>
    /\ UNCHANGED <<sensors, opening, openerInterrupted, allSensors,
                   newOpenedSensors, pendingSensorClosures, pendingSensorReopens, connVars,
                   interrupted, signalled, ownerPc, flagVars, unpolled>>

\* Mutant: reopenSensor() does not signal.
RemoveReopenedSilently(s) ==
    /\ runPc = "reopens"
    /\ s \in pendingSensorReopens
    /\ pendingSensorReopens' = pendingSensorReopens \ {s}
    /\ Remove(s, "reopens")
    /\ IF acceptingOpens
       THEN /\ problemSensors' = Append(problemSensors, s)
            /\ openerPc' = openerPc
            /\ UNCHANGED givenUp
       ELSE /\ givenUp' = givenUp \cup {s}
            /\ UNCHANGED <<problemSensors, openerPc>>
    /\ UNCHANGED <<sensors, opening, openerInterrupted, allSensors,
                   newOpenedSensors, pendingSensorClosures, connVars,
                   interrupted, signalled, ownerPc, flagVars, unpolled>>

\* The loop over the copy of _pendingSensorReopens, with reopenSensor().
RemoveReopened(s) ==
    /\ runPc = "reopens"
    /\ s \in pendingSensorReopens
    /\ pendingSensorReopens' = pendingSensorReopens \ {s}
    /\ Remove(s, "reopens")
    /\ IF acceptingOpens
       THEN /\ problemSensors' = Append(problemSensors, s)
            /\ openerPc' = SignalOpener(openerPc)
            /\ UNCHANGED givenUp
       ELSE /\ givenUp' = givenUp \cup {s}
            /\ UNCHANGED <<problemSensors, openerPc>>
    /\ UNCHANGED <<sensors, opening, openerInterrupted, allSensors,
                   newOpenedSensors, pendingSensorClosures, connVars,
                   interrupted, signalled, ownerPc, flagVars, unpolled>>

\* The rest of handlePollingChange(): remote serial connections are removed,
\* new sensors and new connections are added.
AddOpened ==
    /\ runPc = "reopens"
    /\ pendingSensorReopens = {}
    /\ \E failed \in SUBSET newOpenedSensors :
          /\ AddFails \/ failed = {}
          /\ openedSensors' = openedSensors \cup (newOpenedSensors \ failed)
          /\ polledSensors' = polledSensors \cup (newOpenedSensors \ failed)
          /\ unpolled' = unpolled \cup failed
    /\ newOpenedSensors' = {}
    /\ \E found \in SUBSET newRserials :
          /\ activeRserialConns' =
                 (activeRserialConns \ pendingRserialClosures) \cup found
          /\ deletedConns' = deletedConns \cup pendingRserialClosures
                                 \cup (newRserials \ found)
    /\ pendingRserialClosures' = {}
    /\ newRserials' = {}
    /\ runPc' = IF acceptingOpens THEN "poll" ELSE "done"
    /\ UNCHANGED <<openerVars, allSensors, pendingSensorClosures,
                   pendingSensorReopens, listening, interrupted, signalled,
                   ownerPc, flagVars, isOpen, givenUp>>

\* epoll_pwait() returns EINTR.
PollSignal ==
    /\ runPc = "poll"
    /\ signalled
    /\ signalled' = FALSE
    /\ runPc' = "loop"
    /\ UNCHANGED <<openerVars, allSensors, pendingVars, polledVars, connVars,
                   interrupted, ownerPc, flagVars, sensorVars>>

\* handlePollEvents() of all that is ready, then checkTimeouts(): some sensors
\* fail, and some, those read without an error excepted, time out; the listener
\* accepts a remote serial client, and others hang up.  What they schedule
\* signals this thread itself.
PollEvents ==
    /\ runPc = "poll"
    /\ \E failing \in SUBSET polledSensors, timedOut \in SUBSET polledSensors,
          accepted \in SUBSET Conn, hungUp \in SUBSET activeRserialConns :
          LET scheduled == failing \cup timedOut \cup accepted \cup hungUp IN
          /\ timedOut \subseteq Timed
          /\ accepted # {} => listening /\ Cardinality(accepted) = 1
          /\ accepted \cap (newRserials \cup activeRserialConns
                                \cup deletedConns) = {}
          /\ pendingSensorClosures' =
                 pendingSensorClosures \cup (failing \ reopenOnIOException)
          /\ pendingSensorReopens' = pendingSensorReopens
                 \cup (failing \cap reopenOnIOException) \cup timedOut
          /\ newRserials' = newRserials \cup accepted
          /\ pendingRserialClosures' = pendingRserialClosures \cup hungUp
          /\ pollingChanged' = (pollingChanged \/ scheduled # {})
          /\ signalled' = (signalled \/ scheduled # {})
    /\ runPc' = "loop"
    /\ UNCHANGED <<openerVars, allSensors, newOpenedSensors, polledVars,
                   activeRserialConns, listening, deletedConns, interrupted,
                   ownerPc, acceptingOpens, sensorVars>>

\* epoll_pwait() fails: the loop is left.
PollError ==
    /\ runPc = "poll"
    /\ PollFails
    /\ runPc' = "exit"
    /\ UNCHANGED <<openerVars, allSensors, pendingVars, polledVars, connVars,
                   interrupted, signalled, ownerPc, flagVars, sensorVars>>

\* After the loop: no more remote serial clients, no more opens.
StopAccepting ==
    /\ runPc = "exit"
    /\ listening' = FALSE
    /\ acceptingOpens' = FALSE
    /\ runPc' = "interruptOpener"
    /\ UNCHANGED <<openerVars, allSensors, pendingVars, polledVars,
                   newRserials, pendingRserialClosures, activeRserialConns,
                   deletedConns, interrupted, signalled, ownerPc,
                   pollingChanged, sensorVars>>

\* SensorOpener::interrupt(): the flag is set outside _sensorCond ...
InterruptOpener ==
    /\ runPc = "interruptOpener"
    /\ openerInterrupted' = TRUE
    /\ runPc' = "signalOpener"
    /\ UNCHANGED <<sensors, problemSensors, opening, openerPc, allSensors,
                   pendingVars, polledVars, connVars, interrupted, signalled,
                   ownerPc, flagVars, sensorVars>>

\* Mutant: the opener is not signalled.
InterruptOpenerSilently ==
    /\ runPc = "signalOpener"
    /\ openerPc' = openerPc
    /\ runPc' = "closeAll"
    /\ UNCHANGED <<sensors, problemSensors, opening, openerInterrupted,
                   allSensors, pendingVars, polledVars, connVars, interrupted,
                   signalled, ownerPc, flagVars, sensorVars>>

\* ... and the signal is sent under it.
InterruptOpenerSignal ==
    /\ runPc = "signalOpener"
    /\ openerPc' = SignalOpener(openerPc)
    /\ runPc' = "closeAll"
    /\ UNCHANGED <<sensors, problemSensors, opening, openerInterrupted,
                   allSensors, pendingVars, polledVars, connVars, interrupted,
                   signalled, ownerPc, flagVars, sensorVars>>

\* Mutant: the newly opened sensors are forgotten.
CloseAllButNew ==
    /\ runPc = "closeAll"
    /\ pendingRserialClosures' = pendingRserialClosures \cup activeRserialConns
    /\ pendingSensorClosures' = pendingSensorClosures \cup polledSensors
    /\ pollingChanged' = TRUE
    /\ runPc' = "change"
    /\ UNCHANGED <<openerVars, allSensors, pendingSensorReopens, polledVars,
                   newRserials, activeRserialConns, listening, deletedConns,
                   interrupted, signalled, ownerPc, acceptingOpens, newOpenedSensors,
                   sensorVars>>

\* Everything that is still polled, connected or newly opened is to be closed.
CloseAll ==
    /\ runPc = "closeAll"
    /\ pendingRserialClosures' = pendingRserialClosures \cup activeRserialConns
    /\ pendingSensorClosures' = pendingSensorClosures \cup polledSensors
    /\ pollingChanged' = TRUE
    /\ isOpen' = isOpen \ newOpenedSensors
    /\ givenUp' = givenUp \cup newOpenedSensors
    /\ newOpenedSensors' = {}
    /\ runPc' = "change"
    /\ UNCHANGED <<openerVars, allSensors, pendingSensorReopens, polledVars,
                   newRserials, activeRserialConns, listening, deletedConns,
                   interrupted, signalled, ownerPc, acceptingOpens, unpolled>>

-----------------------------------------------------------------------------
Owner == Start \/ Interrupt \/ InterruptSignal \/ JoinOpener \/ JoinRun

Opener == OpenerLoop \/ OpenerWake \/ OpenerCheck \/ OpenSucceeds \/ OpenFails
          \/ OpenInvalid \/ SensorIsOpen \/ SensorIsOpenSignal

HandlePollingChange ==
    \/ PollingChanged \/ ClosuresDone \/ AddOpened
    \/ \E s \in Sensor : RemoveClosed(s) \/ RemoveReopened(s)

Poll == PollSignal \/ PollEvents \/ PollError

Exit == StopAccepting \/ InterruptOpener \/ InterruptOpenerSignal \/ CloseAll

Run == RunThrows \/ RunBegin \/ RunLoop \/ HandlePollingChange \/ Poll \/ Exit

Next ==
    \/ Opener /\ runPc # "aborted"
    \/ Run
    \/ runPc # "aborted" /\ Owner
    \/ runPc # "aborted" /\ \E s \in Sensor : AddSensor(s)

Spec == Init /\ [][Next]_vars

\* The threads run; what the devices and the remote clients do, and when the
\* owner interrupts, is not theirs to decide.  An open() returns.
Fairness ==
    /\ WF_vars(Opener /\ runPc # "aborted")
    /\ WF_vars(RunBegin \/ RunLoop \/ HandlePollingChange \/ PollSignal \/ Exit)
    /\ WF_vars((InterruptSignal \/ JoinOpener \/ JoinRun) /\ runPc # "aborted")

LiveSpec == Spec /\ Fairness

-----------------------------------------------------------------------------
(* Properties                                                              *)

OpenerPc == {"none", "loop", "wait", "sleep", "taken", "opening", "opened",
             "kill", "done"}
RunPc == {"created", "starting", "loop", "closures", "reopens", "poll", "exit",
          "interruptOpener", "signalOpener", "closeAll", "change", "done",
          "aborted"}
OwnerPc == {"idle", "started", "signalling", "interrupted", "joinRun", "joined"}

\* The lists hold sensors and connections of the DSM; a list a sensor or a
\* connection enters once is a set.  The opener holds one sensor at a time.
TypeOK ==
    /\ sensors \in Seq(Sensor) /\ problemSensors \in Seq(Sensor)
    /\ \A S \in {opening, allSensors, newOpenedSensors, openedSensors,
                 polledSensors, pendingSensorClosures, pendingSensorReopens,
                 isOpen, givenUp, unpolled} : S \subseteq Sensor
    /\ \A C \in {newRserials, pendingRserialClosures, activeRserialConns,
                 deletedConns} : C \subseteq Conn
    /\ \A b \in {openerInterrupted, listening, pollingChanged, acceptingOpens,
                 interrupted, signalled} : b \in BOOLEAN
    /\ openerPc \in OpenerPc /\ runPc \in RunPc /\ ownerPc \in OwnerPc
    /\ Cardinality(opening) =
          IF openerPc \in {"taken", "opening", "opened"} THEN 1 ELSE 0

Elements(q) == {q[i] : i \in DOMAIN q}

\* The places a sensor can be in, one after the other.
Places == <<Elements(sensors), Elements(problemSensors), opening,
            newOpenedSensors, polledSensors, givenUp, unpolled>>

\* Every sensor added is in exactly one place, and once: neither thread loses
\* it, and while the opener has it (calcStatistics() relies on this) the
\* handler does not.
SensorInOnePlace ==
    runPc # "aborted" =>
    /\ allSensors = UNION {Places[i] : i \in DOMAIN Places}
    /\ \A i, j \in DOMAIN Places : i # j => Places[i] \cap Places[j] = {}
    /\ Len(sensors) = Cardinality(Elements(sensors))
    /\ Len(problemSensors) = Cardinality(Elements(problemSensors))

\* A sensor that is polled, or about to be, is open, and one that waits to be
\* opened is not: no device is opened twice or polled when closed.
PolledIsOpen ==
    runPc # "aborted" =>
    /\ openedSensors = polledSensors
    /\ isOpen = newOpenedSensors \cup polledSensors \cup unpolled
                    \cup (IF openerPc = "opened" THEN opening ELSE {})

\* No pending set outlives what it points to: while the handler accepts sensors,
\* a PolledDSMSensor in _pendingSensorClosures or _pendingSensorReopens exists, and
\* a remote serial connection is deleted once, when nothing refers to it.
PendingAlive ==
    /\ acceptingOpens /\ runPc # "aborted" =>
          pendingSensorClosures \cup pendingSensorReopens \subseteq polledSensors
    /\ deletedConns \cap (newRserials \cup activeRserialConns) = {}
    /\ pendingRserialClosures \subseteq activeRserialConns
    /\ newRserials \cap activeRserialConns = {}

\* When both threads have ended no device is open, except those that could not
\* be added to the poll.
ClosedAtEnd ==
    runPc = "done" /\ openerPc \in {"none", "done"} => isOpen = unpolled

\* The assertions of remove(PolledDSMSensor*): what is removed is there.
RemoveAssertion ==
    runPc # "aborted"

\* A sensor given to the handler is polled soon, or the handler ends.
NewSensorPolled ==
    \A s \in Sensor :
        s \in newOpenedSensors ~>
            \/ s \in polledSensors \cup unpolled
            \/ interrupted \/ runPc \in {"done", "aborted"}

\* interrupt() ends the run method, and with it the opener.
InterruptEnds ==
    interrupted ~> \/ runPc = "done" /\ openerPc \in {"none", "done"}
                   \/ runPc = "aborted"

\* A sensor whose open failed or that is to be reopened is tried again.
ProblemRetried ==
    \A s \in Sensor :
        s \in Elements(problemSensors) \/ s \in pendingSensorReopens ~>
            s \in opening \/ interrupted \/ runPc \in {"done", "aborted"}

=============================================================================
