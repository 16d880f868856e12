------------------------- MODULE SensorHandlerProofs -------------------------
(***************************************************************************)
(* No sensor is lost by the two threads or used by both, none is polled    *)
(* when closed, no pending list outlives what it points to, and no device  *)
(* stays open at the end: for any number of sensors and connections.       *)
(***************************************************************************)
EXTENDS SensorHandler, FiniteSetTheorems, FunctionTheorems, TLAPS

\* The steps are first-order logic; those with arithmetic, or with a function
\* updated at several places, cite SMT.
USE Zenon

\* TypeOK without the cardinality of opening.
Types ==
    /\ sensors \in Seq(Sensor) /\ problemSensors \in Seq(Sensor)
    /\ opening \subseteq Sensor /\ allSensors \subseteq Sensor
    /\ newOpenedSensors \subseteq Sensor /\ openedSensors \subseteq Sensor
    /\ polledSensors \subseteq Sensor
    /\ pendingSensorClosures \subseteq Sensor
    /\ pendingSensorReopens \subseteq Sensor
    /\ isOpen \subseteq Sensor /\ givenUp \subseteq Sensor
    /\ unpolled \subseteq Sensor
    /\ newRserials \subseteq Conn /\ pendingRserialClosures \subseteq Conn
    /\ activeRserialConns \subseteq Conn /\ deletedConns \subseteq Conn
    /\ openerInterrupted \in BOOLEAN /\ listening \in BOOLEAN
    /\ pollingChanged \in BOOLEAN /\ acceptingOpens \in BOOLEAN
    /\ interrupted \in BOOLEAN /\ signalled \in BOOLEAN
    /\ openerPc \in OpenerPc /\ runPc \in RunPc /\ ownerPc \in OwnerPc

\* The opener holds a sensor from the moment it takes it off a queue until it
\* hands it over, and it sleeps only if there is one to take afterwards.
OpenerInv ==
    /\ openerPc \in {"taken", "opening", "opened"} =>
          \E s \in Sensor : opening = {s}
    /\ openerPc \notin {"taken", "opening", "opened"} => opening = {}
    /\ openerPc = "sleep" => problemSensors # << >>

Distinct(q) == \A i, j \in DOMAIN q : q[i] = q[j] => i = j

\* SensorInOnePlace, one place after the other.
Partition ==
    /\ Distinct(sensors) /\ Distinct(problemSensors)
    /\ \A s \in Sensor : s \in allSensors <=>
          \/ s \in Elements(sensors) \/ s \in Elements(problemSensors)
          \/ s \in opening \/ s \in newOpenedSensors \/ s \in polledSensors
          \/ s \in givenUp \/ s \in unpolled
    /\ \A s \in Elements(sensors) :
          /\ s \notin Elements(problemSensors) /\ s \notin opening
          /\ s \notin newOpenedSensors /\ s \notin polledSensors
          /\ s \notin givenUp /\ s \notin unpolled
    /\ \A s \in Elements(problemSensors) :
          /\ s \notin opening /\ s \notin newOpenedSensors
          /\ s \notin polledSensors /\ s \notin givenUp /\ s \notin unpolled
    /\ \A s \in opening :
          /\ s \notin newOpenedSensors /\ s \notin polledSensors
          /\ s \notin givenUp /\ s \notin unpolled
    /\ \A s \in newOpenedSensors :
          s \notin polledSensors /\ s \notin givenUp /\ s \notin unpolled
    /\ \A s \in polledSensors : s \notin givenUp /\ s \notin unpolled
    /\ \A s \in givenUp : s \notin unpolled

\* A sensor is to be closed or to be reopened, not both, until run() ends.
PendingInv ==
    acceptingOpens =>
       /\ pendingSensorClosures \subseteq polledSensors \ reopenOnIOException
       /\ pendingSensorReopens \subseteq polledSensors \cap reopenOnIOException

\* What is left of PendingAlive.
ConnInv ==
    /\ deletedConns \cap (newRserials \cup activeRserialConns) = {}
    /\ pendingRserialClosures \subseteq activeRserialConns
    /\ newRserials \cap activeRserialConns = {}

\* Before the opener is started, and if run() fails to start it, nothing has
\* been opened.  After the loop what was polled or handed over is closed in
\* steps.
StageInv ==
    /\ ownerPc = "idle" => runPc = "created"
    /\ openerPc = "none" <=> \/ runPc \in {"created", "starting"}
                             \/ runPc = "done" /\ acceptingOpens
    /\ openerPc = "none" => newOpenedSensors = {} /\ polledSensors = {}
    /\ runPc \in {"created", "starting", "loop", "poll", "exit"} => acceptingOpens
    /\ runPc \in {"interruptOpener", "signalOpener", "closeAll", "change"} =>
          ~acceptingOpens
    /\ ~acceptingOpens /\ runPc \in {"change", "closures", "reopens", "done"} =>
          newOpenedSensors = {}
    /\ ~acceptingOpens /\ runPc \in {"change", "closures"} =>
          polledSensors \subseteq pendingSensorClosures
    /\ ~acceptingOpens /\ runPc \in {"reopens", "done"} => polledSensors = {}

\* The inductive invariant: once an assertion has failed nothing is claimed but
\* the types and the connections.
HandlerInv ==
    /\ Types /\ OpenerInv /\ ConnInv
    /\ runPc # "aborted" => Partition /\ PolledIsOpen /\ PendingInv /\ StageInv

-----------------------------------------------------------------------------
(* Queues without repetitions.                                             *)

\* Appending a new element to a queue (push_back()).
LEMMA PushBack ==
    ASSUME NEW S, NEW q \in Seq(S), NEW x \in S
    PROVE  /\ Append(q, x) \in Seq(S)
           /\ Append(q, x) # << >>
           /\ Elements(Append(q, x)) = Elements(q) \cup {x}
           /\ Distinct(q) /\ x \notin Elements(q) => Distinct(Append(q, x))
  <1>1. /\ Append(q, x) \in Seq(S)
        /\ DOMAIN Append(q, x) = 1 .. Len(q) + 1
        /\ \A i \in 1 .. Len(q) : Append(q, x)[i] = q[i]
        /\ Append(q, x)[Len(q) + 1] = x
        /\ Len(q) \in Nat /\ DOMAIN q = 1 .. Len(q)
    BY SMT
  <1>2. Append(q, x) # << >>
    BY SMT, <1>1, Len(Append(q, x)) = Len(q) + 1, Len(<< >>) = 0
  <1> HIDE DEF Distinct
  <1>3. Elements(Append(q, x)) = Elements(q) \cup {x}
    <2>1. 1 .. Len(q) + 1 = (1 .. Len(q)) \cup {Len(q) + 1}
      BY SMT, <1>1
    <2>2. Elements(Append(q, x)) =
              {Append(q, x)[i] : i \in 1 .. Len(q)} \cup {Append(q, x)[Len(q) + 1]}
      BY <1>1, <2>1 DEF Elements
    <2> QED
      BY <1>1, <2>2 DEF Elements
  <1>4. ASSUME Distinct(q), x \notin Elements(q)
        PROVE  Distinct(Append(q, x))
    <2>1. \A i \in 1 .. Len(q) : q[i] # x
      BY <1>1, <1>4 DEF Elements
    <2> SUFFICES ASSUME NEW i \in 1 .. Len(q) + 1, NEW j \in 1 .. Len(q) + 1,
                        Append(q, x)[i] = Append(q, x)[j]
                 PROVE  i = j
      BY <1>1 DEF Distinct
    <2> QED
      BY SMT, <1>1, <1>4, <2>1 DEF Distinct
  <1> QED
    BY <1>1, <1>2, <1>3, <1>4

\* Taking the first element of a queue (front() and pop_front()).
LEMMA PopFront ==
    ASSUME NEW S, NEW q \in Seq(S), q # << >>, Distinct(q)
    PROVE  /\ Tail(q) \in Seq(S) /\ Head(q) \in S
           /\ Head(q) \in Elements(q)
           /\ Elements(Tail(q)) = Elements(q) \ {Head(q)}
           /\ Distinct(Tail(q))
  <1>1. /\ Tail(q) \in Seq(S) /\ Head(q) \in S /\ Head(q) = q[1]
        /\ Len(q) \in Nat /\ Len(q) >= 1
        /\ DOMAIN q = 1 .. Len(q) /\ DOMAIN Tail(q) = 1 .. Len(q) - 1
        /\ \A i \in 1 .. Len(q) - 1 : Tail(q)[i] = q[i + 1]
    BY SMT
  <1>2. Head(q) \in Elements(q)
    BY SMT, <1>1 DEF Elements
  <1>3. Distinct(Tail(q))
    BY SMT, <1>1 DEF Distinct
  <1>4. Elements(Tail(q)) = Elements(q) \ {Head(q)}
    <2>1. ASSUME NEW y \in Elements(Tail(q)) PROVE y \in Elements(q) \ {Head(q)}
      BY SMT, <1>1 DEF Elements, Distinct
    <2>2. ASSUME NEW y \in Elements(q), y # Head(q) PROVE y \in Elements(Tail(q))
      <3>1. PICK i \in 1 .. Len(q) : y = q[i]
        BY <1>1 DEF Elements
      <3>2. i - 1 \in 1 .. Len(q) - 1 /\ Tail(q)[i - 1] = y
        BY SMT, <1>1, <2>2, <3>1
      <3> QED
        BY <1>1, <3>2 DEF Elements
    <2> QED
      BY <2>1, <2>2
  <1> QED
    BY <1>1, <1>2, <1>3, <1>4

\* A queue without repetitions is as long as it has elements.
LEMMA DistinctCount ==
    ASSUME NEW S, NEW q \in Seq(S), Distinct(q)
    PROVE  Len(q) = Cardinality(Elements(q))
  <1>1. Len(q) \in Nat /\ DOMAIN q = 1 .. Len(q)
    BY SMT
  <1>2. q \in Bijection(1 .. Len(q), Elements(q))
    <2>1. q \in [1 .. Len(q) -> Elements(q)]
      BY SMT, <1>1 DEF Elements
    <2> QED
      BY <1>1, <2>1 DEF Elements, Distinct, Bijection, Injection, Surjection,
                        IsInjective
  <1> QED
    BY <1>1, <1>2, FS_CountingElements DEF ExistsBijection

-----------------------------------------------------------------------------
(* The inductive invariant.                                                *)

\* The handler starts with every list empty.
LEMMA HandlerInit == Init => HandlerInv
  <1> SUFFICES ASSUME Init PROVE HandlerInv
    OBVIOUS
  <1>1. Types /\ OpenerInv /\ ConnInv /\ PolledIsOpen /\ PendingInv /\ StageInv
    <2>0. << >> \in Seq(Sensor)
      BY SMT
    <2>1. Types
      BY <2>0 DEF Init, Types, OpenerPc, RunPc, OwnerPc
    <2> QED
      BY <2>1 DEF Init, OpenerInv, ConnInv, PolledIsOpen, PendingInv, StageInv
  <1>2. Elements(<< >>) = {} /\ Distinct(<< >>)
    BY SMT DEF Elements, Distinct
  <1>3. Partition
    BY <1>2 DEF Init, Partition
  <1> QED
    BY <1>1, <1>3 DEF HandlerInv

\* Every step keeps the types.
LEMMA TypesNext ==
    ASSUME HandlerInv, Next PROVE Types'
  <1> USE DEF HandlerInv, Types, OpenerPc, RunPc, OwnerPc, openerVars,
              pendingVars, polledVars, connVars, threadVars, flagVars, sensorVars
  <1>1. ASSUME NEW s \in Sensor, AddSensor(s) PROVE Types'
    BY SMT, <1>1 DEF AddSensor, SignalOpener
  <1>2. ASSUME Start PROVE Types'
    BY SMT, <1>2 DEF Start
  <1>3. ASSUME Interrupt PROVE Types'
    BY SMT, <1>3 DEF Interrupt
  <1>4. ASSUME InterruptSignal PROVE Types'
    BY SMT, <1>4 DEF InterruptSignal
  <1>5. ASSUME JoinOpener PROVE Types'
    BY SMT, <1>5 DEF JoinOpener
  <1>6. ASSUME JoinRun PROVE Types'
    BY SMT, <1>6 DEF JoinRun
  <1>7. ASSUME OpenerLoop PROVE Types'
    <2>1. /\ \/ UNCHANGED <<sensors, opening>>
             \/ sensors # << >> /\ opening' = {Head(sensors)} /\ sensors' = Tail(sensors)
          /\ openerPc' \in OpenerPc
      BY <1>7 DEF OpenerLoop
    <2>2. sensors # << >> => Head(sensors) \in Sensor /\ Tail(sensors) \in Seq(Sensor)
      BY SMT
    <2>3. sensors' \in Seq(Sensor) /\ opening' \subseteq Sensor
      BY <2>1, <2>2
    <2> QED
      BY SMT, <1>7, <2>1, <2>3 DEF OpenerLoop
  <1>8. ASSUME OpenerWake PROVE Types'
    BY SMT, <1>8 DEF OpenerWake, OpenerInv
  <1>9. ASSUME OpenerCheck PROVE Types'
    BY SMT, <1>9 DEF OpenerCheck
  <1>10. ASSUME OpenSucceeds PROVE Types'
    BY SMT, <1>10 DEF OpenSucceeds
  <1>11. ASSUME OpenFails PROVE Types'
    BY SMT, <1>11 DEF OpenFails
  <1>12. ASSUME OpenInvalid PROVE Types'
    BY SMT, <1>12 DEF OpenInvalid
  <1>13. ASSUME SensorIsOpen PROVE Types'
    <2>1. pollingChanged' \in BOOLEAN
      BY <1>13 DEF SensorIsOpen
    <2>2. /\ newOpenedSensors' \subseteq Sensor /\ isOpen' \subseteq Sensor
          /\ givenUp' \subseteq Sensor /\ openerPc' \in OpenerPc
      BY <1>13 DEF SensorIsOpen
    <2> QED
      BY SMT, <1>13, <2>1, <2>2 DEF SensorIsOpen
  <1>14. ASSUME SensorIsOpenSignal PROVE Types'
    BY SMT, <1>14 DEF SensorIsOpenSignal
  <1>15. ASSUME RunThrows PROVE Types'
    BY SMT, <1>15 DEF RunThrows
  <1>16. ASSUME RunBegin PROVE Types'
    BY <1>16 DEF RunBegin
  <1>17. ASSUME RunLoop PROVE Types'
    BY SMT, <1>17 DEF RunLoop
  <1>18. ASSUME PollingChanged PROVE Types'
    <2>1. pollingChanged' \in BOOLEAN /\ runPc' \in RunPc
      BY <1>18 DEF PollingChanged
    <2>2. UNCHANGED <<openerVars, allSensors, pendingVars, polledVars, connVars,
                      interrupted, signalled, ownerPc, acceptingOpens, sensorVars>>
      BY <1>18 DEF PollingChanged
    <2> QED
      BY SMT, <2>1, <2>2
  <1>19. ASSUME NEW s \in Sensor, RemoveClosed(s) PROVE Types'
    BY SMT, <1>19 DEF RemoveClosed, Remove
  <1>20. ASSUME ClosuresDone PROVE Types'
    BY SMT, <1>20 DEF ClosuresDone
  <1>21. ASSUME NEW s \in Sensor, RemoveReopened(s) PROVE Types'
    <2>1. Append(problemSensors, s) \in Seq(Sensor)
      BY SMT, <1>21
    <2>2. /\ problemSensors' \in {problemSensors, Append(problemSensors, s)}
          /\ givenUp' \in {givenUp, givenUp \cup {s}}
          /\ openerPc' \in {openerPc, "loop"} /\ runPc' \in {"reopens", "aborted"}
      BY <1>21 DEF RemoveReopened, Remove, SignalOpener
    <2> QED
      BY SMTT(30), <1>21, <2>1, <2>2 DEF RemoveReopened, Remove
  <1>22. ASSUME AddOpened PROVE Types'
    BY SMT, <1>22 DEF AddOpened
  <1>23. ASSUME PollSignal PROVE Types'
    <2>1. signalled' = FALSE /\ runPc' = "loop"
      BY <1>23 DEF PollSignal
    <2>2. UNCHANGED <<openerVars, allSensors, pendingVars, polledVars, connVars,
                      interrupted, ownerPc, flagVars, sensorVars>>
      BY <1>23 DEF PollSignal
    <2> QED
      BY ZenonT(60), <2>1, <2>2
  <1>24. ASSUME PollEvents PROVE Types'
    BY SMT, <1>24, HandlerAssumption DEF PollEvents
  <1>25. ASSUME PollError PROVE Types'
    BY SMT, <1>25 DEF PollError
  <1>26. ASSUME StopAccepting PROVE Types'
    BY ZenonT(60), <1>26 DEF StopAccepting
  <1>27. ASSUME InterruptOpener PROVE Types'
    BY SMT, <1>27 DEF InterruptOpener
  <1>28. ASSUME InterruptOpenerSignal PROVE Types'
    BY SMT, <1>28 DEF InterruptOpenerSignal, SignalOpener
  <1>29. ASSUME CloseAll PROVE Types'
    BY SMT, <1>29 DEF CloseAll
  <1> QED
    BY ZenonT(60), <1>1, <1>2, <1>3, <1>4, <1>5, <1>6, <1>7, <1>8, <1>9, <1>10,
       <1>11, <1>12, <1>13, <1>14, <1>15, <1>16, <1>17, <1>18, <1>19, <1>20, <1>21,
       <1>22, <1>23, <1>24, <1>25, <1>26, <1>27, <1>28, <1>29
    DEF Next, Owner, Opener, Run, HandlePollingChange, Poll, Exit

\* The owner and the parts of run() that leave the opener and its queues alone.
Elsewhere ==
    \/ Owner \/ RunThrows \/ RunLoop \/ PollingChanged \/ ClosuresDone \/ Poll
    \/ StopAccepting \/ InterruptOpener

\* The opener holds one sensor at a time.
LEMMA OpenerNext ==
    ASSUME HandlerInv, Next PROVE OpenerInv'
  <1> USE DEF HandlerInv, OpenerInv, openerVars
  <1>1. ASSUME NEW s \in Sensor, AddSensor(s) PROVE OpenerInv'
    BY <1>1 DEF AddSensor, SignalOpener
  <1>2. ASSUME OpenerLoop PROVE OpenerInv'
    BY SMT, <1>2 DEF OpenerLoop, Types
  <1>3. ASSUME OpenerWake PROVE OpenerInv'
    BY SMT, <1>3 DEF OpenerWake, Types
  <1>4. ASSUME OpenerCheck PROVE OpenerInv'
    BY <1>4 DEF OpenerCheck
  <1>5. ASSUME OpenSucceeds PROVE OpenerInv'
    BY <1>5 DEF OpenSucceeds
  <1>6. ASSUME OpenFails PROVE OpenerInv'
    BY <1>6 DEF OpenFails
  <1>7. ASSUME OpenInvalid PROVE OpenerInv'
    BY <1>7 DEF OpenInvalid
  <1>8. ASSUME SensorIsOpen PROVE OpenerInv'
    BY <1>8 DEF SensorIsOpen
  <1>9. ASSUME SensorIsOpenSignal PROVE OpenerInv'
    BY <1>9 DEF SensorIsOpenSignal
  <1>10. ASSUME RunBegin PROVE OpenerInv'
    BY <1>10 DEF RunBegin, StageInv
  <1>11. ASSUME NEW s \in Sensor, RemoveReopened(s) PROVE OpenerInv'
    <2>1. Append(problemSensors, s) # << >>
      BY <1>11, PushBack DEF Types
    <2> QED
      BY <1>11, <2>1 DEF RemoveReopened, SignalOpener
  <1>12. ASSUME InterruptOpenerSignal PROVE OpenerInv'
    BY <1>12 DEF InterruptOpenerSignal, SignalOpener
  <1>13. ASSUME UNCHANGED <<openerPc, opening, problemSensors>> PROVE OpenerInv'
    BY <1>13
  <1>14. ASSUME Elsewhere \/ AddOpened \/ CloseAll \/ \E s \in Sensor : RemoveClosed(s)
         PROVE  UNCHANGED <<openerPc, opening, problemSensors>>
    BY <1>14 DEF Elsewhere, Owner, Start, Interrupt, InterruptSignal, JoinOpener,
                 JoinRun, RunThrows, RunLoop, PollingChanged, ClosuresDone, Poll,
                 PollSignal, PollEvents, PollError, StopAccepting,
                 InterruptOpener, AddOpened, CloseAll, RemoveClosed
  <1> QED
    BY <1>1, <1>2, <1>3, <1>4, <1>5, <1>6, <1>7, <1>8, <1>9, <1>10, <1>11, <1>12,
       <1>13, <1>14
    DEF Next, Opener, Run, HandlePollingChange, Exit, Elsewhere

\* A connection is in one list, until it is deleted.
LEMMA ConnNext ==
    ASSUME HandlerInv, Next PROVE ConnInv'
  <1> USE DEF HandlerInv, ConnInv, connVars
  <1>1. ASSUME AddOpened PROVE ConnInv'
    BY <1>1 DEF AddOpened
  <1>2. ASSUME PollEvents PROVE ConnInv'
    <2>1. PICK accepted \in SUBSET Conn, hungUp \in SUBSET activeRserialConns :
             /\ accepted \cap (newRserials \cup activeRserialConns
                                   \cup deletedConns) = {}
             /\ newRserials' = newRserials \cup accepted
             /\ pendingRserialClosures' = pendingRserialClosures \cup hungUp
      BY <1>2 DEF PollEvents
    <2> QED
      BY SMT, <1>2, <2>1 DEF PollEvents
  <1>3. ASSUME CloseAll PROVE ConnInv'
    BY <1>3 DEF CloseAll
  <1>4. ASSUME UNCHANGED <<newRserials, pendingRserialClosures,
                           activeRserialConns, deletedConns>>
        PROVE  ConnInv'
    BY <1>4
  <1>5. ASSUME Opener \/ Owner \/ \E s \in Sensor : AddSensor(s)
        PROVE  ConnInv'
    BY <1>4, <1>5 DEF Opener, Owner, AddSensor, OpenerLoop, OpenerWake,
       OpenerCheck, OpenSucceeds, OpenFails, OpenInvalid, SensorIsOpen,
       SensorIsOpenSignal, Start, Interrupt, InterruptSignal, JoinOpener, JoinRun
  <1>6. ASSUME \/ RunThrows \/ RunBegin \/ RunLoop \/ PollingChanged \/ ClosuresDone
               \/ \E s \in Sensor : RemoveClosed(s) \/ RemoveReopened(s)
               \/ PollSignal \/ PollError \/ StopAccepting \/ InterruptOpener
               \/ InterruptOpenerSignal
        PROVE  ConnInv'
    BY <1>4, <1>6 DEF RunThrows, RunBegin, RunLoop, PollingChanged, ClosuresDone,
       RemoveClosed, RemoveReopened, PollSignal, PollError, StopAccepting,
       InterruptOpener, InterruptOpenerSignal
  <1> QED
    BY <1>1, <1>2, <1>3, <1>5, <1>6
    DEF Next, Run, HandlePollingChange, Poll, Exit

\* A process that has aborted takes no step.
LEMMA NotAborted == Next => runPc # "aborted"
  BY DEF Next, Run, RunThrows, RunBegin, RunLoop, HandlePollingChange,
         PollingChanged, ClosuresDone, AddOpened, RemoveClosed, RemoveReopened,
         Poll, PollSignal, PollEvents, PollError, Exit, StopAccepting,
         InterruptOpener, InterruptOpenerSignal, CloseAll

\* Each step moves sensors from one place to another and loses none.
LEMMA PartitionNext ==
    ASSUME HandlerInv, Next, runPc' # "aborted" PROVE Partition'
  <1>1. /\ Types /\ OpenerInv /\ Partition
        /\ openedSensors = polledSensors /\ StageInv
    BY NotAborted DEF HandlerInv, PolledIsOpen
  <1> USE DEF openerVars, pendingVars, polledVars, sensorVars
  <1>2. ASSUME NEW s \in Sensor, AddSensor(s) PROVE Partition'
    <2>1. /\ s \notin Elements(sensors) /\ s \notin Elements(problemSensors)
          /\ s \notin opening /\ s \notin newOpenedSensors
          /\ s \notin polledSensors /\ s \notin givenUp /\ s \notin unpolled
      BY <1>1, <1>2 DEF AddSensor, Partition
    <2>2. Elements(sensors') = Elements(sensors) \cup {s} /\ Distinct(sensors')
      BY <1>1, <1>2, <2>1, PushBack DEF AddSensor, Types, Partition
    <2> QED
      BY <1>1, <1>2, <2>1, <2>2 DEF AddSensor, Partition
  <1>3. ASSUME OpenerLoop PROVE Partition'
    <2>1. CASE UNCHANGED <<sensors, opening>>
      BY <1>1, <1>3, <2>1 DEF OpenerLoop, Partition
    <2>2. CASE ~UNCHANGED <<sensors, opening>>
      <3>1. /\ sensors # << >> /\ opening = {} /\ opening' = {Head(sensors)}
            /\ sensors' = Tail(sensors)
        BY <1>1, <1>3, <2>2 DEF OpenerLoop, OpenerInv
      <3>2. /\ Head(sensors) \in Elements(sensors) /\ Head(sensors) \in Sensor
            /\ Elements(sensors') = Elements(sensors) \ {Head(sensors)}
            /\ Distinct(sensors')
        BY <1>1, <3>1, PopFront DEF Types, Partition
      <3> QED
        BY <1>1, <1>3, <3>1, <3>2 DEF OpenerLoop, Partition
    <2> QED
      BY <2>1, <2>2
  <1>4. ASSUME OpenerWake PROVE Partition'
    <2>1. /\ problemSensors # << >> /\ opening = {}
          /\ opening' = {Head(problemSensors)}
          /\ problemSensors' = Tail(problemSensors)
      BY <1>1, <1>4 DEF OpenerWake, OpenerInv
    <2>2. /\ Head(problemSensors) \in Elements(problemSensors)
          /\ Head(problemSensors) \in Sensor
          /\ Elements(problemSensors') = Elements(problemSensors) \ {Head(problemSensors)}
          /\ Distinct(problemSensors')
      BY <1>1, <2>1, PopFront DEF Types, Partition
    <2> QED
      BY <1>1, <1>4, <2>1, <2>2 DEF OpenerWake, Partition
  <1>5. ASSUME OpenerCheck PROVE Partition'
    BY <1>1, <1>5 DEF OpenerCheck, Partition
  <1>6. ASSUME OpenSucceeds PROVE Partition'
    BY <1>1, <1>6 DEF OpenSucceeds, Partition
  <1>7. ASSUME OpenFails PROVE Partition'
    <2>1. PICK s \in opening : problemSensors' = Append(problemSensors, s)
      BY <1>7 DEF OpenFails
    <2>2. s \in Sensor /\ opening = {s} /\ opening' = {}
      BY <1>1, <1>7, <2>1 DEF OpenFails, OpenerInv
    <2>3. /\ s \notin Elements(sensors) /\ s \notin Elements(problemSensors)
          /\ s \notin newOpenedSensors
          /\ s \notin polledSensors /\ s \notin givenUp /\ s \notin unpolled
      BY <1>1, <2>2 DEF Partition
    <2>4. /\ Elements(problemSensors') = Elements(problemSensors) \cup {s}
          /\ Distinct(problemSensors')
      BY <1>1, <2>1, <2>2, <2>3, PushBack DEF Types, Partition
    <2> QED
      BY <1>1, <1>7, <2>2, <2>3, <2>4 DEF OpenFails, Partition
  <1>8. ASSUME OpenInvalid PROVE Partition'
    BY <1>1, <1>8 DEF OpenInvalid, Partition
  <1>9. ASSUME SensorIsOpen PROVE Partition'
    BY <1>1, <1>9 DEF SensorIsOpen, Partition
  <1>10. ASSUME NEW s \in Sensor, RemoveClosed(s) PROVE Partition'
    <2>1. s \in polledSensors
      BY <1>1, <1>10 DEF RemoveClosed, Remove
    <2> QED
      BY <1>1, <1>10, <2>1 DEF RemoveClosed, Remove, Partition
  <1>11. ASSUME NEW s \in Sensor, RemoveReopened(s) PROVE Partition'
    <2>1. s \in polledSensors /\ polledSensors' = polledSensors \ {s}
      BY <1>1, <1>11 DEF RemoveReopened, Remove
    <2>2. CASE acceptingOpens
      <3>1. /\ problemSensors' = Append(problemSensors, s)
            /\ UNCHANGED <<sensors, opening, allSensors, newOpenedSensors,
                           givenUp, unpolled>>
        BY <1>11, <2>2 DEF RemoveReopened
      <3>2. /\ s \notin Elements(sensors) /\ s \notin Elements(problemSensors)
            /\ s \notin opening /\ s \notin newOpenedSensors
            /\ s \notin givenUp /\ s \notin unpolled
        BY <1>1, <2>1 DEF Partition
      <3>3. /\ Elements(problemSensors') = Elements(problemSensors) \cup {s}
            /\ Distinct(problemSensors')
        BY SMT, <1>1, <3>1, <3>2, PushBack DEF Types, Partition
      <3> QED
        BY <1>1, <2>1, <3>1, <3>2, <3>3 DEF Partition
    <2>3. CASE ~acceptingOpens
      <3>1. /\ givenUp' = givenUp \cup {s}
            /\ UNCHANGED <<sensors, problemSensors, opening, allSensors,
                           newOpenedSensors, unpolled>>
        BY <1>11, <2>3 DEF RemoveReopened
      <3> QED
        BY <1>1, <2>1, <3>1 DEF Partition
    <2> QED
      BY <2>2, <2>3
  <1>12. ASSUME AddOpened PROVE Partition'
    <2>1. PICK failed \in SUBSET newOpenedSensors :
             /\ polledSensors' = polledSensors \cup (newOpenedSensors \ failed)
             /\ unpolled' = unpolled \cup failed
      BY <1>12 DEF AddOpened
    <2>2. /\ newOpenedSensors' = {}
          /\ UNCHANGED <<sensors, problemSensors, opening, allSensors, givenUp>>
      BY <1>12 DEF AddOpened
    <2> QED
      BY <1>1, <2>1, <2>2 DEF Partition
  <1>13. ASSUME CloseAll PROVE Partition'
    BY <1>1, <1>13 DEF CloseAll, Partition
  <1>14. ASSUME UNCHANGED <<sensors, problemSensors, opening, allSensors,
                            newOpenedSensors, polledSensors, givenUp, unpolled>>
         PROVE  Partition'
    BY <1>1, <1>14 DEF Partition
  <1>15. ASSUME Elsewhere \/ RunBegin \/ InterruptOpenerSignal \/ SensorIsOpenSignal
         PROVE  UNCHANGED <<sensors, problemSensors, opening, allSensors,
                            newOpenedSensors, polledSensors, givenUp, unpolled>>
    BY <1>15 DEF Elsewhere, Owner, Start, Interrupt, InterruptSignal, JoinOpener,
                 JoinRun, RunThrows, RunLoop, PollingChanged, ClosuresDone, Poll,
                 PollSignal, PollEvents, PollError, StopAccepting,
                 InterruptOpener, RunBegin, InterruptOpenerSignal,
                 SensorIsOpenSignal
  <1> QED
    BY <1>2, <1>3, <1>4, <1>5, <1>6, <1>7, <1>8, <1>9, <1>10, <1>11, <1>12, <1>13,
       <1>14, <1>15
    DEF Next, Opener, Run, HandlePollingChange, Exit, Elsewhere

\* What is polled is what is open, whatever moves.
LEMMA OpenNext ==
    ASSUME HandlerInv, Next, runPc' # "aborted" PROVE PolledIsOpen'
  <1>1. Types /\ OpenerInv /\ Partition /\ StageInv /\ runPc # "aborted"
    BY NotAborted DEF HandlerInv
  <1>2. /\ openedSensors = polledSensors
        /\ isOpen = newOpenedSensors \cup polledSensors \cup unpolled
                        \cup (IF openerPc = "opened" THEN opening ELSE {})
    BY <1>1 DEF HandlerInv, PolledIsOpen
  <1> USE DEF openerVars, pendingVars, polledVars, sensorVars, PolledIsOpen
  <1>3. ASSUME NEW s \in Sensor, AddSensor(s) PROVE PolledIsOpen'
    BY <1>2, <1>3 DEF AddSensor, SignalOpener
  <1>4. ASSUME OpenerLoop \/ OpenerWake \/ OpenerCheck \/ OpenFails \/ OpenInvalid
                   \/ SensorIsOpenSignal
        PROVE  PolledIsOpen'
    <2>1. /\ UNCHANGED <<newOpenedSensors, polledSensors, openedSensors, unpolled,
                         isOpen>>
          /\ openerPc # "opened" /\ openerPc' # "opened"
      BY <1>4 DEF OpenerLoop, OpenerWake, OpenerCheck, OpenFails, OpenInvalid,
                  SensorIsOpenSignal
    <2> QED
      BY <1>2, <2>1
  <1>5. ASSUME OpenSucceeds PROVE PolledIsOpen'
    BY <1>2, <1>5 DEF OpenSucceeds
  <1>6. ASSUME SensorIsOpen PROVE PolledIsOpen'
    BY <1>1, <1>2, <1>6 DEF SensorIsOpen, Partition
  <1>7. ASSUME RunBegin PROVE PolledIsOpen'
    BY <1>1, <1>2, <1>7 DEF RunBegin, StageInv
  <1>8. ASSUME NEW s \in Sensor, RemoveClosed(s) PROVE PolledIsOpen'
    <2>1. s \in polledSensors
      BY <1>2, <1>8 DEF RemoveClosed, Remove
    <2>2. s \notin newOpenedSensors /\ s \notin unpolled /\ s \notin opening
      BY <1>1, <2>1 DEF Partition
    <2> QED
      BY <1>2, <1>8, <2>1, <2>2 DEF RemoveClosed, Remove
  <1>9. ASSUME NEW s \in Sensor, RemoveReopened(s) PROVE PolledIsOpen'
    <2>1. s \in polledSensors
      BY <1>2, <1>9 DEF RemoveReopened, Remove
    <2>2. s \notin newOpenedSensors /\ s \notin unpolled /\ s \notin opening
      BY <1>1, <2>1 DEF Partition
    <2>3. openerPc' = "opened" <=> openerPc = "opened"
      BY <1>9 DEF RemoveReopened, SignalOpener
    <2>4. UNCHANGED <<newOpenedSensors, unpolled, opening>>
      BY <1>9 DEF RemoveReopened
    <2> QED
      BY <1>2, <1>9, <2>1, <2>2, <2>3, <2>4 DEF RemoveReopened, Remove
  <1>10. ASSUME AddOpened PROVE PolledIsOpen'
    <2>1. PICK failed \in SUBSET newOpenedSensors :
             /\ openedSensors' = openedSensors \cup (newOpenedSensors \ failed)
             /\ polledSensors' = polledSensors \cup (newOpenedSensors \ failed)
             /\ unpolled' = unpolled \cup failed
      BY <1>10 DEF AddOpened
    <2>2. newOpenedSensors' = {} /\ UNCHANGED <<isOpen, opening, openerPc>>
      BY <1>10 DEF AddOpened
    <2> QED
      BY <1>2, <2>1, <2>2
  <1>11. ASSUME InterruptOpenerSignal PROVE PolledIsOpen'
    BY <1>2, <1>11 DEF InterruptOpenerSignal, SignalOpener
  <1>12. ASSUME CloseAll PROVE PolledIsOpen'
    BY <1>1, <1>2, <1>12 DEF CloseAll, Partition
  <1>13. ASSUME Elsewhere
         PROVE  UNCHANGED <<newOpenedSensors, polledSensors, openedSensors,
                            unpolled, isOpen, openerPc, opening>>
    BY <1>13 DEF Elsewhere, Owner, Start, Interrupt, InterruptSignal, JoinOpener,
                 JoinRun, RunThrows, RunLoop, PollingChanged, ClosuresDone, Poll,
                 PollSignal, PollEvents, PollError, StopAccepting,
                 InterruptOpener
  <1>14. ASSUME Elsewhere PROVE PolledIsOpen'
    BY <1>2, <1>13, <1>14
  <1> QED
    BY <1>3, <1>4, <1>5, <1>6, <1>7, <1>8, <1>9, <1>10, <1>11, <1>12, <1>14
    DEF Next, Opener, Run, HandlePollingChange, Exit, Elsewhere

\* While the handler runs a sensor is pending in one list at most, and polled.
LEMMA PendingNext ==
    ASSUME HandlerInv, Next, runPc' # "aborted" PROVE PendingInv'
  <1>1. Types /\ PendingInv /\ StageInv /\ runPc # "aborted"
    BY NotAborted DEF HandlerInv
  <1> USE DEF pendingVars, polledVars, flagVars, PendingInv
  <1>2. ASSUME NEW s \in Sensor, RemoveClosed(s) PROVE PendingInv'
    BY <1>1, <1>2 DEF RemoveClosed, Remove
  <1>3. ASSUME NEW s \in Sensor, RemoveReopened(s) PROVE PendingInv'
    BY <1>1, <1>3 DEF RemoveReopened, Remove
  <1>4. ASSUME AddOpened PROVE PendingInv'
    BY <1>1, <1>4 DEF AddOpened
  <1>5. ASSUME PollEvents PROVE PendingInv'
    <2>1. PICK failing \in SUBSET polledSensors, timedOut \in SUBSET polledSensors :
             /\ timedOut \subseteq Timed
             /\ pendingSensorClosures' =
                    pendingSensorClosures \cup (failing \ reopenOnIOException)
             /\ pendingSensorReopens' = pendingSensorReopens
                    \cup (failing \cap reopenOnIOException) \cup timedOut
      BY <1>5 DEF PollEvents
    <2>2. UNCHANGED <<polledSensors, acceptingOpens>>
      BY <1>5 DEF PollEvents
    <2> QED
      BY <1>1, <2>1, <2>2, HandlerAssumption
  <1>6. ASSUME StopAccepting \/ CloseAll PROVE PendingInv'
    BY <1>1, <1>6 DEF StopAccepting, CloseAll, StageInv
  <1>7. ASSUME UNCHANGED <<polledSensors, acceptingOpens, pendingSensorClosures,
                           pendingSensorReopens>>
        PROVE  PendingInv'
    BY <1>1, <1>7
  <1>8. ASSUME Opener \/ Owner \/ \E s \in Sensor : AddSensor(s)
        PROVE  PendingInv'
    BY <1>7, <1>8 DEF Opener, Owner, AddSensor, OpenerLoop, OpenerWake,
       OpenerCheck, OpenSucceeds, OpenFails, OpenInvalid, SensorIsOpen,
       SensorIsOpenSignal, Start, Interrupt, InterruptSignal, JoinOpener, JoinRun
  <1>9. ASSUME \/ RunThrows \/ RunBegin \/ RunLoop \/ PollingChanged \/ ClosuresDone
               \/ PollSignal \/ PollError \/ InterruptOpener
               \/ InterruptOpenerSignal
        PROVE  PendingInv'
    BY <1>7, <1>9 DEF RunThrows, RunBegin, RunLoop, PollingChanged, ClosuresDone,
       PollSignal, PollError, InterruptOpener, InterruptOpenerSignal
  <1> QED
    BY <1>2, <1>3, <1>4, <1>5, <1>6, <1>8, <1>9
    DEF Next, Run, HandlePollingChange, Poll, Exit

\* The stages follow one another.
LEMMA StageNext ==
    ASSUME HandlerInv, Next, runPc' # "aborted" PROVE StageInv'
  <1>1. /\ Types /\ StageInv /\ runPc # "aborted"
        /\ openedSensors = polledSensors
    BY NotAborted DEF HandlerInv, PolledIsOpen
  <1> USE DEF openerVars, pendingVars, polledVars, flagVars, threadVars, StageInv
  <1>2. ASSUME NEW s \in Sensor, AddSensor(s) PROVE StageInv'
    BY <1>1, <1>2 DEF AddSensor, SignalOpener
  <1>3. ASSUME Start PROVE StageInv'
    BY <1>1, <1>3 DEF Start
  <1>4. ASSUME Interrupt \/ InterruptSignal \/ JoinOpener \/ JoinRun PROVE StageInv'
    BY SMT, <1>1, <1>4 DEF Interrupt, InterruptSignal, JoinOpener, JoinRun
  <1>5. ASSUME OpenerLoop \/ OpenerWake \/ OpenerCheck \/ OpenSucceeds \/ OpenFails
                   \/ OpenInvalid \/ SensorIsOpenSignal
        PROVE  StageInv'
    <2>1. /\ UNCHANGED <<runPc, ownerPc, acceptingOpens, newOpenedSensors,
                         polledSensors, pendingSensorClosures>>
          /\ openerPc # "none" /\ openerPc' # "none"
      BY <1>5 DEF OpenerLoop, OpenerWake, OpenerCheck, OpenSucceeds, OpenFails,
                  OpenInvalid, SensorIsOpenSignal
    <2> QED
      BY <1>1, <2>1
  <1>6. ASSUME SensorIsOpen PROVE StageInv'
    <2>1. /\ UNCHANGED <<runPc, ownerPc, acceptingOpens, polledSensors,
                         pendingSensorClosures>>
          /\ openerPc # "none" /\ openerPc' # "none"
          /\ ~acceptingOpens => UNCHANGED newOpenedSensors
      BY <1>6 DEF SensorIsOpen
    <2> QED
      BY <1>1, <2>1
  <1>7. ASSUME RunThrows \/ RunBegin PROVE StageInv'
    BY <1>1, <1>7 DEF RunThrows, RunBegin
  <1>8. ASSUME RunLoop PROVE StageInv'
    BY <1>1, <1>8 DEF RunLoop
  <1>9. ASSUME PollingChanged PROVE StageInv'
    BY <1>1, <1>9 DEF PollingChanged
  <1>10. ASSUME NEW s \in Sensor, RemoveClosed(s) PROVE StageInv'
    BY <1>1, <1>10 DEF RemoveClosed, Remove
  <1>11. ASSUME ClosuresDone PROVE StageInv'
    BY <1>1, <1>11 DEF ClosuresDone
  <1>12. ASSUME NEW s \in Sensor, RemoveReopened(s) PROVE StageInv'
    <2>1. /\ UNCHANGED <<ownerPc, acceptingOpens, newOpenedSensors,
                         pendingSensorClosures>>
          /\ runPc = "reopens" /\ runPc' = "reopens"
          /\ polledSensors' \subseteq polledSensors
      BY <1>12 DEF RemoveReopened, Remove
    <2>2. openerPc' = "none" <=> openerPc = "none"
      BY <1>12 DEF RemoveReopened, SignalOpener
    <2> QED
      BY <1>1, <2>1, <2>2
  <1>13. ASSUME AddOpened PROVE StageInv'
    <2>1. /\ runPc = "reopens" /\ runPc' = IF acceptingOpens THEN "poll" ELSE "done"
          /\ newOpenedSensors' = {}
          /\ polledSensors' \subseteq polledSensors \cup newOpenedSensors
          /\ UNCHANGED <<ownerPc, openerPc, acceptingOpens, pendingSensorClosures>>
      BY <1>13 DEF AddOpened
    <2> QED
      BY <1>1, <2>1
  <1>14. ASSUME Poll PROVE StageInv'
    <2>1. /\ runPc = "poll" /\ runPc' \in {"loop", "exit"}
          /\ UNCHANGED <<ownerPc, openerPc, acceptingOpens, newOpenedSensors,
                         polledSensors>>
      BY <1>14 DEF Poll, PollSignal, PollEvents, PollError
    <2> QED
      BY <1>1, <2>1
  <1>15. ASSUME StopAccepting PROVE StageInv'
    BY <1>1, <1>15 DEF StopAccepting
  <1>16. ASSUME InterruptOpener PROVE StageInv'
    BY <1>1, <1>16 DEF InterruptOpener
  <1>17. ASSUME InterruptOpenerSignal PROVE StageInv'
    BY <1>1, <1>17 DEF InterruptOpenerSignal, SignalOpener
  <1>18. ASSUME CloseAll PROVE StageInv'
    BY <1>1, <1>18 DEF CloseAll
  <1> QED
    BY ZenonT(60), <1>2, <1>3, <1>4, <1>5, <1>6, <1>7, <1>8, <1>9, <1>10, <1>11,
       <1>12, <1>13, <1>14, <1>15, <1>16, <1>17, <1>18
    DEF Next, Owner, Opener, Run, HandlePollingChange, Exit

\* HandlerInv is inductive.
THEOREM HandlerInductive == Spec => []HandlerInv
  <1>1. HandlerInv /\ [Next]_vars => HandlerInv'
    <2> SUFFICES ASSUME HandlerInv, [Next]_vars PROVE HandlerInv'
      OBVIOUS
    <2>1. CASE Next
      BY <2>1, TypesNext, OpenerNext, ConnNext, PartitionNext, OpenNext,
         PendingNext, StageNext DEF HandlerInv
    <2>2. CASE UNCHANGED vars
      BY SMT, <2>2 DEF HandlerInv, Types, OpenerInv, ConnInv, Partition, PolledIsOpen,
         PendingInv, StageInv, vars, openerVars, pendingVars, polledVars,
         connVars, threadVars, flagVars, sensorVars
    <2> QED
      BY <2>1, <2>2
  <1> QED
    BY <1>1, HandlerInit, PTL DEF Spec

-----------------------------------------------------------------------------
(* What follows from it.                                                   *)

\* The lists hold what they are declared for, and the opener has one sensor at
\* a time: the threads' states stay within those of the code.
THEOREM HandlerTypeCorrect == Spec => []TypeOK
  <1>1. HandlerInv => TypeOK
    <2> SUFFICES ASSUME HandlerInv PROVE TypeOK
      OBVIOUS
    <2>1. Cardinality(opening) =
             IF openerPc \in {"taken", "opening", "opened"} THEN 1 ELSE 0
      BY FS_Singleton, FS_EmptySet DEF HandlerInv, OpenerInv
    <2> QED
      BY <2>1 DEF HandlerInv, Types, TypeOK
  <1> QED
    BY <1>1, HandlerInductive, PTL

\* A sensor added by addSensor() is at any time with the opener, on its way to
\* the handler, polled, or given up, and only one of these.
THEOREM SensorsKept == Spec => []SensorInOnePlace
  <1>1. HandlerInv => SensorInOnePlace
    <2> SUFFICES ASSUME HandlerInv, runPc # "aborted"
                 PROVE  /\ allSensors = UNION {Places[i] : i \in DOMAIN Places}
                        /\ \A i, j \in DOMAIN Places :
                              i # j => Places[i] \cap Places[j] = {}
                        /\ Len(sensors) = Cardinality(Elements(sensors))
                        /\ Len(problemSensors) = Cardinality(Elements(problemSensors))
      BY DEF SensorInOnePlace
    <2>1. Types /\ Partition
      BY DEF HandlerInv
    <2>2. /\ Len(sensors) = Cardinality(Elements(sensors))
          /\ Len(problemSensors) = Cardinality(Elements(problemSensors))
      BY <2>1, DistinctCount DEF Types, Partition
    <2>3. DOMAIN Places = 1 .. 7
      BY SMT DEF Places
    <2>4. /\ Places[1] = Elements(sensors) /\ Places[2] = Elements(problemSensors)
          /\ Places[3] = opening /\ Places[4] = newOpenedSensors
          /\ Places[5] = polledSensors /\ Places[6] = givenUp
          /\ Places[7] = unpolled
      BY DEF Places
    <2>5. Elements(sensors) \subseteq Sensor /\ Elements(problemSensors) \subseteq Sensor
      BY SMTT(30), <2>1 DEF Types, Elements
    <2>6. allSensors = UNION {Places[i] : i \in DOMAIN Places}
      <3>1. UNION {Places[i] : i \in DOMAIN Places} =
               Places[1] \cup Places[2] \cup Places[3] \cup Places[4]
                   \cup Places[5] \cup Places[6] \cup Places[7]
        BY SMTT(30), <2>3
      <3> QED
        BY SMTT(30), <2>1, <2>4, <2>5, <3>1 DEF Types, Partition
    <2>7. ASSUME NEW i \in 1 .. 7, NEW j \in 1 .. 7, i < j
          PROVE  Places[i] \cap Places[j] = {}
      BY SMT, <2>1, <2>4, <2>7 DEF Partition
    <2>8. \A i, j \in DOMAIN Places : i # j => Places[i] \cap Places[j] = {}
      BY SMT, <2>3, <2>7
    <2> QED
      BY <2>2, <2>6, <2>8
  <1> QED
    BY <1>1, HandlerInductive, PTL

\* The devices that are open are those handed over, polled, or refused by the
\* poll, and the one the opener has just opened.
THEOREM PolledAreOpen == Spec => []PolledIsOpen
  <1>1. HandlerInv => PolledIsOpen
    BY DEF HandlerInv, PolledIsOpen
  <1> QED
    BY <1>1, HandlerInductive, PTL

\* While the handler runs no pending list has a pointer to a deleted object.
THEOREM PendingAreAlive == Spec => []PendingAlive
  <1>1. HandlerInv => PendingAlive
    BY DEF HandlerInv, PendingInv, ConnInv, PendingAlive
  <1> QED
    BY <1>1, HandlerInductive, PTL

\* When run() and the opener have ended every device that was polled, or opened
\* too late to be polled, has been closed.
THEOREM AllClosed == Spec => []ClosedAtEnd
  <1>1. HandlerInv => ClosedAtEnd
    BY DEF HandlerInv, PolledIsOpen, StageInv, ClosedAtEnd
  <1> QED
    BY <1>1, HandlerInductive, PTL
=============================================================================
