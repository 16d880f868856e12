--------------------------- MODULE DSMEngineProofs ---------------------------
(***************************************************************************)
(* The safety invariants of DSMEngine for any set of requests.             *)
(***************************************************************************)
EXTENDS DSMEngine, TLAPS

\* Where run() has joined the data threads, or not yet started them.
QuietPc ==
    {"deleteProject", "deleteThreads", "stopTest", "stopWait", "errorTest",
     "errorWait", "errorQuit", "errorRun", "restartTest", "restartRun",
     "runTest", "config", "configTest", "initialize", "openSensors",
     "endProject", "endThreads", "done"}

\* Where the last project is gone.
NoProjectPc ==
    {"deleteThreads", "stopTest", "stopWait", "errorTest", "errorWait",
     "errorQuit", "errorRun", "restartTest", "restartRun", "runTest", "config",
     "configTest", "initialize", "endThreads", "done"}

\* Where the data threads have been deleted.
DeletedPc == NoProjectPc \ {"deleteThreads", "endThreads"}

\* Where the project is in use.
ProjectPc ==
    {"openSensors", "connect", "connectTest", "running", "runLoop", "runWait",
     "loopQuit", "interrupt"}

\* Where only the sorters may still run.
JoinPc == {"joinPipeline", "endJoinPipeline"}

\* What run() has built and torn down, by its place in the code.
Stage ==
    /\ Active # {} => project
    /\ pc \in QuietPc => Active = {}
    /\ pc \in JoinPc => Active \subseteq {"pipeline"}
    /\ pc \in NoProjectPc => ~project
    /\ pc \in DeletedPc \cup {"openSensors"} =>
          \A t \in DataThread : threads[t] = "none"
    /\ pc \in ProjectPc => project
    /\ pc \in ProjectPc \ {"openSensors"} =>
          /\ threads["selector"] \notin {"none", "interrupted"}
          /\ threads["pipeline"] \notin {"none", "interrupted"}
          /\ threads["statusThread"] # "interrupted"
    /\ pc \in {"runLoop", "runWait"} => threads["statusThread"] # "none"

\* Types are kept by every request and every step of run().
THEOREM EngineTypeCorrect == Spec => []TypeOK
<1>1. Init => TypeOK
  <2> SUFFICES ASSUME Init PROVE TypeOK
    OBVIOUS
  <2>1. /\ project \in BOOLEAN /\ calling \in BOOLEAN
        /\ flushed \in BOOLEAN /\ doFlush \in BOOLEAN
    BY Zenon DEF Init
  <2>2. threads \in [DataThread -> {"none", "running", "interrupted", "ended"}]
    BY DEF Init
  <2>3. nRequests \in 0 .. MaxRequests
    BY EngineAssumption DEF Init
  <2> QED  BY <2>1, <2>2, <2>3, Zenon DEF Init, TypeOK, Command, EnginePc
<1>2. ASSUME TypeOK, [Next]_vars PROVE TypeOK'
  <2> USE <1>2, EngineAssumption DEF TypeOK
  <2>1. ASSUME NEW r \in Request, MakeRequest(r) PROVE TypeOK'
    <3>1. requested' \in Request /\ nRequests' \in 0 .. MaxRequests
      BY <2>1 DEF MakeRequest
    <3>2. CASE RequestBySignal(r)
      <4>1. signals' \subseteq {"SIGHUP", "SIGTERM", "SIGUSR1"}
        <5>1. SignalOf[r] \in {"SIGHUP", "SIGTERM", "SIGUSR1"}
          BY <3>2 DEF RequestBySignal, SignalOf
        <5> QED  BY <3>2, <5>1 DEF RequestBySignal
      <4> QED  BY <3>1, <3>2, <4>1 DEF RequestBySignal, engineVars, sorterVars
    <3>3. CASE RequestByCommand(r)
      <4>1. command' \in Command
        BY <3>3 DEF RequestByCommand, CommandOf, Command
      <4> QED  BY <3>1, <3>3, <4>1 DEF RequestByCommand, sorterVars
    <3> QED  BY <2>1, <3>2, <3>3 DEF MakeRequest
  <2>2. CASE SendSignal
    BY <2>2 DEF SendSignal, engineVars, sorterVars
  <2>3. ASSUME NEW t \in DataThread, ThreadEnds(t) \/ ThreadFails(t) PROVE TypeOK'
    <3>1. flushed' \in BOOLEAN
      BY <2>3, Zenon DEF ThreadEnds, ThreadFails, sorterVars
    <3> QED  BY <2>3, <3>1 DEF ThreadEnds, ThreadFails, requestVars, sorterVars
  <2>5. CASE Receive \/ Drain
    BY <2>5 DEF Receive, Drain, requestVars
  <2>4. ASSUME NEW from, NEW to \in EnginePc, WaitForSignal(from, to)
        PROVE  TypeOK'
    BY <2>4 DEF WaitForSignal, Goto, Command, requestVars, sorterVars
  <2>6. ASSUME NEW from, NEW to \in EnginePc, SetCommandRun(from, to)
        PROVE  TypeOK'
    BY <2>6 DEF SetCommandRun, Goto, Command, requestVars, sorterVars
  <2>7. ASSUME NEW from, Error(from) PROVE TypeOK'
    BY <2>7 DEF Error, Goto, EnginePc, requestVars, sorterVars
  <2>8. ASSUME NEW from, NEW to \in EnginePc,
               \/ DeleteProject(from, to) \/ DeleteDataThreads(from, to)
               \/ FlushReturns(from, to) \/ JoinDataThreads(from, to)
        PROVE  TypeOK'
    BY <2>8 DEF DeleteProject, DeleteDataThreads, FlushReturns, JoinDataThreads,
       Interrupted, requestVars, sorterVars
  <2>12. ASSUME NEW from, NEW wait \in EnginePc, NEW to \in EnginePc,
                Interrupt(from, wait, to)
         PROVE  TypeOK'
    <3>1. doFlush' \in BOOLEAN
      BY <2>12, Zenon DEF Interrupt
    <3> QED  BY <2>12, <3>1 DEF Interrupt, Interrupted, requestVars
  <2>9. CASE Initialize \/ OpenSensors \/ StartStatus
    BY ZenonT(60), <2>9 DEF Initialize, OpenSensors, StartStatus, EnginePc, DataThread,
       requestVars, sorterVars
  <2>10. CASE Engine
    <3>1. CASE Top \/ StopTest \/ ErrorTest \/ ErrorTimeout \/ ErrorQuit
                 \/ RestartTest \/ RunTest \/ Config \/ ConfigTest \/ Connect
                 \/ ConnectTest \/ RunLoop \/ LoopQuit
                 \/ LoopJoinPipeline \/ EndJoinPipeline
      BY ZenonT(60), <3>1 DEF Top, StopTest, ErrorTest, ErrorTimeout, ErrorQuit,
         RestartTest, RunTest, Config, ConfigTest, Connect, ConnectTest,
         RunLoop, LoopQuit, LoopJoinPipeline, EndJoinPipeline, JoinPipeline, EnginePc, Test,
         Goto, requestVars, sorterVars
    <3>2. CASE StopWait \/ ErrorWait \/ RunWait
      BY <3>2, <2>4 DEF StopWait, ErrorWait, RunWait, EnginePc
    <3>3. CASE ErrorRun \/ RestartRun \/ ConfigError \/ ConnectError
      BY <3>3, <2>6, <2>7 DEF ErrorRun, RestartRun, ConfigError, ConnectError,
         EnginePc
    <3>4. CASE LoopDeleteProject \/ LoopDeleteThreads \/ Join \/ FlushLoop
                 \/ EndDeleteProject \/ EndDeleteThreads \/ EndJoin \/ FlushEnd
      BY <3>4, <2>8 DEF LoopDeleteProject, LoopDeleteThreads, Join, FlushLoop,
         EndDeleteProject, EndDeleteThreads, EndJoin, FlushEnd, EnginePc
    <3>5. CASE InterruptLoop \/ InterruptEnd
      BY <3>5, <2>12 DEF InterruptLoop, InterruptEnd, EnginePc
    <3> QED  BY <2>10, <2>9, <3>1, <3>2, <3>3, <3>4, <3>5 DEF Engine
  <2>11. CASE UNCHANGED vars
    BY <2>11 DEF vars, engineVars, requestVars, sorterVars
  <2> QED  BY <2>1, <2>2, <2>3, <2>5, <2>10, <2>11 DEF Next
<1> QED  BY <1>1, <1>2, PTL DEF Spec

\* No command is overlooked: run() tests _command in the same loop in which it
\* waits, and whoever changes _command after the test sends a signal.
THEOREM CommandsSeen == Spec => []NoCommandOverlooked
<1>1. Init => NoCommandOverlooked
  BY DEF Init, NoCommandOverlooked
<1>2. ASSUME NoCommandOverlooked, [Next]_vars PROVE NoCommandOverlooked'
  <2> USE <1>2 DEF NoCommandOverlooked
  <2>1. ASSUME NEW r \in Request, MakeRequest(r) PROVE NoCommandOverlooked'
    BY <2>1 DEF MakeRequest, RequestBySignal, RequestByCommand, engineVars, sorterVars
  <2>2. CASE SendSignal
    BY <2>2 DEF SendSignal, engineVars, sorterVars
  <2>3. ASSUME NEW t \in DataThread, ThreadEnds(t) \/ ThreadFails(t)
        PROVE  NoCommandOverlooked'
    BY <2>3 DEF ThreadEnds, ThreadFails, requestVars, sorterVars
  <2>7. CASE Receive \/ Drain
    BY <2>7 DEF Receive, Drain, requestVars
  <2>4. CASE StopTest \/ RunLoop
    BY <2>4 DEF StopTest, RunLoop, Test, Goto, requestVars, sorterVars
  <2>5. ASSUME Engine, ~(StopTest \/ RunLoop)
        PROVE  pc' \notin {"stopWait", "runWait"}
    BY <2>5 DEF Engine, Top, Join, LoopDeleteProject, LoopDeleteThreads,
       StopWait, ErrorTest, ErrorWait, ErrorTimeout, ErrorQuit, ErrorRun,
       RestartTest, RestartRun, RunTest, Config, ConfigError, ConfigTest,
       Initialize, OpenSensors, Connect, ConnectError, ConnectTest,
       StartStatus, RunWait, LoopQuit, InterruptLoop, FlushLoop, InterruptEnd,
       FlushEnd, EndJoin, LoopJoinPipeline, EndJoinPipeline, JoinPipeline,
       EndDeleteProject, EndDeleteThreads, Test, Goto, WaitForSignal,
       SetCommandRun, Error, JoinDataThreads, DeleteProject,
       DeleteDataThreads, Interrupt, FlushReturns
  <2>6. CASE UNCHANGED vars
    BY <2>6 DEF vars, engineVars, requestVars, sorterVars
  <2> QED  BY <2>1, <2>2, <2>3, <2>4, <2>5, <2>6, <2>7 DEF Next
<1> QED  BY <1>1, <1>2, PTL DEF Spec

\* At the start nothing has been built.
LEMMA InitStage == Init => Stage
  BY DEF Init, Stage, Active, QuietPc, JoinPc, NoProjectPc, DeletedPc, ProjectPc

\* The data threads are started, joined and deleted, and the project built and
\* deleted, where run() is said to do it.
LEMMA StageStep == TypeOK /\ Stage /\ [Next]_vars => Stage'
<1> SUFFICES ASSUME TypeOK, Stage, [Next]_vars PROVE Stage'
  OBVIOUS
<1> USE DEF TypeOK, Stage, Active
<1>1. ASSUME UNCHANGED <<pc, threads, project>> PROVE Stage'
  BY <1>1
<1>2. ASSUME NEW r \in Request, MakeRequest(r) PROVE Stage'
  BY <1>1, <1>2 DEF MakeRequest, RequestBySignal, RequestByCommand, engineVars, sorterVars
<1>3. CASE SendSignal
  BY <1>1, <1>3 DEF SendSignal, engineVars
<1>4. ASSUME NEW t \in DataThread, ThreadEnds(t) \/ ThreadFails(t)
      PROVE  Stage'
  BY <1>4 DEF ThreadEnds, ThreadFails, DataThread, QuietPc, JoinPc,
     NoProjectPc, DeletedPc, ProjectPc
<1>7. CASE Receive \/ Drain
  BY <1>1, <1>7 DEF Receive, Drain
<1>5. CASE Engine
  <2> USE DEF QuietPc, JoinPc, NoProjectPc, DeletedPc, ProjectPc
  <2>1. CASE Top \/ StopTest \/ ErrorTest \/ ErrorTimeout \/ ErrorQuit
               \/ RestartTest \/ RunTest \/ Config \/ ConfigTest
    BY <2>1 DEF Top, StopTest, ErrorTest, ErrorTimeout, ErrorQuit,
       RestartTest, RunTest, Config, ConfigTest, Test, Goto
  <2>2. CASE Connect \/ ConnectTest \/ RunLoop \/ LoopQuit
    BY <2>2 DEF Connect, ConnectTest, RunLoop, LoopQuit, Test, Goto
  <2>3. CASE Join \/ EndJoin
    BY <2>3 DEF Join, EndJoin, JoinDataThreads, Interrupted, DataThread
  <2>12. CASE LoopJoinPipeline \/ EndJoinPipeline
    BY <2>12 DEF LoopJoinPipeline, EndJoinPipeline, JoinPipeline, Test, Goto
  <2>4. CASE StopWait \/ ErrorWait \/ RunWait
    BY <2>4 DEF StopWait, ErrorWait, RunWait, WaitForSignal, Goto
  <2>5. CASE ErrorRun \/ RestartRun \/ ConfigError \/ ConnectError
    BY <2>5 DEF ErrorRun, RestartRun, ConfigError, ConnectError, SetCommandRun,
       Error, Goto
  <2>6. CASE LoopDeleteProject \/ EndDeleteProject
    BY <2>6 DEF LoopDeleteProject, EndDeleteProject, DeleteProject
  <2>7. CASE LoopDeleteThreads \/ EndDeleteThreads
    BY <2>7 DEF LoopDeleteThreads, EndDeleteThreads, DeleteDataThreads
  <2>8. CASE InterruptLoop \/ InterruptEnd
    BY <2>8 DEF InterruptLoop, InterruptEnd, Interrupt, Interrupted
  <2>13. CASE FlushLoop \/ FlushEnd
    BY <2>13 DEF FlushLoop, FlushEnd, FlushReturns, Interrupted
  <2>9. CASE Initialize
    BY <2>9 DEF Initialize
  <2>10. CASE OpenSensors
    BY <2>10 DEF OpenSensors, DataThread
  <2>11. CASE StartStatus
    BY <2>11 DEF StartStatus, DataThread
  <2> QED  BY <1>5, <2>1, <2>2, <2>3, <2>4, <2>5, <2>6, <2>7, <2>8, <2>9,
              <2>10, <2>11, <2>12, <2>13 DEF Engine
<1>6. CASE UNCHANGED vars
  BY <1>1, <1>6 DEF vars, engineVars
<1> QED  BY <1>2, <1>3, <1>4, <1>5, <1>6, <1>7 DEF Next

\* No data thread outlives the project: run() deletes it only after
\* joinDataThreads().
THEOREM ThreadsHaveProject == Spec => []NoThreadWithoutProject
<1>1. Stage => NoThreadWithoutProject
  BY DEF Stage, NoThreadWithoutProject
<1> QED  BY <1>1, InitStage, StageStep, EngineTypeCorrect, PTL DEF Spec

\* In each of its waits run() has built, or torn down, everything.
THEOREM WaitsComplete == Spec => []WaitsInStep
<1>1. Stage => WaitsInStep
  BY DEF Stage, WaitsInStep, NoProjectPc, DeletedPc, ProjectPc, DataThread
<1> QED  BY <1>1, InitStage, StageStep, EngineTypeCorrect, PTL DEF Spec

=============================================================================
