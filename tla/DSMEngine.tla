------------------------------ MODULE DSMEngine ------------------------------
(***************************************************************************)
(* nidas::core::DSMEngine: the main loop of the data acquisition process,  *)
(* which reads its configuration, starts the data threads, waits for a     *)
(* command, and stops the threads again.  Commands come as signals and as  *)
(* calls of the XML-RPC thread, which sets _command without a lock and     *)
(* then sends SIGUSR1.  The signals are blocked except in waitForSignal(). *)
(*                                                                         *)
(* The data threads are abstracted to their life: a thread that has been   *)
(* interrupted ends, and the status thread and the SensorHandler may also  *)
(* end by an exception.  The sorters of the pipeline are taken as one, and *)
(* of its buffer only what flush() looks at is kept (a sorter of length 0  *)
(* is a SampleBuffer, whose flush() does nothing).  The status thread      *)
(* and at least one sensor are configured, the configuration is read from  *)
(* a file, and there is no DerivedDataReader.                              *)
(***************************************************************************)
EXTENDS Naturals, FiniteSets

CONSTANTS
    Request,       \* the requests that are made: a subset of AllRequests
    MaxRequests,   \* bound: how many
    ConfigFails,   \* may reading the configuration fail?
    ConnectFails   \* may connectProcessors() throw?

DataThread == {"statusThread", "selector", "pipeline"}
Command == {"DSM_STOP", "DSM_RUN", "DSM_QUIT", "DSM_RESTART", "DSM_REBOOT",
            "DSM_SHUTDOWN"}
AllRequests == {"start", "stop", "restart", "quit", "shutdown", "reboot"}

ASSUME EngineAssumption ==
    /\ Request \subseteq AllRequests
    /\ MaxRequests \in Nat
    /\ ConfigFails \in BOOLEAN
    /\ ConnectFails \in BOOLEAN

VARIABLES
    command,     \* _command
    runState,    \* _runState
    pc,          \* where run() is
    threads,     \* the data threads: "none", "running", "interrupted", "ended"
    project,     \* _project exists
    flushed,     \* _flushed of the sorters
    doFlush,     \* _doFlush of the sorters
    signals,     \* the signals pending
    calling,     \* the XML-RPC thread has set _command and not yet signalled
    requested,   \* the last request
    nRequests

sorterVars == <<flushed, doFlush>>
engineVars == <<command, runState, pc, threads, project, sorterVars>>
requestVars == <<calling, requested, nRequests>>
vars == <<engineVars, signals, requestVars>>

Init ==
    /\ command = "DSM_RUN" /\ runState = "DSM_RUNNING"
    /\ pc = "top"
    /\ threads = [t \in DataThread |-> "none"]
    /\ project = FALSE
    /\ flushed = TRUE /\ doFlush = FALSE
    /\ signals = {}
    /\ calling = FALSE /\ requested = "none" /\ nRequests = 0


quitCommand(c) == c \in {"DSM_QUIT", "DSM_REBOOT", "DSM_SHUTDOWN"}

-----------------------------------------------------------------------------
(* Requests                                                                *)

SignalOf == [restart |-> "SIGHUP", quit |-> "SIGTERM"]
CommandOf == [start |-> "DSM_RUN", stop |-> "DSM_STOP",
              shutdown |-> "DSM_SHUTDOWN", reboot |-> "DSM_REBOOT"]

\* restart(), quit(), and the same signals from elsewhere.
RequestBySignal(r) ==
    /\ r \in DOMAIN SignalOf
    /\ signals' = signals \cup {SignalOf[r]}
    /\ UNCHANGED <<engineVars, calling>>

\* Mutant: without pthread_kill().
RequestByCommandQuiet(r) ==
    /\ r \in DOMAIN CommandOf
    /\ command' = CommandOf[r]
    /\ UNCHANGED <<runState, pc, threads, project, sorterVars, signals, calling>>

\* start(), stop(), shutdown(), reboot(): _command is set ...
RequestByCommand(r) ==
    /\ r \in DOMAIN CommandOf
    /\ command' = CommandOf[r]
    /\ calling' = TRUE
    /\ UNCHANGED <<runState, pc, threads, project, sorterVars, signals>>

MakeRequest(r) ==
    /\ ~calling
    /\ pc # "done"
    /\ nRequests < MaxRequests
    /\ requested' = r
    /\ nRequests' = nRequests + 1
    /\ RequestBySignal(r) \/ RequestByCommand(r)

\* ... then the main thread is signalled.
SendSignal ==
    /\ calling
    /\ calling' = FALSE
    /\ signals' = signals \cup {"SIGUSR1"}
    /\ UNCHANGED <<engineVars, requested, nRequests>>

-----------------------------------------------------------------------------
(* run().  _command is read and written without a lock: each access is a   *)
(* step of its own.                                                        *)

Goto(from, to) ==
    /\ pc = from
    /\ pc' = to
    /\ UNCHANGED <<threads, project, sorterVars, requestVars>>

\* A signal is taken, the one with the lowest number first.
WaitForSignal(from, to) ==
    /\ Goto(from, to)
    /\ \E s \in signals :
          /\ s = "SIGTERM" => signals = {"SIGTERM"}
          /\ s = "SIGUSR1" => "SIGHUP" \notin signals
          /\ signals' = signals \ {s}
          /\ command' = CASE s = "SIGHUP" -> "DSM_RESTART"
                          [] s = "SIGTERM" -> "DSM_QUIT"
                          [] OTHER -> command
    /\ UNCHANGED runState

Test(from, condition, yes, no) ==
    /\ Goto(from, IF condition THEN yes ELSE no)
    /\ UNCHANGED <<command, runState, signals>>

SetCommandRun(from, to) ==
    /\ Goto(from, to)
    /\ command' = "DSM_RUN"
    /\ UNCHANGED <<runState, signals>>

\* Something throws: the loop starts over.
Error(from) ==
    /\ Goto(from, "top")
    /\ runState' = "DSM_ERROR"
    /\ UNCHANGED <<command, signals>>

Interrupted(ts) ==
    [t \in DataThread |->
       IF t \in ts /\ threads[t] = "running" THEN "interrupted" ELSE threads[t]]

\* Mutant: the status thread is not joined.
JoinDataThreadsNoStatus(from, to) ==
    /\ pc = from
    /\ threads["selector"] \in {"none", "ended"}
    /\ pc' = to
    /\ threads' = Interrupted({"pipeline"})
    /\ UNCHANGED <<command, runState, project, sorterVars, signals, requestVars>>

\* joinDataThreads() waits for the status thread and the SensorHandler as they
\* are; then SamplePipeline::join() interrupts the sorters ...
JoinDataThreads(from, to) ==
    /\ pc = from
    /\ \A t \in {"statusThread", "selector"} : threads[t] \in {"none", "ended"}
    /\ pc' = to
    /\ threads' = Interrupted({"pipeline"})
    /\ UNCHANGED <<command, runState, project, sorterVars, signals, requestVars>>

\* ... and waits for them.
JoinPipeline(from, to) ==
    /\ threads["pipeline"] \in {"none", "ended"}
    /\ Test(from, TRUE, to, to)

\* Mutant: the project is kept.
DeleteProjectKept(from, to) == Test(from, TRUE, to, to)

\* disconnectProcessors(), closeOutputs(), delete _project.
DeleteProject(from, to) ==
    /\ pc = from
    /\ pc' = to
    /\ project' = FALSE
    /\ UNCHANGED <<command, runState, threads, sorterVars, signals, requestVars>>

DeleteDataThreads(from, to) ==
    /\ pc = from
    /\ pc' = to
    /\ threads' = [t \in DataThread |-> "none"]
    /\ UNCHANGED <<command, runState, project, sorterVars, signals, requestVars>>

\* interrupt(): the status thread and the SensorHandler are interrupted, then
\* flush() of the pipeline returns at once or asks the sorters to drain ...
Interrupt(from, wait, to) ==
    /\ pc = from
    /\ LET returns == threads["pipeline"] = "none" \/ flushed
       IN  /\ pc' = IF returns THEN to ELSE wait
           /\ doFlush' = (doFlush \/ ~returns)
           /\ threads' = Interrupted(IF returns THEN DataThread
                                               ELSE DataThread \ {"pipeline"})
    /\ UNCHANGED <<command, runState, project, flushed, signals, requestVars>>

\* ... and waits until they have, or have been interrupted.  Then they are.
FlushReturns(wait, to) ==
    /\ pc = wait
    /\ flushed \/ threads["pipeline"] # "running"
    /\ pc' = to
    /\ threads' = Interrupted({"pipeline"})
    /\ UNCHANGED <<command, runState, project, sorterVars, signals, requestVars>>

Top == Test("top", quitCommand(command), "end", "join")
Join == JoinDataThreads("join", "joinPipeline")
LoopJoinPipeline == JoinPipeline("joinPipeline", "deleteProject")
LoopDeleteProject == DeleteProject("deleteProject", "deleteThreads")
LoopDeleteThreads == DeleteDataThreads("deleteThreads", "stopTest")
StopTest == Test("stopTest", command = "DSM_STOP", "stopWait", "errorTest")
StopWait == WaitForSignal("stopWait", "stopTest")
ErrorTest == Test("errorTest", runState = "DSM_ERROR" /\ ~quitCommand(command),
                  "errorWait", "restartTest")
ErrorWait == WaitForSignal("errorWait", "errorQuit")
\* sigtimedwait() returns after 15 seconds without a signal.
ErrorTimeout == signals = {} /\ Test("errorWait", TRUE, "errorQuit", "errorQuit")
ErrorQuit == Test("errorQuit", quitCommand(command), "end", "errorRun")
ErrorRun == SetCommandRun("errorRun", "restartTest")

RestartTest == Test("restartTest", command = "DSM_RESTART", "restartRun", "runTest")
RestartRun == SetCommandRun("restartRun", "runTest")
RunTest == Test("runTest", command = "DSM_RUN", "config", "top")
\* requestXMLConfig() or parseXMLConfigFile() ...
Config == Test("config", TRUE, "configTest", "configTest")
ConfigError == ConfigFails /\ Error("config")
ConfigTest == Test("configTest", command = "DSM_RUN", "initialize", "top")

\* initialize(): the project is built, and may turn out to be wrong.
Initialize ==
    /\ pc = "initialize"
    /\ project' = TRUE
    /\ \/ pc' = "openSensors" /\ UNCHANGED runState
       \/ ConfigFails /\ pc' = "top" /\ runState' = "DSM_ERROR"
    /\ UNCHANGED <<command, threads, sorterVars, signals, requestVars>>

\* openSensors() starts the sorters of the pipeline and the SensorHandler.
OpenSensors ==
    /\ pc = "openSensors"
    /\ pc' = "connect"
    /\ threads' = [threads EXCEPT !["selector"] = "running",
                                  !["pipeline"] = "running"]
    /\ flushed' = TRUE /\ doFlush' = FALSE
    /\ UNCHANGED <<command, runState, project, signals, requestVars>>

\* connectOutputs(), connectProcessors()
Connect == Test("connect", TRUE, "connectTest", "connectTest")
ConnectError == ConnectFails /\ Error("connect")
ConnectTest == Test("connectTest", command = "DSM_RUN", "running", "top")

\* The status thread is started.
StartStatus ==
    /\ pc = "running"
    /\ pc' = "runLoop"
    /\ threads' = [threads EXCEPT !["statusThread"] = "running"]
    /\ runState' = "DSM_RUNNING"
    /\ UNCHANGED <<command, project, sorterVars, signals, requestVars>>

RunLoop == Test("runLoop", command = "DSM_RUN", "runWait", "loopQuit")
RunWait == WaitForSignal("runWait", "runLoop")
LoopQuit == Test("loopQuit", quitCommand(command), "end", "interrupt")
InterruptLoop == Interrupt("interrupt", "flush", "top")
FlushLoop == FlushReturns("flush", "top")
InterruptEnd == Interrupt("end", "endFlush", "endJoin")
FlushEnd == FlushReturns("endFlush", "endJoin")
EndJoin == JoinDataThreads("endJoin", "endJoinPipeline")
EndJoinPipeline == JoinPipeline("endJoinPipeline", "endProject")
EndDeleteProject == DeleteProject("endProject", "endThreads")
EndDeleteThreads == DeleteDataThreads("endThreads", "done")

\* A data thread that has been interrupted ends; a sorter drops what it has.
ThreadEnds(t) ==
    /\ threads[t] = "interrupted"
    /\ threads' = [threads EXCEPT ![t] = "ended"]
    /\ flushed' = (t = "pipeline" \/ flushed)
    /\ UNCHANGED <<command, runState, pc, project, doFlush, signals, requestVars>>

\* run() of the status thread or of the SensorHandler throws.
ThreadFails(t) ==
    /\ t # "pipeline"
    /\ threads[t] = "running"
    /\ threads' = [threads EXCEPT ![t] = "ended"]
    /\ UNCHANGED <<command, runState, pc, project, sorterVars, signals, requestVars>>

\* A sample of a sensor gets to the sorters.
Receive ==
    /\ threads["selector"] \in {"running", "interrupted"}
    /\ threads["pipeline"] # "none"
    /\ flushed' = FALSE
    /\ UNCHANGED <<command, runState, pc, threads, project, doFlush, signals, requestVars>>

\* A sorter that was asked to flush finds its buffer empty.
Drain ==
    /\ threads["pipeline"] = "running"
    /\ doFlush
    /\ flushed' = TRUE /\ doFlush' = FALSE
    /\ UNCHANGED <<command, runState, pc, threads, project, signals, requestVars>>

Engine ==
    \/ Top \/ Join \/ LoopJoinPipeline \/ LoopDeleteProject \/ LoopDeleteThreads
    \/ StopTest \/ StopWait
    \/ ErrorTest \/ ErrorWait \/ ErrorTimeout \/ ErrorQuit \/ ErrorRun
    \/ RestartTest \/ RestartRun \/ RunTest
    \/ Config \/ ConfigError \/ ConfigTest \/ Initialize
    \/ OpenSensors \/ Connect \/ ConnectError \/ ConnectTest
    \/ StartStatus \/ RunLoop \/ RunWait \/ LoopQuit
    \/ InterruptLoop \/ FlushLoop \/ InterruptEnd \/ FlushEnd
    \/ EndJoin \/ EndJoinPipeline \/ EndDeleteProject \/ EndDeleteThreads

Next ==
    \/ Engine
    \/ SendSignal
    \/ \E r \in Request : MakeRequest(r)
    \/ \E t \in DataThread : ThreadEnds(t) \/ ThreadFails(t)
    \/ Receive
    \/ Drain

Spec == Init /\ [][Next]_vars

\* The threads run, a data thread that is interrupted ends, and a sorter that is
\* asked to flush drains: the SensorHandler has been interrupted by then.
Fairness ==
    /\ WF_vars(Engine)
    /\ WF_vars(SendSignal)
    /\ \A t \in DataThread : WF_vars(ThreadEnds(t))
    /\ WF_vars(Drain)

LiveSpec == Spec /\ Fairness

-----------------------------------------------------------------------------
(* Properties                                                              *)

EnginePc ==
    {"top", "join", "joinPipeline", "deleteProject", "deleteThreads", "stopTest",
     "stopWait", "errorTest", "errorWait", "errorQuit", "errorRun", "restartTest", "restartRun",
     "runTest", "config", "configTest", "initialize", "openSensors", "connect",
     "connectTest", "running", "runLoop", "runWait", "loopQuit", "interrupt",
     "flush", "end", "endFlush", "endJoin", "endJoinPipeline", "endProject", "endThreads", "done"}

\* The commands, run states and signals are those of the code, and run() is at
\* one of its steps.
TypeOK ==
    /\ command \in Command
    /\ runState \in {"DSM_RUNNING", "DSM_ERROR"}
    /\ pc \in EnginePc
    /\ threads \in [DataThread -> {"none", "running", "interrupted", "ended"}]
    /\ project \in BOOLEAN
    /\ flushed \in BOOLEAN
    /\ doFlush \in BOOLEAN
    /\ signals \subseteq {"SIGHUP", "SIGTERM", "SIGUSR1"}
    /\ calling \in BOOLEAN
    /\ requested \in Request \cup {"none"}
    /\ nRequests \in 0 .. MaxRequests

Active == {t \in DataThread : threads[t] \in {"running", "interrupted"}}

\* The data threads use the sensors, outputs and processors of the project:
\* none of them outlives it.
NoThreadWithoutProject ==
    Active # {} => project

\* While run() waits for a command in its run loop, the project exists and all
\* data threads have been started and not interrupted; while it waits in the
\* stopped or in the error state, and when it returns, nothing of them is left.
WaitsInStep ==
    /\ pc = "runWait" =>
          project /\ \A t \in DataThread : threads[t] \notin {"none", "interrupted"}
    /\ pc \in {"stopWait", "errorWait", "done"} =>
          ~project /\ \A t \in DataThread : threads[t] = "none"

\* A command set before the signal was sent is not overlooked: when no signal
\* is on its way, the loop in which run() waits is the one for the command.
NoCommandOverlooked ==
    signals = {} /\ ~calling =>
        /\ pc = "runWait" => command = "DSM_RUN"
        /\ pc = "stopWait" => command = "DSM_STOP"

\* run() joins the SensorHandler or the status thread, which nobody has
\* interrupted.
JoinHangs ==
    pc = "join" /\ \E t \in {"statusThread", "selector"} : threads[t] = "running"

\* interrupt() waits in flush() for sorters that have drained, and have received
\* another sample before it looked: they do not know of the flush any more.
FlushHangs ==
    /\ pc \in {"flush", "endFlush"}
    /\ threads["pipeline"] = "running"
    /\ ~flushed /\ ~doFlush

Hangs == JoinHangs \/ FlushHangs

\* stop(): "Stop data acquisition threads and wait for next command."
StopObeyed ==
    requested = "stop" ~> pc = "stopWait" \/ requested # "stop"



=============================================================================
