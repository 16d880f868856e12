---------------------------- MODULE SampleOutputs ----------------------------
(***************************************************************************)
(* The outputs of a DSM: SampleOutputRequestThread, which requests their   *)
(* connections and deletes the ones that are lost, the connection threads  *)
(* of their channels, the sorter threads that distribute samples to the    *)
(* connected ones, and DSMEngine, which starts and closes them all.        *)
(*                                                                         *)
(* An original output is configured for the whole run.  One on a Socket    *)
(* ("client") is connected itself; one on a ServerSocket ("server") or an  *)
(* McSocket ("mcrequest") is cloned for every connection, and the clone is *)
(* deleted when its connection is lost.  Their reconnect delay is not      *)
(* negative.  The model ends with closeOutputs(), before the project is    *)
(* deleted.                                                                *)
(***************************************************************************)
EXTENDS Integers, Sequences, FiniteSets

CONSTANTS
    Output,         \* the configured SampleOutputs
    Kind,           \* the channel of each: "client", "server" or "mcrequest"
    Clone,          \* the addresses at which clones are allocated
    Sorter,         \* the sorter threads
    Source,         \* the sorter whose samples each output receives
    None,           \* no output: a null pointer
    MaxRequests,    \* bound: connection requests not yet handled
    MaxFailures,    \* bound: channels without a thread after a failure
    FailedAtClose   \* bound: outputs that may have failed when the engine stops

ASSUME OutputsAreObjects == Output \intersect Clone = {}
ASSUME NoneIsNoObject == None \notin Output \union Clone
ASSUME KindsOK == Kind \in [Output -> {"client", "server", "mcrequest"}]
ASSUME SortersOK == IsFiniteSet(Sorter)
ASSUME SourcesOK == Source \in [Output -> Sorter]
ASSUME BoundOK == MaxRequests \in Nat /\ MaxFailures \in Nat /\ FailedAtClose \subseteq Output

VARIABLES
    connectRequests, disconnectRequests,        \* of SampleOutputRequestThread
    rpc, curreqs, curdis, nreq,                 \* its run()
    cpc, thread, newout, joining,   \* per channel: its connection thread, the
                                    \* pointer to it, the output it connects,
                                    \* and a ThreadJoiner not yet done
    gaveUp,                         \* history: channels whose thread could not
                                    \* be started, or ended without a connection,
                                    \* and has not been started since
    original,                       \* of each clone; None at a free address
    outputSet, clients,                         \* connected, receiving
    spc, tmp, cur,                              \* per sorter: distribute()
    epc, todo, held, interrupted    \* the engine: outputs left to connect or
                                    \* close, the McSocket whose mutex it has
                                    \* locked, threads it has interrupted

requests == <<connectRequests, disconnectRequests>>
requester == <<rpc, curreqs, curdis, nreq>>
channels == <<cpc, thread, newout, joining, gaveUp>>
sorters == <<spc, tmp, cur>>
engine == <<epc, todo, held, interrupted>>
vars == <<requests, requester, channels, original, outputSet, clients, sorters,
          engine>>

Object == Output \union Clone
getOriginal(c) == IF c \in Clone THEN original[c] ELSE c
alive == {k \in Clone : original[k] # None}
Live == Output \union alive

\* The clones in S are deleted.
Delete(S) ==
    original' = [k \in Clone |-> IF k \in S THEN None ELSE original[k]]
Running == epc \in {"connect", "run", "join"}

Init ==
    /\ connectRequests = <<>> /\ disconnectRequests = {}
    /\ rpc = "top" /\ curreqs = <<>> /\ curdis = {} /\ nreq = 0
    /\ cpc = [o \in Output |-> "none"] /\ thread = [o \in Output |-> FALSE]
    /\ newout = [o \in Output |-> None] /\ joining = [o \in Output |-> FALSE]
    /\ gaveUp = {}
    /\ original = [k \in Clone |-> None]
    /\ outputSet = {} /\ clients = {}
    /\ spc = [s \in Sorter |-> "idle"] /\ tmp = [s \in Sorter |-> {}]
    /\ cur = [s \in Sorter |-> None]
    /\ epc = IF Output = {} THEN "run" ELSE "connect"
    /\ todo = Output /\ held = None /\ interrupted = {}

-----------------------------------------------------------------------------
(***************************************************************************)
(* SampleOutputRequestThread                                               *)
(***************************************************************************)
Signalled == rpc' = IF rpc = "wait" THEN "top" ELSE rpc
\* Mutant: the request is added without a signal.
AddWithoutSignal(o, due) ==
    /\ connectRequests' = Append(connectRequests, [out |-> o, due |-> due])
    /\ rpc' = rpc

\* A request is due at once or after the delay of the output.
addConnectRequest(o, due) ==
    /\ connectRequests' = Append(connectRequests, [out |-> o, due |-> due])
    /\ Signalled

addDeleteRequest(c) ==
    /\ disconnectRequests' = disconnectRequests \union {c}
    /\ Signalled

\* The time of a postponed request comes.
TimePasses(o) ==
    \E i \in 1..Len(connectRequests) :
        /\ connectRequests[i].out = o /\ ~connectRequests[i].due
        /\ connectRequests' = [connectRequests EXCEPT ![i].due = TRUE]
        /\ UNCHANGED <<disconnectRequests, requester, channels, original,
                       outputSet, clients, sorters, engine>>

\* The requests of r at the positions in P, in their order.
Rank(i, P) == Cardinality({j \in P : j <= i})
Selected(r, P) ==
    [k \in 1..Cardinality(P) |-> r[CHOOSE i \in P : Rank(i, P) = k]]

\* The top of the loop of run(), with _requestCond locked.
RequestTop ==
    /\ rpc = "top"
    /\ IF connectRequests = <<>> /\ disconnectRequests = {}
       THEN rpc' = "wait" /\ UNCHANGED <<requests, curreqs, curdis, nreq>>
       ELSE LET all == 1..Len(connectRequests)
                come == {i \in all : connectRequests[i].due}
            IN  /\ nreq' = Len(connectRequests) + Cardinality(disconnectRequests)
                /\ curdis' = disconnectRequests /\ disconnectRequests' = {}
                /\ curreqs' = Selected(connectRequests, come)
                /\ connectRequests' = Selected(connectRequests, all \ come)
                /\ rpc' = "handle"
    /\ UNCHANGED <<channels, original, outputSet, clients, sorters, engine>>

\* requestConnection() starts a connection thread unless there is one.
requestConnection(o) ==
    /\ thread' = [thread EXCEPT ![o] = TRUE]
    /\ IF thread[o] THEN UNCHANGED <<cpc, gaveUp>>
       ELSE /\ cpc' = [cpc EXCEPT ![o] = "connect"]
            /\ gaveUp' = gaveUp \ {o}

GivesUp(o) ==
    /\ gaveUp' = gaveUp \union {o}
    /\ Cardinality(gaveUp') <= MaxFailures
    /\ epc \in {"connect", "run"} \/ o \in FailedAtClose

\* The thread cannot be started: the pointer to it stays, and request() of an
\* McSocket, left by an exception, has not unlocked _multicaster_mutex.
NotStarted(o) ==
    /\ thread' = [thread EXCEPT ![o] = TRUE]
    /\ cpc' = [cpc EXCEPT ![o] = IF Kind[o] = "mcrequest" THEN "jammed" ELSE @]
    /\ GivesUp(o)

\* An IOException, and another request.  That a ServerSocket cannot be bound,
\* or its thread be started, may leave no trace.
RequestRefused ==
    /\ rpc = "handle" /\ curreqs # <<>>
    /\ LET o == Head(curreqs).out
       IN  /\ ~thread[o]
           /\ Len(connectRequests) < MaxRequests
           /\ addConnectRequest(o, FALSE)
           /\ \/ NotStarted(o)
              \/ Kind[o] = "server" /\ UNCHANGED <<cpc, thread, gaveUp>>
    /\ curreqs' = Tail(curreqs) /\ nreq' = nreq - 1
    /\ UNCHANGED <<disconnectRequests, curdis, newout, joining, original, outputSet,
                   clients, sorters, engine>>

\* request() of an McSocket waits for _multicaster_mutex.
RequestConnection ==
    /\ rpc = "handle" /\ curreqs # <<>>
    /\ cpc[Head(curreqs).out] # "jammed"
    /\ requestConnection(Head(curreqs).out)
    /\ curreqs' = Tail(curreqs) /\ nreq' = nreq - 1
    /\ UNCHANGED <<requests, rpc, curdis, newout, joining, original, outputSet,
                   clients, sorters, engine>>

RequestDelete ==
    /\ rpc = "handle" /\ curreqs = <<>> /\ curdis # {}
    /\ \E c \in curdis : /\ curdis' = curdis \ {c}
                         /\ Delete({c})
    /\ nreq' = nreq - 1
    /\ UNCHANGED <<requests, rpc, curreqs, channels, outputSet, clients,
                   sorters, engine>>

\* With nothing but the postponed requests it sleeps, a second at a time,
\* until the first of them is due or something is added or cleared.
RequestSleep ==
    /\ rpc = "handle" /\ curreqs = <<>> /\ curdis = {}
    /\ rpc' = "sleep"
    /\ UNCHANGED <<requests, curreqs, curdis, nreq, channels, original, outputSet,
                   clients, sorters, engine>>

RequestAwake ==
    /\ rpc = "sleep"
    /\ \/ nreq = 0 \/ disconnectRequests # {} \/ Len(connectRequests) # nreq
       \/ \E i \in 1..Len(connectRequests) : connectRequests[i].due
    /\ rpc' = "top"
    /\ UNCHANGED <<requests, curreqs, curdis, nreq, channels, original, outputSet,
                   clients, sorters, engine>>

run ==
    \/ RequestTop \/ RequestRefused \/ RequestConnection \/ RequestDelete
    \/ RequestSleep \/ RequestAwake

-----------------------------------------------------------------------------
(***************************************************************************)
(* The connection threads                                                  *)
(***************************************************************************)
\* Socket::connect() succeeds; the pointer to the thread is reset before
\* the output is told.
ConnectSocket(o) ==
    /\ Kind[o] = "client" /\ cpc[o] = "connect"
    /\ cpc' = [cpc EXCEPT ![o] = "insert"]
    /\ thread' = [thread EXCEPT ![o] = FALSE]
    /\ newout' = [newout EXCEPT ![o] = o]
    /\ UNCHANGED <<requests, requester, joining, gaveUp, original, outputSet, clients,
                   sorters, engine>>

\* McSocketMulticaster::run() has accepted a connection, or its poll has failed,
\* and it has locked _mcsocketMutex.
AcceptMulticast(o) ==
    /\ Kind[o] = "mcrequest" /\ cpc[o] = "connect"
    /\ cpc' = [cpc EXCEPT ![o] = "offer"]
    /\ UNCHANGED <<requests, requester, thread, newout, joining, gaveUp, original,
                   outputSet, clients, sorters, engine>>

\* SampleOutputBase::connected() clones the output for a new channel.
connected(o) ==
    \E c \in Clone \ alive :
        /\ original' = [original EXCEPT ![c] = o]
        /\ newout' = [newout EXCEPT ![o] = c]
        /\ cpc' = [cpc EXCEPT ![o] = "insert"]

\* McSocket::offer(): joinMulticaster() needs _multicaster_mutex, which
\* McSocket::close() holds while it interrupts the multicaster.
offer(o) ==
    /\ cpc[o] = "offer"
    /\ held # o
    /\ thread' = [thread EXCEPT ![o] = FALSE]
    /\ connected(o)
    /\ UNCHANGED <<requests, requester, joining, gaveUp, outputSet, clients, sorters,
                   engine>>

\* offer() of an error, or an exception in McSocket::connected(): the
\* multicaster ends, and nothing is requested again.
OfferError(o) ==
    /\ cpc[o] = "offer"
    /\ held # o
    /\ thread' = [thread EXCEPT ![o] = FALSE]
    /\ cpc' = [cpc EXCEPT ![o] = "none"]
    /\ GivesUp(o)
    /\ UNCHANGED <<requests, requester, newout, joining, original, outputSet, clients,
                   sorters, engine>>

\* accept() throws: run() of the multicaster or of the ServerSocket's thread
\* ends, and the pointer to the thread stays.
AcceptThrows(o) ==
    /\ Kind[o] # "client" /\ cpc[o] = "connect"
    /\ cpc' = [cpc EXCEPT ![o] = "none"]
    /\ GivesUp(o)
    /\ UNCHANGED <<requests, requester, thread, newout, joining, original, outputSet,
                   clients, sorters, engine>>

ConnectingEnds(o) == OfferError(o) \/ AcceptThrows(o)

\* ServerSocket::ConnectionThread::run() accepts a connection, again and
\* again until it is interrupted.  Bound: it leaves an address for another
\* output.
AcceptConnection(o) ==
    /\ Kind[o] = "server" /\ cpc[o] = "connect"
    /\ Cardinality(Clone \ alive) > 1
    /\ connected(o)
    /\ UNCHANGED <<requests, requester, thread, joining, gaveUp, outputSet, clients,
                   sorters, engine>>

\* DSMEngine::connect(), first under _outputMutex, then in the sorter.
InsertOutput(o) ==
    /\ cpc[o] = "insert" /\ epc # "closing"
    /\ outputSet' = outputSet \union {newout[o]}
    /\ cpc' = [cpc EXCEPT ![o] = "add"]
    /\ UNCHANGED <<requests, requester, thread, newout, joining, gaveUp, original,
                   clients, sorters, engine>>

AddClient(o) ==
    /\ cpc[o] = "add"
    /\ clients' = clients \union {newout[o]}
    /\ cpc' = [cpc EXCEPT ![o] = IF Kind[o] = "server" /\ o \notin interrupted
                                 THEN "connect" ELSE "none"]
    /\ newout' = [newout EXCEPT ![o] = None]
    /\ joining' = [joining EXCEPT ![o] = @ \/ Kind[o] = "client"]
    /\ UNCHANGED <<requests, requester, thread, gaveUp, original, outputSet, sorters,
                   engine>>

\* The ThreadJoiner deletes the connection thread of a Socket, whose
\* destructor resets the pointer once more.
ThreadJoiner(o) ==
    /\ joining[o]
    /\ joining' = [joining EXCEPT ![o] = FALSE]
    /\ thread' = [thread EXCEPT ![o] = FALSE]
    /\ UNCHANGED <<requests, requester, cpc, newout, gaveUp, original, outputSet, clients,
                   sorters, engine>>

Connecting(o) ==
    \/ ConnectSocket(o) \/ AcceptMulticast(o) \/ offer(o) \/ AcceptConnection(o)
    \/ InsertOutput(o) \/ AddClient(o) \/ ThreadJoiner(o)

-----------------------------------------------------------------------------
(***************************************************************************)
(* The sorter threads: SampleSourceSupport::distribute(), the receive() of *)
(* SampleOutputStream and DSMEngine::disconnect()                          *)
(***************************************************************************)
\* A copy of the list of clients is made under its lock and then used
\* without it.
distribute(s) ==
    /\ spc[s] = "idle"
    /\ tmp' = [tmp EXCEPT ![s] = {c \in clients : Source[getOriginal(c)] = s}]
    /\ spc' = [spc EXCEPT ![s] = "loop"]
    /\ UNCHANGED <<requests, requester, channels, original, outputSet, clients, cur,
                   engine>>

\* receive() writes the sample, or the write throws an IOException (bound:
\* not while MaxRequests requests are waiting).
receive(s) ==
    /\ spc[s] = "loop"
    /\ \E c \in tmp[s] :
          /\ tmp' = [tmp EXCEPT ![s] = @ \ {c}]
          /\ \/ UNCHANGED <<spc, cur>>
             \/ /\ Len(connectRequests) < MaxRequests
                /\ spc' = [spc EXCEPT ![s] = "remove"]
                /\ cur' = [cur EXCEPT ![s] = c]
    /\ UNCHANGED <<requests, requester, channels, original, outputSet, clients,
                   engine>>

DistributeEnds(s) ==
    /\ spc[s] = "loop" /\ tmp[s] = {}
    /\ spc' = [spc EXCEPT ![s] = "idle"]
    /\ UNCHANGED <<requests, requester, channels, original, outputSet, clients, tmp,
                   cur, engine>>

\* Mutant: the output goes on receiving.
RemoveNothing(s) ==
    /\ spc[s] = "remove"
    /\ spc' = [spc EXCEPT ![s] = "erase"]
    /\ UNCHANGED <<requests, requester, channels, original, outputSet, clients, tmp,
                   cur, engine>>

removeSampleClient(s) ==
    /\ spc[s] = "remove"
    /\ clients' = clients \ {cur[s]}
    /\ spc' = [spc EXCEPT ![s] = "erase"]
    /\ UNCHANGED <<requests, requester, channels, original, outputSet, tmp, cur,
                   engine>>

\* Under _outputMutex; the output is then flushed and closed.
EraseOutput(s) ==
    /\ spc[s] = "erase" /\ epc # "closing"
    /\ outputSet' = outputSet \ {cur[s]}
    /\ spc' = [spc EXCEPT ![s] = "delete"]
    /\ UNCHANGED <<requests, requester, channels, original, clients, tmp, cur, engine>>

\* Mutant: an original is deleted like a clone.
DeleteAny(s) ==
    /\ spc[s] = "delete"
    /\ addDeleteRequest(cur[s])
    /\ spc' = [spc EXCEPT ![s] = "reconnect"]
    /\ cur' = [cur EXCEPT ![s] = getOriginal(cur[s])]
    /\ UNCHANGED <<connectRequests, curreqs, curdis, nreq, channels, original,
                   outputSet, clients, tmp, engine>>

\* A clone is deleted by the request thread.
DeleteLater(s) ==
    /\ spc[s] = "delete"
    /\ IF cur[s] \in Clone THEN addDeleteRequest(cur[s])
       ELSE UNCHANGED <<disconnectRequests, rpc>>
    /\ spc' = [spc EXCEPT ![s] = "reconnect"]
    /\ cur' = [cur EXCEPT ![s] = getOriginal(cur[s])]
    /\ UNCHANGED <<connectRequests, curreqs, curdis, nreq, channels, original,
                   outputSet, clients, tmp, engine>>

ConnectLater(s) ==
    /\ spc[s] = "reconnect"
    /\ addConnectRequest(cur[s], FALSE)
    /\ spc' = [spc EXCEPT ![s] = "loop"]
    /\ cur' = [cur EXCEPT ![s] = None]
    /\ UNCHANGED <<disconnectRequests, curreqs, curdis, nreq, channels, original,
                   outputSet, clients, tmp, engine>>

\* The thread of an interrupted sorter ends, with the samples it has taken
\* distributed.
SorterEnds(s) ==
    /\ spc[s] = "idle" /\ epc = "join"
    /\ spc' = [spc EXCEPT ![s] = "done"]
    /\ UNCHANGED <<requests, requester, channels, original, outputSet, clients, tmp,
                   cur, engine>>

Sorting(s) ==
    \/ distribute(s) \/ receive(s) \/ DistributeEnds(s) \/ removeSampleClient(s)
    \/ EraseOutput(s) \/ DeleteLater(s) \/ ConnectLater(s) \/ SorterEnds(s)

-----------------------------------------------------------------------------
(***************************************************************************)
(* DSMEngine: connectOutputs(), interrupt(), joinDataThreads() and         *)
(* closeOutputs()                                                          *)
(***************************************************************************)
\* The configured outputs are in a list.
First(S) == CHOOSE o \in S : TRUE

connectOutputs ==
    /\ epc = "connect"
    /\ addConnectRequest(First(todo), TRUE) /\ todo' = todo \ {First(todo)}
    /\ epc' = IF todo' = {} THEN "run" ELSE epc
    /\ UNCHANGED <<disconnectRequests, curreqs, curdis, nreq, channels, original,
                   outputSet, clients, sorters, held, interrupted>>

interrupt ==
    /\ epc = "run" /\ gaveUp \subseteq FailedAtClose
    /\ epc' = "join"
    /\ UNCHANGED <<requests, requester, channels, original, outputSet, clients,
                   sorters, todo, held, interrupted>>

\* Mutant: the outputs are closed while the sorters run.
CloseWithoutJoin ==
    /\ epc = "join"
    /\ epc' = "closing" /\ todo' = outputSet
    /\ UNCHANGED <<requests, requester, channels, original, outputSet, clients,
                   sorters, held, interrupted>>

\* With the sorters joined, closeOutputs() locks _outputMutex.
joinDataThreads ==
    /\ epc = "join" /\ \A s \in Sorter : spc[s] = "done"
    /\ epc' = "closing" /\ todo' = outputSet
    /\ UNCHANGED <<requests, requester, channels, original, outputSet, clients,
                   sorters, held, interrupted>>

\* A connected output no longer receives; it is closed, and deleted if it is
\* a clone.
CloseConnected ==
    /\ epc = "closing"
    /\ \E c \in todo : /\ clients' = clients \ {c}
                       /\ Delete({c})
                       /\ todo' = todo \ {c}
    /\ UNCHANGED <<requests, requester, channels, outputSet, sorters, epc,
                   held, interrupted>>

\* Then the configured outputs are closed.  Socket::close() does not stop the
\* connection thread, which opens a new socket.
ConnectedClosed ==
    /\ epc = "closing" /\ todo = {}
    /\ outputSet' = {}
    /\ epc' = "config" /\ todo' = {o \in Output : Kind[o] # "client"}
    /\ UNCHANGED <<requests, requester, channels, original, clients, sorters, held,
                   interrupted>>

\* ServerSocket::close() interrupts the connection thread.
CloseServerSocket ==
    /\ epc = "config" /\ held = None /\ todo # {}
    /\ LET o == First(todo)
       IN  /\ Kind[o] = "server" /\ todo' = todo \ {o}
           /\ interrupted' = interrupted \union (IF thread[o] THEN {o} ELSE {})
           /\ cpc' = [cpc EXCEPT ![o] = IF @ = "connect" THEN "none" ELSE @]
    /\ UNCHANGED <<requests, requester, thread, newout, joining, gaveUp, original,
                   outputSet, clients, sorters, epc, held>>

\* McSocket::close() locks _multicaster_mutex.
CloseMcSocket ==
    /\ epc = "config" /\ held = None /\ todo # {}
    /\ LET o == First(todo)
       IN  /\ Kind[o] = "mcrequest" /\ cpc[o] # "jammed" /\ todo' = todo \ {o}
           /\ held' = IF thread[o] THEN o ELSE None
    /\ UNCHANGED <<requests, requester, channels, original, outputSet, clients,
                   sorters, epc, interrupted>>

\* McSocketMulticaster::interrupt() needs the _mcsocketMutex that the thread
\* has locked for its offer; then offer(EINTR) resets the pointer to it.
InterruptMulticaster ==
    /\ held # None /\ cpc[held] # "offer"
    /\ cpc' = [cpc EXCEPT ![held] = "none"]
    /\ thread' = [thread EXCEPT ![held] = FALSE]
    /\ held' = None
    /\ UNCHANGED <<requests, requester, newout, joining, gaveUp, original, outputSet,
                   clients, sorters, epc, todo, interrupted>>

\* Mutant: the outputs it deletes stay in the list.
ClearConnectsOnly ==
    /\ epc = "config" /\ todo = {} /\ held = None
    /\ connectRequests' = <<>>
    /\ Delete(disconnectRequests)
    /\ epc' = "closed"
    /\ UNCHANGED <<disconnectRequests, requester, channels, outputSet,
                   clients, sorters, todo, held, interrupted>>

\* SampleOutputRequestThread::clear(), which does not see the requests that
\* run() has taken.
clear ==
    /\ epc = "config" /\ todo = {} /\ held = None
    /\ connectRequests' = <<>>
    /\ disconnectRequests' = {} /\ Delete(disconnectRequests)
    /\ epc' = "closed"
    /\ UNCHANGED <<requester, channels, outputSet, clients, sorters, todo,
                   held, interrupted>>

closeOutputs ==
    \/ CloseConnected \/ ConnectedClosed \/ CloseServerSocket \/ CloseMcSocket
    \/ InterruptMulticaster \/ clear

-----------------------------------------------------------------------------
Next ==
    \/ run
    \/ \E o \in Output : TimePasses(o) \/ Connecting(o) \/ ConnectingEnds(o)
    \/ \E s \in Sorter : Sorting(s)
    \/ connectOutputs \/ interrupt \/ joinDataThreads \/ closeOutputs

Spec == Init /\ [][Next]_vars

\* While the engine runs, so do the request thread, the connection threads and
\* the sorters, and the outputs are all requested; time passes; a connection
\* that is attempted again and again is made.
FairSpec ==
    /\ Spec
    /\ WF_vars(Running /\ run)
    /\ \A o \in Output : Kind[o] # "server" =>
                         /\ WF_vars(Running /\ TimePasses(o))
                         /\ WF_vars(Running /\ Connecting(o))
    /\ \A s \in Sorter : WF_vars(Running /\ Sorting(s))
    /\ WF_vars(connectOutputs)

-----------------------------------------------------------------------------
(***************************************************************************)
(* Properties                                                              *)
(***************************************************************************)
Request == [out : Output, due : BOOLEAN]

\* Every variable has its type.
TypeOK ==
    /\ connectRequests \in Seq(Request) /\ disconnectRequests \subseteq Clone
    /\ rpc \in {"top", "wait", "handle", "sleep"}
    /\ curreqs \in Seq(Request) /\ curdis \subseteq Clone /\ nreq \in Nat
    /\ cpc \in [Output -> {"none", "connect", "offer", "insert", "add", "jammed"}]
    /\ thread \in [Output -> BOOLEAN] /\ joining \in [Output -> BOOLEAN]
    /\ newout \in [Output -> Object \union {None}] /\ gaveUp \subseteq Output
    /\ original \in [Clone -> Output \union {None}]
    /\ outputSet \subseteq Object /\ clients \subseteq Object
    /\ spc \in [Sorter -> {"idle", "loop", "remove", "erase", "delete",
                           "reconnect", "done"}]
    /\ tmp \in [Sorter -> SUBSET Object]
    /\ cur \in [Sorter -> Object \union {None}]
    /\ epc \in {"connect", "run", "join", "closing", "config", "closed"}
    /\ todo \subseteq Object /\ held \in Output \union {None}
    /\ interrupted \subseteq Output

\* A sorter that is distributing a sample, or disconnecting an output whose
\* write failed, never touches an output that has been deleted, although it
\* uses a copy of the list of clients (the issue that the comment in
\* SampleSourceSupport::distribute() raises).
ReceiveAlive ==
    \A s \in Sorter : /\ tmp[s] \subseteq Live
                      /\ cur[s] \in Live \union {None}

\* What holds the clones: the connected ones and those about to be, the
\* ones a sorter is disconnecting, and the lists of the request thread.
Connected ==
    Clone \intersect (IF epc = "closing" THEN outputSet \intersect todo ELSE outputSet)
Inserting == {c \in Clone : \E o \in Output : cpc[o] = "insert" /\ newout[o] = c}
Disconnecting == {c \in Clone : \E s \in Sorter : spc[s] = "delete" /\ cur[s] = c}
Owned ==
    Connected \union Inserting \union Disconnecting \union disconnectRequests
      \union curdis

\* No clone has two holders that will delete it, and none that is deleted has
\* one, however far its disconnection has got when run(), clear() or
\* closeOutputs() deletes it.
DeletedOnce ==
    /\ Owned \subseteq alive
    /\ Connected \intersect Inserting = {}
    /\ (Connected \union Inserting) \intersect Disconnecting = {}
    /\ (Connected \union Inserting \union Disconnecting)
         \intersect (disconnectRequests \union curdis) = {}
    /\ disconnectRequests \intersect curdis = {}

\* How often the output is requested, connecting, receiving or disconnecting.
Requested(o, r) == Cardinality({i \in 1..Len(r) : r[i].out = o})
Pending(o) ==
    Requested(o, connectRequests) + Requested(o, curreqs)
      + (IF cpc[o] \in {"none", "jammed"} THEN 0 ELSE 1)
Receiving(o) == {c \in clients : getOriginal(c) = o}
Leaving(o) ==
    {s \in Sorter : /\ spc[s] \in {"erase", "delete", "reconnect"}
                    /\ getOriginal(cur[s]) = o}
Held(o) == Pending(o) + Cardinality(Receiving(o)) + Cardinality(Leaving(o))

\* While the engine runs, an output that has one connection at a time is in
\* exactly one place, whatever the order in which its connection is lost, its
\* request postponed and its connection thread joined: it is never forgotten,
\* and never connected by two threads at once.  The code forgets it in one way
\* only, when its connection thread fails to start, or ends without having
\* connected it; then too it is never in two places.  And no clone is ever
\* without a holder.
NothingLost ==
    /\ Running => \A o \in Output :
                     Kind[o] # "server" =>
                       LET places == IF epc = "connect" /\ o \in todo THEN 0 ELSE 1
                       IN  IF o \in gaveUp THEN Held(o) <= places ELSE Held(o) = places
    /\ alive \subseteq Owned

\* An output whose connection is lost is connected again, as long as the
\* engine runs (a ServerSocket, whose thread goes on accepting, aside), unless
\* its connection thread has failed or the request thread waits for the mutex
\* of an McSocket whose thread could not be started.
ConnectsAgain ==
    \A o \in Output :
        Kind[o] # "server" =>
          []<>(\/ ~Running \/ Receiving(o) # {} \/ o \in gaveUp
               \/ \E m \in Output : cpc[m] = "jammed")
=============================================================================
