------------------------------ MODULE VsockServer ------------------------------
(***************************************************************************)
(* The vsock transport of trustruntime (framework/src/communication/       *)
(* vsock_server): the listener loop, one asynchronous task per accepted    *)
(* connection, the blocking threads those tasks hand work to, the permits  *)
(* of the tokio semaphore, and stop().                                     *)
(*                                                                         *)
(* A connection is followed from connect() to the end of its task. What    *)
(* its bytes mean is the subject of other modules: here a read ends in a   *)
(* timeout, a complete message, or the end of the connection.              *)
(***************************************************************************)
EXTENDS Integers, FiniteSets

CONSTANTS
  Conns,           \* Client connections, each used once.
  MaxConnections,  \* vsock.max_connections: the permits of the semaphore.
  BlockingPool,    \* Threads of tokio's spawn_blocking pool.
  FdLimit,         \* Descriptors left for sockets, the listener's clone and files.
  Unresponsive     \* Clients that may stop reading: a write to them may never end.

ASSUME ConnsAssumption == IsFiniteSet(Conns)
ASSUME LimitsAssumption ==
  /\ MaxConnections \in Nat \ {0}
  /\ BlockingPool \in Nat \ {0}
  /\ FdLimit \in Nat \ {0}
ASSUME UnresponsiveAssumption == Unresponsive \subseteq Conns

VARIABLES
  shutdown,   \* shutdown_signal.
  listener,   \* Where listener_loop_async is.
  stopper,    \* Where the caller of stop() is.
  task,       \* task[c]: the asynchronous task of connection c.
  thread,     \* thread[c]: the blocking work started for connection c.
  permits,    \* Permits left in the semaphore.
  otherFile   \* Another part of the process (log roll, certificate check) holds a file open.

vars == <<shutdown, listener, stopper, task, thread, permits, otherFile>>

(***************************************************************************)
(* A blocking job is submitted, then waits for a thread of the pool:       *)
(* "tlsQueued" and "connQueued" wait for one.                              *)
(***************************************************************************)
ListenerStates == {"none", "checking", "queued", "accepting", "stopped"}
TaskStates == {"out", "backlog", "acquiring", "handshaking", "serving", "done"}
Queued == {"tlsQueued", "connQueued"}
Looping == {"loop", "reading", "handling", "writing", "rejecting", "ended"}
ThreadStates == {"none", "tls"} \cup Queued \cup Looping

TypeOK ==
  /\ shutdown \in BOOLEAN
  /\ listener \in ListenerStates
  /\ stopper \in {"idle", "waiting", "ok", "failed"}
  /\ task \in [Conns -> TaskStates]
  /\ thread \in [Conns -> ThreadStates]
  /\ permits \in 0 .. MaxConnections
  /\ otherFile \in BOOLEAN

Init ==
  /\ shutdown = FALSE
  /\ listener = "none"
  /\ stopper = "idle"
  /\ task = [c \in Conns |-> "out"]
  /\ thread = [c \in Conns |-> "none"]
  /\ permits = MaxConnections
  /\ otherFile = FALSE

----------------------------------------------------------------------------
(* Resources shared by the connections.                                    *)

\* The connections whose task owns a permit: `_permit` lives until the task returns.
Holders == {c \in Conns : task[c] \in {"handshaking", "serving"}}

\* The connections whose blocking work occupies a thread of the pool.
Running == {c \in Conns : thread[c] \in {"tls"} \cup Looping}

\* The connections whose socket is open in this process.
Sockets == {c \in Conns : task[c] \in {"acquiring", "handshaking", "serving"}
                          \/ thread[c] # "none"}

ThreadsInUse == Cardinality(Running) + (IF listener = "accepting" THEN 1 ELSE 0)

FdsInUse == Cardinality(Sockets)
            + (IF listener \in {"queued", "accepting"} THEN 1 ELSE 0)
            + (IF otherFile THEN 1 ELSE 0)

Move(c, from, to) == task[c] = from /\ task' = [task EXCEPT ![c] = to]

Work(c, from, to) == thread[c] = from /\ thread' = [thread EXCEPT ![c] = to]

\* The task returns: its permit and the stream it owns are dropped.
Finish(c) == /\ task' = [task EXCEPT ![c] = "done"]
             /\ permits' = permits + 1

----------------------------------------------------------------------------
(* start(), stop() and the listener loop.                                  *)

Start ==
  /\ listener = "none"
  /\ listener' = "checking"
  /\ shutdown' = FALSE
  /\ UNCHANGED <<stopper, task, thread, permits, otherFile>>

\* The loop ends and drops the listening socket: connections nobody accepted are reset.
EndListener ==
  /\ listener' = "stopped"
  /\ task' = [c \in Conns |-> IF task[c] = "backlog" THEN "done" ELSE task[c]]
  /\ UNCHANGED <<shutdown, stopper, thread, permits, otherFile>>

SeeShutdown == listener = "checking" /\ shutdown /\ EndListener

\* try_clone() has no descriptor left: the loop breaks.
CloneFails == listener = "checking" /\ ~shutdown /\ FdsInUse >= FdLimit /\ EndListener

\* try_clone(), then accept() is handed to the blocking pool.
SubmitAccept ==
  /\ listener = "checking"
  /\ ~shutdown
  /\ FdsInUse < FdLimit
  /\ listener' = "queued"
  /\ UNCHANGED <<shutdown, stopper, task, thread, permits, otherFile>>

BeginAccept ==
  /\ listener = "queued"
  /\ ThreadsInUse < BlockingPool
  /\ listener' = "accepting"
  /\ UNCHANGED <<shutdown, stopper, task, thread, permits, otherFile>>

\* accept() returns a stream; spawn_connection_task runs whatever the signal says.
Accept(c) ==
  /\ listener = "accepting"
  /\ FdsInUse < FdLimit
  /\ Move(c, "backlog", "acquiring")
  /\ listener' = "checking"
  /\ UNCHANGED <<shutdown, stopper, thread, permits, otherFile>>

\* Mutant: a listening socket without a receive timeout.
AcceptWithoutTimeout == listener = "accepting" /\ FALSE /\ UNCHANGED vars

\* accept() returns EAGAIN after one second without a connection.
AcceptTimeout ==
  /\ listener = "accepting"
  /\ \A c \in Conns : task[c] # "backlog"
  /\ listener' = "checking"
  /\ UNCHANGED <<shutdown, stopper, task, thread, permits, otherFile>>

\* accept() fails for want of a descriptor: logged, and the loop goes on.
AcceptError ==
  /\ listener = "accepting"
  /\ FdsInUse >= FdLimit
  /\ \E c \in Conns : task[c] = "backlog"
  /\ listener' = "checking"
  /\ UNCHANGED <<shutdown, stopper, task, thread, permits, otherFile>>

StopCall ==
  /\ stopper = "idle"
  /\ listener # "none"
  /\ shutdown' = TRUE
  /\ stopper' = "waiting"
  /\ UNCHANGED <<listener, task, thread, permits, otherFile>>

StopOk ==
  /\ stopper = "waiting"
  /\ listener = "stopped"
  /\ stopper' = "ok"
  /\ UNCHANGED <<shutdown, listener, task, thread, permits, otherFile>>

\* Five seconds pass first: the handle was taken, nobody waits for the loop any more.
StopTimeout ==
  /\ stopper = "waiting"
  /\ listener # "stopped"
  /\ stopper' = "failed"
  /\ UNCHANGED <<shutdown, listener, task, thread, permits, otherFile>>

----------------------------------------------------------------------------
(* The task of one connection (spawn_connection_task).                     *)

AcquirePermit(c) ==
  /\ permits > 0
  /\ Move(c, "acquiring", "handshaking")
  /\ Work(c, "none", "tlsQueued")
  /\ permits' = permits - 1
  /\ UNCHANGED <<shutdown, listener, stopper, otherFile>>

\* Mutant: the wait for a permit is not raced against the signal.
AcquireUninterruptible(c) == task[c] = "acquiring" /\ FALSE /\ UNCHANGED vars

\* select! takes the shutdown branch (it may take the other one when both are ready).
AcquireCancelled(c) ==
  /\ shutdown
  /\ Move(c, "acquiring", "done")
  /\ UNCHANGED <<shutdown, listener, stopper, thread, permits, otherFile>>

BeginTls(c) ==
  /\ ThreadsInUse < BlockingPool
  /\ Work(c, "tlsQueued", "tls")
  /\ UNCHANGED <<shutdown, listener, stopper, task, permits, otherFile>>

\* SslAcceptor::accept succeeds and the select takes it: the connection loop is submitted.
HandshakeOk(c) ==
  /\ Move(c, "handshaking", "serving")
  /\ Work(c, "tls", "connQueued")
  /\ UNCHANGED <<shutdown, listener, stopper, permits, otherFile>>

\* A handshake error, or no byte for SOCKET_TIMEOUT_SECS.
HandshakeFailed(c) ==
  /\ task[c] = "handshaking"
  /\ Work(c, "tls", "none")
  /\ Finish(c)
  /\ UNCHANGED <<shutdown, listener, stopper, otherFile>>

\* Mutant: the permit is forgotten (mem::forget) when the handshake is abandoned.
AbandonLosesPermit(c) ==
  /\ shutdown
  /\ task[c] = "handshaking"
  /\ task' = [task EXCEPT ![c] = "done"]
  /\ UNCHANGED <<shutdown, listener, stopper, thread, permits, otherFile>>

\* Mutant: a handshake is given up whether or not the server is stopping.
AbandonAnytime(c) ==
  /\ task[c] = "handshaking"
  /\ Finish(c)
  /\ UNCHANGED <<shutdown, listener, stopper, thread, otherFile>>

\* The select takes the shutdown branch: the permit is released while the job goes on.
HandshakeAbandoned(c) ==
  /\ shutdown
  /\ task[c] = "handshaking"
  /\ Finish(c)
  /\ UNCHANGED <<shutdown, listener, stopper, thread, otherFile>>

\* The abandoned job ends on its own; its result has no reader and the stream is dropped.
OrphanEnds(c) ==
  /\ task[c] = "done"
  /\ Work(c, "tls", "none")
  /\ UNCHANGED <<shutdown, listener, stopper, task, permits, otherFile>>

BeginConn(c) ==
  /\ ThreadsInUse < BlockingPool
  /\ Work(c, "connQueued", "loop")
  /\ UNCHANGED <<shutdown, listener, stopper, task, permits, otherFile>>

----------------------------------------------------------------------------
(* handle_connection_blocking.                                             *)

ThreadStep(c, from, to) ==
  /\ Work(c, from, to)
  /\ UNCHANGED <<shutdown, listener, stopper, task, permits, otherFile>>

\* Mutant: the signal is only tested after a receive timeout.
LoopIgnoresSignal(c) == ThreadStep(c, "loop", "reading")

\* The top of the loop tests the signal, then reads.
LoopContinues(c) == ~shutdown /\ ThreadStep(c, "loop", "reading")
LoopBreaks(c) == shutdown /\ ThreadStep(c, "loop", "ended")

ReadMessage(c) == ThreadStep(c, "reading", "handling")

\* ERROR_TIMEOUT: the loop goes round, or the connection has been idle too long.
ReadTimeout(c) == ThreadStep(c, "reading", "loop")
IdleTooLong(c) == ThreadStep(c, "reading", "ended")

\* The peer closed (same step as IdleTooLong) or broke the protocol: an error is written first.
ReadRejected(c) == ThreadStep(c, "reading", "rejecting")
RejectWritten(c) == ThreadStep(c, "rejecting", "ended")

\* Whatever the handler did (result, None, panic), a response or an error is written.
HandlerReturns(c) == ThreadStep(c, "handling", "writing")
ResponseWritten(c) == ThreadStep(c, "writing", "loop")

\* The JoinHandle resolves and the task returns.
Release(c) ==
  /\ task[c] = "serving"
  /\ Work(c, "ended", "none")
  /\ Finish(c)
  /\ UNCHANGED <<shutdown, listener, stopper, otherFile>>

----------------------------------------------------------------------------
(* The environment.                                                        *)

Connect(c) ==
  /\ listener \in {"checking", "queued", "accepting"}
  /\ Move(c, "out", "backlog")
  /\ UNCHANGED <<shutdown, listener, stopper, thread, permits, otherFile>>

OpenFile ==
  /\ ~otherFile
  /\ FdsInUse < FdLimit
  /\ otherFile' = TRUE
  /\ UNCHANGED <<shutdown, listener, stopper, task, thread, permits>>

CloseFile ==
  /\ otherFile
  /\ otherFile' = FALSE
  /\ UNCHANGED <<shutdown, listener, stopper, task, thread, permits>>

----------------------------------------------------------------------------
ListenerNext ==
  \/ SeeShutdown \/ CloneFails \/ SubmitAccept \/ BeginAccept
  \/ AcceptTimeout \/ AcceptError
  \/ \E c \in Conns : Accept(c)

TaskNext(c) ==
  \/ AcquirePermit(c) \/ AcquireCancelled(c) \/ BeginTls(c)
  \/ HandshakeOk(c) \/ HandshakeFailed(c) \/ HandshakeAbandoned(c) \/ OrphanEnds(c)
  \/ BeginConn(c) \/ Release(c)

Read(c) ==
  \/ ReadMessage(c) \/ ReadTimeout(c) \/ IdleTooLong(c) \/ ReadRejected(c)

Write(c) == ResponseWritten(c) \/ RejectWritten(c)

ConnNext(c) ==
  \/ LoopContinues(c) \/ LoopBreaks(c) \/ Read(c) \/ HandlerReturns(c) \/ Write(c)

Environment == OpenFile \/ CloseFile \/ \E c \in Conns : Connect(c)

\* What the process does once start() was called, apart from what its caller does.
ServerNext ==
  \/ ListenerNext
  \/ \E c \in Conns : TaskNext(c) \/ ConnNext(c)
  \/ Environment

Next == Start \/ StopCall \/ StopOk \/ StopTimeout \/ ServerNext

(***************************************************************************)
(* Fairness: tokio polls every ready task and runs every submitted job     *)
(* once a thread is free; sockets have a receive timeout, so a handshake   *)
(* and a read return; handlers terminate. There is no send timeout, so a   *)
(* write ends only when the client reads. The environment owes nothing,    *)
(* except that files of other components are closed again.                 *)
(***************************************************************************)
ConnFairness(c) ==
  /\ SF_vars(BeginTls(c))
  /\ SF_vars(BeginConn(c))
  /\ WF_vars(AcquireCancelled(c))
  /\ WF_vars(HandshakeOk(c) \/ HandshakeFailed(c) \/ HandshakeAbandoned(c))
  /\ WF_vars(OrphanEnds(c))
  /\ WF_vars(LoopContinues(c) \/ LoopBreaks(c))
  /\ WF_vars(Read(c))
  /\ WF_vars(HandlerReturns(c))
  /\ WF_vars(Release(c))
  /\ c \notin Unresponsive => WF_vars(Write(c))

Fairness ==
  /\ SF_vars(BeginAccept)
  /\ WF_vars(ListenerNext)
  /\ WF_vars(CloseFile)
  /\ \A c \in Conns : ConnFairness(c)

Spec == Init /\ [][Next]_vars

FairSpec == Spec /\ Fairness

----------------------------------------------------------------------------
(* Properties.                                                             *)

\* The connections for which the blocking loop was submitted and has not been reaped.
Served == {c \in Conns : thread[c] \in {"connQueued"} \cup Looping}

(***************************************************************************)
(* Every permit is either in the semaphore or held by exactly one live     *)
(* task: none is lost or returned twice on any path out of                 *)
(* spawn_connection_task (cancelled wait, failed or abandoned handshake,   *)
(* end of the loop).                                                       *)
(***************************************************************************)
PermitAccounting == permits + Cardinality(Holders) = MaxConnections

(***************************************************************************)
(* The permit outlives the work it admits: the loop of a connection runs   *)
(* exactly while its task holds the permit and waits for it, and a thread  *)
(* working without a permit is a handshake abandoned after stop().         *)
(***************************************************************************)
WorkIsAdmitted ==
  \A c \in Conns :
    /\ task[c] \in {"out", "backlog", "acquiring"} => thread[c] = "none"
    /\ task[c] = "handshaking" => thread[c] \in {"tlsQueued", "tls"}
    /\ task[c] = "serving" <=> c \in Served
    /\ task[c] = "done" /\ thread[c] # "none" => shutdown

\* At most MaxConnections connections are served at once, before and during shutdown.
ServiceBounded == Cardinality(Served) <= MaxConnections

(***************************************************************************)
(* Once the signal is set a connection only runs down: it finishes the     *)
(* message it is in and ends, and a handshake that completes late leads to *)
(* no read at all. (The loop tests the signal before each read.)           *)
(***************************************************************************)
Remaining(s) ==
  CASE s = "reading" -> 5
    [] s = "handling" -> 4
    [] s \in {"writing", "rejecting"} -> 3
    [] s \in {"tlsQueued", "tls", "connQueued", "loop"} -> 2
    [] s = "ended" -> 1
    [] s = "none" -> 0

Drains ==
  shutdown => \A c \in Conns : Remaining(thread[c])' <= Remaining(thread[c])
                              \/ task[c] = "acquiring"

DrainIsMonotone == [][Drains]_vars

\* What the clients see (BoundedService), hiding tasks, threads and permits.
Busy == {"reading", "handling", "writing", "rejecting"}

clientStatus ==
  [c \in Conns |-> IF thread[c] \in Busy THEN "busy"
                   ELSE IF c \in Holders THEN "admitted"
                   ELSE IF task[c] = "done" THEN "gone" ELSE "outside"]

Service == INSTANCE BoundedService
             WITH Clients <- Conns, Limit <- MaxConnections,
                  status <- clientStatus, closed <- shutdown

\* The transport implements BoundedService: limit, no return, no request begun after stop().
ImplementsService == Service!ServiceSpec

(***************************************************************************)
(* A connection that waits to be accepted keeps waiting as long as stop()  *)
(* was not called (conf/agent.toml: connections beyond max_connections     *)
(* wait).                                                                  *)
(***************************************************************************)
Waits == ~shutdown => \A c \in Conns : task[c] = "backlog" => task'[c] # "done"

WaitersAreKept == [][Waits]_vars

\* stop() makes the listener loop end, although accept() knows nothing of the signal.
ListenerStops == shutdown ~> listener = "stopped"

(***************************************************************************)
(* After stop(), every connection whose client keeps reading is released   *)
(* for good, even while others hang: waiting, handshaking, idle or busy.   *)
(***************************************************************************)
Released(c) == task[c] \in {"out", "done"} /\ thread[c] = "none"

ConnectionsDrain == \A c \in Conns \ Unresponsive : [](shutdown => <>[]Released(c))

================================================================================
