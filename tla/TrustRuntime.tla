------------------------------ MODULE TrustRuntime ------------------------------
(***************************************************************************)
(* The trustruntime process (trustruntime/src/main.rs): the steps of       *)
(* main(), the daemon state it reports to systemd, the plugins it          *)
(* initialises and shuts down, and the vsock transport it starts and       *)
(* stops, which is VsockServer.                                            *)
(*                                                                         *)
(* A start-up step that fails does not end the process: it reports READY,  *)
(* waits for a signal and ends. SIGTERM kills the process until main()     *)
(* has registered for it; systemd follows it with SIGKILL.                 *)
(***************************************************************************)
EXTENDS VsockServer

CONSTANT NumPlugins  \* Plugins of the PluginManager (main() adds one).

ASSUME PluginsAssumption == NumPlugins \in Nat \ {0}

VARIABLES
  main,    \* The step main() is about to take.
  daemon,  \* Daemon.state.
  heard,   \* The notifications systemd has received.
  up,      \* Plugins 1 .. up are initialised and not shut down.
  signal   \* systemd asked the process to stop.

own == <<main, daemon, heard, up, signal>>
everything == <<vars, own>>

Startup == {"configuration", "certificates", "transport", "plugins", "starting", "started",
            "failed", "registering"}
Shutdown == {"waiting", "stopping", "awaiting", "plugins down", "notifying"}
Ended == {"exited", "killed"}

RuntimeTypeOK ==
  /\ TypeOK
  /\ main \in Startup \cup Shutdown \cup {"returned"} \cup Ended
  /\ daemon \in {"Initializing", "Ready", "Stopping", "Stopped"}
  /\ heard \subseteq {"READY", "STOPPING"}
  /\ up \in 0 .. NumPlugins
  /\ signal \in BOOLEAN

RuntimeInit ==
  /\ Init
  /\ main = "configuration"
  /\ daemon = "Initializing"
  /\ heard = {}
  /\ up = 0
  /\ signal = FALSE

Goto(from, to) == main = from /\ main' = to

----------------------------------------------------------------------------
(* Start-up.                                                               *)

\* Arguments, configuration and logger: the process exits with status 1 if one is unusable.
Configure ==
  /\ Goto("configuration", "certificates") \/ Goto("configuration", "exited")
  /\ UNCHANGED <<vars, daemon, heard, up, signal>>

\* Only an expired communication certificate is a failure.
CheckCertificates ==
  /\ Goto("certificates", "transport") \/ Goto("certificates", "failed")
  /\ UNCHANGED <<vars, daemon, heard, up, signal>>

CreateTransport ==
  /\ Goto("transport", "plugins") \/ Goto("transport", "failed")
  /\ UNCHANGED <<vars, daemon, heard, up, signal>>

\* init_all: one plugin after the other.
InitPlugin ==
  /\ main = "plugins"
  /\ up' = up + 1
  /\ main' = IF up' = NumPlugins THEN "starting" ELSE "plugins"
  /\ UNCHANGED <<vars, daemon, heard, signal>>

\* A plugin cannot be created or initialised: the manager is dropped as it is.
PluginFails ==
  /\ Goto("plugins", "failed")
  /\ UNCHANGED <<vars, daemon, heard, up, signal>>

StartTransport ==
  /\ Goto("starting", "started")
  /\ Start
  /\ UNCHANGED <<daemon, heard, up, signal>>

TransportFails ==
  /\ Goto("starting", "failed")
  /\ UNCHANGED <<vars, daemon, heard, up, signal>>

\* The state changes whether or not systemd could be told.
NotifyReady ==
  /\ Goto("started", "registering") \/ Goto("failed", "registering")
  /\ daemon = "Initializing"
  /\ daemon' = "Ready"
  /\ heard' \in {heard, heard \cup {"READY"}}
  /\ UNCHANGED <<vars, up, signal>>

\* wait_for_shutdown_signal registers for SIGTERM and SIGINT, and waits.
RegisterSignals ==
  /\ Goto("registering", "waiting")
  /\ UNCHANGED <<vars, daemon, heard, up, signal>>

----------------------------------------------------------------------------
(* Shutdown.                                                               *)

\* Mutant: the transport is not stopped.
ReceiveWithoutStop ==
  /\ signal
  /\ Goto("waiting", IF listener = "none" THEN "notifying" ELSE "plugins down")
  /\ UNCHANGED <<vars, daemon, heard, up, signal>>

\* A process whose start-up failed has nothing to stop.
ReceiveSignal ==
  /\ signal
  /\ Goto("waiting", IF listener = "none" THEN "notifying" ELSE "stopping")
  /\ UNCHANGED <<vars, daemon, heard, up, signal>>

CallStop ==
  /\ Goto("stopping", "awaiting")
  /\ StopCall
  /\ UNCHANGED <<daemon, heard, up, signal>>

\* An error of stop() is logged.
StopReturns ==
  /\ Goto("awaiting", "plugins down")
  /\ StopOk \/ StopTimeout
  /\ UNCHANGED <<daemon, heard, up, signal>>

\* shutdown_all, last plugin first; the first error ends it.
ShutdownPlugin ==
  /\ main = "plugins down"
  /\ up > 0
  /\ \/ up' = up - 1 /\ UNCHANGED main
     \/ up' = up /\ main' = "notifying"
  /\ UNCHANGED <<vars, daemon, heard, signal>>

PluginsDown ==
  /\ Goto("plugins down", "notifying")
  /\ up = 0
  /\ UNCHANGED <<vars, daemon, heard, up, signal>>

\* notify_stopping stops half-way when systemd cannot be told; main() returns anyway.
NotifyStopping ==
  /\ Goto("notifying", "returned")
  /\ daemon = "Ready"
  /\ \/ daemon' = "Stopped" /\ heard' = heard \cup {"STOPPING"}
     \/ daemon' = "Stopping" /\ UNCHANGED heard
  /\ UNCHANGED <<vars, up, signal>>

\* Dropping the runtime waits for the blocking jobs that have a thread.
Exit ==
  /\ Goto("returned", "exited")
  /\ \A c \in Running : thread[c] = "ended"
  /\ listener # "accepting"
  /\ UNCHANGED <<vars, daemon, heard, up, signal>>

MainNext ==
  \/ Configure \/ CheckCertificates \/ CreateTransport \/ InitPlugin \/ PluginFails
  \/ StartTransport \/ TransportFails \/ NotifyReady \/ RegisterSignals
  \/ ReceiveSignal \/ CallStop \/ StopReturns \/ ShutdownPlugin \/ PluginsDown
  \/ NotifyStopping \/ Exit

----------------------------------------------------------------------------
(* systemd, and the transport while the process lives.                     *)

\* SIGTERM (or SIGINT) is caught from the step after RegisterSignals on.
Terminate ==
  /\ ~signal
  /\ main \notin Ended
  /\ signal' = TRUE
  /\ main' = IF main \in Startup THEN "killed" ELSE main
  /\ UNCHANGED <<vars, daemon, heard, up>>

\* TimeoutStopSec is over.
Kill ==
  /\ signal
  /\ main \notin Ended
  /\ main' = "killed"
  /\ UNCHANGED <<vars, daemon, heard, up, signal>>

\* Once main() has returned no task is polled: only the jobs that have a thread end.
BlockingNext ==
  \/ AcceptTimeout \/ AcceptError
  \/ \E c \in Conns : Accept(c) \/ ConnNext(c) \/ HandshakeFailed(c) \/ OrphanEnds(c)

Polled(A) == main \notin {"returned"} \cup Ended /\ A /\ UNCHANGED own
Threaded(A) == main \notin Ended /\ A /\ UNCHANGED own

TransportNext == Polled(ServerNext) \/ (main = "returned" /\ Threaded(BlockingNext))

RuntimeNext == MainNext \/ Terminate \/ Kill \/ TransportNext

(***************************************************************************)
(* Fairness: as in VsockServer, as long as the process lives. main() goes  *)
(* on whenever it can; systemd owes nothing.                               *)
(***************************************************************************)
RuntimeConnFairness(c) ==
  /\ SF_everything(Polled(BeginTls(c)))
  /\ SF_everything(Polled(BeginConn(c)))
  /\ WF_everything(Polled(AcquireCancelled(c)))
  /\ WF_everything(Polled(HandshakeOk(c) \/ HandshakeAbandoned(c)) \/ Threaded(HandshakeFailed(c)))
  /\ WF_everything(Threaded(OrphanEnds(c)))
  /\ WF_everything(Threaded(LoopContinues(c) \/ LoopBreaks(c)))
  /\ WF_everything(Threaded(Read(c)))
  /\ WF_everything(Threaded(HandlerReturns(c)))
  /\ WF_everything(Polled(Release(c)))
  /\ c \notin Unresponsive => WF_everything(Threaded(Write(c)))

RuntimeFairness ==
  /\ WF_everything(MainNext)
  /\ SF_everything(Polled(BeginAccept))
  /\ WF_everything(Polled(ListenerNext))
  /\ WF_everything(Threaded(AcceptTimeout \/ AcceptError \/ \E c \in Conns : Accept(c)))
  /\ WF_everything(Polled(CloseFile))
  /\ \A c \in Conns : RuntimeConnFairness(c)

RuntimeSpec == RuntimeInit /\ [][RuntimeNext]_everything

FairRuntimeSpec == RuntimeSpec /\ RuntimeFairness

----------------------------------------------------------------------------
(* Properties.                                                             *)

(***************************************************************************)
(* No connection starts to read a request unless every plugin is up: the   *)
(* transport starts after init_all, and shutdown_all runs after the signal *)
(* every loop tests. (A request whose read began before may be handled     *)
(* while the plugins go down: stop() does not wait for connections.)       *)
(***************************************************************************)
NoRequestWithoutPlugins ==
  [][\A c \in Conns : thread[c] = "loop" /\ thread'[c] = "reading" => up = NumPlugins]_everything

(***************************************************************************)
(* systemd hears STOPPING, and the daemon leaves Ready, only when no       *)
(* connection will be accepted any more, unless stop() gave up waiting.    *)
(***************************************************************************)
StoppingIsLast ==
  "STOPPING" \in heard \/ daemon \in {"Stopping", "Stopped"} =>
    listener \in {"none", "stopped"} \/ stopper = "failed"

(***************************************************************************)
(* A process asked to stop ends by itself, whatever its connections are    *)
(* doing, unless a client that does not read holds a write for ever.       *)
(***************************************************************************)
SignalEndsProcess ==
  signal ~> \/ main \in Ended
            \/ \E c \in Unresponsive : thread[c] \in {"writing", "rejecting"}
================================================================================
