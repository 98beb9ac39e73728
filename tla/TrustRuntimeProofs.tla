--------------------------- MODULE TrustRuntimeProofs ---------------------------
(***************************************************************************)
(* Proofs about TrustRuntime: the process is a behaviour of its transport, *)
(* no request begins without the plugins, and STOPPING comes last.         *)
(***************************************************************************)
EXTENDS TrustRuntime, VsockServerProofs

Closed == listener \in {"none", "stopped"} \/ stopper = "failed"

\* Nothing is connected before the transport starts, and it starts once.
QuietInv ==
  /\ main \in {"configuration", "certificates", "transport", "plugins", "starting"}
       => listener = "none"
  /\ listener = "none" => \A c \in Conns : task[c] = "out" /\ thread[c] = "none"

\* Until shutdown is signalled, an open transport has all its plugins.
PluginInv ==
  /\ main = "starting" => up = NumPlugins
  /\ listener # "none" /\ ~shutdown => up = NumPlugins
  /\ main \in {"awaiting", "plugins down"} => shutdown

\* The transport is closed, or stop() has given up, from the end of stop() on.
ClosedInv ==
  /\ main \in {"plugins down", "notifying", "returned"} => Closed
  /\ "STOPPING" \in heard \/ daemon \in {"Stopping", "Stopped"} =>
       main \in {"returned", "exited", "killed"} /\ Closed

RInv == QuietInv /\ PluginInv /\ ClosedInv

----------------------------------------------------------------------------
(* The process as a behaviour of its transport.                            *)

LEMMA BlockingIsServer == BlockingNext => ServerNext
BY DEF BlockingNext, ServerNext, ListenerNext, TaskNext

LEMMA RuntimeStepIsStep == [RuntimeNext]_everything => [Next]_vars
<1> SUFFICES ASSUME [RuntimeNext]_everything PROVE [Next]_vars
  OBVIOUS
<1>1. CASE MainNext
  BY <1>1 DEF MainNext, Configure, CheckCertificates, CreateTransport, InitPlugin, PluginFails,
              StartTransport, TransportFails, NotifyReady, RegisterSignals, ReceiveSignal,
              CallStop, StopReturns, ShutdownPlugin, PluginsDown, NotifyStopping, Exit, Next
<1>2. CASE Terminate \/ Kill
  BY <1>2 DEF Terminate, Kill
<1>3. CASE TransportNext
  BY <1>3, BlockingIsServer DEF TransportNext, Polled, Threaded, Next
<1>4. CASE UNCHANGED everything
  BY <1>4 DEF everything
<1> QED
  BY <1>1, <1>2, <1>3, <1>4 DEF RuntimeNext

\* Whatever main() and systemd do, the transport in the process behaves as VsockServer.
THEOREM RuntimeIsTransport == RuntimeSpec => Spec
<1>1. RuntimeInit => Init
  BY DEF RuntimeInit
<1> QED
  BY <1>1, RuntimeStepIsStep, PTL DEF RuntimeSpec, Spec

\* So the process serves at most MaxConnections connections at a time.
THEOREM RuntimeServiceBounded == RuntimeSpec => []ServiceBounded
BY RuntimeIsTransport, ServiceStaysBounded, PTL

----------------------------------------------------------------------------
(* Types.                                                                  *)

\* The process's own variables keep their types; a plugin is only initialised while one is missing.
OwnSteps ==
  /\ main \in Startup \cup Shutdown \cup {"returned"} \cup Ended
  /\ daemon \in {"Initializing", "Ready", "Stopping", "Stopped"}
  /\ heard \subseteq {"READY", "STOPPING"}
OwnSignal == signal \in BOOLEAN
OwnCounts ==
  /\ up \in 0 .. NumPlugins
  /\ main = "plugins" => up < NumPlugins
  /\ main \in {"configuration", "certificates", "transport"} => up = 0
OwnTypes == OwnSteps /\ OwnSignal /\ OwnCounts

LEMMA OwnTypesInit == RuntimeInit => OwnTypes
<1>1. RuntimeInit => OwnSteps
  BY DEF RuntimeInit, OwnSteps, Startup
<1>2. RuntimeInit => OwnSignal
  BY DEF RuntimeInit, OwnSignal
<1>3. RuntimeInit => OwnCounts
  BY PluginsAssumption DEF RuntimeInit, OwnCounts
<1> QED
  BY <1>1, <1>2, <1>3 DEF OwnTypes

LEMMA OwnTypesMain == OwnTypes /\ MainNext => OwnTypes'
<1> SUFFICES ASSUME OwnTypes, MainNext PROVE OwnTypes'
  OBVIOUS
<1>1. signal' = signal
  BY DEF MainNext, Configure, CheckCertificates, CreateTransport, InitPlugin, PluginFails,
         StartTransport, TransportFails, NotifyReady, RegisterSignals, ReceiveSignal, CallStop,
         StopReturns, ShutdownPlugin, PluginsDown, NotifyStopping, Exit
<1>2. OwnSteps'
  BY DEF OwnTypes, OwnSteps, MainNext, Configure, CheckCertificates, CreateTransport, InitPlugin,
         PluginFails, StartTransport, TransportFails, NotifyReady, RegisterSignals, ReceiveSignal,
         CallStop, StopReturns, ShutdownPlugin, PluginsDown, NotifyStopping, Exit, Goto, Startup,
         Shutdown, Ended
<1>3. OwnCounts'
  <2>1. CASE InitPlugin
    <3>1. /\ main' \notin {"configuration", "certificates", "transport"}
          /\ main' = "plugins" => up' # NumPlugins
      BY <2>1 DEF InitPlugin
    <3>2. up' \in 0 .. NumPlugins /\ (up' # NumPlugins => up' < NumPlugins)
      BY <2>1, PluginsAssumption DEF OwnTypes, OwnCounts, InitPlugin
    <3> QED
      BY <3>1, <3>2 DEF OwnCounts
  <2>2. CASE ShutdownPlugin
    <3>1. main' \notin {"configuration", "certificates", "transport", "plugins"}
      BY <2>2 DEF ShutdownPlugin
    <3>2. up > 0 /\ (up' = up - 1 \/ up' = up)
      BY <2>2 DEF ShutdownPlugin
    <3>3. up' \in 0 .. NumPlugins
      BY <3>2, PluginsAssumption DEF OwnTypes, OwnCounts
    <3> QED
      BY <3>1, <3>3 DEF OwnCounts
  <2>3. ASSUME ~InitPlugin, ~ShutdownPlugin
        PROVE  /\ up' = up
               /\ main' = "plugins" => main = "transport"
               /\ main' \in {"configuration", "certificates", "transport"} =>
                    main \in {"configuration", "certificates", "transport"}
    BY <2>3 DEF MainNext, Configure, CheckCertificates, CreateTransport, PluginFails,
                StartTransport, TransportFails, NotifyReady, RegisterSignals, ReceiveSignal,
                CallStop, StopReturns, PluginsDown, NotifyStopping, Exit, Goto
  <2>4. CASE ~InitPlugin /\ ~ShutdownPlugin
    BY <2>3, <2>4, PluginsAssumption DEF OwnTypes, OwnCounts
  <2> QED
    BY <2>1, <2>2, <2>4
<1> QED
  BY <1>1, <1>2, <1>3 DEF OwnTypes, OwnSignal

LEMMA OwnTypesNext == OwnTypes /\ [RuntimeNext]_everything => OwnTypes'
<1> SUFFICES ASSUME OwnTypes, [RuntimeNext]_everything PROVE OwnTypes'
  OBVIOUS
<1>1. CASE Terminate \/ Kill
  BY <1>1 DEF Terminate, Kill, OwnTypes, OwnSteps, OwnSignal, OwnCounts, Startup, Ended
<1>2. CASE TransportNext \/ UNCHANGED everything
  BY <1>2 DEF TransportNext, Polled, Threaded, everything, own, OwnTypes, OwnSteps, OwnSignal,
              OwnCounts
<1> QED
  BY <1>1, <1>2, OwnTypesMain DEF RuntimeNext

\* Every variable of the process and of its transport keeps its type: init_all never counts past the
\* plugins it has, shutdown_all never below none.
THEOREM RuntimeTypeCorrect == RuntimeSpec => []RuntimeTypeOK
<1>1. RuntimeSpec => []OwnTypes
  BY OwnTypesInit, OwnTypesNext, PTL DEF RuntimeSpec
<1>2. TypeOK /\ OwnTypes => RuntimeTypeOK
  BY DEF OwnTypes, OwnSteps, OwnSignal, OwnCounts, RuntimeTypeOK
<1> QED
  BY <1>1, <1>2, RuntimeIsTransport, TypeCorrect, PTL

----------------------------------------------------------------------------
(* The invariant of the process.                                           *)

LEMMA RuntimeInitInv == RuntimeInit => RInv
BY DEF RuntimeInit, Init, RInv, QuietInv, PluginInv, ClosedInv, Closed

\* The transport by itself neither opens nor signals, and a closed one stays closed.
LEMMA ServerFrame ==
  ASSUME ServerNext
  PROVE  /\ shutdown' = shutdown /\ stopper' = stopper
         /\ listener \in {"none", "stopped"} => listener' = listener
         /\ listener # "none" => listener' # "none"
<1>1. CASE ListenerNext
  BY <1>1 DEF ListenerNext, SeeShutdown, CloneFails, EndListener, SubmitAccept, BeginAccept,
              AcceptTimeout, AcceptError, Accept
<1>2. ASSUME NEW c \in Conns, TaskNext(c) \/ ConnNext(c)
      PROVE  shutdown' = shutdown /\ stopper' = stopper /\ listener' = listener
  BY <1>2 DEF TaskNext, AcquirePermit, AcquireCancelled, BeginTls, HandshakeOk, HandshakeFailed,
              HandshakeAbandoned, OrphanEnds, BeginConn, Release, ConnNext, LoopContinues,
              LoopBreaks, Read, ReadMessage, ReadTimeout, IdleTooLong, ReadRejected,
              HandlerReturns, Write, ResponseWritten, RejectWritten, ThreadStep
<1>3. CASE Environment
  BY <1>3 DEF Environment, OpenFile, CloseFile, Connect
<1> QED
  BY <1>1, <1>2, <1>3 DEF ServerNext

\* Without a listener there is nothing for it to do about connections.
LEMMA ServerIsQuiet ==
  ASSUME ServerNext, listener = "none", \A c \in Conns : task[c] = "out" /\ thread[c] = "none"
  PROVE  \A c \in Conns : task'[c] = "out" /\ thread'[c] = "none"
<1>1. CASE ListenerNext
  BY <1>1 DEF ListenerNext, SeeShutdown, CloneFails, SubmitAccept, BeginAccept, AcceptTimeout,
              AcceptError, Accept
<1>2. ASSUME NEW c \in Conns, TaskNext(c) \/ ConnNext(c) PROVE FALSE
  BY <1>2 DEF TaskNext, AcquirePermit, AcquireCancelled, BeginTls, HandshakeOk, HandshakeFailed,
              HandshakeAbandoned, OrphanEnds, BeginConn, Release, ConnNext, LoopContinues,
              LoopBreaks, Read, ReadMessage, ReadTimeout, IdleTooLong, ReadRejected,
              HandlerReturns, Write, ResponseWritten, RejectWritten, ThreadStep, Work, Move
<1>3. CASE Environment
  BY <1>3 DEF Environment, OpenFile, CloseFile, Connect
<1> QED
  BY <1>1, <1>2, <1>3 DEF ServerNext

LEMMA TransportInv == RInv /\ TransportNext => RInv'
<1> SUFFICES ASSUME RInv, TransportNext PROVE RInv'
  OBVIOUS
<1>1. ServerNext /\ UNCHANGED own
  BY BlockingIsServer DEF TransportNext, Polled, Threaded
<1>2. QuietInv'
  BY <1>1, ServerFrame, ServerIsQuiet DEF RInv, QuietInv, own
<1>3. PluginInv' /\ ClosedInv'
  BY <1>1, ServerFrame DEF RInv, PluginInv, ClosedInv, Closed, own
<1> QED
  BY <1>2, <1>3 DEF RInv

LEMMA MainInv == RInv /\ MainNext => RInv'
<1> SUFFICES ASSUME RInv, MainNext PROVE RInv'
  OBVIOUS
<1> USE DEF RInv, QuietInv, PluginInv, ClosedInv, Closed, Goto, vars
<1>1. CASE Configure \/ CheckCertificates \/ CreateTransport \/ PluginFails \/ TransportFails
  BY <1>1 DEF Configure, CheckCertificates, CreateTransport, PluginFails, TransportFails
<1>2. CASE InitPlugin
  BY <1>2 DEF InitPlugin
<1>3. CASE StartTransport
  BY <1>3 DEF StartTransport, Start
<1>4. CASE NotifyReady \/ RegisterSignals \/ ReceiveSignal
  BY <1>4 DEF NotifyReady, RegisterSignals, ReceiveSignal
<1>5. CASE CallStop
  BY <1>5 DEF CallStop, StopCall
<1>6. CASE StopReturns
  BY <1>6 DEF StopReturns, StopOk, StopTimeout
<1>7. CASE ShutdownPlugin \/ PluginsDown
  BY <1>7 DEF ShutdownPlugin, PluginsDown
<1>8. CASE NotifyStopping \/ Exit
  BY <1>8 DEF NotifyStopping, Exit
<1> QED
  BY <1>1, <1>2, <1>3, <1>4, <1>5, <1>6, <1>7, <1>8 DEF MainNext

LEMMA RuntimeNextInv == RInv /\ [RuntimeNext]_everything => RInv'
<1> SUFFICES ASSUME RInv, [RuntimeNext]_everything PROVE RInv'
  OBVIOUS
<1>1. CASE Terminate \/ Kill \/ UNCHANGED everything
  BY <1>1 DEF Terminate, Kill, everything, own, vars, Startup, Ended, RInv, QuietInv, PluginInv,
              ClosedInv, Closed
<1> QED
  BY <1>1, MainInv, TransportInv DEF RuntimeNext

LEMMA RuntimeInvariance == RuntimeSpec => []RInv
BY RuntimeInitInv, RuntimeNextInv, PTL DEF RuntimeSpec

----------------------------------------------------------------------------
(* Theorems.                                                               *)

\* STOPPING is sent, and Ready is left, when nothing is accepted any more or stop() gave up.
THEOREM StoppingComesLast == RuntimeSpec => []StoppingIsLast
<1>1. RInv => StoppingIsLast
  BY DEF RInv, ClosedInv, Closed, StoppingIsLast
<1> QED
  BY <1>1, RuntimeInvariance, PTL

\* Only the loop's test of the signal lets a request begin.
LEMMA OnlyLoopContinuesReads ==
  ASSUME TypeOK, ServerNext, NEW c \in Conns, thread[c] = "loop", thread'[c] = "reading"
  PROVE  ~shutdown
<1>1. CASE ListenerNext \/ Environment
  BY <1>1 DEF ListenerNext, SeeShutdown, CloneFails, EndListener, SubmitAccept, BeginAccept,
              AcceptTimeout, AcceptError, Accept, Environment, OpenFile, CloseFile, Connect
<1>2. ASSUME NEW d \in Conns, TaskNext(d) \/ ConnNext(d), shutdown PROVE FALSE
  BY <1>2 DEF TypeOK, TaskNext, AcquirePermit, AcquireCancelled, BeginTls, HandshakeOk,
              HandshakeFailed, HandshakeAbandoned, OrphanEnds, BeginConn, Release, ConnNext,
              LoopContinues, LoopBreaks, Read, ReadMessage, ReadTimeout, IdleTooLong,
              ReadRejected, HandlerReturns, Write, ResponseWritten, RejectWritten, ThreadStep, Work
<1> QED
  BY <1>1, <1>2 DEF ServerNext

\* No connection begins a request while a plugin is missing.
THEOREM RequestsHavePlugins == RuntimeSpec => NoRequestWithoutPlugins
<1> DEFINE Begins == \E c \in Conns : thread[c] = "loop" /\ thread'[c] = "reading"
<1>1. TypeOK /\ RInv /\ [RuntimeNext]_everything /\ Begins => up = NumPlugins
  <2> SUFFICES ASSUME TypeOK, RInv, [RuntimeNext]_everything,
                      NEW c \in Conns, thread[c] = "loop", thread'[c] = "reading"
               PROVE  up = NumPlugins
    OBVIOUS
  <2>1. thread' # thread
    OBVIOUS
  <2>2. ~MainNext /\ ~Terminate /\ ~Kill /\ ~UNCHANGED everything
    BY <2>1 DEF MainNext, Configure, CheckCertificates, CreateTransport, InitPlugin, PluginFails,
                StartTransport, Start, TransportFails, NotifyReady, RegisterSignals, ReceiveSignal,
                CallStop, StopCall, StopReturns, StopOk, StopTimeout, ShutdownPlugin, PluginsDown,
                NotifyStopping, Exit, Terminate, Kill, everything, vars
  <2>3. ServerNext
    BY <2>2, BlockingIsServer DEF RuntimeNext, TransportNext, Polled, Threaded
  <2>4. ~shutdown /\ listener # "none"
    BY <2>3, OnlyLoopContinuesReads DEF RInv, QuietInv
  <2> QED
    BY <2>4 DEF RInv, PluginInv
<1>2. TypeOK /\ RInv /\ [RuntimeNext]_everything
        => [\A c \in Conns : thread[c] = "loop" /\ thread'[c] = "reading" => up = NumPlugins]_everything
  BY <1>1
<1>3. RuntimeSpec => []TypeOK
  BY RuntimeIsTransport, TypeCorrect, PTL
<1> QED
  BY <1>2, <1>3, RuntimeInvariance, PTL DEF RuntimeSpec, NoRequestWithoutPlugins
================================================================================
