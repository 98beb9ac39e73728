--------------------------- MODULE VsockServerProofs ---------------------------
(***************************************************************************)
(* Proofs about VsockServer for every set of connections and every limit,  *)
(* and about the stream of words of one of them (Session) for every text   *)
(* and every way of cutting it.                                            *)
(***************************************************************************)
EXTENDS VsockServer, Session, FiniteSetTheorems, SequenceTheorems, TLAPS

\* Before start() nobody can have called stop().
SignalAfterStart == listener = "none" => ~shutdown

IInv == TypeOK /\ PermitAccounting /\ WorkIsAdmitted /\ SignalAfterStart

----------------------------------------------------------------------------
(* The permit holders as a finite set.                                     *)

LEMMA HoldersFinite ==
  /\ IsFiniteSet(Holders)
  /\ Cardinality(Holders) \in Nat
BY ConnsAssumption, FS_Subset, FS_CardinalityType DEF Holders

\* A task that returns gives back exactly the permit it held.
LEMMA FinishKeepsAccount ==
  ASSUME TypeOK, PermitAccounting, NEW c \in Conns, c \in Holders, Finish(c)
  PROVE  permits' \in 0 .. MaxConnections /\ PermitAccounting'
<1>1. Holders' = Holders \ {c}
  BY DEF TypeOK, Finish, Holders
<1>2. Cardinality(Holders \ {c}) = Cardinality(Holders) - 1
  BY HoldersFinite, FS_RemoveElement
<1>3. Cardinality(Holders \ {c}) \in Nat
  BY HoldersFinite, FS_RemoveElement, FS_CardinalityType
<1> QED
  BY <1>1, <1>2, <1>3, HoldersFinite, LimitsAssumption DEF Finish, PermitAccounting, TypeOK

\* A task that acquires a permit joins the holders.
LEMMA AcquireKeepsAccount ==
  ASSUME TypeOK, PermitAccounting, NEW c \in Conns, AcquirePermit(c)
  PROVE  permits' \in 0 .. MaxConnections /\ PermitAccounting'
<1>1. c \notin Holders /\ Holders' = Holders \cup {c}
  BY DEF TypeOK, AcquirePermit, Move, Holders
<1>2. Cardinality(Holders \cup {c}) = Cardinality(Holders) + 1
  BY <1>1, HoldersFinite, FS_AddElement
<1> QED
  BY <1>1, <1>2, HoldersFinite, LimitsAssumption DEF AcquirePermit, PermitAccounting, TypeOK

\* A step that moves no task into or out of the holders leaves the account alone.
LEMMA SameHolders ==
  ASSUME PermitAccounting, Holders' = Holders, permits' = permits
  PROVE  PermitAccounting'
BY DEF PermitAccounting

----------------------------------------------------------------------------
(* Every step preserves the invariant.                                     *)

LEMMA InitInv == Init => IInv
<1> SUFFICES ASSUME Init PROVE IInv
  OBVIOUS
<1>1. Holders = {}
  BY DEF Init, Holders
<1>2. PermitAccounting
  BY <1>1, FS_EmptySet, LimitsAssumption DEF Init, PermitAccounting
<1>3. TypeOK
  <2>1. shutdown \in BOOLEAN /\ otherFile \in BOOLEAN
    BY Zenon DEF Init
  <2>2. permits \in 0 .. MaxConnections
    BY LimitsAssumption DEF Init
  <2>3. task \in [Conns -> TaskStates] /\ thread \in [Conns -> ThreadStates]
    BY DEF Init, TaskStates, ThreadStates
  <2>4. listener \in ListenerStates /\ stopper \in {"idle", "waiting", "ok", "failed"}
    BY DEF Init, ListenerStates
  <2> QED
    BY <2>1, <2>2, <2>3, <2>4 DEF TypeOK
<1>4. WorkIsAdmitted
  BY DEF Init, WorkIsAdmitted, Served, Looping
<1>5. SignalAfterStart
  BY DEF Init, SignalAfterStart
<1> QED
  BY <1>2, <1>3, <1>4, <1>5 DEF IInv

LEMMA GlobalSteps ==
  ASSUME IInv, Start \/ StopCall \/ StopOk \/ StopTimeout \/ SeeShutdown \/ CloneFails
               \/ SubmitAccept \/ BeginAccept \/ AcceptTimeout \/ AcceptError
               \/ OpenFile \/ CloseFile
  PROVE  IInv'
<1> USE DEF IInv
<1>1. CASE SeeShutdown \/ CloneFails
  <2>1. Holders' = Holders /\ permits' = permits
    BY <1>1 DEF SeeShutdown, CloneFails, EndListener, Holders, TypeOK
  <2>2. TypeOK' /\ WorkIsAdmitted' /\ SignalAfterStart'
    BY <1>1 DEF SeeShutdown, CloneFails, EndListener, TypeOK, ListenerStates, TaskStates,
                WorkIsAdmitted, SignalAfterStart, Served
  <2> QED
    BY <2>1, <2>2, SameHolders
<1>2. CASE ~(SeeShutdown \/ CloneFails)
  <2>1. /\ UNCHANGED <<task, thread, permits>>
        /\ shutdown' = shutdown \/ listener' # "none"
        /\ listener' \in ListenerStates
        /\ listener' = "none" => listener = "none"
        /\ stopper' \in {"idle", "waiting", "ok", "failed"}
        /\ shutdown' \in BOOLEAN /\ otherFile' \in BOOLEAN
        /\ shutdown => shutdown'
    BY <1>2 DEF Start, StopCall, StopOk, StopTimeout, SubmitAccept, BeginAccept, AcceptTimeout,
                AcceptError, OpenFile, CloseFile, TypeOK, ListenerStates, SignalAfterStart
  <2>2. Holders' = Holders
    BY <2>1 DEF Holders
  <2>3. TypeOK' /\ WorkIsAdmitted' /\ SignalAfterStart'
    BY <2>1 DEF TypeOK, WorkIsAdmitted, Served, SignalAfterStart
  <2> QED
    BY <2>1, <2>2, <2>3, SameHolders
<1> QED
  BY <1>1, <1>2

LEMMA TaskSteps ==
  ASSUME IInv, NEW c \in Conns, Connect(c) \/ Accept(c) \/ TaskNext(c)
  PROVE  IInv'
<1> USE DEF IInv
<1>1. CASE AcquirePermit(c)
  <2>1. permits' \in 0 .. MaxConnections /\ PermitAccounting'
    BY <1>1, AcquireKeepsAccount
  <2>2. TypeOK' /\ WorkIsAdmitted' /\ SignalAfterStart'
    BY <1>1, <2>1 DEF AcquirePermit, Move, Work, TypeOK, TaskStates, ThreadStates, Queued,
                      WorkIsAdmitted, Served, Looping, SignalAfterStart
  <2> QED
    BY <2>1, <2>2
<1>2. CASE HandshakeFailed(c) \/ HandshakeAbandoned(c) \/ Release(c)
  <2>1. c \in Holders /\ Finish(c)
    BY <1>2 DEF HandshakeFailed, HandshakeAbandoned, Release, Holders
  <2>2. permits' \in 0 .. MaxConnections /\ PermitAccounting'
    BY <2>1, FinishKeepsAccount
  <2>3. TypeOK' /\ WorkIsAdmitted' /\ SignalAfterStart'
    BY <1>2, <2>2 DEF HandshakeFailed, HandshakeAbandoned, Release, Finish, Work, TypeOK,
                      TaskStates, ThreadStates, Queued, WorkIsAdmitted, Served, Looping,
                      SignalAfterStart
  <2> QED
    BY <2>2, <2>3
<1>3. CASE Connect(c) \/ Accept(c) \/ AcquireCancelled(c) \/ BeginTls(c) \/ HandshakeOk(c)
           \/ OrphanEnds(c) \/ BeginConn(c)
  <2>1. Holders' = Holders /\ permits' = permits
    BY <1>3 DEF Connect, Accept, AcquireCancelled, BeginTls, HandshakeOk, OrphanEnds, BeginConn,
                Move, Work, Holders, TypeOK
  <2>2. TypeOK'
    BY <1>3 DEF Connect, Accept, AcquireCancelled, BeginTls, HandshakeOk, OrphanEnds, BeginConn,
                Move, Work, TypeOK, TaskStates, ThreadStates, Queued, Looping, ListenerStates
  <2>3. WorkIsAdmitted'
    BY <1>3 DEF Connect, Accept, AcquireCancelled, BeginTls, HandshakeOk, OrphanEnds, BeginConn,
                Move, Work, TypeOK, WorkIsAdmitted, Served, Looping
  <2>4. SignalAfterStart'
    BY <1>3 DEF Connect, Accept, AcquireCancelled, BeginTls, HandshakeOk, OrphanEnds, BeginConn,
                SignalAfterStart
  <2> QED
    BY <2>1, <2>2, <2>3, <2>4, SameHolders
<1> QED
  BY <1>1, <1>2, <1>3 DEF TaskNext

LEMMA LoopSteps ==
  ASSUME IInv, NEW c \in Conns, ConnNext(c)
  PROVE  IInv'
<1> USE DEF IInv
<1>1. PICK from \in Looping, to \in Looping : ThreadStep(c, from, to)
  BY DEF ConnNext, LoopContinues, LoopBreaks, Read, ReadMessage, ReadTimeout, IdleTooLong,
         ReadRejected, HandlerReturns, Write, ResponseWritten, RejectWritten, Looping
<1>2. Holders' = Holders /\ permits' = permits
  BY <1>1 DEF ThreadStep, Holders
<1>3. TypeOK' /\ WorkIsAdmitted' /\ SignalAfterStart'
  BY <1>1 DEF ThreadStep, Work, TypeOK, ThreadStates, WorkIsAdmitted, Served, Looping,
              SignalAfterStart
<1> QED
  BY <1>2, <1>3, SameHolders

LEMMA NextInv == IInv /\ [Next]_vars => IInv'
<1> SUFFICES ASSUME IInv, [Next]_vars PROVE IInv'
  OBVIOUS
<1>1. CASE UNCHANGED vars
  <2>1. Holders' = Holders
    BY <1>1 DEF vars, Holders
  <2> QED
    BY <1>1, <2>1 DEF vars, IInv, TypeOK, PermitAccounting, WorkIsAdmitted, Served,
                      SignalAfterStart
<1>2. CASE Next
  BY <1>2, GlobalSteps, TaskSteps, LoopSteps
  DEF Next, ServerNext, ListenerNext, Environment
<1> QED
  BY <1>1, <1>2

LEMMA Invariance == Spec => []IInv
BY InitInv, NextInv, PTL DEF Spec

----------------------------------------------------------------------------
(* Theorems.                                                               *)

\* The variables keep their types; in particular the permits never exceed the limit.
THEOREM TypeCorrect == Spec => []TypeOK
<1>1. IInv => TypeOK
  BY DEF IInv
<1> QED
  BY Invariance, <1>1, PTL

\* No path out of a connection task loses a permit or returns one twice.
THEOREM PermitsAccounted == Spec => []PermitAccounting
<1>1. IInv => PermitAccounting
  BY DEF IInv
<1> QED
  BY Invariance, <1>1, PTL

\* Blocking work runs under a permit, except for handshakes abandoned after stop().
THEOREM WorkAdmitted == Spec => []WorkIsAdmitted
<1>1. IInv => WorkIsAdmitted
  BY DEF IInv
<1> QED
  BY Invariance, <1>1, PTL

\* At most MaxConnections connections are served at once, whatever shutdown abandons.
THEOREM ServiceStaysBounded == Spec => []ServiceBounded
<1>1. IInv => ServiceBounded
  <2> SUFFICES ASSUME IInv PROVE ServiceBounded
    OBVIOUS
  <2>1. Served \subseteq Holders
    BY DEF IInv, WorkIsAdmitted, Served, Holders
  <2>2. Cardinality(Served) \in Nat /\ Cardinality(Served) <= Cardinality(Holders)
    BY <2>1, HoldersFinite, FS_Subset, FS_CardinalityType
  <2> QED
    BY <2>2, HoldersFinite, LimitsAssumption
    DEF IInv, TypeOK, PermitAccounting, ServiceBounded
<1> QED
  BY Invariance, <1>1, PTL

----------------------------------------------------------------------------
(* Shutdown only runs connections down.                                    *)

LEMMA StepDrains == IInv /\ [Next]_vars => [Drains]_vars
<1> SUFFICES ASSUME IInv, Next PROVE Drains
  OBVIOUS
<1> USE DEF IInv
<1>1. CASE UNCHANGED thread
  <2>1. \A c \in Conns : Remaining(thread[c])' = Remaining(thread[c])
    BY <1>1 DEF Remaining
  <2>2. \A c \in Conns : Remaining(thread[c]) \in 0 .. 5
    BY DEF Remaining, TypeOK, ThreadStates, Queued, Looping
  <2> QED
    BY <2>1, <2>2 DEF Drains
<1>2. CASE \E c \in Conns : TaskNext(c) \/ ConnNext(c)
  <2>1. PICK c \in Conns : TaskNext(c) \/ ConnNext(c)
    BY <1>2
  <2>2. \A d \in Conns : d # c => thread'[d] = thread[d]
    BY <2>1 DEF TaskNext, AcquirePermit, AcquireCancelled, BeginTls, HandshakeOk,
                HandshakeFailed, HandshakeAbandoned, OrphanEnds, BeginConn, Release,
                ConnNext, LoopContinues, LoopBreaks, Read, ReadMessage, ReadTimeout, IdleTooLong,
                ReadRejected, HandlerReturns, Write, ResponseWritten, RejectWritten,
                ThreadStep, Work, TypeOK
  <2>3. ASSUME shutdown PROVE Remaining(thread'[c]) <= Remaining(thread[c]) \/ task[c] = "acquiring"
    <3>1. CASE TaskNext(c)
      BY <3>1 DEF TaskNext, AcquirePermit, AcquireCancelled, BeginTls, HandshakeOk,
                HandshakeFailed, HandshakeAbandoned, OrphanEnds, BeginConn, Release,
                Work, Move, TypeOK, ThreadStates, Queued, Looping, Remaining
    <3>2. CASE ConnNext(c)
      <4>1. PICK from \in Looping, to \in Looping :
              /\ ThreadStep(c, from, to)
              /\ \/ from = "loop" /\ to = "ended"
                 \/ from = "reading"  \* the highest rank
                 \/ from = "handling" /\ to = "writing"
                 \/ from \in {"writing", "rejecting"} /\ to \in {"loop", "ended"}
        BY <2>3, <3>2, Zenon
        DEF ConnNext, LoopContinues, LoopBreaks, Read, ReadMessage, ReadTimeout, IdleTooLong,
            ReadRejected, HandlerReturns, Write, ResponseWritten, RejectWritten, Looping
      <4>2. thread[c] = from /\ thread'[c] = to
        BY <4>1 DEF ThreadStep, Work, TypeOK
      <4> QED
        BY <4>1, <4>2 DEF Remaining, Looping
    <3> QED
      BY <2>1, <3>1, <3>2
  <2>4. \A d \in Conns : Remaining(thread[d]) \in 0 .. 5
    BY DEF Remaining, TypeOK, ThreadStates, Queued, Looping
  <2>5. \A d \in Conns : Remaining(thread[d])' = Remaining(thread'[d])
    BY DEF Remaining
  <2> QED
    BY <2>2, <2>3, <2>4, <2>5 DEF Drains
<1> QED
  BY <1>1, <1>2
  DEF Next, Start, StopCall, StopOk, StopTimeout, ServerNext, ListenerNext, SeeShutdown,
      CloneFails, EndListener, SubmitAccept, BeginAccept, AcceptTimeout, AcceptError, Accept,
      Environment, OpenFile, CloseFile, Connect

\* After stop() a connection finishes the message it is in and ends: it reads no other.
THEOREM DrainMonotone == Spec => DrainIsMonotone
BY Invariance, StepDrains, PTL DEF Spec, DrainIsMonotone

----------------------------------------------------------------------------
(* The transport implements BoundedService.                                *)

\* Those inside are exactly those whose task holds a permit.
LEMMA InsideIsHolders == IInv => Service!Inside = Holders
BY DEF IInv, WorkIsAdmitted, Served, Looping, Busy, Holders, Service!Inside, clientStatus

\* When one connection moves, the status of that one changes.
LEMMA OneStatusChanges ==
  ASSUME NEW c \in Conns, NEW s,
         \A d \in Conns : d # c => task'[d] = task[d] /\ thread'[d] = thread[d],
         clientStatus'[c] = s
  PROVE  clientStatus' = [clientStatus EXCEPT ![c] = s]
BY DEF clientStatus, Holders, Busy

LEMMA GlobalStepsRefine ==
  ASSUME IInv, Start \/ StopCall \/ StopOk \/ StopTimeout \/ SeeShutdown \/ CloneFails
               \/ SubmitAccept \/ BeginAccept \/ AcceptTimeout \/ AcceptError
               \/ OpenFile \/ CloseFile
  PROVE  Service!ServiceNext \/ UNCHANGED <<clientStatus, shutdown>>
<1> USE DEF IInv
<1>1. CASE SeeShutdown \/ CloneFails
  <2> DEFINE S == {c \in Conns : task[c] = "backlog"}
  <2>1. S \in SUBSET Conns /\ S \subseteq {c \in Conns : clientStatus[c] = "outside"}
    BY DEF clientStatus, Busy, Holders, WorkIsAdmitted
  <2>2. clientStatus' = [c \in Conns |-> IF c \in S THEN "gone" ELSE clientStatus[c]]
    BY <1>1 DEF SeeShutdown, CloneFails, EndListener, clientStatus, Busy, Holders, WorkIsAdmitted,
                TypeOK
  <2>3. UNCHANGED shutdown
    BY <1>1 DEF SeeShutdown, CloneFails, EndListener
  <2>4. Service!TurnAway(S)
    BY <2>1, <2>2, <2>3 DEF Service!TurnAway
  <2> QED
    BY <2>1, <2>4 DEF Service!ServiceNext
<1>2. CASE StopCall
  <2>1. UNCHANGED clientStatus /\ shutdown' = TRUE
    BY <1>2 DEF StopCall, clientStatus, Holders
  <2> QED
    BY <2>1 DEF Service!ServiceNext, Service!Close
<1>3. CASE ~(SeeShutdown \/ CloneFails \/ StopCall)
  <2>1. UNCHANGED <<task, thread>>
    BY <1>3 DEF Start, StopOk, StopTimeout, SubmitAccept, BeginAccept, AcceptTimeout,
                AcceptError, OpenFile, CloseFile
  <2>2. UNCHANGED shutdown
    BY <1>3, Zenon DEF Start, StopOk, StopTimeout, SubmitAccept, BeginAccept, AcceptTimeout,
                AcceptError, OpenFile, CloseFile, SignalAfterStart, TypeOK
  <2> QED
    BY <2>1, <2>2 DEF clientStatus, Holders
<1> QED
  BY <1>1, <1>2, <1>3

LEMMA TaskStepsRefine ==
  ASSUME IInv, NEW c \in Conns, Connect(c) \/ Accept(c) \/ TaskNext(c)
  PROVE  Service!ServiceNext \/ UNCHANGED <<clientStatus, shutdown>>
<1> USE DEF IInv
<1>1. \A d \in Conns : d # c => task'[d] = task[d] /\ thread'[d] = thread[d]
  BY DEF Connect, Accept, TaskNext, AcquirePermit, AcquireCancelled, BeginTls, HandshakeOk,
         HandshakeFailed, HandshakeAbandoned, OrphanEnds, BeginConn, Release, Finish, Move, Work,
         TypeOK
<1>2. UNCHANGED shutdown
  BY DEF Connect, Accept, TaskNext, AcquirePermit, AcquireCancelled, BeginTls, HandshakeOk,
         HandshakeFailed, HandshakeAbandoned, OrphanEnds, BeginConn, Release
<1>3. CASE AcquirePermit(c)
  <2>1. clientStatus[c] = "outside" /\ clientStatus'[c] = "admitted"
    BY <1>3 DEF AcquirePermit, Move, Work, clientStatus, Busy, Holders, TypeOK
  <2>2. Cardinality(Service!Inside) < MaxConnections
    BY <1>3, InsideIsHolders, HoldersFinite, LimitsAssumption
    DEF AcquirePermit, PermitAccounting, TypeOK
  <2>3. Service!Admit(c)
    BY <1>1, <1>2, <2>1, <2>2, OneStatusChanges
    DEF Service!Admit, Service!Become, Service!Cardinality, Cardinality
  <2> QED
    BY <2>3 DEF Service!ServiceNext
<1>4. CASE AcquireCancelled(c)
  <2>1. clientStatus[c] = "outside" /\ clientStatus'[c] = "gone"
    BY <1>4 DEF AcquireCancelled, Move, clientStatus, Busy, Holders, TypeOK, WorkIsAdmitted
  <2>2. clientStatus' = [clientStatus EXCEPT ![c] = "gone"]
    BY <1>1, <2>1, OneStatusChanges
  <2>3. clientStatus' = [d \in Conns |-> IF d \in {c} THEN "gone" ELSE clientStatus[d]]
    BY <2>2 DEF clientStatus
  <2>4. Service!TurnAway({c})
    BY <1>2, <2>1, <2>3 DEF Service!TurnAway
  <2> QED
    BY <2>4 DEF Service!ServiceNext
<1>5. CASE HandshakeFailed(c) \/ HandshakeAbandoned(c) \/ Release(c)
  <2>1. clientStatus[c] = "admitted" /\ clientStatus'[c] = "gone"
    BY <1>5 DEF HandshakeFailed, HandshakeAbandoned, Release, Finish, Work, clientStatus, Busy,
                Holders, TypeOK, WorkIsAdmitted
  <2>2. Service!Leave(c)
    BY <1>1, <1>2, <2>1, OneStatusChanges DEF Service!Leave, Service!Become
  <2> QED
    BY <2>2 DEF Service!ServiceNext
<1>6. CASE Connect(c) \/ Accept(c) \/ BeginTls(c) \/ HandshakeOk(c) \/ OrphanEnds(c) \/ BeginConn(c)
  <2>1. clientStatus'[c] = clientStatus[c]
    BY <1>6 DEF Connect, Accept, BeginTls, HandshakeOk, OrphanEnds, BeginConn, Move, Work,
                clientStatus, Busy, Holders, TypeOK
  <2>2. UNCHANGED clientStatus
    BY <1>1, <2>1 DEF clientStatus, Holders
  <2> QED
    BY <1>2, <2>2
<1> QED
  BY <1>3, <1>4, <1>5, <1>6 DEF TaskNext

LEMMA LoopStepsRefine ==
  ASSUME IInv, NEW c \in Conns, ConnNext(c)
  PROVE  Service!ServiceNext \/ UNCHANGED <<clientStatus, shutdown>>
<1> USE DEF IInv
<1>1. PICK from \in Looping, to \in Looping :
        /\ ThreadStep(c, from, to)
        /\ \/ ~shutdown /\ from = "loop" /\ to = "reading"
           \/ from \in Busy /\ to \notin Busy
           \/ from \in Busy <=> to \in Busy
  BY DEF ConnNext, LoopContinues, LoopBreaks, Read, ReadMessage, ReadTimeout, IdleTooLong,
         ReadRejected, HandlerReturns, Write, ResponseWritten, RejectWritten, Looping, Busy
<1>2. \A d \in Conns : d # c => task'[d] = task[d] /\ thread'[d] = thread[d]
  BY <1>1 DEF ThreadStep, Work, TypeOK
<1>3. UNCHANGED shutdown /\ thread[c] = from /\ thread'[c] = to /\ UNCHANGED task
  BY <1>1 DEF ThreadStep, Work, TypeOK
<1>4. c \in Holders /\ Holders' = Holders
  BY <1>1, <1>3 DEF Holders, WorkIsAdmitted, Served
<1>5. CASE ~shutdown /\ from = "loop" /\ to = "reading"
  <2>1. clientStatus[c] = "admitted" /\ clientStatus'[c] = "busy"
    BY <1>3, <1>4, <1>5 DEF clientStatus, Busy
  <2>2. Service!BeginRequest(c)
    BY <1>2, <1>3, <1>5, <2>1, OneStatusChanges DEF Service!BeginRequest, Service!Become
  <2> QED
    BY <2>2 DEF Service!ServiceNext
<1>6. CASE from \in Busy /\ to \notin Busy
  <2>1. clientStatus[c] = "busy" /\ clientStatus'[c] = "admitted"
    BY <1>3, <1>4, <1>6 DEF clientStatus
  <2>2. Service!EndRequest(c)
    BY <1>2, <1>3, <2>1, OneStatusChanges DEF Service!EndRequest, Service!Become
  <2> QED
    BY <2>2 DEF Service!ServiceNext
<1>7. CASE from \in Busy <=> to \in Busy
  <2>1. clientStatus'[c] = clientStatus[c]
    BY <1>3, <1>4, <1>7 DEF clientStatus
  <2>2. UNCHANGED clientStatus
    BY <1>2, <1>4, <2>1 DEF clientStatus, Holders
  <2> QED
    BY <1>3, <2>2
<1> QED
  BY <1>1, <1>5, <1>6, <1>7

\* The transport behaves like BoundedService: limit, no return, no request after stop().
THEOREM Refinement == Spec => ImplementsService
<1>1. Init => Service!ServiceInit
  BY DEF Init, Service!ServiceInit, clientStatus, Busy, Holders
<1>2. IInv /\ [Next]_vars => [Service!ServiceNext]_<<clientStatus, shutdown>>
  <2> SUFFICES ASSUME IInv, [Next]_vars
               PROVE  Service!ServiceNext \/ UNCHANGED <<clientStatus, shutdown>>
    OBVIOUS
  <2>1. CASE UNCHANGED vars
    BY <2>1 DEF vars, clientStatus, Holders
  <2>2. CASE Next
    BY <2>2, GlobalStepsRefine, TaskStepsRefine, LoopStepsRefine
    DEF Next, ServerNext, ListenerNext, Environment
  <2> QED
    BY <2>1, <2>2
<1> QED
  BY Invariance, <1>1, <1>2, PTL DEF Spec, ImplementsService, Service!ServiceSpec
(***************************************************************************)
(* Session.  What was sent is a stream of L words, the k-th request from   *)
(* at[k] on; what is on its way or unread is the rest of it from p on, r   *)
(* being the request it is in.  A header that lets the server go on was    *)
(* read at the start of a request, whatever was lost before it.            *)
(***************************************************************************)
Framed(asked, n, L, S, at) ==
  /\ asked \in Seq(SesRequests) /\ n \in 0..MaxRequests /\ n = Len(asked)
  /\ L \in Nat /\ S \in [1..L -> Nat]
  /\ at \in [1..(n + 1) -> Nat \ {0}] /\ at[1] = 1 /\ at[n + 1] = L + 1
  /\ \A k \in 1..n :
       /\ at[k + 1] = at[k] + 4 + Len(asked[k].body)
       /\ S[at[k]] = k /\ S[at[k] + 1] = asked[k].version
       /\ S[at[k] + 2] = asked[k].type /\ S[at[k] + 3] = Len(asked[k].body)
       /\ \A o \in 1..Len(asked[k].body) : S[at[k] + 3 + o] = asked[k].body[o]
  /\ \A j, k \in 1..(n + 1) : j < k => at[j] < at[k]
  /\ \A q \in 1..L : \E k \in 1..n : at[k] <= q /\ q < at[k + 1]

Follows(L, S, p) ==
  /\ p \in Nat \ {0}
  /\ sesArrived \in Seq(Nat) /\ sesComing \in Seq(Nat)
  /\ p + Len(sesArrived) + Len(sesComing) = L + 1
  /\ \A i \in 1..Len(sesArrived) : sesArrived[i] = S[p + i - 1]
  /\ \A i \in 1..Len(sesComing) : sesComing[i] = S[p + Len(sesArrived) + i - 1]

Within(n, at, p, r) ==
  /\ at[r] <= p
  /\ r <= n => p < at[r + 1]

Placed(n, at, p, r) ==
  /\ r \in 1..(n + 1)
  /\ sesOpen \in BOOLEAN
  /\ Reading => Within(n, at, p, r)
  /\ sesHeader # <<>> =>
       /\ sesOpen /\ r <= n /\ p = at[r] + 4
       /\ sesHeader = <<r, sesAsked[r].version, sesAsked[r].type, Len(sesAsked[r].body)>>
       /\ sesAsked[r].version = ProtocolVersion /\ Len(sesAsked[r].body) <= MaxSize

ReplyRecord == [seq : Nat, version : Nat, type : Nat]
Answered(asked, replies, r) ==
  /\ replies \in Seq(ReplyRecord) /\ Len(replies) < r
  /\ \A k \in 1..Len(replies) :
       /\ replies[k].seq \in 1..(r - 1) /\ replies[k].version = asked[replies[k].seq].version
       /\ replies[k].type \in Outcomes(asked[replies[k].seq].type)
       /\ \A j \in 1..(k - 1) : replies[j].seq < replies[k].seq

HandledRecord == [seq : Nat, type : Nat, body : Seq(Nat)]
Given(asked, handled, r) ==
  /\ handled \in Seq(HandledRecord)
  /\ \A k \in 1..Len(handled) :
       /\ handled[k].seq \in 1..(r - 1) /\ handled[k].type = asked[handled[k].seq].type
       /\ handled[k].body = asked[handled[k].seq].body
       /\ \A j \in 1..(k - 1) : handled[j].seq < handled[k].seq

\* A closed connection may have told an error last.
Told(n, r) ==
  /\ sesReplies \in Seq(ReplyRecord) /\ Len(sesReplies) <= n /\ RepliesBearTheirNumbers
  /\ sesOpen => Answered(sesAsked, sesReplies, r)

SesInv ==
  /\ sesIdle \in 0..MaxIdleReads
  /\ \E n, L, S, at, p, r :
       /\ Framed(sesAsked, n, L, S, at) /\ Follows(L, S, p) /\ Placed(n, at, p, r)
       /\ Told(n, r) /\ Given(sesAsked, sesHandled, r)

LEMMA RequestAt ==
  ASSUME NEW asked, NEW n, NEW L, NEW S, NEW at, Framed(asked, n, L, S, at), NEW k \in 1..n
  PROVE  /\ asked[k] \in SesRequests
         /\ asked[k].type \in Nat /\ asked[k].type # ProtocolVersion /\ asked[k].version \in Nat
         /\ asked[k].body \in Seq(TextWords) /\ Len(asked[k].body) \in Nat
         /\ \A o \in 1..Len(asked[k].body) : asked[k].body[o] \in TextWords
         /\ at[k] \in Nat \ {0} /\ at[k + 1] = at[k] + 4 + Len(asked[k].body) /\ at[k + 1] <= L + 1
         /\ S[at[k]] = k /\ S[at[k] + 1] = asked[k].version
         /\ S[at[k] + 2] = asked[k].type /\ S[at[k] + 3] = Len(asked[k].body)
         /\ \A o \in 1..Len(asked[k].body) : S[at[k] + 3 + o] = asked[k].body[o]
<1>n. n \in Nat /\ k \in Nat
  BY SessionAssumption DEF Framed
<1>1. asked[k] \in SesRequests
  BY DEF Framed
<1>2. /\ asked[k].type \in Nat /\ asked[k].type # ProtocolVersion /\ asked[k].version \in Nat
      /\ asked[k].body \in Seq(TextWords)
  BY <1>1, SessionAssumption
<1>3. Len(asked[k].body) \in Nat /\ \A o \in 1..Len(asked[k].body) : asked[k].body[o] \in TextWords
  BY <1>2
<1>4. k \in 1..(n + 1) /\ k + 1 \in 1..(n + 1)
  BY <1>n
<1>5. at[k] \in Nat \ {0} /\ at[k + 1] \in Nat
  BY <1>4 DEF Framed
<1>6. at[k + 1] <= L + 1
  <2>1. CASE k + 1 = n + 1
    BY <2>1 DEF Framed
  <2>2. CASE k + 1 < n + 1
    <3>1. at[k + 1] < at[n + 1] /\ at[n + 1] = L + 1
      <4>1. n + 1 \in 1..(n + 1)
        BY <1>n
      <4>2. \A i, j \in 1..(n + 1) : i < j => at[i] < at[j]
        BY DEF Framed
      <4>3. at[n + 1] = L + 1
        BY DEF Framed
      <4> QED
        BY <4>1, <4>2, <4>3, <2>2, <1>4
    <3> QED
      BY <3>1, <1>5 DEF Framed
  <2> QED
    BY <2>1, <2>2, <1>n
<1>7. /\ at[k + 1] = at[k] + 4 + Len(asked[k].body)
      /\ S[at[k]] = k /\ S[at[k] + 1] = asked[k].version
      /\ S[at[k] + 2] = asked[k].type /\ S[at[k] + 3] = Len(asked[k].body)
      /\ \A o \in 1..Len(asked[k].body) : S[at[k] + 3 + o] = asked[k].body[o]
  BY DEF Framed
<1> QED
  BY <1>1, <1>2, <1>3, <1>5, <1>6, <1>7

\* Within a request, and where the next one begins, a version at the place of a version is one.
LEMMA OnlyTrueHeaders ==
  ASSUME NEW asked, NEW n, NEW L, NEW S, NEW at, Framed(asked, n, L, S, at),
         NEW p \in Nat, NEW r \in 1..(n + 1), at[r] <= p, p + 3 <= L, r <= n => p < at[r + 1],
         S[p + 1] = ProtocolVersion, S[p + 3] <= MaxSize
  PROVE  r <= n /\ p = at[r]
<1>0. L \in Nat /\ r \in Nat /\ n \in Nat /\ MaxSize \in Nat
  BY SessionAssumption DEF Framed
<1>1. r <= n
  <2>1. at[n + 1] = L + 1
    BY DEF Framed
  <2> QED
    BY <2>1, <1>0
<1>2. PICK b, len : b = asked[r].body /\ len = Len(b)
  OBVIOUS
<1>3. /\ asked[r].type # ProtocolVersion /\ at[r] \in Nat /\ len \in Nat
      /\ at[r + 1] = at[r] + 4 + len /\ at[r + 1] <= L + 1
      /\ S[at[r] + 2] = asked[r].type /\ S[at[r] + 3] = len
      /\ \A o \in 1..len : b[o] \in TextWords /\ S[at[r] + 3 + o] = b[o]
  <2>1. r \in 1..n
    BY <1>0, <1>1
  <2> QED
    BY <2>1, <1>2, RequestAt
<1>4. ~ (p = at[r] + 1)
  BY <1>3
<1>5. ~ (p = at[r] + 2)
  <2>1. SUFFICES ASSUME p = at[r] + 2 PROVE FALSE
    OBVIOUS
  <2>2. len = ProtocolVersion
    <3>1. p + 1 = at[r] + 3
      BY <2>1, <1>3
    <3> QED
      BY <3>1, <1>3
  <2>3. 2 \in 1..len
    BY <2>2 DEF ProtocolVersion
  <2>4. S[at[r] + 3 + 2] \in TextWords
    BY <2>3, <1>3
  <2>5. p + 3 = at[r] + 3 + 2
    BY <2>1, <1>3
  <2> QED
    BY <2>4, <2>5, <1>0 DEF TextWords
<1>6. ~ (at[r] + 2 < p /\ p < at[r] + 3 + len)
  <2>1. SUFFICES ASSUME at[r] + 2 < p, p < at[r] + 3 + len PROVE FALSE
    OBVIOUS
  <2>2. p - at[r] - 2 \in 1..len /\ p + 1 = at[r] + 3 + (p - at[r] - 2)
    BY <2>1, <1>3
  <2>3. S[at[r] + 3 + (p - at[r] - 2)] \in TextWords
    BY <2>2, <1>3
  <2> QED
    BY <2>2, <2>3 DEF TextWords
<1>7. ~ (p = at[r] + 3 + len)
  <2>1. SUFFICES ASSUME p = at[r] + 3 + len PROVE FALSE
    OBVIOUS
  <2>2. p + 1 = at[r + 1]
    BY <2>1, <1>3
  <2>3. r + 1 <= n
    <3>1. r + 1 = n + 1 => at[r + 1] = L + 1
      BY DEF Framed
    <3> QED
      BY <3>1, <2>2, <1>0, <1>1
  <2>4. S[at[r + 1]] = r + 1
    <3>1. r + 1 \in 1..n
      BY <2>3, <1>0
    <3> QED
      BY <3>1, RequestAt
  <2> QED
    <3>1. n <= MaxRequests /\ MaxRequests < ProtocolVersion /\ MaxRequests \in Nat
      BY SessionAssumption DEF Framed
    <3>2. r + 1 = ProtocolVersion
      BY <2>2, <2>4
    <3> QED
      BY <3>1, <3>2, <2>3, <1>0 DEF ProtocolVersion
<1> QED
  <2>1. p < at[r] + 4 + len
    BY <1>1, <1>3
  <2> QED
    BY <2>1, <1>1, <1>3, <1>4, <1>5, <1>6, <1>7

\* What was answered stays so as the client sends on and the server reads on.
LEMMA AnsweredStays ==
  ASSUME NEW asked \in Seq(SesRequests), NEW replies, NEW r \in 1..(Len(asked) + 1), NEW s \in Nat, r <= s,
         Answered(asked, replies, r), NEW more, more = asked \/ \E x \in SesRequests : more = Append(asked, x)
  PROVE  Answered(more, replies, s)
<1>1. \A i \in 1..(r - 1) : more[i] = asked[i]
  OBVIOUS
<1>2. \A k \in 1..Len(replies) : replies[k].seq \in 1..(r - 1) /\ replies[k].seq \in 1..(s - 1)
  BY DEF Answered
<1>3. Len(replies) \in Nat /\ Len(replies) < s
  BY DEF Answered
<1> QED
  BY <1>1, <1>2, <1>3 DEF Answered

LEMMA GivenStays ==
  ASSUME NEW asked \in Seq(SesRequests), NEW handled, NEW r \in 1..(Len(asked) + 1), NEW s \in Nat, r <= s,
         Given(asked, handled, r), NEW more, more = asked \/ \E x \in SesRequests : more = Append(asked, x)
  PROVE  Given(more, handled, s)
<1>1. \A i \in 1..(r - 1) : more[i] = asked[i]
  OBVIOUS
<1>2. \A k \in 1..Len(handled) : handled[k].seq \in 1..(r - 1) /\ handled[k].seq \in 1..(s - 1)
  BY DEF Given
<1> QED
  BY <1>1, <1>2 DEF Given

\* The answer to the next request.
LEMMA AnsweredNext ==
  ASSUME NEW asked, NEW replies, NEW r \in Nat \ {0}, Answered(asked, replies, r),
         NEW e \in ReplyRecord, e.seq = r, e.version = asked[r].version, e.type \in Outcomes(asked[r].type)
  PROVE  Answered(asked, Append(replies, e), r + 1)
<1> DEFINE q == Append(replies, e)
<1>0. PICK c : c = Len(replies)
  OBVIOUS
<1>1. replies \in Seq(ReplyRecord) /\ Len(replies) \in Nat /\ Len(replies) < r
  BY DEF Answered
<1>2. /\ q \in Seq(ReplyRecord) /\ Len(q) = c + 1 /\ q[c + 1] = e
      /\ \A k \in 1..c : q[k] = replies[k]
  BY <1>0, <1>1
<1>3. \A k \in 1..c : replies[k].seq \in 1..(r - 1)
  BY <1>0 DEF Answered
<1>a. c \in Nat /\ c < r
  BY <1>0, <1>1
<1> HIDE DEF q
<1>4. ASSUME NEW k \in 1..(c + 1)
      PROVE  /\ q[k].seq \in 1..r /\ q[k].version = asked[q[k].seq].version
             /\ q[k].type \in Outcomes(asked[q[k].seq].type)
             /\ \A j \in 1..(k - 1) : q[j].seq < q[k].seq
  <2>1. CASE k = c + 1
    <3>1. \A j \in 1..(k - 1) : j \in 1..c
      BY <2>1, <1>a
    <3>2. \A j \in 1..(k - 1) : q[j].seq \in 1..(r - 1)
      BY <3>1, <1>2, <1>3
    <3>3. \A i \in 1..(r - 1) : i < r
      OBVIOUS
    <3>4. q[k] = e /\ r \in 1..r
      BY <2>1, <1>2
    <3> QED
      BY <3>2, <3>3, <3>4
  <2>2. CASE k # c + 1
    <3>1. k \in 1..c /\ \A j \in 1..(k - 1) : j \in 1..c
      BY <2>2, <1>a
    <3>2. q[k] = replies[k] /\ \A j \in 1..(k - 1) : q[j] = replies[j]
      BY <3>1, <1>2
    <3> QED
      BY <3>1, <3>2, <1>0, <1>3 DEF Answered
  <2> QED
    BY <2>1, <2>2
<1>5. r + 1 - 1 = r /\ Len(q) < r + 1
  BY <1>a, <1>2
<1> QED
  BY <1>2, <1>4, <1>5 DEF Answered, q

LEMMA GivenNext ==
  ASSUME NEW asked, NEW handled, NEW r \in Nat \ {0}, Given(asked, handled, r),
         NEW e \in HandledRecord, e.seq = r, e.type = asked[r].type, e.body = asked[r].body
  PROVE  Given(asked, Append(handled, e), r + 1)
<1> DEFINE q == Append(handled, e)
<1>0. PICK c : c = Len(handled)
  OBVIOUS
<1>1. handled \in Seq(HandledRecord) /\ Len(handled) \in Nat
  BY DEF Given
<1>2. /\ q \in Seq(HandledRecord) /\ Len(q) = c + 1 /\ q[c + 1] = e
      /\ \A k \in 1..c : q[k] = handled[k]
  BY <1>0, <1>1
<1>3. \A k \in 1..c : handled[k].seq \in 1..(r - 1)
  BY <1>0 DEF Given
<1>a. c \in Nat
  BY <1>0, <1>1
<1> HIDE DEF q
<1>4. ASSUME NEW k \in 1..(c + 1)
      PROVE  /\ q[k].seq \in 1..r /\ q[k].type = asked[q[k].seq].type
             /\ q[k].body = asked[q[k].seq].body
             /\ \A j \in 1..(k - 1) : q[j].seq < q[k].seq
  <2>1. CASE k = c + 1
    <3>1. \A j \in 1..(k - 1) : j \in 1..c
      BY <2>1, <1>a
    <3>2. \A j \in 1..(k - 1) : q[j].seq \in 1..(r - 1)
      BY <3>1, <1>2, <1>3
    <3>3. \A i \in 1..(r - 1) : i < r
      OBVIOUS
    <3>4. q[k] = e /\ r \in 1..r
      BY <2>1, <1>2
    <3> QED
      BY <3>2, <3>3, <3>4
  <2>2. CASE k # c + 1
    <3>1. k \in 1..c /\ \A j \in 1..(k - 1) : j \in 1..c
      BY <2>2, <1>a
    <3>2. q[k] = handled[k] /\ \A j \in 1..(k - 1) : q[j] = handled[j]
      BY <3>1, <1>2
    <3> QED
      BY <3>1, <3>2, <1>0, <1>3 DEF Given
  <2> QED
    BY <2>1, <2>2
<1>5. r + 1 - 1 = r
  OBVIOUS
<1> QED
  BY <1>2, <1>4, <1>5 DEF Given, q

\* Open or closed by an error told last, the replies bear their numbers.
LEMMA AnswersBear ==
  ASSUME NEW asked \in Seq(SesRequests), NEW replies, NEW r \in 1..(Len(asked) + 1), Answered(asked, replies, r),
         NEW k \in 1..Len(replies)
  PROVE  /\ replies[k].seq \in DOMAIN asked /\ replies[k].version = asked[replies[k].seq].version
         /\ replies[k].type \in Outcomes(asked[replies[k].seq].type) \cup {MessageTooLong}
         /\ \A j \in 1..(k - 1) : replies[j].seq < replies[k].seq
<1>1. replies[k].seq \in 1..(r - 1) /\ Len(asked) \in Nat /\ DOMAIN asked = 1..Len(asked)
  BY DEF Answered
<1>2. replies[k].seq \in DOMAIN asked
  BY <1>1
<1> QED
  BY <1>2 DEF Answered

LEMMA ServedIsAsked ==
  ASSUME NEW asked \in Seq(SesRequests), NEW handled, NEW r \in 1..(Len(asked) + 1), Given(asked, handled, r),
         NEW k \in 1..Len(handled)
  PROVE  /\ handled[k].seq \in DOMAIN asked /\ handled[k].type = asked[handled[k].seq].type
         /\ handled[k].body = asked[handled[k].seq].body
         /\ \A j \in 1..(k - 1) : handled[j].seq < handled[k].seq
<1>1. handled[k].seq \in 1..(r - 1) /\ Len(asked) \in Nat /\ DOMAIN asked = 1..Len(asked)
  BY DEF Given
<1>2. handled[k].seq \in DOMAIN asked
  BY <1>1
<1> QED
  BY <1>2 DEF Given

IsJoined(m, s, t, a, b) ==
  /\ m \in Seq(Nat) /\ Len(m) = a + b /\ a \in Nat /\ b \in Nat
  /\ \A i \in 1..a : m[i] = s[i]
  /\ \A i \in 1..b : m[a + i] = t[i]

LEMMA JoinedAt ==
  ASSUME NEW s \in Seq(Nat), NEW t \in Seq(Nat), NEW a, NEW b, a = Len(s), b = Len(t)
  PROVE  IsJoined(s \o t, s, t, a, b)
<1>1. a \in Nat /\ b \in Nat
  BY LenProperties
<1>2. \A i \in 1..(a + b) : (s \o t)[i] = IF i <= a THEN s[i] ELSE t[i - a]
  BY ConcatProperties
<1>3. \A i \in 1..a : i \in 1..(a + b) /\ i <= a
  BY <1>1
<1>4. \A i \in 1..b : a + i \in 1..(a + b) /\ ~ (a + i <= a) /\ (a + i) - a = i
  BY <1>1
<1>5. \A i \in 1..b : (s \o t)[a + i] = t[i]
  <2> TAKE i \in 1..b
  <2>1. a + i \in 1..(a + b) /\ ~ (a + i <= a) /\ (a + i) - a = i
    BY <1>4
  <2>2. (s \o t)[a + i] = IF a + i <= a THEN s[a + i] ELSE t[(a + i) - a]
    BY <2>1, <1>2
  <2> QED
    BY <2>1, <2>2
<1> QED
  BY <1>1, <1>2, <1>3, <1>5, ConcatProperties DEF IsJoined

IsMessage(m, seq, version, type, body) ==
  /\ m \in Seq(Nat) /\ Len(m) = 4 + Len(body)
  /\ m[1] = seq /\ m[2] = version /\ m[3] = type /\ m[4] = Len(body)
  /\ \A o \in 1..Len(body) : m[4 + o] = body[o]

LEMMA SerializeIs ==
  ASSUME NEW seq \in Nat, NEW version \in Nat, NEW type \in Nat, NEW body \in Seq(TextWords)
  PROVE  IsMessage(Serialize(seq, version, type, body), seq, version, type, body)
<1> DEFINE h == <<seq, version, type, Len(body)>>
<1>1. body \in Seq(Nat) /\ Len(body) \in Nat
  <2>1. TextWords \subseteq Nat
    BY DEF TextWords
  <2> QED
    BY <2>1, SeqMonotonic, LenProperties
<1>2. h \in Seq(Nat) /\ Len(h) = 4 /\ h[1] = seq /\ h[2] = version /\ h[3] = type /\ h[4] = Len(body)
  BY <1>1
<1> HIDE DEF h
<1>3. IsJoined(h \o body, h, body, 4, Len(body))
  BY <1>1, <1>2, JoinedAt
<1>4. Serialize(seq, version, type, body) = h \o body
  BY DEF Serialize, h
<1>5. 1 \in 1..4 /\ 2 \in 1..4 /\ 3 \in 1..4 /\ 4 \in 1..4
  OBVIOUS
<1> QED
  BY <1>2, <1>3, <1>4, <1>5 DEF IsJoined, IsMessage

\* The client appends a request to the stream.
Longer(L, S, m, w) == [i \in 1..(L + w) |-> IF i <= L THEN S[i] ELSE m[i - L]]
StartsOf(n, at, e) == [k \in 1..(n + 2) |-> IF k <= n + 1 THEN at[k] ELSE e]

LEMMA FramedLonger ==
  ASSUME NEW asked, NEW n, NEW L, NEW S, NEW at, Framed(asked, n, L, S, at), n < MaxRequests,
         NEW x \in SesRequests,
         NEW m, m = Serialize(n + 1, x.version, x.type, x.body), NEW w, w = Len(m)
  PROVE  /\ Framed(Append(asked, x), n + 1, L + w, Longer(L, S, m, w), StartsOf(n, at, L + w + 1))
         /\ m \in Seq(Nat) /\ w \in Nat /\ w >= 4
<1>0. n \in Nat /\ L \in Nat /\ MaxRequests \in Nat /\ asked \in Seq(SesRequests) /\ Len(asked) = n
  BY SessionAssumption DEF Framed
<1>1. x.type \in Nat /\ x.version \in Nat /\ x.body \in Seq(TextWords) /\ Len(x.body) \in Nat
  BY SessionAssumption
<1>2. PICK len : len = Len(x.body)
  OBVIOUS
<1>3. /\ m \in Seq(Nat) /\ Len(m) = 4 + len
      /\ m[1] = n + 1 /\ m[2] = x.version /\ m[3] = x.type /\ m[4] = len
      /\ \A o \in 1..len : m[4 + o] = x.body[o]
  <2>1. n + 1 \in Nat
    BY <1>0
  <2>2. PICK y, u, v, z : y = x.body /\ u = x.version /\ v = x.type /\ z = n + 1
    OBVIOUS
  <2>3. z \in Nat /\ u \in Nat /\ v \in Nat /\ y \in Seq(TextWords) /\ m = Serialize(z, u, v, y)
    BY <2>1, <2>2, <1>1
  <2>4. IsMessage(m, z, u, v, y)
    BY <2>3, SerializeIs
  <2> QED
    BY <2>2, <2>4, <1>2 DEF IsMessage
<1>4. len \in Nat /\ w = 4 + len
  BY <1>1, <1>2, <1>3
<1>5. PICK T : T = Longer(L, S, m, w)
  OBVIOUS
<1>6. PICK b : b = StartsOf(n, at, L + w + 1)
  OBVIOUS
<1>7. PICK a : a = Append(asked, x)
  OBVIOUS
<1>8. /\ a \in Seq(SesRequests) /\ Len(a) = n + 1 /\ a[n + 1] = x
      /\ \A k \in 1..n : a[k] = asked[k]
  BY <1>0, <1>7
<1>9. /\ DOMAIN T = 1..(L + 4 + len) /\ \A i \in 1..L : T[i] = S[i]
      /\ \A i \in 1..(4 + len) : T[L + i] = m[i]
  <2>1. \A i \in 1..(4 + len) : L + i \in 1..(L + 4 + len) /\ ~ (L + i <= L) /\ L + i - L = i
    BY <1>0, <1>4
  <2>2. \A i \in 1..L : i \in 1..(L + 4 + len) /\ i <= L
    BY <1>0, <1>4
  <2>3. L + w = L + 4 + len
    BY <1>0, <1>4
  <2>4. DOMAIN T = 1..(L + 4 + len) /\ \A i \in 1..(L + 4 + len) : T[i] = IF i <= L THEN S[i] ELSE m[i - L]
    BY <2>3, <1>5 DEF Longer
  <2>5. ASSUME NEW i \in 1..(4 + len) PROVE T[L + i] = m[i]
    <3>1. PICK k : k = L + i
      OBVIOUS
    <3>2. k \in 1..(L + 4 + len) /\ ~ (k <= L) /\ k - L = i
      BY <3>1, <1>0, <1>4
    <3>3. T[k] = IF k <= L THEN S[k] ELSE m[k - L]
      BY <3>2, <2>4
    <3> QED
      BY <3>1, <3>2, <3>3
  <2> QED
    BY <2>2, <2>4, <2>5
<1>10. T \in [1..(L + 4 + len) -> Nat]
  <2>1. ASSUME NEW i \in 1..(L + 4 + len) PROVE T[i] \in Nat
    <3>1. CASE i <= L
      <4>1. i \in 1..L
        BY <3>1
      <4> QED
        BY <4>1, <1>9 DEF Framed
    <3>2. CASE ~ (i <= L)
      <4>1. i - L \in 1..(4 + len) /\ L + (i - L) = i
        BY <3>2, <1>0, <1>4
      <4>2. T[i] = m[i - L]
        BY <4>1, <1>9
      <4>3. i - L \in 1..Len(m)
        BY <4>1, <1>3
      <4> QED
        BY <4>2, <4>3, <1>3
    <3> QED
      BY <3>1, <3>2
  <2>2. T = [i \in 1..(L + 4 + len) |-> T[i]]
    <3>1. L + w = L + 4 + len
      BY <1>0, <1>4
    <3> QED
      BY <3>1, <1>5 DEF Longer
  <2> QED
    BY <2>1, <2>2
<1>11. /\ \A k \in 1..(n + 1) : b[k] = at[k]
       /\ b[n + 2] = L + 4 + len + 1
       /\ b \in [1..(n + 2) -> Nat \ {0}]
  <2>1. \A k \in 1..(n + 1) : k \in 1..(n + 2) /\ k <= n + 1
    BY <1>0
  <2>2. n + 2 \in 1..(n + 2) /\ ~ (n + 2 <= n + 1) /\ L + w + 1 = L + 4 + len + 1
    BY <1>0, <1>4
  <2>3. \A k \in 1..(n + 1) : at[k] \in Nat \ {0}
    BY DEF Framed
  <2>4. \A k \in 1..(n + 2) : k <= n + 1 => k \in 1..(n + 1)
    BY <1>0
  <2>5. L + w + 1 \in Nat \ {0}
    BY <1>0, <1>4
  <2>6. DOMAIN b = 1..(n + 2) /\ \A k \in 1..(n + 2) : b[k] = IF k <= n + 1 THEN at[k] ELSE L + w + 1
    BY <1>6 DEF StartsOf
  <2>7. b = [k \in 1..(n + 2) |-> b[k]]
    BY <1>6 DEF StartsOf
  <2>8. \A k \in 1..(n + 2) : b[k] \in Nat \ {0}
    BY <2>3, <2>4, <2>5, <2>6
  <2>9. b \in [1..(n + 2) -> Nat \ {0}]
    BY <2>7, <2>8
  <2>10. \A k \in 1..(n + 1) : b[k] = at[k]
    BY <2>1, <2>6
  <2>11. b[n + 2] = L + 4 + len + 1
    BY <2>2, <2>6
  <2> QED
    BY <2>9, <2>10, <2>11
<1>12. at[n + 1] = L + 1 /\ n + 1 \in 1..(n + 1) /\ b[n + 1] = L + 1 /\ 1 \in 1..(n + 1) /\ b[1] = 1
  <2>1. at[n + 1] = L + 1 /\ at[1] = 1
    BY DEF Framed
  <2>2. n + 1 \in 1..(n + 1) /\ 1 \in 1..(n + 1)
    BY <1>0
  <2>3. b[n + 1] = at[n + 1] /\ b[1] = at[1]
    BY <2>2, <1>11
  <2> QED
    BY <2>1, <2>2, <2>3
<1>13. ASSUME NEW k \in 1..(n + 1)
       PROVE  /\ b[k + 1] = b[k] + 4 + Len(a[k].body)
              /\ T[b[k]] = k /\ T[b[k] + 1] = a[k].version
              /\ T[b[k] + 2] = a[k].type /\ T[b[k] + 3] = Len(a[k].body)
              /\ \A o \in 1..Len(a[k].body) : T[b[k] + 3 + o] = a[k].body[o]
  <2>1. CASE k = n + 1
    <3>1. b[k] = L + 1 /\ b[k + 1] = L + 4 + len + 1 /\ a[k] = x
      <4>1. k + 1 = n + 2
        BY <2>1, <1>0
      <4> QED
        BY <4>1, <2>1, <1>8, <1>11, <1>12
    <3>2. /\ L + 1 + 1 = L + 2 /\ L + 1 + 2 = L + 3 /\ L + 1 + 3 = L + 4
          /\ L + 4 + len + 1 = L + 1 + 4 + len
          /\ 1 \in 1..(4 + len) /\ 2 \in 1..(4 + len) /\ 3 \in 1..(4 + len) /\ 4 \in 1..(4 + len)
          /\ \A o \in 1..len : 4 + o \in 1..(4 + len) /\ L + 1 + 3 + o = L + (4 + o)
      BY <1>0, <1>4
    <3>3. /\ T[L + 1] = n + 1 /\ T[L + 1 + 1] = x.version /\ T[L + 1 + 2] = x.type /\ T[L + 1 + 3] = len
          /\ \A o \in 1..len : T[L + 1 + 3 + o] = x.body[o]
      BY <3>2, <1>3, <1>9
    <3> QED
      BY <3>1, <3>2, <3>3, <2>1, <1>2
  <2>2. CASE k # n + 1
    <3>1. k \in 1..n /\ k + 1 \in 1..(n + 1)
      BY <2>2, <1>0
    <3>2. b[k] = at[k] /\ b[k + 1] = at[k + 1] /\ a[k] = asked[k]
      BY <3>1, <1>8, <1>11
    <3>3. PICK c : c = Len(asked[k].body)
      OBVIOUS
    <3>4. /\ at[k] \in Nat \ {0} /\ c \in Nat /\ at[k + 1] = at[k] + 4 + c /\ at[k + 1] <= L + 1
          /\ S[at[k]] = k /\ S[at[k] + 1] = asked[k].version /\ S[at[k] + 2] = asked[k].type
          /\ S[at[k] + 3] = c /\ \A o \in 1..c : S[at[k] + 3 + o] = asked[k].body[o]
      BY <3>1, <3>3, RequestAt
    <3>5. /\ at[k] \in 1..L /\ at[k] + 1 \in 1..L /\ at[k] + 2 \in 1..L /\ at[k] + 3 \in 1..L
          /\ \A o \in 1..c : at[k] + 3 + o \in 1..L
      <4>1. PICK z : z = at[k]
        OBVIOUS
      <4>2. z \in Nat \ {0} /\ c \in Nat /\ z + 4 + c <= L + 1
        BY <4>1, <3>4
      <4>3. /\ z \in 1..L /\ z + 1 \in 1..L /\ z + 2 \in 1..L /\ z + 3 \in 1..L
            /\ \A o \in 1..c : z + 3 + o \in 1..L
        BY <4>2, <1>0
      <4> QED
        BY <4>1, <4>3
    <3>6. /\ T[at[k]] = k /\ T[at[k] + 1] = asked[k].version /\ T[at[k] + 2] = asked[k].type
          /\ T[at[k] + 3] = c /\ \A o \in 1..c : T[at[k] + 3 + o] = asked[k].body[o]
      BY <3>4, <3>5, <1>9
    <3> QED
      BY <3>2, <3>3, <3>4, <3>6
  <2> QED
    BY <2>1, <2>2
<1>14. ASSUME NEW j \in 1..(n + 2), NEW k \in 1..(n + 2), j < k PROVE b[j] < b[k]
  <2>1. j \in 1..(n + 1)
    BY <1>0, <1>14
  <2>2. \A i \in 1..(n + 1) : i < n + 1 => at[i] < at[n + 1]
    BY <1>12 DEF Framed
  <2>3. at[j] <= L + 1 /\ at[j] \in Nat
    <3>1. CASE j = n + 1
      BY <3>1, <1>12, <1>0
    <3>2. CASE j # n + 1
      <4>1. j < n + 1
        BY <3>2, <2>1, <1>0
      <4>2. at[j] < L + 1
        BY <4>1, <2>1, <2>2, <1>12
      <4>3. at[j] \in Nat
        BY <2>1 DEF Framed
      <4> QED
        BY <4>2, <4>3, <1>0
    <3> QED
      BY <3>1, <3>2
  <2>4. CASE k = n + 2
    BY <2>1, <2>3, <2>4, <1>11, <1>0, <1>4
  <2>5. CASE k # n + 2
    <3>1. k \in 1..(n + 1)
      BY <2>5, <1>0
    <3>2. at[j] < at[k]
      BY <3>1, <2>1, <1>14 DEF Framed
    <3> QED
      BY <3>1, <3>2, <2>1, <1>11
  <2> QED
    BY <2>4, <2>5
<1>15. ASSUME NEW q \in 1..(L + 4 + len) PROVE \E k \in 1..(n + 1) : b[k] <= q /\ q < b[k + 1]
  <2>1. CASE q <= L
    <3>1. q \in 1..L
      BY <2>1
    <3>2. PICK k \in 1..n : at[k] <= q /\ q < at[k + 1]
      BY <3>1 DEF Framed
    <3>3. k \in 1..(n + 1) /\ k + 1 \in 1..(n + 1)
      BY <1>0
    <3>4. b[k] = at[k] /\ b[k + 1] = at[k + 1]
      BY <3>3, <1>11
    <3> QED
      BY <3>2, <3>3, <3>4
  <2>2. CASE ~ (q <= L)
    <3>1. L + 1 <= q /\ q < L + 4 + len + 1
      BY <2>2, <1>0, <1>4
    <3>2. b[n + 1] <= q /\ q < b[(n + 1) + 1]
      <4>1. (n + 1) + 1 = n + 2
        BY <1>0
      <4> QED
        BY <4>1, <3>1, <1>11, <1>12
    <3> QED
      BY <3>2, <1>12
  <2> QED
    BY <2>1, <2>2
<1>16. /\ n + 1 \in 0..MaxRequests /\ L + w = L + 4 + len /\ n + 1 + 1 = n + 2
       /\ L + 4 + len \in Nat /\ L + w + 1 = L + 4 + len + 1
  BY <1>0, <1>4
<1>17. Framed(a, n + 1, L + 4 + len, T, b)
  BY <1>8, <1>10, <1>11, <1>12, <1>13, <1>14, <1>15, <1>16 DEF Framed
<1> QED
  BY <1>17, <1>16, <1>3, <1>4, <1>5, <1>6, <1>7

\* Where what was read ends is in the same request or a later one.
LEMMA Elsewhere ==
  ASSUME NEW asked, NEW n, NEW L, NEW S, NEW at, Framed(asked, n, L, S, at),
         NEW r \in 1..(n + 1), NEW p \in Nat, NEW q \in Nat, at[r] <= p, p <= q, q <= L + 1
  PROVE  \E s \in r..(n + 1) : at[s] <= q /\ (s <= n => q < at[s + 1])
<1>0. n \in Nat /\ L \in Nat /\ r \in Nat /\ 1 \in 1..(n + 1) /\ n + 1 \in 1..(n + 1) /\ at[1] = 1 /\ at[n + 1] = L + 1
  BY SessionAssumption DEF Framed
<1>1. CASE q = L + 1
  <2>1. n + 1 \in r..(n + 1) /\ ~ (n + 1 <= n)
    BY <1>0
  <2>2. at[n + 1] <= q
    BY <1>1, <1>0
  <2> QED
    BY <2>1, <2>2
<1>2. CASE q # L + 1
  <2>1. at[r] \in Nat \ {0}
    BY DEF Framed
  <2>2. q \in 1..L
    BY <1>2, <1>0, <2>1
  <2>3. PICK k \in 1..n : at[k] <= q /\ q < at[k + 1]
    BY <2>2 DEF Framed
  <2>4. r <= k
    <3>1. SUFFICES ASSUME ~ (r <= k) PROVE FALSE
      OBVIOUS
    <3>2. k + 1 \in 1..(n + 1) /\ k + 1 <= r
      BY <3>1, <1>0
    <3>3. at[k + 1] <= at[r]
      <4>1. k + 1 < r => at[k + 1] < at[r]
        BY <3>2 DEF Framed
      <4>2. at[k + 1] \in Nat
        BY <3>2 DEF Framed
      <4> QED
        BY <4>1, <4>2, <3>2, <2>1, <1>0
    <3>4. at[k + 1] \in Nat
      BY <3>2 DEF Framed
    <3> QED
      BY <3>3, <3>4, <2>1, <2>3
  <2> QED
    BY <2>3, <2>4, <1>0
<1> QED
  BY <1>1, <1>2

LEMMA SessionStarts == SessionInit => SesInv
<1> SUFFICES ASSUME SessionInit PROVE SesInv
  OBVIOUS
<1> DEFINE S == [i \in 1..0 |-> 0]
           at == [i \in 1..1 |-> 1]
<1>1. Framed(<<>>, 0, 0, S, at)
  <2>1. <<>> \in Seq(SesRequests) /\ Len(<<>>) = 0 /\ 0 \in 0..MaxRequests
    BY SessionAssumption
  <2>2. 1..0 = {} /\ 1..(0 + 1) = {1} /\ 0 + 1 = 1
    OBVIOUS
  <2> QED
    BY <2>1, <2>2 DEF Framed
<1>2. Follows(0, S, 1)
  BY DEF SessionInit, Follows
<1>3. Placed(0, at, 1, 1)
  BY DEF SessionInit, Placed, Reading, Within
<1>4. Told(0, 1) /\ Given(<<>>, <<>>, 1)
  BY DEF SessionInit, Told, Answered, Given, RepliesBearTheirNumbers
<1> QED
  BY <1>1, <1>2, <1>3, <1>4, SessionAssumption DEF SesInv, SessionInit

LEMMA SessionFollows == SesInv => SessionKeepsPairs
<1> SUFFICES ASSUME SesInv PROVE SessionKeepsPairs
  OBVIOUS
<1>1. PICK n, L, S, at, p, r : /\ Framed(sesAsked, n, L, S, at) /\ Placed(n, at, p, r)
                                /\ Told(n, r) /\ Given(sesAsked, sesHandled, r)
  BY DEF SesInv
<1>2. sesAsked \in Seq(SesRequests) /\ Len(sesAsked) = n /\ n \in Nat /\ r \in 1..(n + 1)
  BY <1>1, SessionAssumption DEF Framed, Placed
<1>3. HandledAsSent
  <2>1. sesHandled \in Seq(HandledRecord) /\ DOMAIN sesHandled = 1..Len(sesHandled)
    BY <1>1 DEF Given
  <2>2. \A k \in 1..Len(sesHandled) :
          /\ sesHandled[k].seq \in DOMAIN sesAsked /\ sesHandled[k].type = sesAsked[sesHandled[k].seq].type
          /\ sesHandled[k].body = sesAsked[sesHandled[k].seq].body
          /\ \A j \in 1..(k - 1) : sesHandled[j].seq < sesHandled[k].seq
    BY <1>1, <1>2, ServedIsAsked
  <2> QED
    BY <2>1, <2>2 DEF HandledAsSent
<1>4. SessionTypeOK
  BY <1>1, <1>2 DEF SessionTypeOK, SesInv, Placed, Told
<1> QED
  BY <1>1, <1>3, <1>4 DEF SessionKeepsPairs, Told

LEMMA StillBears ==
  ASSUME sesAsked' \in Seq(SesRequests), NEW r \in 1..(Len(sesAsked') + 1), Answered(sesAsked', sesReplies', r)
  PROVE  RepliesBearTheirNumbers'
<1>1. sesReplies' \in Seq(ReplyRecord) /\ DOMAIN sesReplies' = 1..Len(sesReplies')
  BY DEF Answered
<1>2. PICK asked, replies : asked = sesAsked' /\ replies = sesReplies'
  OBVIOUS
<1>3. \A k \in 1..Len(replies) :
        /\ replies[k].seq \in DOMAIN asked /\ replies[k].version = asked[replies[k].seq].version
        /\ replies[k].type \in Outcomes(asked[replies[k].seq].type) \cup {MessageTooLong}
        /\ \A j \in 1..(k - 1) : replies[j].seq < replies[k].seq
  BY <1>2, AnswersBear
<1> QED
  BY <1>1, <1>2, <1>3 DEF RepliesBearTheirNumbers

LEMMA LastIsAnError ==
  ASSUME sesAsked \in Seq(SesRequests), NEW r \in 1..(Len(sesAsked) + 1), Answered(sesAsked, sesReplies, r),
         NEW e \in ReplyRecord, e.type \in {ErrorProtocol, MessageTooLong},
         sesReplies' = Append(sesReplies, e), sesAsked' = sesAsked, ~ sesOpen'
  PROVE  RepliesBearTheirNumbers' /\ sesReplies' \in Seq(ReplyRecord) /\ Len(sesReplies') = Len(sesReplies) + 1
<1>1. sesReplies \in Seq(ReplyRecord) /\ Len(sesReplies) \in Nat
  BY DEF Answered
<1>2. PICK c, q : c = Len(sesReplies) /\ q = sesReplies'
  OBVIOUS
<1>3. /\ q \in Seq(ReplyRecord) /\ Len(q) = c + 1 /\ DOMAIN q = 1..(c + 1) /\ q[c + 1] = e
      /\ \A k \in 1..c : q[k] = sesReplies[k]
  BY <1>1, <1>2
<1>4. \A k \in 1..c :
        /\ sesReplies[k].seq \in DOMAIN sesAsked /\ sesReplies[k].version = sesAsked[sesReplies[k].seq].version
        /\ sesReplies[k].type \in Outcomes(sesAsked[sesReplies[k].seq].type) \cup {MessageTooLong}
        /\ \A j \in 1..(k - 1) : sesReplies[j].seq < sesReplies[k].seq
  BY <1>2, AnswersBear
<1>5. c \in Nat
  BY <1>1, <1>2
<1>6. ASSUME NEW k \in 1..(c + 1)
      PROVE  \/ /\ q[k].seq \in DOMAIN sesAsked /\ q[k].version = sesAsked[q[k].seq].version
                /\ q[k].type \in Outcomes(sesAsked[q[k].seq].type) \cup {MessageTooLong}
                /\ \A j \in 1..(k - 1) : q[j].seq < q[k].seq
             \/ k = c + 1 /\ q[k].type \in {ErrorProtocol, MessageTooLong}
  <2>1. CASE k = c + 1
    BY <2>1, <1>3
  <2>2. CASE k # c + 1
    <3>1. k \in 1..c /\ \A j \in 1..(k - 1) : j \in 1..c
      BY <2>2, <1>5
    <3>2. q[k] = sesReplies[k] /\ \A j \in 1..(k - 1) : q[j] = sesReplies[j]
      BY <3>1, <1>3
    <3> QED
      BY <3>1, <3>2, <1>4
  <2> QED
    BY <2>1, <2>2
<1>7. RepliesBearTheirNumbers'
  BY <1>2, <1>3, <1>6 DEF RepliesBearTheirNumbers
<1> QED
  BY <1>7, <1>2, <1>3

LEMMA StreamCut ==
  ASSUME NEW L, NEW S, NEW p, L \in Nat, Follows(L, S, p), NEW c \in 0..Len(sesArrived),
         sesArrived' = SubSeq(sesArrived, c + 1, Len(sesArrived)), sesComing' = sesComing
  PROVE  Follows(L, S, p + c)' /\ p + c \in Nat \ {0} /\ p + c <= L + 1
<1>1. PICK a, b, x, y, z : a = Len(sesArrived) /\ b = Len(sesComing) /\ x = sesArrived /\ y = sesArrived' /\ z = sesComing
  OBVIOUS
<1>2. /\ p \in Nat \ {0} /\ x \in Seq(Nat) /\ z \in Seq(Nat) /\ a \in Nat /\ b \in Nat /\ c \in Nat /\ c <= a
      /\ p + a + b = L + 1 /\ Len(x) = a /\ Len(z) = b
      /\ \A i \in 1..a : x[i] = S[p + i - 1]
      /\ \A i \in 1..b : z[i] = S[p + a + i - 1]
  BY <1>1 DEF Follows
<1>3. \A i \in (c + 1)..a : x[i] \in Nat
  BY <1>2
<1>4. y = SubSeq(x, c + 1, a)
  BY <1>1
<1>5. /\ y \in Seq(Nat) /\ Len(y) = (IF c + 1 <= a THEN a - (c + 1) + 1 ELSE 0)
      /\ \A i \in 1..(a - (c + 1) + 1) : y[i] = x[c + 1 + i - 1]
  <2>1. c + 1 \in Int /\ a \in Int
    BY <1>2
  <2> QED
    BY <2>1, <1>3, <1>4, SubSeqProperties
<1>6. Len(y) = a - c /\ a - (c + 1) + 1 = a - c
  BY <1>2, <1>5
<1>7. \A i \in 1..Len(y) : y[i] = S[p + c + i - 1]
  <2> TAKE i \in 1..Len(y)
  <2>1. y[i] = x[c + 1 + i - 1]
    BY <1>5, <1>6
  <2>2. PICK j : j = c + i
    OBVIOUS
  <2>3. j \in 1..a /\ c + 1 + i - 1 = j /\ p + c + i - 1 = p + j - 1
    BY <2>2, <1>2, <1>6
  <2> QED
    BY <2>1, <2>3, <1>2
<1>8. \A i \in 1..b : z[i] = S[p + c + Len(y) + i - 1]
  <2> TAKE i \in 1..b
  <2>1. p + c + Len(y) + i - 1 = p + a + i - 1
    BY <1>2, <1>6
  <2> QED
    BY <2>1, <1>2
<1>9. p + c + Len(y) + b = L + 1 /\ p + c \in Nat \ {0} /\ p + c <= L + 1
  BY <1>2, <1>6
<1> QED
  BY <1>1, <1>2, <1>5, <1>7, <1>8, <1>9 DEF Follows

\* What every step but ClientSends leaves alone.
LEMMA FramedStays ==
  ASSUME NEW n, NEW L, NEW S, NEW at, Framed(sesAsked, n, L, S, at), sesAsked' = sesAsked
  PROVE  Framed(sesAsked', n, L, S, at)
  OBVIOUS

LEMMA ClientSendsKeeps ==
  ASSUME SesInv, sesOpen, NEW x \in SesRequests, ClientSends(x)
  PROVE  SesInv'
<1>1. PICK n, L, S, at, p, r : /\ Framed(sesAsked, n, L, S, at) /\ Follows(L, S, p) /\ Placed(n, at, p, r)
                                /\ Told(n, r) /\ Given(sesAsked, sesHandled, r)
  BY DEF SesInv
<1>2. /\ sesAsked \in Seq(SesRequests) /\ Len(sesAsked) = n /\ n \in Nat /\ n < MaxRequests /\ L \in Nat
      /\ r \in 1..(n + 1) /\ at[n + 1] = L + 1
  BY <1>1, SessionAssumption DEF Framed, Placed, ClientSends
<1>3. PICK m, w : m = Serialize(n + 1, x.version, x.type, x.body) /\ w = Len(m)
  OBVIOUS
<1>4. PICK T, b : T = Longer(L, S, m, w) /\ b = StartsOf(n, at, L + w + 1)
  OBVIOUS
<1>5. /\ sesAsked' = Append(sesAsked, x) /\ sesComing' = sesComing \o m
      /\ UNCHANGED <<sesArrived, sesHeader, sesIdle, sesOpen, sesHandled, sesReplies>>
  BY <1>2, <1>3 DEF ClientSends
<1>6. Framed(sesAsked', n + 1, L + w, T, b) /\ m \in Seq(Nat) /\ w \in Nat /\ w >= 4
  BY <1>1, <1>2, <1>3, <1>4, <1>5, FramedLonger
<1>7. Follows(L + w, T, p)'
  <2>1. PICK a, c, z, y : a = Len(sesArrived) /\ c = Len(sesComing) /\ z = sesComing /\ y = sesComing'
    OBVIOUS
  <2>2. /\ p \in Nat \ {0} /\ z \in Seq(Nat) /\ a \in Nat /\ c \in Nat /\ c = Len(z) /\ p + a + c = L + 1
        /\ \A i \in 1..a : sesArrived[i] = S[p + i - 1]
        /\ \A i \in 1..c : z[i] = S[p + a + i - 1]
    BY <2>1, <1>1 DEF Follows
  <2>a. p \in Nat /\ a \in Nat /\ c \in Nat /\ w \in Nat /\ L \in Nat /\ p + a + c = L + 1
    BY <2>2, <1>2, <1>6
  <2>3. IsJoined(y, z, m, c, w)
    BY <2>1, <2>2, <1>3, <1>5, <1>6, JoinedAt
  <2>4. /\ \A i \in 1..L : T[i] = S[i]
        /\ \A i \in 1..w : T[L + i] = m[i]
    <3>1. \A i \in 1..(L + w) : T[i] = IF i <= L THEN S[i] ELSE m[i - L]
      BY <1>4 DEF Longer
    <3>2. \A i \in 1..L : i \in 1..(L + w) /\ i <= L
      BY <1>2, <1>6
    <3>3. ASSUME NEW i \in 1..w PROVE T[L + i] = m[i]
      <4>1. PICK k : k = L + i
        OBVIOUS
      <4>2. k \in 1..(L + w) /\ ~ (k <= L) /\ k - L = i
        BY <4>1, <1>2, <1>6
      <4>3. T[k] = m[k - L]
        BY <4>2, <3>1
      <4> QED
        BY <4>1, <4>2, <4>3
    <3> QED
      BY <3>1, <3>2, <3>3
  <2>5. \A i \in 1..a : sesArrived[i] = T[p + i - 1]
    <3> TAKE i \in 1..a
    <3>1. p + i - 1 \in 1..L
      BY <2>2, <1>2
    <3> QED
      BY <3>1, <2>2, <2>4
  <2>6. \A i \in 1..(c + w) : y[i] = T[p + a + i - 1]
    <3> TAKE i \in 1..(c + w)
    <3>1. CASE i <= c
      <4>1. i \in 1..c /\ p + a + i - 1 \in 1..L
        BY <3>1, <2>2, <1>2
      <4> QED
        BY <4>1, <2>2, <2>3, <2>4 DEF IsJoined
    <3>2. CASE ~ (i <= c)
      <4>1. PICK j : j = i - c
        OBVIOUS
      <4>2. j \in 1..w /\ c + j = i /\ p + a + i - 1 = L + j
        BY <3>2, <4>1, <2>a
      <4> QED
        BY <4>2, <2>3, <2>4 DEF IsJoined
    <3> QED
      BY <3>1, <3>2
  <2>7. p + a + (c + w) = L + w + 1
    BY <2>a
  <2>7a. Len(y) = c + w /\ y \in Seq(Nat)
    BY <2>3 DEF IsJoined
  <2>8. sesArrived \in Seq(Nat)
    BY <1>1 DEF Follows
  <2> QED
    BY <2>1, <2>2, <2>5, <2>6, <2>7, <2>7a, <2>8, <1>5 DEF Follows
<1>8. Placed(n + 1, b, p, r)'
  <2>1. /\ \A k \in 1..(n + 1) : k \in 1..(n + 2) /\ b[k] = at[k]
        /\ b[n + 2] = L + w + 1
    BY <1>2, <1>4 DEF StartsOf
  <2>2. r \in 1..(n + 1 + 1) /\ b[r] = at[r]
    BY <2>1, <1>2
  <2>3. r <= n => sesAsked'[r] = sesAsked[r]
    BY <1>2, <1>5
  <2>4. Reading => Within(n + 1, b, p, r)'
    <3> SUFFICES ASSUME Reading PROVE Within(n + 1, b, p, r)'
      OBVIOUS
    <3>1. at[r] <= p /\ (r <= n => p < at[r + 1]) /\ Len(sesAsked') = n + 1
      BY <1>1, <1>2, <1>5 DEF Placed, Within
    <3>2. CASE r <= n
      <4>1. b[r + 1] = at[r + 1]
        BY <3>2, <2>1, <1>2
      <4> QED
        BY <3>1, <3>2, <4>1, <2>2, <1>2 DEF Within
    <3>3. CASE r = n + 1
      <4>1. b[r + 1] = L + w + 1
        BY <3>3, <2>1, <1>2
      <4>2. p \in Nat /\ p <= L + 1
        <5>1. p \in Nat /\ Len(sesArrived) \in Nat /\ Len(sesComing) \in Nat /\ p + Len(sesArrived) + Len(sesComing) = L + 1
          BY <1>1 DEF Follows
        <5> QED
          BY <5>1, <1>2
      <4>3. p < L + w + 1
        BY <4>2, <1>2, <1>6
      <4> QED
        BY <3>1, <4>1, <4>3, <2>2 DEF Within
    <3> QED
      BY <3>2, <3>3, <1>2
  <2>5. sesHeader # <<>> =>
          /\ sesOpen /\ r <= n + 1 /\ p = b[r] + 4
          /\ sesHeader = <<r, sesAsked'[r].version, sesAsked'[r].type, Len(sesAsked'[r].body)>>
          /\ sesAsked'[r].version = ProtocolVersion /\ Len(sesAsked'[r].body) <= MaxSize
    BY <1>1, <1>2, <2>2, <2>3 DEF Placed
  <2> QED
    BY <2>2, <2>4, <2>5, <1>1, <1>5 DEF Placed, Reading
<1>9. Answered(sesAsked', sesReplies', r) /\ Given(sesAsked', sesHandled', r)
  <2>1. r \in 1..(Len(sesAsked) + 1) /\ r \in Nat /\ r <= r /\ Answered(sesAsked, sesReplies, r)
    BY <1>1, <1>2 DEF Told
  <2> QED
    BY <2>1, <1>1, <1>2, <1>5, AnsweredStays, GivenStays
<1>10. Told(n + 1, r)'
  <2>1. Len(sesReplies') <= n + 1 /\ sesReplies' \in Seq(ReplyRecord)
    BY <1>1, <1>2, <1>5 DEF Told
  <2>2. sesAsked' \in Seq(SesRequests) /\ r \in 1..(Len(sesAsked') + 1)
    BY <1>2, <1>5
  <2> QED
    BY <2>1, <2>2, <1>9, StillBears DEF Told
<1> QED
  BY <1>5, <1>6, <1>7, <1>8, <1>9, <1>10 DEF SesInv

LEMMA WordsArriveKeeps ==
  ASSUME SesInv, NEW k \in 1..HeaderSize, WordsArrive(k)
  PROVE  SesInv'
<1>1. PICK n, L, S, at, p, r : /\ Framed(sesAsked, n, L, S, at) /\ Follows(L, S, p) /\ Placed(n, at, p, r)
                                /\ Told(n, r) /\ Given(sesAsked, sesHandled, r)
  BY DEF SesInv
<1>2. /\ k <= Len(sesComing) /\ sesArrived' = sesArrived \o SubSeq(sesComing, 1, k)
      /\ sesComing' = SubSeq(sesComing, k + 1, Len(sesComing))
      /\ UNCHANGED <<sesAsked, sesHeader, sesIdle, sesOpen, sesHandled, sesReplies>>
  BY DEF WordsArrive
<1>3. Follows(L, S, p)'
  <2>1. PICK a, c, x, z, h, t : /\ a = Len(sesArrived) /\ c = Len(sesComing) /\ x = sesArrived /\ z = sesComing
                                 /\ h = SubSeq(sesComing, 1, k) /\ t = sesComing'
    OBVIOUS
  <2>2. /\ p \in Nat \ {0} /\ x \in Seq(Nat) /\ z \in Seq(Nat) /\ a \in Nat /\ c \in Nat
        /\ c = Len(z) /\ a = Len(x) /\ p + a + c = L + 1 /\ k \in Nat /\ 1 <= k /\ k <= c
        /\ \A i \in 1..a : x[i] = S[p + i - 1]
        /\ \A i \in 1..c : z[i] = S[p + a + i - 1]
    <3>1. k \in Nat /\ 1 <= k /\ k <= c
      BY <2>1, <1>2 DEF HeaderSize
    <3>2. p \in Nat \ {0} /\ x \in Seq(Nat) /\ z \in Seq(Nat) /\ p + a + c = L + 1
      BY <2>1, <1>1 DEF Follows
    <3>3. a \in Nat /\ c \in Nat /\ c = Len(z) /\ a = Len(x)
      BY <2>1, <3>2
    <3>4. /\ \A i \in 1..a : x[i] = S[p + i - 1]
          /\ \A i \in 1..c : z[i] = S[p + a + i - 1]
      BY <2>1, <1>1 DEF Follows
    <3> QED
      BY <3>1, <3>2, <3>3, <3>4
  <2>a. p \in Nat /\ a \in Nat /\ c \in Nat /\ k \in Nat /\ 1 <= k /\ k <= c /\ p + a + c = L + 1
    BY <2>2
  <2>3. (\A i \in 1..k : z[i] \in Nat) /\ (\A i \in (k + 1)..c : z[i] \in Nat)
    BY <2>2
  <2>4. /\ h \in Seq(Nat) /\ Len(h) = k
        /\ \A i \in 1..k : h[i] = z[i]
    <3>1. /\ h \in Seq(Nat) /\ Len(h) = (IF 1 <= k THEN k - 1 + 1 ELSE 0)
          /\ \A i \in 1..(k - 1 + 1) : h[i] = z[1 + i - 1]
      BY <2>1, <2>2, <2>3, SubSeqProperties
    <3>2. k - 1 + 1 = k /\ \A i \in 1..k : 1 + i - 1 = i
      BY <2>2
    <3> QED
      BY <3>1, <3>2, <2>2
  <2>5. /\ t \in Seq(Nat) /\ Len(t) = c - k
        /\ \A i \in 1..(c - k) : t[i] = z[k + i]
    <3>1. /\ t \in Seq(Nat) /\ Len(t) = (IF k + 1 <= c THEN c - (k + 1) + 1 ELSE 0)
          /\ \A i \in 1..(c - (k + 1) + 1) : t[i] = z[k + 1 + i - 1]
      <4>1. k + 1 \in Int /\ c \in Int
        BY <2>a
      <4>2. t = SubSeq(z, k + 1, c) /\ \A i \in (k + 1)..c : z[i] \in Nat
        BY <2>1, <2>3, <1>2
      <4> QED
        BY <4>1, <4>2, SubSeqProperties
    <3>2. c - (k + 1) + 1 = c - k /\ (IF k + 1 <= c THEN c - (k + 1) + 1 ELSE 0) = c - k
      BY <2>a
    <3>3. ASSUME NEW i \in 1..(c - k) PROVE t[i] = z[k + i]
      <4>1. k + 1 + i - 1 = k + i
        BY <2>a
      <4>2. t[i] = z[k + 1 + i - 1]
        BY <3>1, <3>2
      <4> QED
        BY <4>1, <4>2
    <3> QED
      BY <3>1, <3>2, <3>3
  <2>6. IsJoined(x \o h, x, h, a, k)
    BY <2>2, <2>4, JoinedAt
  <2>7. sesArrived' = x \o h
    BY <2>1, <1>2
  <2>8. PICK y : y = x \o h
    OBVIOUS
  <2>9. \A i \in 1..(a + k) : y[i] = S[p + i - 1]
    <3> TAKE i \in 1..(a + k)
    <3>1. CASE i <= a
      <4>1. i \in 1..a
        BY <3>1, <2>2
      <4> QED
        BY <4>1, <2>2, <2>6, <2>8 DEF IsJoined
    <3>2. CASE ~ (i <= a)
      <4>1. PICK j : j = i - a
        OBVIOUS
      <4>2. j \in 1..k /\ j \in 1..c /\ a + j = i /\ p + a + j - 1 = p + i - 1
        BY <3>2, <4>1, <2>2
      <4>3. y[i] = h[j] /\ h[j] = z[j] /\ z[j] = S[p + a + j - 1]
        BY <4>2, <2>2, <2>4, <2>6, <2>8 DEF IsJoined
      <4> QED
        BY <4>2, <4>3
    <3> QED
      BY <3>1, <3>2
  <2>10. \A i \in 1..(c - k) : t[i] = S[p + (a + k) + i - 1]
    <3> TAKE i \in 1..(c - k)
    <3>1. PICK j : j = k + i
      OBVIOUS
    <3>2. j \in 1..c /\ p + a + j - 1 = p + (a + k) + i - 1
      BY <3>1, <2>a
    <3> QED
      BY <3>1, <3>2, <2>2, <2>5
  <2>11. p + (a + k) + (c - k) = L + 1
    BY <2>a
  <2>12. Len(y) = a + k /\ y \in Seq(Nat)
    BY <2>6, <2>8 DEF IsJoined
  <2> QED
    BY <2>1, <2>2, <2>5, <2>7, <2>8, <2>9, <2>10, <2>11, <2>12 DEF Follows
<1>4. Placed(n, at, p, r)'
  BY <1>1, <1>2 DEF Placed, Reading, Within
<1>5. Told(n, r)'
  BY <1>1, <1>2 DEF Told, RepliesBearTheirNumbers
<1> QED
  BY <1>1, <1>2, <1>3, <1>4, <1>5 DEF SesInv

\* What a read has before it.
LEMMA InHand ==
  ASSUME NEW n, NEW L, NEW S, NEW at, NEW p, NEW r,
         Framed(sesAsked, n, L, S, at), Follows(L, S, p), Placed(n, at, p, r)
  PROVE  /\ n \in Nat /\ L \in Nat /\ p \in Nat /\ r \in Nat /\ r \in 1..(n + 1) /\ at[n + 1] = L + 1
         /\ Len(sesArrived) \in Nat /\ Len(sesComing) \in Nat /\ p + Len(sesArrived) + Len(sesComing) = L + 1
         /\ sesAsked \in Seq(SesRequests) /\ Len(sesAsked) = n
         /\ \A i \in 1..Len(sesArrived) : sesArrived[i] = S[p + i - 1] /\ sesArrived[i] \in Nat
         /\ Reading => at[r] <= p /\ (r <= n => p < at[r + 1])
<1>1. /\ n \in Nat /\ L \in Nat /\ at[n + 1] = L + 1 /\ sesAsked \in Seq(SesRequests) /\ Len(sesAsked) = n
  BY SessionAssumption DEF Framed
<1>2. r \in 1..(n + 1) /\ (Reading => at[r] <= p /\ (r <= n => p < at[r + 1]))
  BY DEF Placed, Within
<1>3. r \in Nat
  BY <1>1, <1>2
<1>4. p \in Nat /\ p + Len(sesArrived) + Len(sesComing) = L + 1
  BY DEF Follows
<1>5. Len(sesArrived) \in Nat /\ Len(sesComing) \in Nat
  BY DEF Follows
<1>6. \A i \in 1..Len(sesArrived) : sesArrived[i] = S[p + i - 1] /\ sesArrived[i] \in Nat
  BY DEF Follows
<1> QED
  BY <1>1, <1>2, <1>3, <1>4, <1>5, <1>6

LEMMA ReadHeaderKeeps ==
  ASSUME SesInv, ReadHeader
  PROVE  SesInv'
<1>1. PICK n, L, S, at, p, r : /\ Framed(sesAsked, n, L, S, at) /\ Follows(L, S, p) /\ Placed(n, at, p, r)
                                /\ Told(n, r) /\ Given(sesAsked, sesHandled, r)
  BY DEF SesInv
<1>2. /\ sesOpen /\ sesHeader = <<>> /\ Reading /\ Len(sesArrived) >= 4
      /\ sesArrived' = SubSeq(sesArrived, 4 + 1, Len(sesArrived))
      /\ UNCHANGED <<sesAsked, sesComing, sesHandled>>
  BY DEF ReadHeader, Reading, HeaderSize
<1>3. /\ n \in Nat /\ L \in Nat /\ p \in Nat /\ r \in Nat /\ r \in 1..(n + 1) /\ at[n + 1] = L + 1
      /\ Len(sesArrived) \in Nat /\ Len(sesComing) \in Nat /\ p + Len(sesArrived) + Len(sesComing) = L + 1
      /\ sesAsked \in Seq(SesRequests) /\ Len(sesAsked) = n
      /\ at[r] <= p /\ (r <= n => p < at[r + 1])
  BY <1>1, <1>2, InHand
<1>4. p + 3 <= L
  BY <1>2, <1>3
<1>5. r <= n
  BY <1>3, <1>4
<1>6. /\ sesArrived[1] = S[p] /\ sesArrived[2] = S[p + 1] /\ sesArrived[3] = S[p + 2] /\ sesArrived[4] = S[p + 3]
      /\ sesArrived[1] \in Nat /\ sesArrived[2] \in Nat /\ sesArrived[3] \in Nat /\ sesArrived[4] \in Nat
  <2>1. 1 \in 1..Len(sesArrived) /\ 2 \in 1..Len(sesArrived) /\ 3 \in 1..Len(sesArrived) /\ 4 \in 1..Len(sesArrived)
    BY <1>2, <1>3
  <2>2. p + 1 - 1 = p /\ p + 2 - 1 = p + 1 /\ p + 3 - 1 = p + 2 /\ p + 4 - 1 = p + 3
    BY <1>3
  <2>3. \A i \in 1..Len(sesArrived) : sesArrived[i] = S[p + i - 1] /\ sesArrived[i] \in Nat
    BY <1>1, InHand
  <2> QED
    BY <2>1, <2>2, <2>3
<1>7. Framed(sesAsked', n, L, S, at) /\ Follows(L, S, p + 4)' /\ Given(sesAsked', sesHandled', r)
  <2>1. 4 \in 0..Len(sesArrived)
    BY <1>2, <1>3
  <2>2. Follows(L, S, p + 4)'
    BY <2>1, <1>1, <1>2, <1>3, StreamCut
  <2>3. Framed(sesAsked', n, L, S, at) /\ Given(sesAsked', sesHandled', r)
    BY <1>1, <1>2
  <2> QED
    BY <2>2, <2>3
<1>8. Answered(sesAsked, sesReplies, r) /\ sesReplies \in Seq(ReplyRecord) /\ Len(sesReplies) \in Nat /\ Len(sesReplies) < r
  <2>1. Answered(sesAsked, sesReplies, r)
    BY <1>1, <1>2 DEF Told
  <2>2. sesReplies \in Seq(ReplyRecord) /\ Len(sesReplies) < r
    BY <2>1 DEF Answered
  <2> QED
    BY <2>1, <2>2
<1>9. ASSUME NEW type \in {ErrorProtocol, MessageTooLong}, Reply(sesArrived[1], sesArrived[2], type), Close, sesHeader' = <<>>
      PROVE  SesInv'
  <2>1. PICK e : e = [seq |-> sesArrived[1], version |-> sesArrived[2], type |-> type]
    OBVIOUS
  <2>2. e \in ReplyRecord /\ e.type \in {ErrorProtocol, MessageTooLong}
    BY <2>1, <1>6 DEF ReplyRecord, ErrorProtocol, MessageTooLong
  <2>3. sesReplies' = Append(sesReplies, e) /\ sesOpen' = FALSE /\ sesIdle' = 0
    BY <1>9, <2>1 DEF Reply, Close
  <2>4. RepliesBearTheirNumbers' /\ sesReplies' \in Seq(ReplyRecord) /\ Len(sesReplies') = Len(sesReplies) + 1
    BY <2>2, <2>3, <1>2, <1>3, <1>8, LastIsAnError
  <2>5. Told(n, r)'
    BY <2>3, <2>4, <1>3, <1>5, <1>8 DEF Told
  <2>6. Placed(n, at, p + 4, r)'
    BY <2>3, <1>9, <1>3 DEF Placed, Reading
  <2>7. sesIdle' \in 0..MaxIdleReads
    BY <2>3, SessionAssumption
  <2> QED
    BY <2>5, <2>6, <2>7, <1>7 DEF SesInv
<1>10. ASSUME VersionOk(sesArrived[2]), ~ TooLong(sesArrived[4]), sesHeader' = SubSeq(sesArrived, 1, HeaderSize),
              UNCHANGED <<sesReplies, sesOpen, sesIdle>>
       PROVE  SesInv'
  <2>1. S[p + 1] = ProtocolVersion /\ S[p + 3] <= MaxSize
    BY <1>6, <1>10, SessionAssumption DEF VersionOk, TooLong
  <2>2. p = at[r]
    BY <2>1, <1>1, <1>3, <1>4, OnlyTrueHeaders
  <2>3. S[p] = r /\ S[p + 1] = sesAsked[r].version /\ S[p + 2] = sesAsked[r].type /\ S[p + 3] = Len(sesAsked[r].body)
    <3>1. r \in 1..n
      BY <1>3, <1>5
    <3> QED
      BY <3>1, <2>2, <1>1, RequestAt
  <2>4. sesHeader' = <<sesArrived[1], sesArrived[2], sesArrived[3], sesArrived[4]>>
    <3>1. PICK x : x = sesArrived
      OBVIOUS
    <3>2. x \in Seq(Nat) /\ Len(x) >= 4 /\ Len(x) \in Nat
      BY <3>1, <1>1, <1>2, <1>3 DEF Follows
    <3>3. \A i \in 1..4 : x[i] \in Nat
      BY <3>2
    <3>4. PICK y : y = SubSeq(x, 1, 4)
      OBVIOUS
    <3>5. y \in Seq(Nat) /\ Len(y) = 4 /\ \A i \in 1..4 : y[i] = x[i]
      <4>1. 4 - 1 + 1 = 4 /\ \A i \in 1..4 : 1 + i - 1 = i
        OBVIOUS
      <4>2. y \in Seq(Nat) /\ Len(y) = (IF 1 <= 4 THEN 4 - 1 + 1 ELSE 0) /\ \A i \in 1..(4 - 1 + 1) : y[i] = x[1 + i - 1]
        BY <3>3, <3>4, SubSeqProperties
      <4> QED
        BY <4>1, <4>2
    <3>6. y = <<x[1], x[2], x[3], x[4]>>
      BY <3>5, <3>3
    <3> QED
      BY <3>1, <3>4, <3>6, <1>10 DEF HeaderSize
  <2>5. sesHeader' = <<r, sesAsked[r].version, sesAsked[r].type, Len(sesAsked[r].body)>>
    BY <2>3, <2>4, <1>6
  <2>6. Placed(n, at, p + 4, r)'
    <3>1. sesHeader' # <<>>
      BY <2>5
    <3>2. sesAsked[r].version = ProtocolVersion /\ Len(sesAsked[r].body) <= MaxSize
      BY <2>1, <2>3
    <3> QED
      BY <3>1, <3>2, <2>2, <2>5, <1>2, <1>3, <1>5, <1>10 DEF Placed, Reading
  <2>7. Told(n, r)'
    BY <1>1, <1>2, <1>10 DEF Told, RepliesBearTheirNumbers
  <2>8. sesIdle' \in 0..MaxIdleReads
    BY <1>10 DEF SesInv
  <2> QED
    BY <2>6, <2>7, <2>8, <1>7 DEF SesInv
<1> QED
  <2>1. CASE ~ VersionOk(sesArrived[2])
    BY <2>1, <1>9 DEF ReadHeader
  <2>2. CASE VersionOk(sesArrived[2]) /\ TooLong(sesArrived[4])
    BY <2>2, <1>9 DEF ReadHeader
  <2>3. CASE VersionOk(sesArrived[2]) /\ ~ TooLong(sesArrived[4])
    BY <2>3, <1>10 DEF ReadHeader
  <2> QED
    BY <2>1, <2>2, <2>3

LEMMA HeaderTimeoutKeeps ==
  ASSUME SesInv, HeaderTimeout
  PROVE  SesInv'
<1>1. PICK n, L, S, at, p, r : /\ Framed(sesAsked, n, L, S, at) /\ Follows(L, S, p) /\ Placed(n, at, p, r)
                                /\ Told(n, r) /\ Given(sesAsked, sesHandled, r)
  BY DEF SesInv
<1>2. /\ sesOpen /\ sesHeader = <<>> /\ Reading /\ sesArrived' = <<>>
      /\ UNCHANGED <<sesAsked, sesComing, sesHeader, sesHandled, sesReplies>>
  BY DEF HeaderTimeout, Reading
<1>3. /\ n \in Nat /\ L \in Nat /\ p \in Nat /\ r \in Nat /\ r \in 1..(n + 1)
      /\ Len(sesArrived) \in Nat /\ Len(sesComing) \in Nat /\ p + Len(sesArrived) + Len(sesComing) = L + 1
      /\ sesAsked \in Seq(SesRequests) /\ Len(sesAsked) = n
      /\ at[r] <= p /\ (r <= n => p < at[r + 1])
  BY <1>1, <1>2, InHand
<1>4. PICK q : q = p + Len(sesArrived)
  OBVIOUS
<1>5. q \in Nat \ {0} /\ p <= q /\ q <= L + 1 /\ q + 0 + Len(sesComing) = L + 1
  <2>1. p \in Nat \ {0}
    BY <1>1 DEF Follows
  <2> QED
    BY <2>1, <1>3, <1>4
<1>6. Follows(L, S, q)'
  <2>1. \A i \in 1..Len(sesComing) : sesComing[i] = S[q + i - 1] /\ q + 0 + i - 1 = q + i - 1
    BY <1>1, <1>4, <1>5 DEF Follows
  <2>2. sesComing \in Seq(Nat) /\ <<>> \in Seq(Nat) /\ Len(<<>>) = 0
    BY <1>1 DEF Follows
  <2> QED
    BY <2>1, <2>2, <1>2, <1>5 DEF Follows
<1>7. PICK s \in r..(n + 1) : at[s] <= q /\ (s <= n => q < at[s + 1])
  BY <1>1, <1>3, <1>5, Elsewhere
<1>8. s \in Nat /\ s \in 1..(n + 1) /\ r <= s
  BY <1>3
<1>9. Placed(n, at, q, s)'
  <2>1. sesOpen' \in BOOLEAN
    BY <1>2 DEF HeaderTimeout, Close
  <2> QED
    BY <2>1, <1>2, <1>3, <1>7, <1>8 DEF Placed, Within
<1>10. Told(n, s)' /\ Given(sesAsked', sesHandled', s)
  <2>1. Answered(sesAsked, sesReplies, r)
    BY <1>1, <1>2 DEF Told
  <2>2. Answered(sesAsked, sesReplies, s) /\ Given(sesAsked, sesHandled, s)
    <3>1. r \in 1..(Len(sesAsked) + 1)
      BY <1>3
    <3> QED
      BY <3>1, <2>1, <1>1, <1>3, <1>8, AnsweredStays, GivenStays
  <2> QED
    BY <2>2, <1>1, <1>2 DEF Told, RepliesBearTheirNumbers
<1>11. sesIdle' \in 0..MaxIdleReads
  <2>1. sesIdle \in 0..MaxIdleReads /\ MaxIdleReads \in Nat
    BY SessionAssumption DEF SesInv
  <2> QED
    BY <2>1 DEF HeaderTimeout, Close
<1> QED
  BY <1>1, <1>2, <1>6, <1>9, <1>10, <1>11 DEF SesInv

LEMMA TakenIs ==
  ASSUME NEW x \in Seq(Nat), NEW b \in Seq(Nat), NEW c, NEW len, c = Len(x), len = Len(b), len <= c,
         \A i \in 1..len : x[i] = b[i]
  PROVE  SubSeq(x, 1, len) = b
<1>1. c \in Nat /\ len \in Nat
  BY LenProperties
<1>2. PICK y : y = SubSeq(x, 1, len)
  OBVIOUS
<1>3. \A i \in 1..len : i \in 1..c /\ x[i] \in Nat
  BY <1>1
<1>4. /\ y \in Seq(Nat) /\ Len(y) = (IF 1 <= len THEN len - 1 + 1 ELSE 0)
      /\ \A i \in 1..(len - 1 + 1) : y[i] = x[1 + i - 1]
  BY <1>1, <1>2, <1>3, SubSeqProperties
<1>5. len - 1 + 1 = len /\ \A i \in 1..len : 1 + i - 1 = i
  BY <1>1
<1>6. Len(y) = len
  BY <1>1, <1>4, <1>5
<1>7. \A i \in 1..len : y[i] = b[i]
  BY <1>4, <1>5
<1>8. y = b
  BY <1>4, <1>6, <1>7, SeqEqual
<1> QED
  BY <1>2, <1>8

LEMMA ReadBodyKeeps ==
  ASSUME SesInv, ReadBody
  PROVE  SesInv'
<1>1. PICK n, L, S, at, p, r : /\ Framed(sesAsked, n, L, S, at) /\ Follows(L, S, p) /\ Placed(n, at, p, r)
                                /\ Told(n, r) /\ Given(sesAsked, sesHandled, r)
  BY DEF SesInv
<1>2. PICK b, len : b = sesAsked[r].body /\ len = Len(b)
  OBVIOUS
<1>3. /\ sesOpen /\ sesHeader # <<>> /\ sesHeader' = <<>> /\ sesIdle' = 0
      /\ UNCHANGED <<sesAsked, sesComing, sesOpen>>
  BY DEF ReadBody, Awaiting
<1>4. /\ n \in Nat /\ L \in Nat /\ p \in Nat /\ r \in Nat /\ r \in 1..(n + 1) /\ at[n + 1] = L + 1
      /\ Len(sesArrived) \in Nat
      /\ sesAsked \in Seq(SesRequests) /\ Len(sesAsked) = n
  BY <1>1, InHand
<1>5. /\ r <= n /\ p = at[r] + 4
      /\ sesHeader = <<r, sesAsked[r].version, sesAsked[r].type, len>>
  BY <1>1, <1>2, <1>3 DEF Placed
<1>6. sesHeader[1] = r /\ sesHeader[2] = sesAsked[r].version /\ sesHeader[3] = sesAsked[r].type /\ sesHeader[4] = len
  BY <1>5
<1>7. r \in 1..n
  BY <1>4, <1>5
<1>8. /\ sesAsked[r].type \in Nat /\ sesAsked[r].version \in Nat
      /\ b \in Seq(TextWords) /\ len \in Nat /\ at[r] \in Nat \ {0}
      /\ at[r + 1] = at[r] + 4 + len
      /\ \A o \in 1..len : S[at[r] + 3 + o] = b[o]
  BY <1>1, <1>2, <1>7, RequestAt
<1>9. /\ len <= Len(sesArrived)
      /\ sesArrived' = SubSeq(sesArrived, len + 1, Len(sesArrived))
      /\ sesHandled' = IF sesAsked[r].type \in SesHandlers
                        THEN Append(sesHandled, [seq |-> r, type |-> sesAsked[r].type, body |-> SubSeq(sesArrived, 1, len)])
                        ELSE sesHandled
      /\ \E outcome \in Outcomes(sesAsked[r].type) : Reply(r, sesAsked[r].version, outcome)
  <2>1. sesHeader[4] <= Len(sesArrived)
    BY <1>4, <1>6, <1>8 DEF ReadBody
  <2> QED
    BY <2>1, <1>6 DEF ReadBody
<1>10. SubSeq(sesArrived, 1, len) = b
  <2>1. sesArrived \in Seq(Nat)
    BY <1>1 DEF Follows
  <2>2. b \in Seq(Nat)
    <3>1. TextWords \subseteq Nat
      BY DEF TextWords
    <3> QED
      BY <3>1, <1>8, SeqMonotonic
  <2>3. \A i \in 1..len : sesArrived[i] = b[i]
    <3> TAKE i \in 1..len
    <3>1. i \in 1..Len(sesArrived) /\ p + i - 1 = at[r] + 3 + i
      <4>1. PICK a, c : a = at[r] /\ c = Len(sesArrived)
        OBVIOUS
      <4>2. a \in Nat /\ c \in Nat /\ len \in Nat /\ len <= c /\ p = a + 4
        BY <4>1, <1>4, <1>5, <1>8, <1>9
      <4>3. i \in 1..c /\ p + i - 1 = a + 3 + i
        BY <4>2
      <4> QED
        BY <4>1, <4>3
    <3>2. sesArrived[i] = S[p + i - 1]
      <4>1. \A j \in 1..Len(sesArrived) : sesArrived[j] = S[p + j - 1] /\ sesArrived[j] \in Nat
        BY <1>1, InHand
      <4> QED
        BY <3>1, <4>1
    <3> QED
      BY <3>1, <3>2, <1>8
  <2> QED
    BY <2>1, <2>2, <2>3, <1>2, <1>9, TakenIs
<1>11. Follows(L, S, p + len)'
  <2>1. len \in 0..Len(sesArrived)
    BY <1>4, <1>8, <1>9
  <2> QED
    BY <2>1, <1>1, <1>3, <1>4, <1>9, StreamCut
<1>12. p + len = at[r + 1] /\ r + 1 \in 1..(n + 1) /\ r + 1 \in Nat
  <2>1. PICK a, c : a = at[r] /\ c = at[r + 1]
    OBVIOUS
  <2>2. a \in Nat /\ len \in Nat /\ p = a + 4 /\ c = a + 4 + len
    BY <2>1, <1>5, <1>8
  <2>3. p + len = c
    BY <2>2
  <2>4. r + 1 \in 1..(n + 1) /\ r + 1 \in Nat
    BY <1>4, <1>5
  <2> QED
    BY <2>1, <2>3, <2>4
<1>13. Placed(n, at, p + len, r + 1)'
  <2>1. r + 1 <= n => at[r + 1] < at[r + 1 + 1]
    <3>1. SUFFICES ASSUME r + 1 <= n PROVE at[r + 1] < at[r + 1 + 1]
      OBVIOUS
    <3>2. r + 1 + 1 \in 1..(n + 1) /\ r + 1 < r + 1 + 1
      BY <3>1, <1>4
    <3>3. \A i, j \in 1..(n + 1) : i < j => at[i] < at[j]
      BY <1>1 DEF Framed
    <3> QED
      BY <3>2, <3>3, <1>12
  <2>2. Within(n, at, p + len, r + 1)
    <3>1. at[r + 1] <= at[r + 1]
      BY <1>8, <1>12
    <3> QED
      BY <3>1, <2>1, <1>12 DEF Within
  <2>3. Within(n, at, p + len, r + 1)'
    BY <2>2 DEF Within
  <2> QED
    BY <2>3, <1>3, <1>12 DEF Placed
<1>14. Given(sesAsked', sesHandled', r + 1)
  <2>1. CASE sesAsked[r].type \in SesHandlers
    <3>1. PICK e : e = [seq |-> r, type |-> sesAsked[r].type, body |-> b]
      OBVIOUS
    <3>2. e \in HandledRecord /\ e.seq = r /\ e.type = sesAsked[r].type /\ e.body = sesAsked[r].body
      <4>1. b \in Seq(Nat)
        <5>1. TextWords \subseteq Nat
          BY DEF TextWords
        <5> QED
          BY <5>1, <1>8, SeqMonotonic
      <4> QED
        BY <3>1, <4>1, <1>2, <1>4, <1>8 DEF HandledRecord
    <3>3. sesHandled' = Append(sesHandled, e)
      BY <2>1, <3>1, <1>9, <1>10
    <3>4. r \in Nat \ {0}
      BY <1>4
    <3> QED
      BY <3>2, <3>3, <3>4, <1>1, <1>3, GivenNext
  <2>2. CASE ~ (sesAsked[r].type \in SesHandlers)
    <3>1. sesHandled' = sesHandled
      BY <2>2, <1>9
    <3>2. r \in 1..(Len(sesAsked) + 1) /\ r <= r + 1
      BY <1>4
    <3> QED
      BY <3>1, <3>2, <1>1, <1>3, <1>4, <1>12, GivenStays
  <2> QED
    BY <2>1, <2>2
<1>15. Answered(sesAsked', sesReplies', r + 1)
  <2>1. PICK outcome \in Outcomes(sesAsked[r].type) : Reply(r, sesAsked[r].version, outcome)
    BY <1>9
  <2>2. outcome \in Nat
    BY <2>1, <1>8 DEF Outcomes, ErrorProtocol, HandlerPanic
  <2>3. PICK e : e = [seq |-> r, version |-> sesAsked[r].version, type |-> outcome]
    OBVIOUS
  <2>4. e \in ReplyRecord /\ e.seq = r /\ e.version = sesAsked[r].version /\ e.type \in Outcomes(sesAsked[r].type)
    BY <2>1, <2>2, <2>3, <1>4, <1>8 DEF ReplyRecord
  <2>5. sesReplies' = Append(sesReplies, e)
    BY <2>1, <2>3 DEF Reply
  <2>6. Answered(sesAsked, sesReplies, r) /\ r \in Nat \ {0}
    BY <1>1, <1>3, <1>4 DEF Told
  <2> QED
    BY <2>4, <2>5, <2>6, <1>3, AnsweredNext
<1>16. Told(n, r + 1)'
  <2>1. sesAsked' \in Seq(SesRequests) /\ r + 1 \in 1..(Len(sesAsked') + 1)
    BY <1>3, <1>4, <1>12
  <2>2. RepliesBearTheirNumbers'
    BY <2>1, <1>15, StillBears
  <2>3. sesReplies' \in Seq(ReplyRecord) /\ Len(sesReplies') < r + 1
    BY <1>15 DEF Answered
  <2>4. Len(sesReplies') <= n
    <3>1. Len(sesReplies') \in Nat
      BY <2>3
    <3> QED
      BY <3>1, <2>3, <1>4, <1>5
  <2> QED
    BY <2>2, <2>3, <2>4, <1>15 DEF Told
<1> QED
  BY <1>1, <1>3, <1>11, <1>13, <1>14, <1>16, SessionAssumption DEF SesInv

\* A read that gives up, or a client that has gone, where the connection then ends.
LEMMA EndsKeep ==
  ASSUME SesInv, sesOpen, ~ sesOpen', sesIdle' = 0, sesHeader' = <<>>, UNCHANGED <<sesAsked, sesHandled>>,
         \/ sesArrived' = <<>> /\ sesComing' = sesComing
         \/ UNCHANGED <<sesArrived, sesComing>>,
         sesOpen' \in BOOLEAN,
         \/ sesReplies' = sesReplies
         \/ sesHeader # <<>> /\ Reply(sesHeader[1], sesHeader[2], ErrorProtocol)
  PROVE  SesInv'
<1>1. PICK n, L, S, at, p, r : /\ Framed(sesAsked, n, L, S, at) /\ Follows(L, S, p) /\ Placed(n, at, p, r)
                                /\ Told(n, r) /\ Given(sesAsked, sesHandled, r)
  BY DEF SesInv
<1>2. /\ n \in Nat /\ L \in Nat /\ p \in Nat /\ r \in Nat /\ r \in 1..(n + 1)
      /\ Len(sesArrived) \in Nat /\ Len(sesComing) \in Nat /\ p + Len(sesArrived) + Len(sesComing) = L + 1
      /\ sesAsked \in Seq(SesRequests) /\ Len(sesAsked) = n
  BY <1>1, InHand
<1>3. \E q : Follows(L, S, q)'
  <2>1. CASE UNCHANGED <<sesArrived, sesComing>>
    BY <2>1, <1>1 DEF Follows
  <2>2. CASE sesArrived' = <<>> /\ sesComing' = sesComing
    <3>1. PICK q : q = p + Len(sesArrived)
      OBVIOUS
    <3>2. q \in Nat \ {0} /\ q + 0 + Len(sesComing) = L + 1
      <4>1. p \in Nat \ {0}
        BY <1>1 DEF Follows
      <4> QED
        BY <3>1, <4>1, <1>2
    <3>3. \A i \in 1..Len(sesComing) : sesComing[i] = S[q + i - 1] /\ q + 0 + i - 1 = q + i - 1
      BY <1>1, <3>1, <3>2 DEF Follows
    <3>4. sesComing \in Seq(Nat) /\ <<>> \in Seq(Nat) /\ Len(<<>>) = 0
      BY <1>1 DEF Follows
    <3>5. Follows(L, S, q)'
      BY <2>2, <3>2, <3>3, <3>4 DEF Follows
    <3> QED
      BY <3>5
  <2> QED
    BY <2>1, <2>2
<1>4. PICK q : Follows(L, S, q)'
  BY <1>3
<1>5. Placed(n, at, q, r)'
  BY <1>2 DEF Placed, Reading
<1>6. Answered(sesAsked, sesReplies, r)
  BY <1>1 DEF Told
<1>7. Told(n, r)'
  <2>1. CASE sesReplies' = sesReplies
    <3>1. RepliesBearTheirNumbers'
      BY <2>1, <1>2, <1>6, StillBears
    <3> QED
      BY <2>1, <3>1, <1>1 DEF Told
  <2>2. CASE sesHeader # <<>> /\ Reply(sesHeader[1], sesHeader[2], ErrorProtocol)
    <3>1. r <= n /\ sesHeader[1] = r /\ sesHeader[2] = sesAsked[r].version
      BY <2>2, <1>1 DEF Placed
    <3>2. sesAsked[r].version \in Nat
      <4>1. r \in 1..n
        BY <3>1, <1>2
      <4> QED
        BY <4>1, <1>1, RequestAt
    <3>3. PICK e : e = [seq |-> r, version |-> sesAsked[r].version, type |-> ErrorProtocol]
      OBVIOUS
    <3>4. e \in ReplyRecord /\ e.type \in {ErrorProtocol, MessageTooLong}
      BY <3>2, <3>3, <1>2 DEF ReplyRecord, ErrorProtocol
    <3>5. sesReplies' = Append(sesReplies, e)
      BY <2>2, <3>1, <3>3 DEF Reply
    <3>6. r \in 1..(Len(sesAsked) + 1) /\ sesAsked' = sesAsked
      BY <1>2
    <3>7. RepliesBearTheirNumbers' /\ sesReplies' \in Seq(ReplyRecord) /\ Len(sesReplies') = Len(sesReplies) + 1
      BY <3>4, <3>5, <3>6, <1>2, <1>6, LastIsAnError
    <3>8. Len(sesReplies) < r /\ Len(sesReplies) \in Nat
      <4>1. sesReplies \in Seq(ReplyRecord) /\ Len(sesReplies) < r
        BY <1>6 DEF Answered
      <4> QED
        BY <4>1
    <3>9. Len(sesReplies') <= n
      BY <3>1, <3>7, <3>8, <1>2
    <3> QED
      BY <3>7, <3>9 DEF Told
  <2> QED
    BY <2>1, <2>2
<1>8. sesIdle' \in 0..MaxIdleReads
  BY SessionAssumption
<1> QED
  BY <1>1, <1>4, <1>5, <1>7, <1>8 DEF SesInv

LEMMA SessionSteps == SesInv /\ [SessionNext]_sesVars => SesInv'
<1> SUFFICES ASSUME SesInv, [SessionNext]_sesVars PROVE SesInv'
  OBVIOUS
<1>1. CASE \E x \in SesRequests : sesOpen /\ ClientSends(x)
  BY <1>1, ClientSendsKeeps
<1>2. CASE \E k \in 1..HeaderSize : sesOpen /\ WordsArrive(k)
  BY <1>2, WordsArriveKeeps
<1>3. CASE ReadHeader
  BY <1>3, ReadHeaderKeeps
<1>4. CASE HeaderTimeout
  BY <1>4, HeaderTimeoutKeeps
<1>5. CASE ReadBody
  BY <1>5, ReadBodyKeeps
<1>6. CASE BodyTimeout
  BY <1>6, EndsKeep DEF BodyTimeout, Awaiting, Close
<1>7. CASE SeesShutdown
  BY <1>7, EndsKeep DEF SeesShutdown, Reading, Close
<1>8. CASE ConnectionClosed
  BY <1>8, EndsKeep DEF ConnectionClosed, Awaiting, Close
<1>9. CASE UNCHANGED sesVars
  <2>1. PICK n, L, S, at, p, r : /\ Framed(sesAsked, n, L, S, at) /\ Follows(L, S, p) /\ Placed(n, at, p, r)
                                  /\ Told(n, r) /\ Given(sesAsked, sesHandled, r)
    BY DEF SesInv
  <2>2. UNCHANGED <<sesAsked, sesComing, sesArrived, sesHeader, sesIdle, sesOpen, sesHandled, sesReplies>>
    BY <1>9 DEF sesVars
  <2>3. Follows(L, S, p)'
    BY <2>1, <2>2 DEF Follows
  <2>4. Placed(n, at, p, r)'
    BY <2>1, <2>2 DEF Placed, Reading, Within
  <2>5. Told(n, r)'
    BY <2>1, <2>2 DEF Told, RepliesBearTheirNumbers
  <2>6. sesIdle' \in 0..MaxIdleReads
    BY <2>2 DEF SesInv
  <2> QED
    BY <2>1, <2>2, <2>3, <2>4, <2>5, <2>6 DEF SesInv
<1> QED
  BY <1>1, <1>2, <1>3, <1>4, <1>5, <1>6, <1>7, <1>8, <1>9 DEF SessionNext

\* However the words of a session are cut up, delayed and lost, the requests that reach a handler
\* are those that were sent, and each reply bears the number of its request (connection.rs).
THEOREM SessionStaysPaired == SessionSpec => []SessionKeepsPairs
<1>1. SessionInit => SesInv
  BY SessionStarts
<1>2. SesInv /\ [SessionNext]_sesVars => SesInv'
  BY SessionSteps
<1>3. SesInv => SessionKeepsPairs
  BY SessionFollows
<1> QED
  BY <1>1, <1>2, <1>3, PTL DEF SessionSpec

================================================================================
