--------------------------- MODULE ProxyServerProofs ---------------------------
(***************************************************************************)
(* Proofs about ProxyServer for any number of connections, requests and    *)
(* permits, and any configurations and targets.                            *)
(***************************************************************************)
EXTENDS ProxyServer, FiniteSetTheorems, TLAPS

\* The connection the loop holds has no task yet.
InHand == acceptor # NoConn => acceptor \in Conns /\ conn[acceptor].at = "accepted"

\* A request that is handled belongs to a connection hyper serves.
InFlight ==
  \A r \in Reqs : IF req[r].at = "idle" THEN req[r].on = NoConn
                  ELSE req[r].on \in Conns /\ conn[req[r].on].at = "serving"

\* Requests share a connection on HTTP/2 only.
Exclusive ==
  \A r, q \in Reqs : r # q /\ req[r].on = req[q].on /\ req[r].on # NoConn
                       => conn[req[r].on].h2

\* The answer comes at the end of the handling. Until then a request has no tunnel and no entry,
\* and the target has it exactly when the handler waits for what comes back.
OutcomeOf(r) ==
  /\ req[r].at \in Handling => reply[r] = None
  /\ req[r].at \in {"relay", "handover"} => reply[r] = "passed"
  /\ req[r].at = "handover" => tunnel[r] = "pending"
  /\ reply[r] = None => /\ tunnel[r] = None /\ entry[r] = None
                        /\ sent[r] <=> req[r].at \in {"await", "head"}
  /\ reply[r] = "passed" => entry[r] = "allow"
  /\ entry[r] = "allow" => reply[r] = "passed" \/ (reply[r] = "502" /\ sent[r])
  /\ reply[r] = "403" => ~sent[r] /\ tunnel[r] = None

\* The configuration was in force, and the connection has the binary for it.
Holds(r, config) ==
  /\ config \in inForce[r] \ {NoConfig}
  /\ config \in BinaryConfigs => conn[req[r].on].bin

\* What is known of a request at each place on the way to the target.
DecidedAt(r, at, config) ==
  /\ at \in {"arrived", "lookup"} => ConfigOf(conn[req[r].on].id) \in inForce[r]
  /\ at \in {"collect", "route"} => ByInference(r)
  /\ at \in {"resolve", "evaluate"} => Holds(r, config)
  /\ at \in {"dial", "send", "write", "await", "head"}
       => ByInference(r) \/ (Holds(r, config) /\ <<config, req[r].target>> \notin Denied)

Decided(r) == DecidedAt(r, req[r].at, req[r].config)

Outcomes == \A r \in Reqs : OutcomeOf(r)
Decisions == \A r \in Reqs : Decided(r)

IInv == TypeOK /\ PermitAccounting /\ InHand /\ InFlight /\ Exclusive /\ Outcomes /\ Decisions

----------------------------------------------------------------------------
(* The connections that hold a permit, as a finite set.                    *)

Holders == {c \in Conns : conn[c].at \in Served}

LEMMA HoldersFinite ==
  /\ IsFiniteSet(Holders)
  /\ Cardinality(Holders) \in Nat
<1>1. IsFiniteSet(Conns)
  BY BoundsAssumption, FS_Interval DEF Conns
<1> QED
  BY <1>1, FS_Subset, FS_CardinalityType DEF Holders

\* A task that begins takes a permit.
LEMMA JoinAccount ==
  ASSUME TypeOK, PermitAccounting, NEW c \in Conns, c \notin Holders,
         Holders' = Holders \cup {c}, permits > 0, permits' = permits - 1
  PROVE  permits' \in 0 .. Permits /\ PermitAccounting'
<1>1. Cardinality(Holders \cup {c}) = Cardinality(Holders) + 1
  BY HoldersFinite, FS_AddElement
<1>2. permits + Cardinality(Holders) = Permits /\ permits \in Nat
  BY DEF PermitAccounting, TypeOK, Holders
<1>3. permits' + Cardinality(Holders') = Permits /\ permits' \in 0 .. Permits
  BY <1>1, <1>2, HoldersFinite, PermitsAssumption
<1> QED
  BY <1>3 DEF PermitAccounting, Holders

\* A task that returns gives its permit back.
LEMMA LeaveAccount ==
  ASSUME TypeOK, PermitAccounting, NEW c \in Conns, c \in Holders,
         Holders' = Holders \ {c}, permits' = permits + 1
  PROVE  permits' \in 0 .. Permits /\ PermitAccounting'
<1>1. Cardinality(Holders \ {c}) = Cardinality(Holders) - 1
  BY HoldersFinite, FS_RemoveElement
<1>2. Cardinality(Holders \ {c}) \in Nat
  BY HoldersFinite, FS_RemoveElement, FS_CardinalityType
<1>3. permits + Cardinality(Holders) = Permits /\ permits \in Nat
  BY DEF PermitAccounting, TypeOK, Holders
<1>4. permits' + Cardinality(Holders') = Permits /\ permits' \in 0 .. Permits
  BY <1>1, <1>2, <1>3, HoldersFinite, PermitsAssumption
<1> QED
  BY <1>4 DEF PermitAccounting, Holders

LEMMA SameAccount ==
  ASSUME PermitAccounting, Holders' = Holders, permits' = permits
  PROVE  PermitAccounting'
BY DEF PermitAccounting, Holders

----------------------------------------------------------------------------
(* What a step leaves alone.                                               *)

LEMMA NewTyped == NewConn \in ConnType /\ NoReq \in ReqType
BY DEF NewConn, NoReq, ConnType, ReqType, ConnStates, Kinds, MaybeConfig

LEMMA ClosedTyped ==
  [NewConn EXCEPT !.at = "closed"] \in ConnType /\ [NewConn EXCEPT !.at = "closed"].at = "closed"
BY DEF NewConn, ConnType, ConnStates

\* A connection moves.
LEMMA MoveFacts ==
  ASSUME conn \in [Conns -> ConnType], NEW c \in Conns, NEW from, NEW to \in ConnStates,
         Move(c, from, to)
  PROVE  /\ conn' \in [Conns -> ConnType]
         /\ conn[c].at = from /\ conn'[c].at = to
         /\ \A d \in Conns \ {c} : conn'[d] = conn[d]
<1>1. [conn[c] EXCEPT !.at = to] \in ConnType /\ [conn[c] EXCEPT !.at = to].at = to
  BY DEF ConnType
<1>2. conn' = [conn EXCEPT ![c] = [conn[c] EXCEPT !.at = to]]
  BY DEF Move
<1> QED
  BY <1>1, <1>2 DEF Move

\* Requests go away or stay with their connection, which hyper still serves.
LEMMA StayOn ==
  ASSUME InFlight, Exclusive,
         \A q \in Reqs : \/ req'[q].at = "idle" /\ req'[q].on = NoConn
                         \/ /\ req[q].at # "idle" /\ req'[q].at # "idle"
                            /\ req'[q].on = req[q].on
                            /\ conn'[req[q].on].at = "serving"
                            /\ conn'[req[q].on].h2 = conn[req[q].on].h2
  PROVE  InFlight' /\ Exclusive'
<1>1. InFlight'
  BY DEF InFlight
<1>2. Exclusive'
  BY DEF InFlight, Exclusive, Conns, NoConn
<1> QED
  BY <1>1, <1>2

LEMMA OutcomeKept ==
  ASSUME NEW q \in Reqs, OutcomeOf(q), req'[q].at = req[q].at,
         sent'[q] = sent[q], entry'[q] = entry[q], reply'[q] = reply[q], tunnel'[q] = tunnel[q]
  PROVE  OutcomeOf(q)'
BY DEF OutcomeOf

LEMMA DecidedKept ==
  ASSUME NEW q \in Reqs, InFlight, Decided(q), req'[q] = req[q], inForce'[q] = inForce[q],
         configs' = configs,
         \A c \in Conns : conn[c].at = "serving" => conn'[c].id = conn[c].id
                                                    /\ conn'[c].bin = conn[c].bin
  PROVE  Decided(q)'
<1>1. CASE req[q].at = "idle"
  BY <1>1 DEF Decided, DecidedAt
<1>2. CASE req[q].at # "idle"
  <2>1. conn'[req[q].on].id = conn[req[q].on].id /\ conn'[req[q].on].bin = conn[req[q].on].bin
    BY <1>2 DEF InFlight
  <2>2. ConfigOf(conn[req[q].on].id)' = ConfigOf(conn[req[q].on].id)
    BY <2>1 DEF ConfigOf
  <2> QED
    BY <2>1, <2>2 DEF Decided, DecidedAt, Holds, ByInference
<1> QED
  BY <1>1, <1>2

\* A request that is over, or has not come, is decided.
LEMMA IdleDecided ==
  ASSUME NEW q \in Reqs, req'[q].at \in {"idle", "relay", "handover"}
  PROVE  Decided(q)'
BY DEF Decided, DecidedAt

----------------------------------------------------------------------------
(* Connections.                                                            *)

LEMMA InitInv == Init => IInv
<1> SUFFICES ASSUME Init PROVE IInv
  OBVIOUS
<1>1. Holders = {}
  BY DEF Init, Holders, NewConn, Served
<1>2. PermitAccounting
  <2>1. Cardinality(Holders) = 0
    BY <1>1, FS_EmptySet
  <2> QED
    BY <2>1, PermitsAssumption DEF Init, PermitAccounting, Holders
<1>3. TypeOK
  BY PermitsAssumption, SubsetsAssumption, NewTyped
     DEF Init, TypeOK, MaybeConfig
<1>4. InHand /\ InFlight /\ Exclusive
  BY DEF Init, InHand, InFlight, Exclusive, NoReq
<1>5. Outcomes /\ Decisions
  BY DEF Init, Outcomes, OutcomeOf, Decisions, Decided, DecidedAt, NoReq, Handling, None
<1> QED
  BY <1>2, <1>3, <1>4, <1>5 DEF IInv

\* The steps of a connection hyper does not serve yet.
LEMMA OpeningSteps ==
  ASSUME IInv, NEW c \in Conns,
         Connect(c) \/ Accept(c) \/ AcceptFails(c) \/ TakePermit(c) \/ SniffHttp(c)
           \/ SniffTls(c) \/ HandshakeOk(c)
  PROVE  IInv'
<1> USE DEF IInv
<1>0. c # NoConn /\ conn \in [Conns -> ConnType] /\ conn[c] \in ConnType
  BY DEF Conns, NoConn, TypeOK
<1>1. UNCHANGED <<req, inForce, configs, cas, sinkUp, updates, sent, entry, reply, tunnel>>
  BY DEF Connect, Accept, AcceptFails, TakePermit, SniffHttp, SniffTls, HandshakeOk, world, outcome
<1>2. /\ conn' \in [Conns -> ConnType]
      /\ \A d \in Conns \ {c} : conn'[d] = conn[d]
      /\ \/ TakePermit(c) /\ conn[c].at = "accepted" /\ conn'[c].at = "sniff"
         \/ /\ UNCHANGED <<permits, acceptor>>
            /\ \/ conn[c].at \in {"out", "backlog"} /\ conn'[c].at \in {"backlog", "closed"}
               \/ conn[c].at \in {"sniff", "handshake"} /\ conn'[c].at \in {"serving", "handshake"}
         \/ Accept(c) /\ permits' = permits /\ conn[c].at = "backlog" /\ conn'[c].at = "accepted"
  <2>1. CASE TakePermit(c)
    <3>1. conn[c].at = "accepted"
      BY <1>0, <2>1 DEF TakePermit, InHand
    <3>2. PICK id \in Containers \cup {Unresolved}, bin \in BOOLEAN :
            conn' = [conn EXCEPT ![c] = [conn[c] EXCEPT !.at = "sniff", !.id = id, !.bin = bin]]
      BY <2>1 DEF TakePermit
    <3>3. [conn[c] EXCEPT !.at = "sniff", !.id = id, !.bin = bin] \in ConnType
      BY <1>0 DEF ConnType, ConnStates, Served
    <3>4. [conn[c] EXCEPT !.at = "sniff", !.id = id, !.bin = bin].at = "sniff"
      BY <1>0 DEF ConnType
    <3> QED
      BY <1>0, <2>1, <3>1, <3>2, <3>3, <3>4
  <2>2. CASE HandshakeOk(c)
    <3>1. PICK h2 \in BOOLEAN :
            conn' = [conn EXCEPT ![c] = [conn[c] EXCEPT !.at = "serving", !.tls = TRUE, !.h2 = h2]]
      BY <2>2 DEF HandshakeOk
    <3>2. [conn[c] EXCEPT !.at = "serving", !.tls = TRUE, !.h2 = h2] \in ConnType
      BY <1>0 DEF ConnType, ConnStates, Served
    <3>3. [conn[c] EXCEPT !.at = "serving", !.tls = TRUE, !.h2 = h2].at = "serving"
      BY <1>0 DEF ConnType
    <3> QED
      BY <1>0, <2>2, <3>1, <3>2, <3>3 DEF HandshakeOk
  <2>3. CASE Connect(c) \/ AcceptFails(c)
    <3>1. \E from \in {"out", "backlog"}, to \in {"backlog", "closed"} : Move(c, from, to)
      BY <2>3 DEF Connect, AcceptFails
    <3>2. UNCHANGED <<permits, acceptor>>
      BY <2>3 DEF Connect, AcceptFails
    <3> QED
      BY <1>0, <3>1, <3>2, MoveFacts DEF ConnStates
  <2>4. CASE SniffHttp(c) \/ SniffTls(c)
    <3>1. \E to \in {"serving", "handshake"} : Move(c, "sniff", to)
      BY <2>4 DEF SniffHttp, SniffTls
    <3>2. UNCHANGED <<permits, acceptor>>
      BY <2>4 DEF SniffHttp, SniffTls
    <3> QED
      BY <1>0, <3>1, <3>2, MoveFacts DEF ConnStates, Served
  <2>5. CASE Accept(c)
    <3>1. Move(c, "backlog", "accepted") /\ permits' = permits
      BY <2>5 DEF Accept
    <3> QED
      BY <1>0, <2>5, <3>1, MoveFacts DEF ConnStates
  <2> QED
    BY <2>1, <2>2, <2>3, <2>4, <2>5
<1>3. acceptor' \in Conns \cup {NoConn} /\ InHand'
  <2>0. CASE TakePermit(c)
    BY <2>0 DEF TakePermit, InHand
  <2>1. CASE Accept(c)
    <3>1. Move(c, "backlog", "accepted") /\ acceptor' = c
      BY <2>1 DEF Accept
    <3> QED
      BY <1>0, <3>1, MoveFacts DEF ConnStates, InHand
  <2>2. CASE acceptor' = acceptor /\ ~TakePermit(c)
    BY <1>2, <2>2 DEF InHand, TypeOK
  <2> QED
    BY <1>2, <2>0, <2>1, <2>2
<1>4. permits' \in 0 .. Permits /\ PermitAccounting'
  <2>1. CASE TakePermit(c)
    <3>0. conn[c].at = "accepted" /\ conn'[c].at = "sniff"
      BY <1>0, <1>2, <2>1 DEF TakePermit, Accept
    <3>1. c \notin Holders /\ Holders' = Holders \cup {c}
      BY <1>2, <3>0 DEF Holders, Served
    <3>2. permits > 0 /\ permits' = permits - 1
      BY <2>1 DEF TakePermit
    <3> QED
      BY <3>1, <3>2, JoinAccount
  <2>2. CASE ~TakePermit(c)
    <3>1. permits' = permits /\ Holders' = Holders
      BY <1>2, <2>2 DEF Holders, Served
    <3> QED
      BY <3>1, SameAccount DEF TypeOK
  <2> QED
    BY <2>1, <2>2
<1>5. conn[c].at # "serving"
  BY <1>2
<1>6. TypeOK'
  BY <1>1, <1>2, <1>3, <1>4 DEF TypeOK
<1>7. InFlight' /\ Exclusive'
  <2>1. \A q \in Reqs : req[q].at # "idle" => conn'[req[q].on] = conn[req[q].on]
    BY <1>2, <1>5 DEF InFlight
  <2>2. InFlight'
    BY <1>1, <2>1 DEF InFlight
  <2>3. Exclusive'
    BY <1>1, <2>1 DEF InFlight, Exclusive
  <2> QED
    BY <2>2, <2>3
<1>8. Outcomes'
  BY <1>1, OutcomeKept DEF Outcomes
<1>9. Decisions'
  BY <1>1, <1>2, <1>5, DecidedKept DEF Decisions
<1> QED
  BY <1>3, <1>4, <1>6, <1>7, <1>8, <1>9

\* The task returns.
LEMMA EndSteps ==
  ASSUME IInv, NEW c \in Conns, SniffRejected(c) \/ HandshakeFails(c) \/ Leave(c) \/ Close(c)
  PROVE  IInv'
<1> USE DEF IInv
<1>1. End(c) /\ conn[c].at \in Served
  BY DEF SniffRejected, HandshakeFails, Leave, Close, Served
<1>2. permits' \in 0 .. Permits /\ PermitAccounting'
  <2>1. c \in Holders /\ Holders' = Holders \ {c} /\ permits' = permits + 1
    BY <1>1, ClosedTyped DEF End, Holders, Served, TypeOK
  <2> QED
    BY <2>1, LeaveAccount
<1>3. conn' \in [Conns -> ConnType]
  BY <1>1, NewTyped, ClosedTyped DEF End, TypeOK
<1>4. \A q \in Reqs : IF req[q].on = c
                      THEN /\ req'[q] = NoReq /\ inForce'[q] = {}
                           /\ reply'[q] = (IF reply[q] = None THEN "cancelled" ELSE reply[q])
                           /\ tunnel'[q] = (IF tunnel[q] = "pending" THEN None ELSE tunnel[q])
                      ELSE /\ req'[q] = req[q] /\ inForce'[q] = inForce[q]
                           /\ reply'[q] = reply[q] /\ tunnel'[q] = tunnel[q]
  BY <1>1 DEF End, On
<1>5. UNCHANGED <<acceptor, sent, entry, configs, cas, sinkUp, updates>>
  BY <1>1 DEF End, world
<1>6. TypeOK'
  <2>1. req' \in [Reqs -> ReqType]
    BY <1>1, NewTyped DEF End, On, TypeOK
  <2>2. reply' \in [Reqs -> {None, "passed", "cancelled"} \cup Blocked]
    BY <1>1 DEF End, On, TypeOK
  <2>3. tunnel' \in [Reqs -> {None, "pending", "open"}] /\ inForce' \in [Reqs -> SUBSET MaybeConfig]
    BY <1>1 DEF End, On, TypeOK
  <2> QED
    BY <1>2, <1>3, <1>5, <2>1, <2>2, <2>3 DEF TypeOK
<1>7. \A d \in Conns \ {c} : conn'[d] = conn[d]
  BY <1>1 DEF End, TypeOK
<1>8. InHand'
  BY <1>1, <1>5, <1>7 DEF InHand, Served
<1>9. InFlight' /\ Exclusive'
  <2>1. \A q \in Reqs : \/ req'[q].at = "idle" /\ req'[q].on = NoConn
                        \/ /\ req[q].at # "idle" /\ req'[q].at # "idle"
                           /\ req'[q].on = req[q].on
                           /\ conn'[req[q].on].at = "serving"
                           /\ conn'[req[q].on].h2 = conn[req[q].on].h2
    BY <1>4, <1>7 DEF InFlight, NoReq
  <2> QED
    BY <2>1, StayOn
<1>10. Outcomes'
  <2> SUFFICES ASSUME NEW q \in Reqs PROVE OutcomeOf(q)'
    BY DEF Outcomes
  <2>1. CASE req[q].on = c
    BY <1>4, <1>5, <2>1 DEF Outcomes, OutcomeOf, NoReq, Handling, None
  <2>2. CASE req[q].on # c
    BY <1>4, <1>5, <2>2, OutcomeKept DEF Outcomes
  <2> QED
    BY <2>1, <2>2
<1>11. Decisions'
  <2> SUFFICES ASSUME NEW q \in Reqs PROVE Decided(q)'
    BY DEF Decisions
  <2>1. CASE req[q].on = c
    BY <1>4, <2>1, IdleDecided DEF NoReq
  <2>2. CASE req[q].on # c
    <3>1. CASE req[q].at = "idle"
      BY <1>4, <2>2, <3>1, IdleDecided
    <3>2. CASE req[q].at # "idle"
      <4>1. conn'[req[q].on] = conn[req[q].on]
        BY <1>7, <2>2, <3>2 DEF InFlight
      <4> QED
        BY <1>4, <1>5, <2>2, <4>1 DEF Decisions, Decided, DecidedAt, Holds, ByInference, ConfigOf
    <3> QED
      BY <3>1, <3>2
  <2> QED
    BY <2>1, <2>2
<1> QED
  BY <1>2, <1>6, <1>8, <1>9, <1>10, <1>11

----------------------------------------------------------------------------
(* Requests.                                                               *)

\* Assignments to a request whose connection stays.
LEMMA StepFacts ==
  ASSUME req \in [Reqs -> ReqType], NEW r \in Reqs,
         NEW at \in Handling \cup {"idle", "relay", "handover"}, NEW config \in MaybeConfig,
         \/ req' = [req EXCEPT ![r].at = at] /\ config = req[r].config
         \/ req' = [req EXCEPT ![r] = [@ EXCEPT !.at = at, !.config = config]]
         \/ req' = [req EXCEPT ![r] = [@ EXCEPT !.config = config, !.at = at]]
  PROVE  /\ req' \in [Reqs -> ReqType]
         /\ req'[r].at = at /\ req'[r].config = config
         /\ req'[r].on = req[r].on /\ req'[r].target = req[r].target /\ req'[r].kind = req[r].kind
         /\ \A q \in Reqs \ {r} : req'[q] = req[q]
<1> DEFINE Ok(x) == /\ x \in ReqType /\ x.at = at /\ x.config = config
                    /\ x.on = req[r].on /\ x.target = req[r].target /\ x.kind = req[r].kind
<1>1. req[r] \in ReqType
  OBVIOUS
<1>2. \E x : Ok(x) /\ req' = [req EXCEPT ![r] = x]
  <2>1. CASE req' = [req EXCEPT ![r].at = at] /\ config = req[r].config
    <3>1. Ok([req[r] EXCEPT !.at = at])
      BY <1>1, <2>1 DEF ReqType
    <3> QED
      BY <2>1, <3>1
  <2>2. CASE req' = [req EXCEPT ![r] = [@ EXCEPT !.at = at, !.config = config]]
    <3>1. Ok([req[r] EXCEPT !.at = at, !.config = config])
      BY <1>1 DEF ReqType
    <3> QED
      BY <2>2, <3>1
  <2>3. CASE req' = [req EXCEPT ![r] = [@ EXCEPT !.config = config, !.at = at]]
    <3>1. Ok([req[r] EXCEPT !.config = config, !.at = at])
      BY <1>1 DEF ReqType
    <3> QED
      BY <2>3, <3>1
  <2> QED
    BY <2>1, <2>2, <2>3
<1> QED
  BY <1>2

\* A request that is handled moves on to a place where it is decided.
LEMMA Onward ==
  ASSUME IInv, NEW r \in Reqs, NEW at \in Handling, NEW config \in MaybeConfig,
         req[r].at \in Handling,
         \/ req' = [req EXCEPT ![r].at = at] /\ config = req[r].config
         \/ req' = [req EXCEPT ![r] = [@ EXCEPT !.config = config, !.at = at]],
         \/ sent' = sent /\ req[r].at \notin {"await", "head"} /\ at \notin {"await", "head"}
         \/ sent' = [sent EXCEPT ![r] = TRUE] /\ at \in {"await", "head"},
         UNCHANGED <<permits, acceptor, conn, configs, cas, sinkUp, updates, entry, reply, tunnel,
                     inForce>>,
         DecidedAt(r, at, config)
  PROVE  IInv'
<1> USE DEF IInv
<1>1. /\ req' \in [Reqs -> ReqType]
      /\ req'[r].at = at /\ req'[r].config = config
      /\ req'[r].on = req[r].on /\ req'[r].target = req[r].target /\ req'[r].kind = req[r].kind
      /\ \A q \in Reqs \ {r} : req'[q] = req[q]
  <2>1. req \in [Reqs -> ReqType]
    BY DEF TypeOK
  <2> QED
    BY <2>1, StepFacts
<1>2. /\ sent' \in [Reqs -> BOOLEAN]
      /\ \A q \in Reqs \ {r} : sent'[q] = sent[q]
  BY DEF TypeOK
<1>3. TypeOK'
  BY <1>1, <1>2 DEF TypeOK
<1>4. PermitAccounting' /\ InHand'
  BY DEF PermitAccounting, InHand
<1>5. at # "idle" /\ req[r].at # "idle"
  BY DEF Handling
<1>6. InFlight' /\ Exclusive'
  <2>1. \A q \in Reqs : \/ req'[q].at = "idle" /\ req'[q].on = NoConn
                        \/ /\ req[q].at # "idle" /\ req'[q].at # "idle"
                           /\ req'[q].on = req[q].on
                           /\ conn'[req[q].on].at = "serving"
                           /\ conn'[req[q].on].h2 = conn[req[q].on].h2
    BY <1>1, <1>5 DEF InFlight
  <2> QED
    BY <2>1, StayOn
<1>7. Outcomes'
  <2> SUFFICES ASSUME NEW q \in Reqs PROVE OutcomeOf(q)'
    BY DEF Outcomes
  <2>1. CASE q = r
    <3>1. OutcomeOf(r) /\ reply[r] = None
      BY DEF Outcomes, OutcomeOf
    <3>2. sent'[r] <=> at \in {"await", "head"}
      BY <3>1 DEF OutcomeOf, TypeOK
    <3> QED
      BY <1>1, <2>1, <3>1, <3>2 DEF OutcomeOf, Handling, None
  <2>2. CASE q # r
    BY <1>1, <1>2, <2>2, OutcomeKept DEF Outcomes
  <2> QED
    BY <2>1, <2>2
<1>8. Decisions'
  <2> SUFFICES ASSUME NEW q \in Reqs PROVE Decided(q)'
    BY DEF Decisions
  <2>1. CASE q = r
    BY <1>1, <2>1 DEF Decided, DecidedAt, Holds, ByInference, ConfigOf
  <2>2. CASE q # r
    BY <1>1, <2>2, DecidedKept DEF Decisions
  <2> QED
    BY <2>1, <2>2
<1> QED
  BY <1>3, <1>4, <1>6, <1>7, <1>8

LEMMA HandlingSteps ==
  ASSUME IInv, NEW r \in Reqs,
         Dispatch(r) \/ CollectBody(r) \/ RouteForward(r) \/ Lookup(r) \/ Resolved(r)
           \/ Allowed(r) \/ Dialled(r) \/ Deliver(r)
  PROVE  IInv'
<1> USE DEF IInv
<1>1. /\ Decided(r) /\ req[r] \in ReqType /\ req[r].config \in MaybeConfig
      /\ configs \in [Containers -> MaybeConfig]
  BY DEF Decisions, TypeOK, ReqType
<1>2. UNCHANGED <<permits, acceptor, conn, configs, cas, sinkUp, updates, entry, reply, tunnel,
                  inForce>>
  BY DEF Dispatch, CollectBody, RouteForward, Lookup, Resolved, Allowed, Dialled, Deliver,
         connVars, world, outcome
<1>3. CASE Dispatch(r)
  <2>1. PICK at \in {"lookup", "collect", "route"} :
          /\ req' = [req EXCEPT ![r].at = at]
          /\ at = "lookup" \/ ByInference(r)
    BY <1>3 DEF Dispatch, Go
  <2>2. req[r].at = "arrived" /\ sent' = sent
    BY <1>3 DEF Dispatch, Go, outcome
  <2>3. DecidedAt(r, at, req[r].config)
    BY <1>1, <2>1, <2>2 DEF Decided, DecidedAt
  <2> QED
    BY <1>1, <1>2, <2>1, <2>2, <2>3, Onward DEF Handling
<1>4. CASE CollectBody(r) \/ RouteForward(r)
  <2>1. /\ req[r].at \in {"collect", "route"} /\ sent' = sent
        /\ \E at \in {"route", "dial"} : req' = [req EXCEPT ![r].at = at]
    BY <1>4 DEF CollectBody, RouteForward, Go, outcome
  <2>2. \A at \in {"route", "dial"} : DecidedAt(r, at, req[r].config)
    BY <1>1, <2>1 DEF Decided, DecidedAt
  <2> QED
    BY <1>1, <1>2, <2>1, <2>2, Onward DEF Handling
<1>5. CASE Lookup(r)
  <2> DEFINE cfg == ConfigOf(conn[req[r].on].id)
  <2>1. PICK at \in {"resolve", "evaluate"} :
          req' = [req EXCEPT ![r] = [@ EXCEPT !.config = cfg, !.at = at]]
    BY <1>5 DEF Lookup
  <2>2. /\ req[r].at = "lookup" /\ sent' = sent /\ cfg # NoConfig
        /\ cfg \in BinaryConfigs => conn[req[r].on].bin
    BY <1>5 DEF Lookup, outcome
  <2>3. cfg \in MaybeConfig
    BY <1>1 DEF ConfigOf, MaybeConfig
  <2>4. DecidedAt(r, at, cfg)
    BY <1>1, <2>1, <2>2 DEF Decided, DecidedAt, Holds
  <2> HIDE DEF cfg
  <2> QED
    BY <1>2, <2>1, <2>2, <2>3, <2>4, Onward DEF Handling
<1>6. CASE Resolved(r) \/ Allowed(r)
  <2>1. /\ req[r].at \in {"resolve", "evaluate"} /\ sent' = sent
        /\ \/ req' = [req EXCEPT ![r].at = "evaluate"]
           \/ /\ req' = [req EXCEPT ![r].at = "dial"]
              /\ <<req[r].config, req[r].target>> \notin Denied
    BY <1>6 DEF Resolved, Allowed, Go, outcome
  <2>2. DecidedAt(r, "evaluate", req[r].config)
    BY <1>1, <2>1 DEF Decided, DecidedAt
  <2>3. <<req[r].config, req[r].target>> \notin Denied => DecidedAt(r, "dial", req[r].config)
    BY <1>1, <2>1 DEF Decided, DecidedAt
  <2> QED
    BY <1>1, <1>2, <2>1, <2>2, <2>3, Onward DEF Handling
<1>7. CASE Dialled(r)
  <2>1. /\ req[r].at = "dial" /\ sent' = sent
        /\ \E at \in {"write", "send"} : req' = [req EXCEPT ![r].at = at]
    BY <1>7 DEF Dialled, Go, outcome
  <2>2. \A at \in {"write", "send"} : DecidedAt(r, at, req[r].config)
    BY <1>1, <2>1 DEF Decided, DecidedAt
  <2> QED
    BY <1>1, <1>2, <2>1, <2>2, Onward DEF Handling
<1>8. CASE Deliver(r)
  <2>1. /\ req[r].at \in {"send", "write"} /\ sent' = [sent EXCEPT ![r] = TRUE]
        /\ \E at \in {"await", "head"} : req' = [req EXCEPT ![r].at = at]
    BY <1>8 DEF Deliver, Go
  <2>2. \A at \in {"await", "head"} : DecidedAt(r, at, req[r].config)
    BY <1>1, <2>1 DEF Decided, DecidedAt
  <2> QED
    BY <1>1, <1>2, <2>1, <2>2, Onward DEF Handling
<1> QED
  BY <1>3, <1>4, <1>5, <1>6, <1>7, <1>8

\* The handler returns; the connections of the other requests stay as they are.
LEMMA Dropped ==
  ASSUME IInv, NEW r \in Reqs, req' = [req EXCEPT ![r] = NoReq],
         inForce' = [inForce EXCEPT ![r] = {}], configs' = configs,
         \A q \in Reqs \ {r} : req[q].at # "idle" => conn'[req[q].on] = conn[req[q].on]
  PROVE  /\ req' \in [Reqs -> ReqType] /\ inForce' \in [Reqs -> SUBSET MaybeConfig]
         /\ req'[r].at = "idle" /\ \A q \in Reqs \ {r} : req'[q] = req[q]
         /\ InFlight' /\ Exclusive' /\ Decisions'
<1> USE DEF IInv
<1>1. /\ req' \in [Reqs -> ReqType] /\ inForce' \in [Reqs -> SUBSET MaybeConfig]
      /\ req'[r] = NoReq
      /\ \A q \in Reqs \ {r} : req'[q] = req[q] /\ inForce'[q] = inForce[q]
  BY NewTyped DEF TypeOK
<1>2. NoReq.at = "idle" /\ NoReq.on = NoConn
  BY DEF NoReq
<1>3. InFlight' /\ Exclusive'
  <2>1. \A q \in Reqs : \/ req'[q].at = "idle" /\ req'[q].on = NoConn
                        \/ /\ req[q].at # "idle" /\ req'[q].at # "idle"
                           /\ req'[q].on = req[q].on
                           /\ conn'[req[q].on].at = "serving"
                           /\ conn'[req[q].on].h2 = conn[req[q].on].h2
    BY <1>1, <1>2 DEF InFlight
  <2> QED
    BY <2>1, StayOn
<1>4. Decisions'
  <2> SUFFICES ASSUME NEW q \in Reqs PROVE Decided(q)'
    BY DEF Decisions
  <2>1. CASE req'[q].at = "idle"
    BY <2>1, IdleDecided
  <2>2. CASE req'[q].at # "idle"
    <3>1. q # r /\ req'[q] = req[q] /\ inForce'[q] = inForce[q]
      BY <1>1, <1>2, <2>2
    <3>2. conn'[req[q].on] = conn[req[q].on]
      BY <2>2, <3>1
    <3> QED
      BY <3>1, <3>2 DEF Decisions, Decided, DecidedAt, Holds, ByInference, ConfigOf
  <2> QED
    BY <2>1, <2>2
<1> QED
  BY <1>1, <1>2, <1>3, <1>4

\* On HTTP/1 no other request is on the connection.
LEMMA Alone ==
  ASSUME IInv, NEW r \in Reqs, req[r].at # "idle", NEW q \in Reqs \ {r}, req[q].at # "idle",
         ~conn[req[r].on].h2
  PROVE  req[q].on # req[r].on
BY DEF IInv, Exclusive, InFlight, NoConn, Conns

LEMMA BlockStep ==
  ASSUME IInv, NEW r \in Reqs, NEW status \in Blocked, Block(r, status), req[r].at \in Handling,
         \/ entry' = entry
         \/ entry' = [entry EXCEPT ![r] = Audited("deny")]
         \/ entry' = [entry EXCEPT ![r] = "allow"] /\ status = "502" /\ req[r].at = "head",
         status = "403" => req[r].at \notin {"await", "head"}
  PROVE  IInv'
<1> USE DEF IInv
<1> DEFINE c == req[r].on
<1>1. c \in Conns /\ conn[c].at = "serving" /\ req[r].at # "idle"
  BY DEF InFlight, Handling
<1>2. /\ req' = [req EXCEPT ![r] = NoReq] /\ inForce' = [inForce EXCEPT ![r] = {}]
      /\ reply' = [reply EXCEPT ![r] = status]
      /\ UNCHANGED <<permits, acceptor, sent, tunnel, configs, cas, sinkUp, updates>>
      /\ \/ conn' = conn
         \/ ~conn[c].h2 /\ conn' = [conn EXCEPT ![c].at = "closing"]
  BY DEF Block, world
<1>3. /\ conn' \in [Conns -> ConnType]
      /\ \A d \in Conns \ {c} : conn'[d] = conn[d]
      /\ conn'[c].at \in {"serving", "closing"}
  <2>1. conn \in [Conns -> ConnType]
    BY DEF TypeOK
  <2>2. CASE conn' = conn
    BY <1>1, <2>1, <2>2
  <2>3. CASE conn' = [conn EXCEPT ![c].at = "closing"]
    <3>1. Move(c, "serving", "closing")
      BY <1>1, <2>3 DEF Move
    <3> HIDE DEF c
    <3> QED
      BY <1>1, <2>1, <3>1, MoveFacts DEF ConnStates, Served
  <2> QED
    BY <1>2, <2>2, <2>3
<1>4. \A q \in Reqs \ {r} : req[q].at # "idle" => conn'[req[q].on] = conn[req[q].on]
  BY <1>1, <1>2, <1>3, Alone DEF InFlight
<1>5. /\ req' \in [Reqs -> ReqType] /\ inForce' \in [Reqs -> SUBSET MaybeConfig]
      /\ req'[r].at = "idle" /\ \A q \in Reqs \ {r} : req'[q] = req[q]
      /\ InFlight' /\ Exclusive' /\ Decisions'
  BY <1>2, <1>4, Dropped
<1>6. reply' \in [Reqs -> {None, "passed", "cancelled"} \cup Blocked]
  BY <1>2 DEF TypeOK
<1>7. entry' \in [Reqs -> {None, "allow", "deny"}]
      /\ \/ entry'[r] \in {entry[r], "deny", None}
         \/ status = "502" /\ req[r].at = "head"
      /\ \A q \in Reqs \ {r} : entry'[q] = entry[q]
  BY DEF TypeOK, Audited
<1>8. TypeOK'
  BY <1>2, <1>3, <1>5, <1>6, <1>7 DEF TypeOK
<1>9. PermitAccounting'
  <2>1. Holders' = Holders
    BY <1>1, <1>3 DEF Holders, Served
  <2> QED
    BY <1>2, <2>1, SameAccount
<1>10. InHand'
  BY <1>1, <1>2, <1>3 DEF InHand
<1>11. Outcomes'
  <2> SUFFICES ASSUME NEW q \in Reqs PROVE OutcomeOf(q)'
    BY DEF Outcomes
  <2>1. CASE q = r
    <3>1. OutcomeOf(r) /\ reply[r] = None /\ reply \in [Reqs -> {None, "passed", "cancelled"} \cup Blocked]
      BY DEF Outcomes, OutcomeOf, TypeOK
    <3>2. reply'[r] = status /\ status # None /\ status # "passed"
      BY <1>2, <3>1 DEF Blocked, None
    <3>4. entry'[r] = "allow" => status = "502" /\ sent'[r]
      <4>1. entry[r] = None
        BY <3>1 DEF OutcomeOf
      <4>2. req[r].at = "head" => sent'[r]
        BY <1>2, <3>1 DEF OutcomeOf
      <4> QED
        BY <1>7, <4>1, <4>2 DEF None
    <3>3. status = "403" => ~sent'[r] /\ tunnel'[r] = None
      BY <1>2, <3>1 DEF OutcomeOf
    <3> QED
      BY <1>5, <2>1, <3>2, <3>3, <3>4 DEF OutcomeOf, Handling
  <2>2. CASE q # r
    <3>1. reply'[q] = reply[q]
      BY <1>2, <2>2 DEF TypeOK
    <3> QED
      BY <1>2, <1>5, <1>7, <2>2, <3>1, OutcomeKept DEF Outcomes
  <2> QED
    BY <2>1, <2>2
<1> QED
  BY <1>5, <1>8, <1>9, <1>10, <1>11

LEMMA RefusingSteps ==
  ASSUME IInv, NEW r \in Reqs,
         Hostless(r) \/ CollectFails(r) \/ RouteBlock(r) \/ NotConfigured(r) \/ BinaryUnknown(r)
           \/ ResolveFails(r) \/ Refused(r) \/ DialFails(r) \/ TargetFails(r)
  PROVE  IInv'
<1>1. CASE CollectFails(r) \/ TargetFails(r)
  <2>1. PICK status \in {"502", "503"} : Block(r, status) /\ entry' = entry
    BY <1>1 DEF CollectFails, TargetFails, Fail
  <2>2. req[r].at \in Handling
    BY <1>1 DEF CollectFails, TargetFails, Handling
  <2> QED
    BY <2>1, <2>2, BlockStep DEF Blocked
<1>2. CASE ~(CollectFails(r) \/ TargetFails(r))
  <2>1. \E status \in Blocked : Deny(r, status)
    BY <1>2 DEF Hostless, RouteBlock, NotConfigured, BinaryUnknown, ResolveFails, Refused, DialFails,
                Blocked
  <2>2. PICK status \in Blocked : Block(r, status) /\ entry' = [entry EXCEPT ![r] = Audited("deny")]
    BY <2>1 DEF Deny
  <2>3. req[r].at \in Handling \ {"await", "head"}
    BY <1>2 DEF Hostless, RouteBlock, NotConfigured, BinaryUnknown, ResolveFails, Refused, DialFails,
                Handling
  <2> QED
    BY <2>2, <2>3, BlockStep
<1> QED
  BY <1>1, <1>2

LEMMA PassStep ==
  ASSUME IInv, NEW r \in Reqs, NEW next \in {"relay", "handover"}, NEW tun \in {None, "pending"},
         Pass(r, next, tun), next = "handover" => tun = "pending", req[r].at \in Handling
  PROVE  IInv'
<1> USE DEF IInv
<1>1. CASE ~sinkUp
  <2>1. Block(r, "503") /\ entry' = entry
    BY <1>1 DEF Pass, Fail
  <2> QED
    BY <2>1, BlockStep DEF Blocked
<1>2. CASE sinkUp
  <2>1. /\ entry' = [entry EXCEPT ![r] = "allow"] /\ reply' = [reply EXCEPT ![r] = "passed"]
        /\ tunnel' = [tunnel EXCEPT ![r] = tun]
        /\ req' = [req EXCEPT ![r] = [@ EXCEPT !.at = next, !.config = NoConfig]]
        /\ UNCHANGED <<sent, inForce, permits, acceptor, conn, configs, cas, sinkUp, updates>>
    BY <1>2 DEF Pass, connVars, world
  <2>2. /\ req' \in [Reqs -> ReqType]
        /\ req'[r].at = next /\ req'[r].on = req[r].on
        /\ \A q \in Reqs \ {r} : req'[q] = req[q]
    <3>1. req \in [Reqs -> ReqType] /\ NoConfig \in MaybeConfig
      BY DEF TypeOK, MaybeConfig
    <3> QED
      BY <2>1, <3>1, StepFacts
  <2>3. /\ entry' \in [Reqs -> {None, "allow", "deny"}]
        /\ reply' \in [Reqs -> {None, "passed", "cancelled"} \cup Blocked]
        /\ tunnel' \in [Reqs -> {None, "pending", "open"}]
        /\ entry'[r] = "allow" /\ reply'[r] = "passed" /\ tunnel'[r] = tun
        /\ \A q \in Reqs \ {r} : entry'[q] = entry[q] /\ reply'[q] = reply[q] /\ tunnel'[q] = tunnel[q]
    BY <2>1 DEF TypeOK
  <2>4. TypeOK'
    BY <2>1, <2>2, <2>3 DEF TypeOK
  <2>5. PermitAccounting' /\ InHand'
    BY <2>1 DEF PermitAccounting, InHand
  <2>6. InFlight' /\ Exclusive'
    <3>1. \A q \in Reqs : \/ req'[q].at = "idle" /\ req'[q].on = NoConn
                          \/ /\ req[q].at # "idle" /\ req'[q].at # "idle"
                             /\ req'[q].on = req[q].on
                             /\ conn'[req[q].on].at = "serving"
                             /\ conn'[req[q].on].h2 = conn[req[q].on].h2
      BY <2>1, <2>2 DEF InFlight, Handling
    <3> QED
      BY <3>1, StayOn
  <2>7. Outcomes'
    <3> SUFFICES ASSUME NEW q \in Reqs PROVE OutcomeOf(q)'
      BY DEF Outcomes
    <3>1. CASE q = r
      BY <2>2, <2>3, <3>1 DEF OutcomeOf, Handling, None
    <3>2. CASE q # r
      BY <2>1, <2>2, <2>3, <3>2, OutcomeKept DEF Outcomes
    <3> QED
      BY <3>1, <3>2
  <2>8. Decisions'
    <3> SUFFICES ASSUME NEW q \in Reqs PROVE Decided(q)'
      BY DEF Decisions
    <3>1. CASE q = r
      BY <2>2, <3>1, IdleDecided
    <3>2. CASE q # r
      BY <2>1, <2>2, <3>2, DecidedKept DEF Decisions
    <3> QED
      BY <3>1, <3>2
  <2> QED
    BY <2>4, <2>5, <2>6, <2>7, <2>8
<1> QED
  BY <1>1, <1>2

LEMMA PassingSteps ==
  ASSUME IInv, NEW r \in Reqs, DialledTunnel(r) \/ Answer(r) \/ AnswerUpgrade(r)
  PROVE  IInv'
<1>1. Pass(r, "handover", "pending") \/ Pass(r, "relay", None) \/ AnswerUnfit(r)
  BY DEF DialledTunnel, Answer, AnswerUpgrade
<1>2. req[r].at \in Handling
  BY DEF DialledTunnel, Answer, AnswerUpgrade, AnswerUnfit, Handling
<1>3. CASE Pass(r, "handover", "pending")
  BY <1>2, <1>3, PassStep DEF None
<1>4. CASE Pass(r, "relay", None)
  BY <1>2, <1>4, PassStep DEF None
<1>5. CASE AnswerUnfit(r)
  BY <1>2, <1>5, BlockStep DEF AnswerUnfit, Blocked
<1> QED
  BY <1>1, <1>3, <1>4, <1>5

LEMMA LeavingSteps ==
  ASSUME IInv, NEW r \in Reqs, Relayed(r) \/ HandOver(r) \/ Reset(r) \/ TunnelEnds(r)
  PROVE  IInv'
<1> USE DEF IInv
<1>1. CASE TunnelEnds(r)
  <2>1. /\ tunnel' = [tunnel EXCEPT ![r] = None] /\ tunnel[r] = "open"
        /\ UNCHANGED <<permits, acceptor, conn, req, configs, cas, sinkUp, sent, entry, reply,
                       inForce, updates>>
    BY <1>1 DEF TunnelEnds, connVars, world
  <2>2. /\ tunnel' \in [Reqs -> {None, "pending", "open"}] /\ tunnel'[r] = None
        /\ \A q \in Reqs \ {r} : tunnel'[q] = tunnel[q]
    BY <2>1 DEF TypeOK
  <2>3. TypeOK' /\ PermitAccounting' /\ InHand' /\ InFlight' /\ Exclusive'
    BY <2>1, <2>2 DEF TypeOK, PermitAccounting, InHand, InFlight, Exclusive
  <2>4. Outcomes'
    BY <2>1, <2>2 DEF Outcomes, OutcomeOf
  <2>5. Decisions'
    BY <2>1 DEF Decisions, Decided, DecidedAt, Holds, ByInference, ConfigOf
  <2> QED
    BY <2>3, <2>4, <2>5
<1>2. CASE Relayed(r) \/ Reset(r)
  <2>1. /\ req' = [req EXCEPT ![r] = NoReq] /\ inForce' = [inForce EXCEPT ![r] = {}]
        /\ UNCHANGED <<permits, acceptor, conn, configs, cas, sinkUp, updates, sent, entry>>
    BY <1>2 DEF Relayed, Reset, connVars, world, outcome
  <2>2. /\ req' \in [Reqs -> ReqType] /\ inForce' \in [Reqs -> SUBSET MaybeConfig]
        /\ req'[r].at = "idle" /\ \A q \in Reqs \ {r} : req'[q] = req[q]
        /\ InFlight' /\ Exclusive' /\ Decisions'
    BY <2>1, Dropped
  <2>3. /\ reply' \in [Reqs -> {None, "passed", "cancelled"} \cup Blocked]
        /\ tunnel' \in [Reqs -> {None, "pending", "open"}]
        /\ reply'[r] # None
        /\ reply'[r] = reply[r] \/ (reply[r] = None /\ reply'[r] = "cancelled")
        /\ tunnel'[r] \in {tunnel[r], None}
        /\ \A q \in Reqs \ {r} : reply'[q] = reply[q] /\ tunnel'[q] = tunnel[q]
    <3>1. CASE Relayed(r)
      <4>1. reply[r] = "passed"
        BY <3>1 DEF Relayed, Go, Outcomes, OutcomeOf
      <4> QED
        BY <3>1, <4>1 DEF Relayed, outcome, TypeOK, None
    <3>2. CASE Reset(r)
      BY <3>2 DEF Reset, TypeOK, None
    <3> QED
      BY <1>2, <3>1, <3>2
  <2>4. TypeOK'
    BY <2>1, <2>2, <2>3 DEF TypeOK
  <2>5. PermitAccounting' /\ InHand'
    BY <2>1 DEF PermitAccounting, InHand
  <2>6. Outcomes'
    <3> SUFFICES ASSUME NEW q \in Reqs PROVE OutcomeOf(q)'
      BY DEF Outcomes
    <3>1. CASE q = r
      BY <2>1, <2>2, <2>3, <3>1 DEF Outcomes, OutcomeOf, Handling, None
    <3>2. CASE q # r
      BY <2>1, <2>2, <2>3, <3>2, OutcomeKept DEF Outcomes
    <3> QED
      BY <3>1, <3>2
  <2> QED
    BY <2>2, <2>4, <2>5, <2>6
<1>3. CASE HandOver(r)
  <2> DEFINE c == req[r].on
  <2>1. /\ req[r].at = "handover"
        /\ req' = [req EXCEPT ![r] = NoReq] /\ inForce' = [inForce EXCEPT ![r] = {}]
        /\ tunnel' = [tunnel EXCEPT ![r] = "open"]
        /\ UNCHANGED <<acceptor, configs, cas, sinkUp, updates, sent, entry, reply>>
        /\ \/ permits' = permits /\ conn' = conn
           \/ /\ ~conn[c].h2 /\ permits' = permits + 1
              /\ conn' = [conn EXCEPT ![c] = [NewConn EXCEPT !.at = "closed"]]
    BY <1>3 DEF HandOver, world
  <2>2. c \in Conns /\ conn[c].at = "serving"
    BY <2>1 DEF InFlight
  <2>3. /\ conn' \in [Conns -> ConnType]
        /\ \A d \in Conns \ {c} : conn'[d] = conn[d]
    BY <2>1, ClosedTyped DEF TypeOK
  <2>4. \A q \in Reqs \ {r} : req[q].at # "idle" => conn'[req[q].on] = conn[req[q].on]
    BY <2>1, <2>2, <2>3, Alone DEF InFlight
  <2>5. /\ req' \in [Reqs -> ReqType] /\ inForce' \in [Reqs -> SUBSET MaybeConfig]
        /\ req'[r].at = "idle" /\ \A q \in Reqs \ {r} : req'[q] = req[q]
        /\ InFlight' /\ Exclusive' /\ Decisions'
    BY <2>1, <2>4, Dropped
  <2>6. permits' \in 0 .. Permits /\ PermitAccounting'
    <3>1. CASE permits' = permits /\ conn' = conn
      BY <3>1 DEF PermitAccounting, TypeOK
    <3>2. CASE permits' = permits + 1 /\ conn' = [conn EXCEPT ![c] = [NewConn EXCEPT !.at = "closed"]]
      <4>1. conn'[c].at = "closed"
        BY <2>2, <3>2, ClosedTyped DEF TypeOK
      <4>2. c \in Holders /\ Holders' = Holders \ {c}
        BY <2>2, <2>3, <4>1 DEF Holders, Served
      <4> HIDE DEF c
      <4> QED
        BY <2>2, <3>2, <4>2, LeaveAccount
    <3> QED
      BY <2>1, <3>1, <3>2
  <2>7. /\ tunnel' \in [Reqs -> {None, "pending", "open"}]
        /\ \A q \in Reqs \ {r} : tunnel'[q] = tunnel[q]
    BY <2>1 DEF TypeOK
  <2>8. TypeOK'
    BY <2>1, <2>3, <2>5, <2>6, <2>7 DEF TypeOK
  <2>9. InHand'
    BY <2>1, <2>2, <2>3 DEF InHand
  <2>10. Outcomes'
    <3> SUFFICES ASSUME NEW q \in Reqs PROVE OutcomeOf(q)'
      BY DEF Outcomes
    <3>1. CASE q = r
      <4>1. OutcomeOf(r) /\ reply[r] = "passed"
        BY <2>1 DEF Outcomes, OutcomeOf
      <4> QED
        BY <2>1, <2>5, <3>1, <4>1 DEF OutcomeOf, Handling, None
    <3>2. CASE q # r
      BY <2>1, <2>5, <2>7, <3>2, OutcomeKept DEF Outcomes
    <3> QED
      BY <3>1, <3>2
  <2> QED
    BY <2>5, <2>6, <2>8, <2>9, <2>10
<1> QED
  BY <1>1, <1>2, <1>3

LEMMA ArriveStep ==
  ASSUME IInv, NEW r \in Reqs, Arrive(r)
  PROVE  IInv'
<1> USE DEF IInv
<1>1. /\ reply[r] = None /\ req[r].at = "idle"
      /\ UNCHANGED <<permits, acceptor, conn, configs, cas, sinkUp, updates, sent, entry, reply,
                     tunnel>>
  BY DEF Arrive, connVars, world, outcome
<1>2. PICK c \in Conns, kind \in Kinds, target \in Targets \cup {NoTarget} :
        /\ conn[c].at = "serving" /\ (~conn[c].h2 => ~Busy(c))
        /\ req' = [req EXCEPT ![r] = [NoReq EXCEPT !.at = "arrived", !.on = c, !.kind = kind,
                                                   !.target = target]]
        /\ inForce' = [inForce EXCEPT ![r] = {ConfigOf(conn[c].id)}]
  BY DEF Arrive
<1> DEFINE new == [NoReq EXCEPT !.at = "arrived", !.on = c, !.kind = kind, !.target = target]
<1>3. new \in ReqType /\ new.at = "arrived" /\ new.on = c
  BY NewTyped DEF ReqType, Handling
<1>4. req' = [req EXCEPT ![r] = new]
  BY <1>2
<1> HIDE DEF new
<1>5. /\ req' \in [Reqs -> ReqType] /\ req'[r].at = "arrived" /\ req'[r].on = c
      /\ \A q \in Reqs \ {r} : req'[q] = req[q]
  BY <1>3, <1>4 DEF TypeOK
<1>6. ConfigOf(conn[c].id) \in MaybeConfig
  BY DEF ConfigOf, TypeOK, MaybeConfig
<1>7. /\ inForce' \in [Reqs -> SUBSET MaybeConfig] /\ inForce'[r] = {ConfigOf(conn[c].id)}
      /\ \A q \in Reqs \ {r} : inForce'[q] = inForce[q]
  BY <1>2, <1>6 DEF TypeOK
<1>8. TypeOK'
  BY <1>1, <1>5, <1>7 DEF TypeOK
<1>9. PermitAccounting' /\ InHand'
  BY <1>1 DEF PermitAccounting, InHand
<1>10. InFlight'
  BY <1>1, <1>2, <1>5 DEF InFlight
<1>11. Exclusive'
  <2> SUFFICES ASSUME NEW p \in Reqs, NEW q \in Reqs, p # q, req'[p].on = req'[q].on,
                      req'[p].on # NoConn
               PROVE  conn[req'[p].on].h2
    BY <1>1 DEF Exclusive
  <2>1. CASE p # r /\ q # r
    BY <1>5, <2>1 DEF Exclusive
  <2>2. CASE p = r \/ q = r
    <3>1. PICK o \in Reqs \ {r} : req[o].on = c
      BY <1>5, <2>2
    <3>2. req[o].at # "idle"
      BY <3>1 DEF InFlight, Conns, NoConn
    <3>3. Busy(c)
      BY <3>1, <3>2 DEF Busy, On
    <3> QED
      BY <1>2, <1>5, <2>2, <3>3
  <2> QED
    BY <2>1, <2>2
<1>12. Outcomes'
  <2> SUFFICES ASSUME NEW q \in Reqs PROVE OutcomeOf(q)'
    BY DEF Outcomes
  <2>1. CASE q = r
    BY <1>1, <1>5, <2>1 DEF Outcomes, OutcomeOf, Handling, None
  <2>2. CASE q # r
    BY <1>1, <1>5, <2>2, OutcomeKept DEF Outcomes
  <2> QED
    BY <2>1, <2>2
<1>13. Decisions'
  <2> SUFFICES ASSUME NEW q \in Reqs PROVE Decided(q)'
    BY DEF Decisions
  <2>1. CASE q = r
    BY <1>1, <1>5, <1>7, <2>1 DEF Decided, DecidedAt, ConfigOf
  <2>2. CASE q # r
    BY <1>1, <1>5, <1>7, <2>2, DecidedKept DEF Decisions
  <2> QED
    BY <2>1, <2>2
<1> QED
  BY <1>8, <1>9, <1>10, <1>11, <1>12, <1>13

LEMMA IntegratorSteps ==
  ASSUME IInv,
         SinkChanges \/ \E k \in Containers : SetCa(k) \/ \E cfg \in MaybeConfig : SetConfig(k, cfg)
  PROVE  IInv'
<1> USE DEF IInv
<1>1. CASE SinkChanges \/ \E k \in Containers : SetCa(k)
  <2>1. /\ UNCHANGED <<permits, acceptor, conn, req, configs, sent, entry, reply, tunnel, inForce>>
        /\ cas' \subseteq Containers /\ sinkUp' \in BOOLEAN /\ updates' \in 0 .. MaxUpdates
    <3>1. CASE SinkChanges
      <4>1. sinkUp' \in BOOLEAN
        BY <3>1, Zenon DEF SinkChanges
      <4>2. updates' \in 0 .. MaxUpdates
        BY <3>1, SubsetsAssumption DEF SinkChanges, TypeOK
      <4> QED
        BY <3>1, <4>1, <4>2 DEF SinkChanges, connVars, outcome, TypeOK
    <3>2. CASE \E k \in Containers : SetCa(k)
      BY <3>2 DEF SetCa, connVars, outcome, TypeOK
    <3> QED
      BY <1>1, <3>1, <3>2
  <2>2. TypeOK' /\ PermitAccounting' /\ InHand' /\ InFlight' /\ Exclusive'
    BY <2>1 DEF TypeOK, PermitAccounting, InHand, InFlight, Exclusive
  <2>3. Outcomes' /\ Decisions'
    BY <2>1 DEF Outcomes, OutcomeOf, Decisions, Decided, DecidedAt, Holds, ByInference, ConfigOf
  <2> QED
    BY <2>2, <2>3
<1>2. ASSUME NEW k \in Containers, NEW cfg \in MaybeConfig, SetConfig(k, cfg)
      PROVE  IInv'
  <2>1. /\ UNCHANGED <<permits, acceptor, conn, req, cas, sinkUp, sent, entry, reply, tunnel>>
        /\ configs' = [configs EXCEPT ![k] = cfg] /\ updates' \in 0 .. MaxUpdates
        /\ inForce' = [r \in Reqs |->
             IF req[r].at \in {"arrived", "lookup"} /\ conn[req[r].on].id = k
             THEN inForce[r] \cup {cfg} ELSE inForce[r]]
    BY <1>2, SubsetsAssumption DEF SetConfig, connVars, outcome, TypeOK
  <2>2. configs' \in [Containers -> MaybeConfig] /\ inForce' \in [Reqs -> SUBSET MaybeConfig]
    BY <2>1 DEF TypeOK
  <2>3. TypeOK' /\ PermitAccounting' /\ InHand' /\ InFlight' /\ Exclusive'
    BY <2>1, <2>2 DEF TypeOK, PermitAccounting, InHand, InFlight, Exclusive
  <2>4. Outcomes'
    BY <2>1 DEF Outcomes, OutcomeOf
  <2>5. Decisions'
    <3> SUFFICES ASSUME NEW r \in Reqs PROVE Decided(r)'
      BY DEF Decisions
    <3>1. Decided(r) /\ inForce[r] \subseteq inForce'[r]
      BY <2>1 DEF Decisions
    <3>2. req[r].at \in {"arrived", "lookup"} => ConfigOf(conn[req[r].on].id)' \in inForce'[r]
      BY <2>1, <3>1 DEF Decided, DecidedAt, ConfigOf, TypeOK
    <3> QED
      BY <2>1, <3>1, <3>2 DEF Decided, DecidedAt, Holds, ByInference
  <2> QED
    BY <2>3, <2>4, <2>5
<1> QED
  BY <1>1, <1>2

----------------------------------------------------------------------------
(* Theorems.                                                               *)

LEMMA NextInv == IInv /\ [Next]_vars => IInv'
<1> SUFFICES ASSUME IInv, [Next]_vars PROVE IInv'
  OBVIOUS
<1>1. CASE \E c \in Conns : Connect(c) \/ Accept(c) \/ AcceptFails(c) \/ TakePermit(c)
             \/ SniffHttp(c) \/ SniffTls(c) \/ HandshakeOk(c)
  BY <1>1, OpeningSteps
<1>2. CASE \E c \in Conns : SniffRejected(c) \/ HandshakeFails(c) \/ Leave(c) \/ Close(c)
  BY <1>2, EndSteps
<1>3. CASE \E r \in Reqs : Computes(r) \/ Expires(r)
  BY <1>3, HandlingSteps, RefusingSteps DEF Computes, Expires
<1>4. CASE \E r \in Reqs : Arrives(r) \/ HandOver(r)
  BY <1>4, ArriveStep, HandlingSteps, PassingSteps, LeavingSteps DEF Arrives
<1>5. CASE SinkChanges
           \/ \E k \in Containers : SetCa(k) \/ \E cfg \in MaybeConfig : SetConfig(k, cfg)
  BY <1>5, IntegratorSteps
<1>6. CASE UNCHANGED vars
  BY <1>6 DEF vars, IInv, TypeOK, PermitAccounting, InHand, InFlight, Exclusive, Outcomes, OutcomeOf,
              Decisions, Decided, DecidedAt, Holds, ByInference, ConfigOf
<1> QED
  BY <1>1, <1>2, <1>3, <1>4, <1>5, <1>6 DEF Next, AcceptNext, ConnNext

LEMMA Inductive == Spec => []IInv
BY InitInv, NextInv, PTL DEF Spec

\* Every variable keeps its type; the permits stay between 0 and their number.
THEOREM TypeCorrect == Spec => []TypeOK
<1>1. IInv => TypeOK
  BY DEF IInv
<1> QED
  BY <1>1, Inductive, PTL

\* serve() neither loses a permit nor returns one twice, however connections end.
THEOREM PermitsAccounted == Spec => []PermitAccounting
<1>1. IInv => PermitAccounting
  BY DEF IInv
<1> QED
  BY <1>1, Inductive, PTL

\* Answers and tunnels reach a client only after the sink accepted the allow entry; such an entry
\* without one is that of a request the target got and whose answer became a 502; and the target of
\* a request answered with 403 has not seen it.
THEOREM RepliesTrue == Spec => []RepliesAreTrue
<1>1. IInv => PassedIsAudited
  BY DEF IInv, Outcomes, OutcomeOf, PassedIsAudited
<1>2. IInv => ForbiddenIsUntouched
  BY DEF IInv, Outcomes, OutcomeOf, ForbiddenIsUntouched
<1>3. IInv => RepliesAreTrue
  BY <1>1, <1>2 DEF RepliesAreTrue
<1> QED
  BY <1>3, Inductive, PTL

\* A target is reached by what Deliver and the audited answers do, and by nothing else.
Reaches(r) == (sent'[r] /\ ~sent[r]) \/ (tunnel'[r] = "pending" /\ tunnel[r] = None)

LEMMA Reaching ==
  ASSUME IInv, Next, NEW r \in Reqs, Reaches(r)
  PROVE  Deliver(r) \/ DialledTunnel(r) \/ AnswerUpgrade(r)
<1>1. sent \in [Reqs -> BOOLEAN] /\ tunnel \in [Reqs -> {None, "pending", "open"}]
  BY DEF IInv, TypeOK
<1>2. ~UNCHANGED <<sent, tunnel>>
  BY DEF Reaches, None
<1>3. ASSUME NEW c \in Conns, ConnNext(c)
      PROVE  FALSE
  <2>1. CASE End(c)
    BY <1>1, <2>1 DEF End, Reaches, None
  <2>2. CASE ~End(c)
    BY <1>2, <1>3, <2>2 DEF ConnNext, Connect, SniffHttp, SniffTls, SniffRejected, HandshakeOk,
                            HandshakeFails, Leave, Close, outcome
  <2> QED
    BY <2>1, <2>2
<1>4. ASSUME NEW q \in Reqs, Deliver(q)
      PROVE  q = r
  BY <1>1, <1>4 DEF Deliver, Reaches, None
<1>5. ASSUME NEW q \in Reqs, NEW next, NEW tun, Pass(q, next, tun)
      PROVE  q = r /\ tun # None
  <2>1. CASE sinkUp
    BY <1>1, <1>5, <2>1 DEF Pass, Reaches, None
  <2>2. CASE ~sinkUp
    BY <1>2, <1>5, <2>2 DEF Pass, Fail, Block
  <2> QED
    BY <2>1, <2>2
<1>6. ASSUME NEW q \in Reqs, Relayed(q) \/ HandOver(q) \/ Reset(q) \/ TunnelEnds(q)
      PROVE  FALSE
  BY <1>1, <1>6 DEF Relayed, HandOver, Reset, TunnelEnds, Reaches, None, outcome
<1>7. ASSUME NEW q \in Reqs, Computes(q) \/ Expires(q) \/ Arrive(q) \/ CollectBody(q) \/ Resolved(q)
                               \/ Dialled(q)
      PROVE  FALSE
  <2>1. UNCHANGED <<sent, tunnel>>
    BY <1>7 DEF Computes, Expires, Hostless, Dispatch, Lookup, NotConfigured, BinaryUnknown, Allowed,
                Refused, RouteForward, RouteBlock, CollectFails, ResolveFails, DialFails, TargetFails,
                Arrive, CollectBody, Resolved, Dialled, Deny, Fail, Block, outcome
  <2> QED
    BY <1>2, <2>1
<1>8. ~AcceptNext
  BY <1>2 DEF AcceptNext, Accept, AcceptFails, TakePermit, outcome
<1>9. ~(SinkChanges \/ \E k \in Containers : SetCa(k) \/ \E cfg \in MaybeConfig : SetConfig(k, cfg))
  BY <1>2 DEF SinkChanges, SetCa, SetConfig, outcome
<1>12. ASSUME NEW q \in Reqs, AnswerUnfit(q)
       PROVE  FALSE
  BY <1>2, <1>12 DEF AnswerUnfit, Block
<1>10. PICK q \in Reqs : Deliver(q) \/ DialledTunnel(q) \/ Answer(q) \/ AnswerUpgrade(q)
  BY <1>3, <1>6, <1>7, <1>8, <1>9 DEF Next, Arrives
<1>11. ~Answer(q)
  BY <1>5 DEF Answer
<1> QED
  BY <1>4, <1>5, <1>10, <1>11, <1>12 DEF DialledTunnel, AnswerUpgrade

\* Bytes reach a target only by an inference route or by a configuration in force.
THEOREM PolicyIsCurrent == Spec => CurrentPolicy
<1>1. ASSUME IInv, Next, NEW r \in Reqs, Reaches(r)
      PROVE  ByInference(r) \/ Admitted(r)
  <2>1. Deliver(r) \/ DialledTunnel(r) \/ AnswerUpgrade(r)
    BY <1>1, Reaching
  <2>2. req[r].at \in {"dial", "send", "write", "head"}
    BY <2>1 DEF Deliver, DialledTunnel, AnswerUpgrade, AnswerUnfit, Go
  <2>3. Decided(r)
    BY <1>1 DEF IInv, Decisions
  <2> QED
    BY <2>2, <2>3 DEF Decided, DecidedAt, Holds, Admitted
<1>2. IInv /\ [Next]_vars
        => [\A r \in Reqs : (sent'[r] /\ ~sent[r]) \/ (tunnel'[r] = "pending" /\ tunnel[r] = None)
                              => ByInference(r) \/ Admitted(r)]_vars
  BY <1>1 DEF Reaches
<1> QED
  BY <1>2, Inductive, PTL DEF Spec, CurrentPolicy

----------------------------------------------------------------------------
(* The pipeline as an audited gateway. What the gateway is told are the    *)
(* requests the rules admit; what it shows are the target, the log, the    *)
(* client's answer and the tunnel, so that most steps show nothing.        *)

LEMMA Watched ==
  ASSUME IInv
  PROVE  /\ sent \in [Reqs -> BOOLEAN]
         /\ entry \in [Reqs -> {None, "allow", "deny"}]
         /\ reply \in [Reqs -> {None, "passed", "cancelled"} \cup Blocked]
         /\ tunnel \in [Reqs -> {None, "pending", "open"}]
BY DEF IInv, TypeOK

\* Nobody outside notices: no client goes away.
LEMMA Unnoticed ==
  ASSUME IInv, UNCHANGED outcome
  PROVE  Gateway!GatewayStep
<1>1. /\ reply' = [r \in Reqs |-> IF r \in {} THEN "cancelled" ELSE reply[r]]
      /\ tunnel' = [r \in Reqs |-> IF r \in {} THEN "none" ELSE tunnel[r]]
  BY Watched DEF outcome
<1>2. Gateway!Abandon({}, {})
  BY <1>1 DEF Gateway!Abandon, outcome
<1> QED
  BY <1>2 DEF Gateway!GatewayStep

\* On the way to its target a request is permitted and unanswered.
LEMMA OnItsWay ==
  ASSUME IInv, NEW r \in Reqs, req[r].at \in {"dial", "send", "write", "await", "head"}
  PROVE  /\ r \in Permitted /\ reply[r] = None
         /\ sent[r] <=> req[r].at \in {"await", "head"}
<1>1. Decided(r) /\ OutcomeOf(r)
  BY DEF IInv, Decisions, Outcomes
<1>2. ByInference(r) \/ Admitted(r)
  BY <1>1 DEF Decided, DecidedAt, Holds, Admitted
<1> QED
  BY <1>1, <1>2 DEF Permitted, OutcomeOf, Handling

\* A task returns, or a stream is reset: what was unanswered is cancelled.
LEMMA GoingAway ==
  ASSUME IInv, NEW A \in SUBSET Reqs,
         reply' = [r \in Reqs |-> IF r \in A /\ reply[r] = None THEN "cancelled" ELSE reply[r]],
         tunnel' = [r \in Reqs |-> IF r \in A /\ tunnel[r] = "pending" THEN None ELSE tunnel[r]],
         UNCHANGED <<sent, entry>>
  PROVE  Gateway!GatewayStep
<1> DEFINE R == {r \in A : reply[r] = None}
           T == {r \in A : tunnel[r] = "pending"}
<1>1. Gateway!Abandon(R, T)
  BY DEF Gateway!Abandon, Gateway!Unanswered, None
<1>2. R \in SUBSET Reqs /\ T \in SUBSET Reqs
  OBVIOUS
<1> HIDE DEF R, T
<1> QED
  BY <1>1, <1>2 DEF Gateway!GatewayStep

LEMMA BlockRefines ==
  ASSUME IInv, NEW r \in Reqs, NEW status \in Blocked, Block(r, status), req[r].at \in Handling,
         \/ entry' = entry /\ status # "403"
         \/ entry' = [entry EXCEPT ![r] = Audited("deny")] /\ req[r].at \notin {"await", "head"}
  PROVE  Gateway!GatewayStep
<1>1. OutcomeOf(r)
  BY DEF IInv, Outcomes
<1>2. reply[r] = None /\ entry[r] = None
  BY <1>1 DEF OutcomeOf
<1>3. reply' = [reply EXCEPT ![r] = status] /\ UNCHANGED <<sent, tunnel>>
  BY DEF Block
<1>4. PICK action \in {"none", "deny"} :
        /\ entry' = [entry EXCEPT ![r] = action]
        /\ status = "403" \/ action = "deny" => ~sent[r]
  <2>1. CASE entry' = [entry EXCEPT ![r] = Audited("deny")] /\ req[r].at \notin {"await", "head"}
    BY <1>1, <1>2, <2>1 DEF Audited, OutcomeOf, None
  <2>2. CASE entry' = entry /\ status # "403"
    <3>1. entry' = [entry EXCEPT ![r] = "none"]
      BY <1>2, <2>2, Watched DEF None
    <3> QED
      BY <2>2, <3>1
  <2> QED
    BY <2>1, <2>2
<1>5. Gateway!Refuse(r, status, action)
  BY <1>2, <1>3, <1>4 DEF Gateway!Refuse, Gateway!Unanswered, None
<1> QED
  BY <1>4, <1>5 DEF Gateway!GatewayStep

LEMMA PassRefines ==
  ASSUME IInv, NEW r \in Reqs, NEW next, NEW tun \in {None, "pending"}, Pass(r, next, tun),
         req[r].at \in {"dial", "await", "head"}, tun = None => req[r].at # "dial"
  PROVE  Gateway!GatewayStep
<1>1. CASE ~sinkUp
  <2>1. Block(r, "503") /\ entry' = entry
    BY <1>1 DEF Pass, Fail
  <2> QED
    BY <2>1, BlockRefines DEF Blocked, Handling
<1>2. CASE sinkUp
  <2>1. /\ entry' = [entry EXCEPT ![r] = "allow"] /\ reply' = [reply EXCEPT ![r] = "passed"]
        /\ tunnel' = [tunnel EXCEPT ![r] = tun] /\ sent' = sent
    BY <1>2 DEF Pass
  <2>2. Gateway!Pass(r, tun)
    BY <2>1, OnItsWay DEF Gateway!Pass, Gateway!Unanswered, None
  <2> QED
    BY <2>2 DEF Gateway!GatewayStep, None
<1> QED
  BY <1>1, <1>2

LEMMA UnfitRefines ==
  ASSUME IInv, NEW r \in Reqs, AnswerUnfit(r)
  PROVE  Gateway!GatewayStep
<1>1. /\ entry' = [entry EXCEPT ![r] = "allow"] /\ reply' = [reply EXCEPT ![r] = "502"]
      /\ UNCHANGED <<sent, tunnel>>
  BY DEF AnswerUnfit, Block
<1>2. req[r].at = "head" /\ OutcomeOf(r)
  BY DEF AnswerUnfit, IInv, Outcomes
<1>3. sent[r]
  BY <1>2 DEF OutcomeOf, Handling
<1>4. Gateway!Spoil(r, "502")
  BY <1>1, <1>2, <1>3, OnItsWay DEF Gateway!Spoil, Gateway!Unanswered, None
<1> QED
  BY <1>4 DEF Gateway!GatewayStep, Blocked

\* What hyper, the clients and the accept loop do to a connection.
LEMMA ConnStepsRefine ==
  ASSUME IInv, NEW c \in Conns,
         ConnNext(c) \/ Accept(c) \/ AcceptFails(c) \/ TakePermit(c)
  PROVE  Gateway!GatewayStep
<1>1. CASE End(c)
  <2>1. On(c) \in SUBSET Reqs
    BY DEF On
  <2>2. /\ reply' = [r \in Reqs |-> IF r \in On(c) /\ reply[r] = None THEN "cancelled" ELSE reply[r]]
        /\ tunnel' = [r \in Reqs |-> IF r \in On(c) /\ tunnel[r] = "pending" THEN None
                                     ELSE tunnel[r]]
        /\ UNCHANGED <<sent, entry>>
    BY <1>1 DEF End
  <2> QED
    BY <2>1, <2>2, GoingAway
<1>2. CASE ~End(c)
  <2>1. UNCHANGED outcome
    BY <1>2 DEF ConnNext, Connect, Accept, AcceptFails, TakePermit, SniffHttp, SniffTls,
                SniffRejected, HandshakeOk, HandshakeFails, Leave, Close
  <2> QED
    BY <2>1, Unnoticed
<1> QED
  BY <1>1, <1>2

\* What the handler of a request and its deadlines do.
LEMMA HandlerStepsRefine ==
  ASSUME IInv, NEW r \in Reqs, Computes(r) \/ Expires(r)
  PROVE  Gateway!GatewayStep
<1>1. CASE CollectFails(r) \/ TargetFails(r)
  <2>1. PICK status \in {"502", "503"} : Block(r, status) /\ entry' = entry
    BY <1>1 DEF CollectFails, TargetFails, Fail
  <2>2. req[r].at \in Handling
    BY <1>1 DEF CollectFails, TargetFails, Handling
  <2> QED
    BY <2>1, <2>2, BlockRefines DEF Blocked
<1>2. CASE \/ Hostless(r) \/ RouteBlock(r) \/ NotConfigured(r) \/ BinaryUnknown(r)
           \/ ResolveFails(r) \/ Refused(r) \/ DialFails(r)
  <2>1. \E status \in Blocked : Deny(r, status)
    BY <1>2 DEF Hostless, RouteBlock, NotConfigured, BinaryUnknown, ResolveFails, Refused, DialFails,
                Blocked
  <2>2. PICK status \in Blocked : Block(r, status) /\ entry' = [entry EXCEPT ![r] = Audited("deny")]
    BY <2>1 DEF Deny
  <2>3. req[r].at \in Handling \ {"await", "head"}
    BY <1>2 DEF Hostless, RouteBlock, NotConfigured, BinaryUnknown, ResolveFails, Refused, DialFails,
                Handling
  <2> QED
    BY <2>2, <2>3, BlockRefines
<1>3. CASE Dispatch(r) \/ Lookup(r) \/ Allowed(r) \/ RouteForward(r)
  BY <1>3, Unnoticed DEF Dispatch, Lookup, Allowed, RouteForward
<1> QED
  BY <1>1, <1>2, <1>3 DEF Computes, Expires

\* What the client and the target bring about, and the upgrade of a connection.
LEMMA ArrivalsRefine ==
  ASSUME IInv, NEW r \in Reqs, Arrives(r) \/ HandOver(r)
  PROVE  Gateway!GatewayStep
<1>1. CASE Arrive(r) \/ CollectBody(r) \/ Resolved(r) \/ Dialled(r) \/ Relayed(r)
  BY <1>1, Unnoticed DEF Arrive, CollectBody, Resolved, Dialled, Relayed
<1>2. CASE DialledTunnel(r) \/ Answer(r) \/ AnswerUpgrade(r)
  <2>1. req[r].at \in {"dial", "await", "head"}
    BY <1>2 DEF DialledTunnel, Answer, AnswerUpgrade, AnswerUnfit
  <2>2. \/ Pass(r, "handover", "pending") \/ (Pass(r, "relay", None) /\ req[r].at # "dial")
        \/ AnswerUnfit(r)
    BY <1>2 DEF DialledTunnel, Answer, AnswerUpgrade
  <2>3. CASE Pass(r, "handover", "pending")
    BY <2>1, <2>3, PassRefines DEF None
  <2>4. CASE Pass(r, "relay", None) /\ req[r].at # "dial"
    BY <2>1, <2>4, PassRefines
  <2>5. CASE AnswerUnfit(r)
    BY <2>5, UnfitRefines
  <2> QED
    BY <2>2, <2>3, <2>4, <2>5
<1>3. CASE Deliver(r)
  <2>1. /\ req[r].at \in {"send", "write"} /\ sent' = [sent EXCEPT ![r] = TRUE]
        /\ UNCHANGED <<entry, reply, tunnel>>
    BY <1>3 DEF Deliver, Go
  <2>2. Gateway!Deliver(r)
    BY <2>1, OnItsWay DEF Gateway!Deliver, Gateway!Unanswered, None
  <2> QED
    BY <2>2 DEF Gateway!GatewayStep
<1>4. CASE HandOver(r)
  <2>1. OutcomeOf(r) /\ req[r].at = "handover"
    BY <1>4 DEF IInv, Outcomes, HandOver
  <2>2. tunnel[r] = "pending"
    BY <2>1 DEF OutcomeOf
  <2>3. Gateway!Stream(r, "pending", "open")
    BY <1>4, <2>2 DEF HandOver, Gateway!Stream
  <2> QED
    BY <2>3 DEF Gateway!GatewayStep
<1>5. CASE TunnelEnds(r)
  <2>1. Gateway!Stream(r, "open", "none")
    BY <1>5 DEF TunnelEnds, Gateway!Stream, None
  <2> QED
    BY <2>1 DEF Gateway!GatewayStep
<1>6. CASE Reset(r)
  <2>1. /\ reply' = [reply EXCEPT ![r] = IF reply[r] = None THEN "cancelled" ELSE reply[r]]
        /\ tunnel' = [tunnel EXCEPT ![r] = IF tunnel[r] = "pending" THEN None ELSE tunnel[r]]
        /\ UNCHANGED <<sent, entry>>
    BY <1>6 DEF Reset
  <2>2. /\ reply' = [q \in Reqs |-> IF q \in {r} /\ reply[q] = None THEN "cancelled" ELSE reply[q]]
        /\ tunnel' = [q \in Reqs |-> IF q \in {r} /\ tunnel[q] = "pending" THEN None ELSE tunnel[q]]
    BY <2>1, Watched
  <2>3. {r} \in SUBSET Reqs
    OBVIOUS
  <2> HIDE DEF outcome
  <2> QED
    BY <2>1, <2>2, <2>3, GoingAway
<1> QED
  BY <1>1, <1>2, <1>3, <1>4, <1>5, <1>6 DEF Arrives

LEMMA GatewayStepRefines ==
  ASSUME IInv, Next
  PROVE  Gateway!GatewayNext
<1>1. ASSUME NEW c \in Conns, ConnNext(c) \/ Accept(c) \/ AcceptFails(c) \/ TakePermit(c)
      PROVE  Gateway!GatewayStep
  BY <1>1, ConnStepsRefine
<1>2. ASSUME NEW r \in Reqs, Computes(r) \/ Expires(r) \/ Arrives(r) \/ HandOver(r)
      PROVE  Gateway!GatewayStep
  BY <1>2, HandlerStepsRefine, ArrivalsRefine
<1>3. ASSUME SinkChanges
             \/ \E k \in Containers : SetCa(k) \/ \E cfg \in MaybeConfig : SetConfig(k, cfg)
      PROVE  Gateway!GatewayStep
  BY <1>3, Unnoticed DEF SinkChanges, SetCa, SetConfig
<1>4. Gateway!GatewayStep
  BY <1>1, <1>2, <1>3 DEF Next, AcceptNext
<1>5. Permitted' \in SUBSET Reqs
  BY DEF Permitted
<1> QED
  BY <1>4, <1>5 DEF Gateway!GatewayNext, Gateway!Judged

\* Whatever the connections, handlers and deadlines do, targets, clients and the log see what an
\* audited gateway does.
THEOREM GatewayRefined == Spec => ImplementsGateway
<1>1. Init => Gateway!GatewayInit
  BY DEF Init, Gateway!GatewayInit, Permitted, NoReq, None
<1>2. IInv /\ [Next]_vars => [Gateway!GatewayNext]_<<Permitted, sent, entry, reply, tunnel>>
  <2> SUFFICES ASSUME IInv, [Next]_vars
               PROVE  Gateway!GatewayNext \/ UNCHANGED <<Permitted, sent, entry, reply, tunnel>>
    OBVIOUS
  <2>1. CASE UNCHANGED vars
    BY <2>1 DEF vars, Permitted, ByInference, Admitted
  <2>2. CASE Next
    BY <2>2, GatewayStepRefines
  <2> QED
    BY <2>1, <2>2
<1> QED
  BY Inductive, <1>1, <1>2, PTL DEF Spec, ImplementsGateway, Gateway!GatewaySpec, Gateway!gateway
================================================================================
