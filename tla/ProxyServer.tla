------------------------------ MODULE ProxyServer ------------------------------
(***************************************************************************)
(* The forwarding proxy of agentsandbox (proxy/src/server): the accept     *)
(* loop and its permits, the sniffing and TLS termination of a connection, *)
(* and the handling of every request: inference route or filter, target    *)
(* connection, audit, answer, tunnel.                                      *)
(*                                                                         *)
(* A request is its form (plain, upgrade or CONNECT) and its target, the   *)
(* domain and path the filter decides on; what the rules of a filter       *)
(* configuration say of a target is given by Denied. Certificates are the  *)
(* subject of CertService: here a container has a CA or not.               *)
(***************************************************************************)
EXTENDS Integers, FiniteSets

CONSTANTS
  MaxConns,         \* Bound on the connections, numbered in the order they come.
  MaxReqs,          \* Bound on the requests of all connections, numbered likewise.
  Permits,          \* Permits of the semaphore: 16 in the code.
  Containers,       \* Containers the resolver can tell.
  Unresolved,       \* The identity "-" of a connection the resolver cannot tell.
  Configs,          \* Filter configurations.
  NoConfig,         \* The configuration of a container that has none.
  BinaryConfigs,    \* Those with a rule on the binary.
  IpConfigs,        \* Those with a rule on the address of the target.
  Targets,          \* Targets of a request.
  NoTarget,         \* The target of a request without Host.
  InferenceTargets, \* Those listed in inference_routes.
  Denied,           \* The pairs <<configuration, target>> the filter denies.
  StalledTargets,   \* Targets that may stop reading.
  MaxUpdates        \* Bound on the changes of configurations and of the sink.

ASSUME PermitsAssumption == Permits \in Nat \ {0}
ASSUME BoundsAssumption == MaxConns \in Nat /\ MaxReqs \in Nat
ASSUME NamesAssumption ==
  /\ Unresolved \notin Containers
  /\ NoConfig \notin Configs
  /\ NoTarget \notin Targets
ASSUME SubsetsAssumption ==
  /\ BinaryConfigs \subseteq Configs /\ IpConfigs \subseteq Configs
  /\ InferenceTargets \subseteq Targets /\ StalledTargets \subseteq Targets
  /\ Denied \subseteq Configs \X Targets
  /\ MaxUpdates \in Nat

VARIABLES
  permits,   \* Permits left in the semaphore.
  acceptor,  \* The connection the accept loop holds while it waits for a permit.
  conn,      \* conn[c]: the task of a connection and what it found out.
  req,       \* req[r]: where the handling of a request is, and its local variables.
  configs,   \* The registry: container -> configuration or NoConfig.
  cas,       \* The containers with a CA.
  sinkUp,    \* The integrator's log sink is registered and accepts entries.
  sent,      \* sent[r]: bytes of the request were given to the target.
  entry,     \* entry[r]: the action in the audit entry the sink accepted.
  reply,     \* reply[r]: what the client was answered.
  tunnel,    \* tunnel[r]: the task that relays an upgraded request, while there is one.
  inForce,   \* History: the configurations in force since the request came, until its lookup.
  updates    \* The number of changes so far.

vars == <<permits, acceptor, conn, req, configs, cas, sinkUp, sent, entry, reply,
          tunnel, inForce, updates>>

connVars == <<permits, acceptor, conn>>
outcome == <<sent, entry, reply, tunnel>>
world == <<configs, cas, sinkUp, updates>>

Conns == 1 .. MaxConns
Reqs == 1 .. MaxReqs
NoConn == 0
None == "none"
Kinds == {"plain", "upgrade", "connect"}
Served == {"sniff", "handshake", "serving", "closing"}
ConnStates == {"out", "backlog", "accepted", "closed"} \cup Served
\* The states of a request being handled; "relay" and "handover" come after the answer.
Handling == {"arrived", "lookup", "resolve", "evaluate", "collect", "route", "dial", "send",
             "await", "write", "head"}
Blocked == {"403", "502", "503"}
MaybeConfig == Configs \cup {NoConfig}

NewConn == [at |-> "out", id |-> Unresolved, bin |-> FALSE, tls |-> FALSE, h2 |-> FALSE]
NoReq == [at |-> "idle", on |-> NoConn, kind |-> "plain", target |-> NoTarget, config |-> NoConfig]

ConnType == [at : ConnStates, id : Containers \cup {Unresolved}, bin : BOOLEAN, tls : BOOLEAN,
             h2 : BOOLEAN]
ReqType == [at : Handling \cup {"idle", "relay", "handover"}, on : Conns \cup {NoConn},
            kind : Kinds, target : Targets \cup {NoTarget}, config : MaybeConfig]

TypeOK ==
  /\ permits \in 0 .. Permits
  /\ acceptor \in Conns \cup {NoConn}
  /\ conn \in [Conns -> ConnType]
  /\ req \in [Reqs -> ReqType]
  /\ configs \in [Containers -> MaybeConfig]
  /\ cas \subseteq Containers
  /\ sinkUp \in BOOLEAN
  /\ sent \in [Reqs -> BOOLEAN]
  /\ entry \in [Reqs -> {None, "allow", "deny"}]
  /\ reply \in [Reqs -> {None, "passed", "cancelled"} \cup Blocked]
  /\ tunnel \in [Reqs -> {None, "pending", "open"}]
  /\ inForce \in [Reqs -> SUBSET MaybeConfig]
  /\ updates \in 0 .. MaxUpdates

\* The integrator may have set configurations, CAs and the sink before proxy_init.
Init ==
  /\ permits = Permits
  /\ acceptor = NoConn
  /\ conn = [c \in Conns |-> NewConn]
  /\ req = [r \in Reqs |-> NoReq]
  /\ configs \in [Containers -> MaybeConfig]
  /\ cas \in SUBSET Containers
  /\ sinkUp \in BOOLEAN
  /\ sent = [r \in Reqs |-> FALSE]
  /\ entry = [r \in Reqs |-> None]
  /\ reply = [r \in Reqs |-> None]
  /\ tunnel = [r \in Reqs |-> None]
  /\ inForce = [r \in Reqs |-> {}]
  /\ updates = 0

----------------------------------------------------------------------------
(* Connections.                                                            *)

On(c) == {r \in Reqs : req[r].on = c}

Move(c, from, to) == conn[c].at = from /\ conn' = [conn EXCEPT ![c].at = to]

Connect(c) ==
  /\ \A d \in 1 .. c - 1 : conn[d].at # "out"
  /\ Move(c, "out", "backlog")
  /\ UNCHANGED <<permits, acceptor, req, inForce>> /\ UNCHANGED world /\ UNCHANGED outcome

\* accept() returns before there is a permit; the loop waits with the connection in hand.
Accept(c) ==
  /\ acceptor = NoConn
  /\ acceptor' = c
  /\ Move(c, "backlog", "accepted")
  /\ UNCHANGED <<permits, req, inForce>> /\ UNCHANGED world /\ UNCHANGED outcome

\* Mutant: the loop returns, rather than continues, when accept() fails.
AcceptFailsForGood(c) ==
  /\ acceptor = NoConn
  /\ acceptor' = c
  /\ Move(c, "backlog", "closed")
  /\ UNCHANGED <<permits, req, inForce>> /\ UNCHANGED world /\ UNCHANGED outcome

\* accept() or local_addr() fails: the connection is dropped and the loop continues.
AcceptFails(c) ==
  /\ acceptor = NoConn
  /\ Move(c, "backlog", "closed")
  /\ UNCHANGED <<permits, acceptor, req, inForce>> /\ UNCHANGED world /\ UNCHANGED outcome

\* The task owns the permit, and asks the resolver once for all requests of the connection.
TakePermit(c) ==
  /\ acceptor = c /\ conn[c].at = "accepted"
  /\ permits > 0
  /\ permits' = permits - 1
  /\ acceptor' = NoConn
  /\ \E id \in Containers \cup {Unresolved}, bin \in BOOLEAN :
       /\ id = Unresolved => ~bin
       /\ conn' = [conn EXCEPT ![c] = [@ EXCEPT !.at = "sniff", !.id = id, !.bin = bin]]
  /\ UNCHANGED <<req, inForce>> /\ UNCHANGED world /\ UNCHANGED outcome

\* The task returns and drops the connection and the permit: the handlers of its requests
\* are cancelled wherever they are, and an upgrade that waits for the client fails.
End(c) ==
  /\ conn' = [conn EXCEPT ![c] = [NewConn EXCEPT !.at = "closed"]]
  /\ permits' = permits + 1
  /\ req' = [r \in Reqs |-> IF r \in On(c) THEN NoReq ELSE req[r]]
  /\ reply' = [r \in Reqs |-> IF r \in On(c) /\ reply[r] = None THEN "cancelled" ELSE reply[r]]
  /\ tunnel' = [r \in Reqs |-> IF r \in On(c) /\ tunnel[r] = "pending" THEN None ELSE tunnel[r]]
  /\ inForce' = [r \in Reqs |-> IF r \in On(c) THEN {} ELSE inForce[r]]
  /\ UNCHANGED <<acceptor, sent, entry>> /\ UNCHANGED world

SniffHttp(c) ==
  /\ Move(c, "sniff", "serving")
  /\ UNCHANGED <<permits, acceptor, req, inForce>> /\ UNCHANGED world /\ UNCHANGED outcome

\* TLS is terminated with a certificate of the container's CA.
SniffTls(c) ==
  /\ conn[c].id \in cas
  /\ Move(c, "sniff", "handshake")
  /\ UNCHANGED <<permits, acceptor, req, inForce>> /\ UNCHANGED world /\ UNCHANGED outcome

\* Neither protocol, nothing in time, or TLS for a container without CA.
SniffRejected(c) == conn[c].at = "sniff" /\ End(c)

HandshakeOk(c) ==
  /\ conn[c].at = "handshake"
  /\ \E h2 \in BOOLEAN :
       conn' = [conn EXCEPT ![c] = [@ EXCEPT !.at = "serving", !.tls = TRUE, !.h2 = h2]]
  /\ UNCHANGED <<permits, acceptor, req, inForce>> /\ UNCHANGED world /\ UNCHANGED outcome

\* No SNI, no certificate, the client gave up, or the deadline passed.
HandshakeFails(c) == conn[c].at = "handshake" /\ End(c)

\* The client closes, or hyper ends the connection on an error.
Leave(c) == conn[c].at = "serving" /\ End(c)

\* After a blocking answer ("Connection: close") hyper ends an HTTP/1 connection.
Close(c) == conn[c].at = "closing" /\ End(c)

----------------------------------------------------------------------------
(* The end of a request.                                                   *)

Go(r, from, to) == req[r].at = from /\ req' = [req EXCEPT ![r].at = to]

\* audit(): what is in the log afterwards.
Audited(action) == IF sinkUp THEN action ELSE None

\* The client gets a blocking answer and the handler returns.
Block(r, status) ==
  /\ reply' = [reply EXCEPT ![r] = status]
  /\ req' = [req EXCEPT ![r] = NoReq]
  /\ inForce' = [inForce EXCEPT ![r] = {}]
  /\ conn' = IF conn[req[r].on].h2 THEN conn ELSE [conn EXCEPT ![req[r].on].at = "closing"]
  /\ UNCHANGED <<permits, acceptor, sent, tunnel>> /\ UNCHANGED world

\* audit_deny: the answer does not depend on the sink.
Deny(r, status) == Block(r, status) /\ entry' = [entry EXCEPT ![r] = Audited("deny")]

\* A failure that is logged but not audited.
Fail(r, status) == Block(r, status) /\ UNCHANGED entry

\* Mutant: audit_allow ignores the sink's error.
PassAnyway(r, next, tun) ==
  /\ entry' = [entry EXCEPT ![r] = Audited("allow")]
  /\ reply' = [reply EXCEPT ![r] = "passed"]
  /\ req' = [req EXCEPT ![r] = [@ EXCEPT !.at = next, !.config = NoConfig]]
  /\ tunnel' = [tunnel EXCEPT ![r] = tun]
  /\ UNCHANGED <<sent, inForce>> /\ UNCHANGED connVars /\ UNCHANGED world

\* audit_allow: without an accepted entry the client gets 503 and the target is dropped.
Pass(r, next, tun) ==
  IF sinkUp
  THEN /\ entry' = [entry EXCEPT ![r] = "allow"]
       /\ reply' = [reply EXCEPT ![r] = "passed"]
       /\ req' = [req EXCEPT ![r] = [@ EXCEPT !.at = next, !.config = NoConfig]]
       /\ tunnel' = [tunnel EXCEPT ![r] = tun]
       /\ UNCHANGED <<sent, inForce>> /\ UNCHANGED connVars /\ UNCHANGED world
  ELSE Fail(r, "503")

----------------------------------------------------------------------------
(* handle_request.                                                         *)

Busy(c) == \E r \in On(c) : req[r].at # "idle"

ConfigOf(id) == IF id \in Containers THEN configs[id] ELSE NoConfig

\* hyper calls the service: one request at a time on HTTP/1, any number on HTTP/2. The
\* domain of TLS is the SNI, so that only a plain-text request can lack one.
Arrive(r) ==
  /\ reply[r] = None /\ req[r].at = "idle"
  /\ \A q \in 1 .. r - 1 : reply[q] # None \/ req[q].at # "idle"
  /\ \E c \in Conns, kind \in Kinds, target \in Targets \cup {NoTarget} :
       /\ conn[c].at = "serving"
       /\ conn[c].h2 => kind # "upgrade"
       /\ ~conn[c].h2 => ~Busy(c)
       /\ target = NoTarget => ~conn[c].tls
       /\ req' = [req EXCEPT ![r] = [NoReq EXCEPT !.at = "arrived", !.on = c, !.kind = kind,
                                                   !.target = target]]
       /\ inForce' = [inForce EXCEPT ![r] = {ConfigOf(conn[c].id)}]
  /\ UNCHANGED connVars /\ UNCHANGED world /\ UNCHANGED outcome

Hostless(r) == req[r].at = "arrived" /\ req[r].target = NoTarget /\ Deny(r, "503")

ByInference(r) == req[r].target \in InferenceTargets /\ req[r].kind # "upgrade"

\* The target has an inference route (which bypasses the filter), or the filter decides.
Dispatch(r) ==
  /\ req[r].target # NoTarget
  /\ Go(r, "arrived", IF ~ByInference(r) THEN "lookup"
                      ELSE IF req[r].kind = "plain" THEN "collect" ELSE "route")
  /\ UNCHANGED inForce /\ UNCHANGED connVars /\ UNCHANGED world /\ UNCHANGED outcome

\* handle_inference reads the body under a deadline.
CollectBody(r) ==
  /\ Go(r, "collect", "route")
  /\ UNCHANGED inForce /\ UNCHANGED connVars /\ UNCHANGED world /\ UNCHANGED outcome

\* Mutant: the body is read without a deadline.
CollectForEver(r) == req[r].at = "collect" /\ UNCHANGED vars

CollectFails(r) == req[r].at = "collect" /\ Fail(r, "503")

\* The router forwards the request, changed or not, or blocks it, as when it fails.
RouteForward(r) ==
  /\ Go(r, "route", "dial")
  /\ UNCHANGED inForce /\ UNCHANGED connVars /\ UNCHANGED world /\ UNCHANGED outcome

RouteBlock(r) == req[r].at = "route" /\ Deny(r, "403")

\* The handler takes a copy of the container's configuration.
Lookup(r) ==
  /\ req[r].at = "lookup"
  /\ LET on == conn[req[r].on]
         cfg == ConfigOf(on.id)
     IN  /\ cfg # NoConfig
         /\ cfg \in BinaryConfigs => on.bin
         /\ req' = [req EXCEPT ![r] = [@ EXCEPT !.config = cfg,
                     !.at = IF cfg \in IpConfigs THEN "resolve" ELSE "evaluate"]]
  /\ UNCHANGED inForce /\ UNCHANGED connVars /\ UNCHANGED world /\ UNCHANGED outcome

NotConfigured(r) ==
  /\ req[r].at = "lookup"
  /\ ConfigOf(conn[req[r].on].id) = NoConfig
  /\ Deny(r, "503")

BinaryUnknown(r) ==
  /\ req[r].at = "lookup"
  /\ ConfigOf(conn[req[r].on].id) \in BinaryConfigs
  /\ ~conn[req[r].on].bin
  /\ Deny(r, "403")

Resolved(r) ==
  /\ Go(r, "resolve", "evaluate")
  /\ UNCHANGED inForce /\ UNCHANGED connVars /\ UNCHANGED world /\ UNCHANGED outcome

ResolveFails(r) == req[r].at = "resolve" /\ Deny(r, "502")

\* Mutant: an upgrade is handled before the filter is asked.
AllowedUpgrade(r) ==
  /\ req[r].kind = "upgrade" \/ <<req[r].config, req[r].target>> \notin Denied
  /\ Go(r, "evaluate", "dial")
  /\ UNCHANGED inForce /\ UNCHANGED connVars /\ UNCHANGED world /\ UNCHANGED outcome

Allowed(r) ==
  /\ <<req[r].config, req[r].target>> \notin Denied
  /\ Go(r, "evaluate", "dial")
  /\ UNCHANGED inForce /\ UNCHANGED connVars /\ UNCHANGED world /\ UNCHANGED outcome

Refused(r) ==
  /\ req[r].at = "evaluate"
  /\ <<req[r].config, req[r].target>> \in Denied
  /\ Deny(r, "403")

----------------------------------------------------------------------------
(* The target.                                                             *)

DialFails(r) == req[r].at = "dial" /\ Deny(r, "502")

\* forward_request and handle_upgrade have a connection to the target.
Dialled(r) ==
  /\ req[r].kind # "connect"
  /\ Go(r, "dial", IF req[r].kind = "upgrade" THEN "write" ELSE "send")
  /\ UNCHANGED inForce /\ UNCHANGED connVars /\ UNCHANGED world /\ UNCHANGED outcome

\* establish_connect_tunnel: audit, tunnel task, 200.
DialledTunnel(r) == req[r].at = "dial" /\ req[r].kind = "connect"
                    /\ Pass(r, "handover", "pending")

\* hyper's client, or write_upgrade_request, gives the request to the target.
Deliver(r) ==
  /\ \/ Go(r, "send", "await")
     \/ Go(r, "write", "head")
  /\ sent' = [sent EXCEPT ![r] = TRUE]
  /\ UNCHANGED <<entry, reply, tunnel, inForce>> /\ UNCHANGED connVars /\ UNCHANGED world

\* An error or the deadline, before or after the target got the request: 502, not audited.
TargetFails(r) == req[r].at \in {"send", "await", "write", "head"} /\ Fail(r, "502")

\* The target answers: audit, then the answer is streamed to the client.
Answer(r) == req[r].at = "await" /\ Pass(r, "relay", None)

\* build_upgrade_response takes head and leftover for header lines, and one that has no valid
\* name makes a 502 of the answer. By then the entry is in the log and the tunnel's task, to
\* which no client comes any more, is started.
AnswerUnfit(r) ==
  /\ req[r].at = "head" /\ sinkUp
  /\ Block(r, "502")
  /\ entry' = [entry EXCEPT ![r] = "allow"]

\* The target switches protocols, or refuses to: then only its head reaches the client and
\* the tunnel task, whose client never upgrades, ends.
AnswerUpgrade(r) ==
  \/ req[r].at = "head" /\ Pass(r, "handover", "pending")
  \/ req[r].at = "head" /\ Pass(r, "relay", None)
  \/ AnswerUnfit(r)

\* The end of the answer's body.
Relayed(r) ==
  /\ req[r].at = "relay"
  /\ req' = [req EXCEPT ![r] = NoReq]
  /\ inForce' = [inForce EXCEPT ![r] = {}]
  /\ UNCHANGED connVars /\ UNCHANGED world /\ UNCHANGED outcome

\* Mutant: the task of an upgraded connection never drops its permit.
HandOverKeepsPermit(r) ==
  LET c == req[r].on
  IN  /\ req[r].at = "handover"
      /\ tunnel' = [tunnel EXCEPT ![r] = "open"]
      /\ req' = [req EXCEPT ![r] = NoReq]
      /\ inForce' = [inForce EXCEPT ![r] = {}]
      /\ conn' = IF conn[c].h2 THEN conn ELSE [conn EXCEPT ![c] = [NewConn EXCEPT !.at = "closed"]]
      /\ UNCHANGED <<permits, acceptor, sent, entry, reply>> /\ UNCHANGED world

\* hyper hands the client's stream to the tunnel task; on HTTP/1 that is the connection, so
\* that its task returns, with the permit.
HandOver(r) ==
  LET c == req[r].on
  IN  /\ req[r].at = "handover"
      /\ tunnel' = [tunnel EXCEPT ![r] = "open"]
      /\ req' = [req EXCEPT ![r] = NoReq]
      /\ inForce' = [inForce EXCEPT ![r] = {}]
      /\ IF conn[c].h2
         THEN UNCHANGED <<permits, conn>>
         ELSE /\ permits' = permits + 1
              /\ conn' = [conn EXCEPT ![c] = [NewConn EXCEPT !.at = "closed"]]
      /\ UNCHANGED <<acceptor, sent, entry, reply>> /\ UNCHANGED world

TunnelEnds(r) ==
  /\ tunnel[r] = "open"
  /\ tunnel' = [tunnel EXCEPT ![r] = None]
  /\ UNCHANGED <<req, inForce, sent, entry, reply>> /\ UNCHANGED connVars /\ UNCHANGED world

\* Mutant: the handling is a task of its own, which outlives the stream.
ResetLeavesHandler(r) ==
  /\ req[r].at # "idle"
  /\ conn[req[r].on].h2
  /\ reply' = [reply EXCEPT ![r] = IF @ = None THEN "cancelled" ELSE @]
  /\ tunnel' = [tunnel EXCEPT ![r] = IF @ = "pending" THEN None ELSE @]
  /\ UNCHANGED <<req, inForce, sent, entry>> /\ UNCHANGED connVars /\ UNCHANGED world

\* The client resets one HTTP/2 stream: hyper drops its handler.
Reset(r) ==
  /\ req[r].at # "idle"
  /\ conn[req[r].on].h2
  /\ req' = [req EXCEPT ![r] = NoReq]
  /\ reply' = [reply EXCEPT ![r] = IF @ = None THEN "cancelled" ELSE @]
  /\ tunnel' = [tunnel EXCEPT ![r] = IF @ = "pending" THEN None ELSE @]
  /\ inForce' = [inForce EXCEPT ![r] = {}]
  /\ UNCHANGED <<sent, entry>> /\ UNCHANGED connVars /\ UNCHANGED world

----------------------------------------------------------------------------
(* The integrator: configurations, CAs and the sink change at any time.    *)

\* set_container_config (of a valid configuration) and remove_container_policy.
SetConfig(k, cfg) ==
  /\ updates < MaxUpdates
  /\ cfg # configs[k]
  /\ configs' = [configs EXCEPT ![k] = cfg]
  /\ updates' = updates + 1
  /\ inForce' = [r \in Reqs |->
       IF req[r].at \in {"arrived", "lookup"} /\ conn[req[r].on].id = k
       THEN inForce[r] \cup {cfg} ELSE inForce[r]]
  /\ UNCHANGED <<req, cas, sinkUp>> /\ UNCHANGED connVars /\ UNCHANGED outcome

SetCa(k) ==
  /\ k \notin cas
  /\ cas' = cas \cup {k}
  /\ UNCHANGED <<req, inForce, configs, sinkUp, updates>> /\ UNCHANGED connVars
  /\ UNCHANGED outcome

\* The sink is registered, fails, or recovers.
SinkChanges ==
  /\ updates < MaxUpdates
  /\ sinkUp' = ~sinkUp
  /\ updates' = updates + 1
  /\ UNCHANGED <<req, inForce, configs, cas>> /\ UNCHANGED connVars /\ UNCHANGED outcome

AcceptNext == \E c \in Conns : Accept(c) \/ AcceptFails(c) \/ TakePermit(c)

ConnNext(c) ==
  \/ Connect(c) \/ SniffHttp(c) \/ SniffTls(c) \/ SniffRejected(c)
  \/ HandshakeOk(c) \/ HandshakeFails(c) \/ Leave(c) \/ Close(c)

\* What the handler computes, and the router, which always returns.
Computes(r) ==
  \/ Hostless(r) \/ Dispatch(r)
  \/ Lookup(r) \/ NotConfigured(r) \/ BinaryUnknown(r) \/ Allowed(r) \/ Refused(r)
  \/ RouteForward(r) \/ RouteBlock(r)

\* What ends a wait at its deadline.
Expires(r) == CollectFails(r) \/ ResolveFails(r) \/ DialFails(r) \/ TargetFails(r)

\* What the client, the resolver and the target bring about.
Arrives(r) ==
  \/ Arrive(r) \/ CollectBody(r) \/ Resolved(r) \/ Dialled(r) \/ DialledTunnel(r)
  \/ Deliver(r) \/ Answer(r) \/ AnswerUpgrade(r) \/ Relayed(r)
  \/ TunnelEnds(r) \/ Reset(r)

Next ==
  \/ AcceptNext \/ SinkChanges
  \/ \E c \in Conns : ConnNext(c)
  \/ \E r \in Reqs : Computes(r) \/ Expires(r) \/ Arrives(r) \/ HandOver(r)
  \/ \E k \in Containers : SetCa(k) \/ \E cfg \in MaybeConfig : SetConfig(k, cfg)

Spec == Init /\ [][Next]_vars

\* write_upgrade_request has no deadline: it waits for a target that does not read.
Stuck(r) == req[r].at = "write" /\ req[r].target \in StalledTargets

\* What the proxy does by itself for a connection and for a request, sooner or later.
ConnDue(c) == SniffRejected(c) \/ HandshakeFails(c) \/ Close(c)

ReqDue(r) ==
  \/ Computes(r) \/ HandOver(r)
  \/ req[r].at # "write" /\ Expires(r)
  \/ ~Stuck(r) /\ req[r].at = "write" /\ Deliver(r)

(***************************************************************************)
(* tokio polls what is ready and fires what is due: the loop, the handlers *)
(* between two waits, and every deadline. A head written to a target that  *)
(* reads is delivered. Clients, targets, the integrator and the body of an *)
(* answer are bound to nothing.                                            *)
(***************************************************************************)
Fairness ==
  /\ WF_vars(AcceptNext)
  /\ \A c \in Conns : WF_vars(ConnDue(c))
  /\ \A r \in Reqs : WF_vars(ReqDue(r))

FairSpec == Spec /\ Fairness

----------------------------------------------------------------------------
(* Properties.                                                             *)

\* A permit is held by exactly one task of a connection, and comes back on every way out of
\* it: rejected protocols, failed handshakes, cancelled requests, upgrades.
PermitAccounting == permits + Cardinality({c \in Conns : conn[c].at \in Served}) = Permits

\* The target's answer, or a tunnel, reaches the client only after the sink accepted an allow
\* entry. The log may claim more: of an upgrade whose answer cannot be put together after
\* its entry is written the client gets a 502 (server/mod.rs:1620). The target had it then.
PassedIsAudited ==
  \A r \in Reqs :
    /\ reply[r] = "passed" => entry[r] = "allow"
    /\ entry[r] = "allow" => reply[r] = "passed" \/ (reply[r] = "502" /\ sent[r])

\* 403 tells the client that policy refused the request: the target never saw it.
ForbiddenIsUntouched ==
  \A r \in Reqs : reply[r] = "403" => ~sent[r] /\ tunnel[r] = None

\* What the client is told agrees with what the log and the target have got, whichever of
\* the sink, the target and the client fails between those steps.
RepliesAreTrue == PassedIsAudited /\ ForbiddenIsUntouched

\* A request the filter has to admit.
Admitted(r) ==
  \E cfg \in inForce[r] \ {NoConfig} :
    /\ <<cfg, req[r].target>> \notin Denied
    /\ cfg \in BinaryConfigs => conn[req[r].on].bin

\* Bytes reach a target, and a tunnel begins, only for an inference route or under a
\* configuration that was in force between the request's arrival and its lookup: neither a
\* removed configuration nor one of an earlier request of the connection admits it.
CurrentPolicy ==
  [][\A r \in Reqs :
       (sent'[r] /\ ~sent[r]) \/ (tunnel'[r] = "pending" /\ tunnel[r] = None)
         => ByInference(r) \/ Admitted(r)]_vars

\* The requests on their way that an inference route or a configuration in force admits.
Permitted == {r \in Reqs : req[r].at # "idle" /\ (ByInference(r) \/ Admitted(r))}

Gateway == INSTANCE AuditedGateway
  WITH Requests <- Reqs, Refusals <- Blocked, Forbidden <- "403", permitted <- Permitted

\* The pipeline implements AuditedGateway: however connections end, requests are reset, targets
\* fail and the sink and the rules change, each step a target, a client or the log notices is one
\* of an audited gateway (server/mod.rs, logging/mod.rs).
ImplementsGateway == Gateway!GatewaySpec

\* A connection gets through sniffing and the handshake or gives its permit back, and every
\* request is answered or given up, whatever the client, the resolver, the router and the
\* target do: each wait has a deadline, but for the one of a stuck upgrade.
DeadlinesHold ==
  /\ \A c \in Conns : conn[c].at \in {"sniff", "handshake"} ~> conn[c].at \in {"serving", "closed"}
  /\ \A r \in Reqs : req[r].at \in Handling ~> (req[r].at \notin Handling \/ Stuck(r))

\* A connection the kernel accepted is taken up, provided permits come back again and again.
WaitersServed ==
  \A c \in Conns : []<>(permits > 0) => (conn[c].at \in {"backlog", "accepted"}
                                           ~> conn[c].at \notin {"backlog", "accepted"})

(***************************************************************************)
(* proxy/src/logging/mod.rs:26: when the sink refuses the entry the        *)
(* pipeline closes the connection, so that no unaudited traffic passes; a  *)
(* block that is not audited is one where no traffic passed                *)
(* (server/mod.rs:740). So of a blocked request that the target got there  *)
(* is an entry.                                                            *)
(***************************************************************************)
TrafficIsAudited == \A r \in Reqs : reply[r] \in Blocked /\ sent[r] => entry[r] # None

================================================================================
