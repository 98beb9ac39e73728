---------------------------- MODULE AuditedGateway ----------------------------
(***************************************************************************)
(* What the forwarding proxy promises of every request, whatever the       *)
(* handlers, connections and deadlines behind it do: the target sees a     *)
(* request only while the rules admit it; the client has the target's      *)
(* answer, or a tunnel, only together with the audit entry that says so;   *)
(* an entry that says so without an answer is that of a request the target *)
(* got, whose answer could not be handed on; a request is answered once,   *)
(* and nothing reaches its target afterwards; what is refused by policy,   *)
(* or audited as refused, was never delivered.                             *)
(***************************************************************************)
CONSTANTS
  Requests,
  Refusals,     \* The statuses of a blocking answer.
  Forbidden     \* The one that says that policy refused.

VARIABLES
  permitted,    \* The requests that rules in force since they came admit: an input.
  sent,         \* The target has the request.
  entry,        \* The entry in the audit log: none, allow or deny.
  reply,        \* none, passed, cancelled or a refusal.
  tunnel        \* The client's stream is the target's: none, pending or open.

gateway == <<permitted, sent, entry, reply, tunnel>>

GatewayInit ==
  /\ permitted = {}
  /\ sent = [r \in Requests |-> FALSE]
  /\ entry = [r \in Requests |-> "none"]
  /\ reply = [r \in Requests |-> "none"]
  /\ tunnel = [r \in Requests |-> "none"]

Unanswered(r) == reply[r] = "none"

Deliver(r) ==
  /\ Unanswered(r) /\ ~sent[r] /\ r \in permitted
  /\ sent' = [sent EXCEPT ![r] = TRUE]
  /\ UNCHANGED <<entry, reply, tunnel>>

\* The answer of a target that has the request, or a tunnel to it.
Pass(r, stream) ==
  /\ Unanswered(r) /\ r \in permitted
  /\ stream = "none" => sent[r]
  /\ entry' = [entry EXCEPT ![r] = "allow"]
  /\ reply' = [reply EXCEPT ![r] = "passed"]
  /\ tunnel' = [tunnel EXCEPT ![r] = stream]
  /\ UNCHANGED sent

\* The target's answer is audited as passed, and is then unfit for the client.
Spoil(r, status) ==
  /\ Unanswered(r) /\ r \in permitted /\ sent[r] /\ status # Forbidden
  /\ entry' = [entry EXCEPT ![r] = "allow"]
  /\ reply' = [reply EXCEPT ![r] = status]
  /\ UNCHANGED <<sent, tunnel>>

\* The entry may be lost with the sink, and is missing when the target failed.
Refuse(r, status, action) ==
  /\ Unanswered(r)
  /\ status = Forbidden \/ action = "deny" => ~sent[r]
  /\ entry' = [entry EXCEPT ![r] = action]
  /\ reply' = [reply EXCEPT ![r] = status]
  /\ UNCHANGED <<sent, tunnel>>

\* Clients go away, with all they asked for and all the streams they did not take up.
Abandon(R, T) ==
  /\ \A r \in R : Unanswered(r)
  /\ \A r \in T : tunnel[r] = "pending"
  /\ reply' = [r \in Requests |-> IF r \in R THEN "cancelled" ELSE reply[r]]
  /\ tunnel' = [r \in Requests |-> IF r \in T THEN "none" ELSE tunnel[r]]
  /\ UNCHANGED <<sent, entry>>

Stream(r, from, to) ==
  /\ tunnel[r] = from /\ tunnel' = [tunnel EXCEPT ![r] = to]
  /\ UNCHANGED <<sent, entry, reply>>

\* Rules change, and requests come and go, at any time.
Judged == permitted' \in SUBSET Requests

GatewayStep ==
  \/ \E r \in Requests :
       \/ Deliver(r)
       \/ \E stream \in {"none", "pending"} : Pass(r, stream)
       \/ \E status \in Refusals, action \in {"none", "deny"} : Refuse(r, status, action)
       \/ \E status \in Refusals : Spoil(r, status)
       \/ Stream(r, "pending", "open") \/ Stream(r, "open", "none")
  \/ \E R, T \in SUBSET Requests : Abandon(R, T)

GatewayNext == Judged /\ GatewayStep

GatewaySpec == GatewayInit /\ [][GatewayNext]_gateway
===============================================================================
