----------------------------- MODULE BoundedService -----------------------------
(***************************************************************************)
(* What the vsock transport promises its clients, whatever the tasks and   *)
(* threads behind it do: at most Limit of them are inside at a time, a     *)
(* client that left never comes back on the same connection, and once the  *)
(* service closes nobody starts another request: the work in hand ends.    *)
(***************************************************************************)
EXTENDS Integers, FiniteSets

CONSTANTS Clients, Limit

VARIABLES
  status,  \* Where each client stands.
  closed   \* The service was asked to stop.

BoundedServiceTypeOK ==
  /\ status \in [Clients -> {"outside", "admitted", "busy", "gone"}]
  /\ closed \in BOOLEAN

Inside == {c \in Clients : status[c] \in {"admitted", "busy"}}

ServiceInit ==
  /\ status = [c \in Clients |-> "outside"]
  /\ closed = FALSE

Become(c, s) == status' = [status EXCEPT ![c] = s] /\ UNCHANGED closed

Admit(c) == status[c] = "outside" /\ Cardinality(Inside) < Limit /\ Become(c, "admitted")

BeginRequest(c) == status[c] = "admitted" /\ ~closed /\ Become(c, "busy")

EndRequest(c) == status[c] = "busy" /\ Become(c, "admitted")

Leave(c) == status[c] = "admitted" /\ Become(c, "gone")

\* Clients that never got in are turned away, several at a time when the listening socket closes.
TurnAway(S) ==
  /\ S \subseteq {c \in Clients : status[c] = "outside"}
  /\ status' = [c \in Clients |-> IF c \in S THEN "gone" ELSE status[c]]
  /\ UNCHANGED closed

Close == closed' = TRUE /\ UNCHANGED status

ServiceNext ==
  \/ \E c \in Clients : Admit(c) \/ BeginRequest(c) \/ EndRequest(c) \/ Leave(c)
  \/ \E S \in SUBSET Clients : TurnAway(S)
  \/ Close

ServiceSpec == ServiceInit /\ [][ServiceNext]_<<status, closed>>
================================================================================
