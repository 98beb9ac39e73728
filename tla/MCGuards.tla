------------------------------ MODULE MCGuards ------------------------------
(***************************************************************************)
(* For TLC: how a policy reaches a container's calls (the controller and   *)
(* its watcher, the hooks in the kernel, the table of connections, the log *)
(* of events); what certificates are made of and worth (the material of    *)
(* the TLS endpoint, the ring); and the launcher.  They share no state     *)
(* here, for what the controller stores is one of the policies the hooks   *)
(* are tried with; so one moves while the others are at rest: the run has  *)
(* every behaviour of each, and none of their product.                     *)
(***************************************************************************)
EXTENDS MCPolicyControl, MCKernel, FlowLookup, SecurityLog, MCMaterial, MCLauncher

MCFlowConns == {[family |-> 4, addr |-> 1, port |-> 1], [family |-> 6, addr |-> 1, port |-> 1]}
MCRings == <<"network", "filesystem">>

ControlRests == Init /\ \A p \in Paths : file[p] = Absent
KernelRests == kerCase = NoCase /\ kerTexts = NoCase
FlowRests == flowPhase = "down" /\ flowCount = 0 /\ flowProxy = "down"
LogRests == /\ \A r \in DOMAIN evtCount : evtCount[r] = 0
            /\ \A w \in DOMAIN evtWriter : evtWriter[w] = "rest"
            /\ evtFile = <<>> /\ evtObject = 1
MaterialRests == matNow = 0 /\ matDisk = FirstCase /\ matEndpoint = <<>> /\ matStatus = <<>>
RingRests == ringNow = 0 /\ ringMade = {} /\ ringAnswer = <<>> /\ \A n \in RingNodes : ringPlugin[n] = <<>>

-----------------------------------------------------------------------------
KernelSide == <<kerVars, flowVars, evtVars>>
PeerSide == <<matVars, ringVars, lauVars>>
KernelSideRests == KernelRests /\ FlowRests /\ LogRests
PeerSideRests == MaterialRests /\ RingRests /\ LaunchInit

KernelSideNext ==
  \/ FlowRests /\ LogRests /\ KernelNext /\ UNCHANGED <<flowVars, evtVars>>
  \/ KernelRests /\ LogRests /\ FlowNext /\ UNCHANGED <<kerVars, evtVars>>
  \/ KernelRests /\ FlowRests /\ LogNext /\ UNCHANGED <<kerVars, flowVars>>

PeerSideNext ==
  \/ RingRests /\ LaunchInit /\ MaterialNext /\ UNCHANGED <<ringVars, lauVars>>
  \/ MaterialRests /\ LaunchInit /\ RingNext /\ UNCHANGED <<matVars, lauVars>>
  \/ MaterialRests /\ RingRests /\ LaunchNext /\ UNCHANGED <<matVars, ringVars>>

GuardsInit ==
  Init /\ KernelInit /\ FlowInit /\ LogInit /\ MaterialInit /\ RingInit /\ LaunchInit

GuardsNext ==
  \/ KernelSideRests /\ PeerSideRests /\ Next /\ UNCHANGED <<KernelSide, PeerSide>>
  \/ ControlRests /\ PeerSideRests /\ KernelSideNext /\ UNCHANGED <<vars, PeerSide>>
  \/ ControlRests /\ KernelSideRests /\ PeerSideNext /\ UNCHANGED <<vars, KernelSide>>

GuardsSpec == GuardsInit /\ [][GuardsNext]_<<vars, KernelSide, PeerSide>>
=============================================================================
