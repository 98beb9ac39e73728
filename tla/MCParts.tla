------------------------------- MODULE MCParts -------------------------------
(***************************************************************************)
(* For TLC: the parts of the proxy process beside the request pipeline,    *)
(* and a session of the vsock server.  They share no state with one        *)
(* another, so a part moves while the others are still at rest: the run    *)
(* has every behaviour of every part, and none of their product.           *)
(***************************************************************************)
EXTENDS MCAgent, MCInference, Session

MCSesRequests ==
  {[type |-> 16, version |-> 900, body |-> <<701, 702>>],
   [type |-> 18, version |-> 900, body |-> <<>>],
   [type |-> 99, version |-> 900, body |-> <<703>>],
   [type |-> 16, version |-> 800, body |-> <<701>>],
   [type |-> 16, version |-> 900, body |-> <<701, 702, 703>>]}

SessionRests == sesAsked = <<>> /\ sesIdle = 0 /\ sesOpen

-----------------------------------------------------------------------------
PartsInit == AgentInit /\ LibraryInit /\ SessionInit

PartsNext ==
  \/ LibraryRests /\ SessionRests /\ AgentNext /\ UNCHANGED <<LibraryVars, sesVars>>
  \/ AgentRests /\ SessionRests /\ LibraryNext /\ UNCHANGED <<AgentVars, sesVars>>
  \/ AgentRests /\ LibraryRests /\ SessionNext /\ UNCHANGED <<AgentVars, LibraryVars>>

PartsSpec ==
  /\ PartsInit /\ [][PartsNext]_<<AgentVars, LibraryVars, sesVars>>
  /\ TunnelFairness
=============================================================================
