------------------------------ MODULE FlowLookup ------------------------------
(***************************************************************************)
(* From a connection to the container that made it: the controller loads   *)
(* the programs and pins the map of its sockops program                    *)
(* (security/src/ebpf/mod.rs), the kernel writes every connection into it  *)
(* (bpf/sockops.bpf.c), and tasks of the proxy process look connections up *)
(* through a cached handle (proxy_proc/src/ebpf_resolver.rs).              *)
(***************************************************************************)
EXTENDS Integers, Sequences, FiniteSets, SequencesExt

CONSTANTS
  FlowConns,      \* connections: [family, addr, port], towards the proxy
  FlowCgroups, FlowTasks,
  FlowRoom,       \* entries of cgroup_lookup_map
  MaxMaps,        \* controllers started, each with a map of its own
  MaxFlows        \* connections made

ASSUME FlowAssumption == FlowRoom \in Nat \ {0} /\ MaxMaps \in Nat /\ MaxFlows \in Nat

VARIABLES
  flowPhase, flowObjects,   \* the controller, and the objects it has attached
  flowCount, flowMaps,      \* maps made so far, and what each holds: kernel maps outlive their maker
  flowPin,                  \* the map at CGROUP_LOOKUP_MAP_PIN_PATH
  flowProxy, flowSlot,      \* the proxy process and its lookup_map
  flowTask,
  flowMakers                \* who made a connection, in order (history)

flowVars == <<flowPhase, flowObjects, flowCount, flowMaps, flowPin, flowProxy, flowSlot, flowTask, flowMakers>>
ctlVars == <<flowPhase, flowObjects, flowCount, flowMaps, flowPin>>
proxyVars == <<flowProxy, flowSlot, flowTask>>

Programs == <<"network", "sockops", "filesystem", "capability">>
FlowMapOf(n) == flowMaps[n]

\* The addresses' bytes are filled up with zeros: only the family tells the two kinds apart.
FlowKey(conn) == conn

LookupInMap(n, key) ==
  LET hits == {e \in FlowMapOf(n) : e.key = key}
  IN IF hits = {} THEN <<>> ELSE <<(CHOOSE e \in hits : TRUE).cgroup>>

\* A task that looks up.  "since", "written" and "fresh" say what its answer is worth (history): who
\* made the connection last, whether the answer came from the map that was written then, and
\* whether the connection had to be found.
Resting ==
  [pc |-> "rest", conn |-> <<>>, map |-> <<>>, answer |-> <<>>, since |-> {}, written |-> FALSE, fresh |-> FALSE]

FlowInit ==
  /\ flowPhase = "down" /\ flowObjects = <<>> /\ flowCount = 0
  /\ flowMaps = [n \in 1..MaxMaps |-> {}]
  /\ flowPin = <<>> /\ flowProxy = "down" /\ flowSlot = <<>>
  /\ flowTask = [t \in FlowTasks |-> Resting]
  /\ flowMakers = [c \in FlowConns |-> <<>>]

\* What a lookup could count on when it began holds no more.
NoLongerFresh(S) ==
  flowTask' = [t \in FlowTasks |-> IF flowTask[t].conn \in S THEN [flowTask[t] EXCEPT !.fresh = FALSE] ELSE flowTask[t]]

-----------------------------------------------------------------------------
\* load_programs
LoadBegins ==
  /\ flowPhase = "down" /\ flowCount < MaxMaps
  /\ flowPhase' = "loading" /\ flowObjects' = <<>>
  /\ UNCHANGED <<flowCount, flowMaps, flowPin, proxyVars, flowMakers>>

LoadObject ==
  /\ flowPhase = "loading" /\ Len(flowObjects) < Len(Programs)
  /\ LET name == Programs[Len(flowObjects) + 1]
     IN /\ flowObjects' = Append(flowObjects, name)
        /\ flowPhase' = IF name = "sockops" THEN "pinning" ELSE "loading"
        /\ flowCount' = IF name = "sockops" THEN flowCount + 1 ELSE flowCount
  /\ UNCHANGED <<flowMaps, flowPin, proxyVars, flowMakers>>

RemovePin ==
  /\ flowPhase = "pinning"
  /\ flowPhase' = "removed" /\ flowPin' = <<>>
  /\ NoLongerFresh(FlowConns)
  /\ UNCHANGED <<flowObjects, flowCount, flowMaps, flowProxy, flowSlot, flowMakers>>

\* The directory cannot be made, or the map not pinned: the load goes on.
PinMap ==
  /\ flowPhase = "removed"
  /\ flowPhase' = "loading" /\ flowPin' \in {<<>>, <<flowCount>>}
  /\ UNCHANGED <<flowObjects, flowCount, flowMaps, proxyVars, flowMakers>>

LoadEnds ==
  /\ flowPhase = "loading" /\ flowObjects = Programs
  /\ flowPhase' = "up"
  /\ UNCHANGED <<flowObjects, flowCount, flowMaps, flowPin, proxyVars, flowMakers>>

\* A step of the load fails, unload_programs, or the process ends.  Its map lives on while it is
\* pinned or held open.
Unload ==
  /\ flowPhase # "down"
  /\ flowPhase' = "down" /\ flowObjects' = <<>>
  /\ NoLongerFresh(FlowConns)
  /\ UNCHANGED <<flowCount, flowMaps, flowPin, flowProxy, flowSlot, flowMakers>>

-----------------------------------------------------------------------------
RecordFlow(key, cgroup, entries) ==
  {e \in entries : e.key # key} \cup {[key |-> key, cgroup |-> cgroup]}

Attached == Contains(flowObjects, "sockops")
IsWritten(m) == Attached /\ m = <<flowCount>>
Recorded(conn, cgroup) ==
  IF Attached THEN [flowMaps EXCEPT ![flowCount] = RecordFlow(FlowKey(conn), cgroup, FlowMapOf(flowCount))] ELSE flowMaps

\* A container's connect succeeds (handle_sockops), with a port no open connection has.
Connect(conn, cgroup) ==
  /\ flowProxy = "up" /\ \A t \in FlowTasks : flowTask[t].conn # conn \/ flowTask[t].pc \in {"rest", "done"}
  /\ FoldFunction(LAMBDA s, n : Len(s) + n, 0, flowMakers) < MaxFlows
  /\ flowMaps' = Recorded(conn, cgroup)
  /\ Attached => Cardinality(flowMaps'[flowCount]) <= FlowRoom
  /\ flowMakers' = [flowMakers EXCEPT ![conn] = Append(@, cgroup)]
  /\ UNCHANGED <<flowPhase, flowObjects, flowCount, flowPin, proxyVars>>

\* The full map loses an entry to make room (BPF_MAP_TYPE_LRU_HASH), about the one used least lately.
Evict ==
  /\ flowCount > 0 /\ Cardinality(FlowMapOf(flowCount)) = FlowRoom
  /\ \E e \in FlowMapOf(flowCount) :
       /\ flowMaps' = [flowMaps EXCEPT ![flowCount] = @ \ {e}]
       /\ NoLongerFresh({c \in FlowConns : FlowKey(c) = e.key})
  /\ UNCHANGED <<flowPhase, flowObjects, flowCount, flowPin, flowProxy, flowSlot, flowMakers>>

-----------------------------------------------------------------------------
\* proxy_proc/src/main.rs: the pin is opened at the start when it is there already.
ProxyStarts ==
  /\ flowProxy = "down" /\ flowProxy' = "up" /\ flowSlot' = flowPin
  /\ UNCHANGED <<ctlVars, flowTask, flowMakers>>

Answered(t, answer, written) ==
  flowTask' = [flowTask EXCEPT ![t].pc = "done", ![t].answer = answer, ![t].map = <<>>, ![t].written = written]

\* The connection is in the map that is pinned and written, and no other container ever had it.
Countable(conn) ==
  /\ Attached /\ flowPin = <<flowCount>>
  /\ LookupInMap(flowCount, FlowKey(conn)) # <<>> /\ Cardinality(ToSet(flowMakers[conn])) = 1

\* lookup_cgroup_by_flow: first the map at hand, under its lock.
LookCached(t, conn) ==
  /\ flowProxy = "up" /\ flowTask[t].pc \in {"rest", "done"} /\ flowMakers[conn] # <<>>
  /\ LET hit == IF flowSlot = <<>> THEN <<>> ELSE LookupInMap(flowSlot[1], FlowKey(conn))
     IN flowTask' = [flowTask EXCEPT ![t] =
          [pc |-> IF hit = <<>> THEN "missed" ELSE "done", conn |-> conn, map |-> <<>>, answer |-> hit,
           since |-> {Last(flowMakers[conn])}, written |-> hit # <<>> /\ IsWritten(flowSlot), fresh |-> Countable(conn)]]
  /\ UNCHANGED <<ctlVars, flowProxy, flowSlot, flowMakers>>

\* Mutant: the pin is opened only while there is no map at hand.
OpenPinOnce(t) ==
  /\ flowTask[t].pc = "missed"
  /\ IF flowPin = <<>> \/ flowSlot # <<>> THEN Answered(t, <<>>, FALSE)
     ELSE flowTask' = [flowTask EXCEPT ![t].pc = "opened", ![t].map = flowPin]
  /\ UNCHANGED <<ctlVars, flowProxy, flowSlot, flowMakers>>

\* The proxy has loaded no program of its own: without a pin there is nothing left to ask.
OpenPin(t) ==
  /\ flowTask[t].pc = "missed"
  /\ IF flowPin = <<>> THEN Answered(t, <<>>, FALSE)
     ELSE flowTask' = [flowTask EXCEPT ![t].pc = "opened", ![t].map = flowPin]
  /\ UNCHANGED <<ctlVars, flowProxy, flowSlot, flowMakers>>

Refresh(t) ==
  /\ flowTask[t].pc = "opened"
  /\ Answered(t, LookupInMap(flowTask[t].map[1], FlowKey(flowTask[t].conn)), IsWritten(flowTask[t].map))
  /\ flowSlot' = flowTask[t].map
  /\ UNCHANGED <<ctlVars, flowProxy, flowMakers>>

FlowNext ==
  \/ LoadBegins \/ LoadObject \/ RemovePin \/ PinMap \/ LoadEnds \/ Unload
  \/ \E c \in FlowConns, g \in FlowCgroups : Connect(c, g)
  \/ Evict \/ ProxyStarts
  \/ \E t \in FlowTasks : OpenPin(t) \/ Refresh(t) \/ \E c \in FlowConns : LookCached(t, c)

FlowSpec == FlowInit /\ [][FlowNext]_flowVars

-----------------------------------------------------------------------------
\* Every variable keeps its type, no map holds two entries for one key, and nothing stays attached
\* when the programs are unloaded.
FlowTypeOK ==
  /\ flowPhase \in {"down", "loading", "pinning", "removed", "up"} /\ IsPrefix(flowObjects, Programs)
  /\ flowPhase = "down" => flowObjects = <<>>
  /\ flowCount \in 0..MaxMaps
  /\ \A n \in 1..MaxMaps : /\ Cardinality(FlowMapOf(n)) <= FlowRoom
                           /\ Cardinality({e.key : e \in FlowMapOf(n)}) = Cardinality(FlowMapOf(n))
  /\ \A m \in {flowPin, flowSlot} : m = <<>> \/ m[1] \in 1..flowCount
  /\ flowProxy \in {"down", "up"}
  /\ \A t \in FlowTasks : flowTask[t].pc \in {"rest", "missed", "opened", "done"}

Done(t) == flowTask[t].pc = "done" /\ flowTask[t].answer # <<>>

\* Whatever map answers, of this controller or of an earlier one, a connection is attributed only
\* to a container that made, then or before, a connection with these very ends (record_flow,
\* build_flow_key, lookup_cgroup_by_flow).  It may be a former one: see LatestMakerWins.
AnswersOnlyMakers ==
  \A t \in FlowTasks : Done(t) => flowTask[t].answer[1] \in ToSet(flowMakers[flowTask[t].conn])

\* An answer from the map the attached program writes names the last container that made the
\* connection, also when a port comes again and the controller was restarted.  The answer of a map
\* an earlier controller left, which the proxy asks first and believes, may name a container that
\* had the port before (lookup_cgroup_by_flow, handle_sockops).
LatestMakerWins ==
  \A t \in FlowTasks : Done(t) /\ flowTask[t].written => flowTask[t].answer[1] \in flowTask[t].since

\* A connection with ends no other container had before, that is in the pinned map when its lookup
\* begins and stays there, is found, whichever map the other tasks left at hand and however often
\* the controller was restarted (lookup_cgroup_by_flow "self-heals": after a miss only).
FreshFlowResolves ==
  \A t \in FlowTasks :
    flowTask[t].pc = "done" /\ flowTask[t].fresh => flowTask[t].answer = <<flowMakers[flowTask[t].conn][1]>>

\* A controller that is up has its own map pinned or none: never one that nobody writes
\* (pin_lookup_map "Any stale pin left by a previous process is removed first").
PinIsOurs == flowPhase = "up" => flowPin \in {<<>>, <<flowCount>>}

\* In every order of loads, restarts and look-ups a connection is attributed to none or to a container
\* that had its ends, to the last one when the answer is of the map being written, and one whose
\* ends are new is found (security/src/ebpf/mod.rs, proxy_proc/src/ebpf_resolver.rs).
FlowsFindTheirMakers ==
  FlowTypeOK /\ AnswersOnlyMakers /\ LatestMakerWins /\ FreshFlowResolves /\ PinIsOurs
=============================================================================
