----------------------------- MODULE GuardProofs -----------------------------
(***************************************************************************)
(* Proofs about what guards a container's calls: the table of connections  *)
(* (FlowLookup), the log of the programs' events (SecurityLog), the TLS    *)
(* material (CertMaterial) and the trust ring's signatures (Trustring);    *)
(* and, at the end, about the machine they run in (Launcher).  The parts   *)
(* share no state but the clock of files' certificates; each has its own   *)
(* inductive invariant.                                                    *)
(***************************************************************************)
EXTENDS FlowLookup, SecurityLog, Trustring, Launcher, FiniteSetTheorems, SequenceTheorems, WellFoundedInduction, TLAPS

(***************************************************************************)
(* FlowLookup, for any connections, containers, tasks, room in the maps    *)
(* and number of controllers: a connection is attributed to one that made  *)
(* it, the last of them under one controller, and is found while it stays  *)
(* in the pinned map.                                                      *)
(***************************************************************************)
Maybe(S) == {<<>>} \cup {<<x>> : x \in S}

\* How far the load is, and what a map and a task hold.
Stages ==
  {<<>>, <<"network">>, <<"network", "sockops">>, <<"network", "sockops", "filesystem">>, Programs}
Flow == [key : FlowConns, cgroup : FlowCgroups]
Lookup ==
  [pc : {"rest", "missed", "opened", "done"}, conn : FlowConns \cup {<<>>}, map : Maybe(1..flowCount),
   answer : Maybe(FlowCgroups), since : SUBSET FlowCgroups, written : BOOLEAN, fresh : BOOLEAN]

Types ==
  /\ flowPhase \in {"down", "loading", "pinning", "removed", "up"} /\ flowObjects \in Stages
  /\ flowCount \in 0..MaxMaps
  /\ flowMaps \in [1..MaxMaps -> SUBSET Flow]
  /\ flowPin \in Maybe(1..flowCount) /\ flowSlot \in Maybe(1..flowCount)
  /\ flowProxy \in {"down", "up"}
  /\ flowTask \in [FlowTasks -> Lookup]
  /\ flowMakers \in [FlowConns -> Seq(FlowCgroups)]

\* The phase says what is attached; the map that is pinned is the one that is written.
Loads ==
  /\ flowPhase = "down" => flowObjects = <<>>
  /\ flowPhase = "up" => flowObjects = Programs
  /\ flowPhase \in {"pinning", "removed"} => Attached
  /\ flowPhase = "loading" /\ ~Attached => flowCount < MaxMaps
  /\ Attached => flowCount >= 1
  /\ flowPhase = "removed" => flowPin = <<>>
  /\ Attached /\ flowPhase # "pinning" => flowPin \in {<<>>, <<flowCount>>}

\* A map has one entry for each key, and whom an entry names did make the connection.
MapsSound ==
  \A n \in 1..MaxMaps :
    /\ IsFiniteSet(flowMaps[n]) /\ Cardinality(flowMaps[n]) <= FlowRoom
    /\ \A e, f \in flowMaps[n] : e.key = f.key => e = f
    /\ \A e \in flowMaps[n] : e.cgroup \in ToSet(flowMakers[e.key])
    /\ n > flowCount => flowMaps[n] = {}

\* The map that is written has the last container that made a connection.
WrittenMapIsLatest ==
  Attached => \A e \in flowMaps[flowCount] : e.cgroup = Last(flowMakers[e.key])

\* One container made all of a connection's flows.
Sole(makers) == \A g \in ToSet(makers) : g = makers[1]

\* A look-up under way: nobody makes its connection meanwhile, and what made it fresh still holds.
UnderWay(t) ==
  flowTask[t].pc \in {"missed", "opened"} =>
    /\ flowTask[t].answer = <<>>
    /\ flowTask[t].since = {Last(flowMakers[flowTask[t].conn])}
    /\ flowTask[t].pc = "opened" => flowTask[t].map # <<>>
    /\ flowTask[t].fresh =>
         /\ Attached /\ flowPin = <<flowCount>> /\ Sole(flowMakers[flowTask[t].conn])
         /\ \E e \in flowMaps[flowCount] : e.key = flowTask[t].conn
         /\ flowTask[t].pc = "opened" => flowTask[t].map = <<flowCount>>

\* What an answer is worth, from then on.
AnswerSound(t) ==
  /\ flowTask[t].answer # <<>> =>
       /\ flowCount >= 1
       /\ flowTask[t].answer[1] \in ToSet(flowMakers[flowTask[t].conn])
       /\ flowTask[t].written => flowTask[t].answer[1] \in flowTask[t].since
  /\ flowTask[t].pc = "done" /\ flowTask[t].fresh =>
       flowTask[t].answer = <<flowMakers[flowTask[t].conn][1]>>

TaskSound(t) ==
  flowTask[t].pc # "rest" =>
    /\ flowTask[t].conn \in FlowConns /\ flowMakers[flowTask[t].conn] # <<>>
    /\ UnderWay(t) /\ AnswerSound(t)

IInv == Types /\ Loads /\ MapsSound /\ WrittenMapIsLatest /\ \A t \in FlowTasks : TaskSound(t)

----------------------------------------------------------------------------
(* Facts about the data.                                                   *)

\* A second object after the first.
LEMMA OneAndOne ==
  ASSUME NEW a, NEW z
  PROVE  Append(<<a>>, z) = <<a, z>>
<1> DEFINE S == {a, z}
           s == <<a>>
           t == <<a, z>>
<1>1. s \in Seq(S) /\ t \in Seq(S) /\ z \in S
  OBVIOUS
<1>2. Len(s) = 1 /\ s[1] = a
  OBVIOUS
<1>3. Len(t) = 2 /\ t[1] = a /\ t[2] = z
  OBVIOUS
<1> HIDE DEF S, s, t
<1>4. /\ Append(s, z) \in Seq(S) /\ Len(Append(s, z)) = Len(s) + 1
      /\ \A i \in 1 .. Len(s) : Append(s, z)[i] = s[i]
      /\ Append(s, z)[Len(s) + 1] = z
  BY <1>1, AppendProperties
<1>5. \A i \in 1 .. 2 : Append(s, z)[i] = t[i]
  BY <1>2, <1>3, <1>4
<1>6. Append(s, z) = t
  <2>1. Len(Append(s, z)) = 2
    BY <1>2, <1>4
  <2> QED
    BY <1>1, <1>3, <1>4, <1>5, <2>1, SeqEqual
<1> QED
  BY <1>6 DEF s, t

\* A third object.
LEMMA TwoAndOne ==
  ASSUME NEW a, NEW b, NEW z
  PROVE  Append(<<a, b>>, z) = <<a, b, z>>
<1> DEFINE S == {a, b, z}
           s == <<a, b>>
           t == <<a, b, z>>
<1>1. s \in Seq(S) /\ t \in Seq(S) /\ z \in S
  OBVIOUS
<1>2. Len(s) = 2 /\ s[1] = a /\ s[2] = b
  OBVIOUS
<1>3. Len(t) = 3 /\ t[1] = a /\ t[2] = b /\ t[3] = z
  OBVIOUS
<1> HIDE DEF S, s, t
<1>4. /\ Append(s, z) \in Seq(S) /\ Len(Append(s, z)) = Len(s) + 1
      /\ \A i \in 1 .. Len(s) : Append(s, z)[i] = s[i]
      /\ Append(s, z)[Len(s) + 1] = z
  BY <1>1, AppendProperties
<1>5. \A i \in 1 .. 3 : Append(s, z)[i] = t[i]
  BY <1>2, <1>3, <1>4
<1>6. Append(s, z) = t
  <2>1. Len(Append(s, z)) = 3
    BY <1>2, <1>4
  <2> QED
    BY <1>1, <1>3, <1>4, <1>5, <2>1, SeqEqual
<1> QED
  BY <1>6 DEF s, t

\* A fourth object.
LEMMA ThreeAndOne ==
  ASSUME NEW a, NEW b, NEW c, NEW z
  PROVE  Append(<<a, b, c>>, z) = <<a, b, c, z>>
<1> DEFINE S == {a, b, c, z}
           s == <<a, b, c>>
           t == <<a, b, c, z>>
<1>1. s \in Seq(S) /\ t \in Seq(S) /\ z \in S
  OBVIOUS
<1>2. Len(s) = 3 /\ s[1] = a /\ s[2] = b /\ s[3] = c
  OBVIOUS
<1>3. Len(t) = 4 /\ t[1] = a /\ t[2] = b /\ t[3] = c /\ t[4] = z
  OBVIOUS
<1> HIDE DEF S, s, t
<1>4. /\ Append(s, z) \in Seq(S) /\ Len(Append(s, z)) = Len(s) + 1
      /\ \A i \in 1 .. Len(s) : Append(s, z)[i] = s[i]
      /\ Append(s, z)[Len(s) + 1] = z
  BY <1>1, AppendProperties
<1>5. \A i \in 1 .. 4 : Append(s, z)[i] = t[i]
  BY <1>2, <1>3, <1>4
<1>6. Append(s, z) = t
  <2>1. Len(Append(s, z)) = 4
    BY <1>2, <1>4
  <2> QED
    BY <1>1, <1>3, <1>4, <1>5, <2>1, SeqEqual
<1> QED
  BY <1>6 DEF s, t

\* What is attached is told by the stage, and the objects come in the order of Programs.
LEMMA StageFacts ==
  ASSUME flowObjects \in Stages
  PROVE  /\ Attached <=> flowObjects \notin {<<>>, <<"network">>}
         /\ IsPrefix(flowObjects, Programs)
         /\ Len(flowObjects) < Len(Programs) =>
              /\ Append(flowObjects, Programs[Len(flowObjects) + 1]) \in Stages
              /\ Programs[Len(flowObjects) + 1] = "sockops" <=> flowObjects = <<"network">>
<1>1. Len(Programs) = 4 /\ Programs[1] = "network" /\ Programs[2] = "sockops"
      /\ Programs[3] = "filesystem" /\ Programs[4] = "capability"
  BY DEF Programs
<1>2. CASE flowObjects = <<>>
  <2>1. Len(flowObjects) = 0 /\ ~Attached
    BY <1>2 DEF Attached, Contains
  <2>2. Append(flowObjects, Programs[Len(flowObjects) + 1]) = <<"network">>
    BY <1>1, <1>2, <2>1
  <2>3. SubSeq(flowObjects, 1, 0) = <<>> /\ SubSeq(Programs, 1, 0) = <<>>
    BY SubSeqEmpty
  <2>4. IsPrefix(flowObjects, Programs)
    BY <1>1, <2>1, <2>3 DEF IsPrefix
  <2> QED
    BY <1>1, <1>2, <2>1, <2>2, <2>4 DEF Stages
<1>3. CASE flowObjects = <<"network">>
  <2>1. Len(flowObjects) = 1 /\ ~Attached
    BY <1>3 DEF Attached, Contains
  <2>2. Append(flowObjects, Programs[Len(flowObjects) + 1]) = <<"network", "sockops">>
    BY <1>1, <1>3, <2>1, OneAndOne
  <2>3. IsPrefix(flowObjects, Programs)
    BY <1>3, <2>1 DEF IsPrefix, Programs
  <2> QED
    BY <1>1, <1>3, <2>1, <2>2, <2>3 DEF Stages
<1>4. CASE flowObjects = <<"network", "sockops">>
  <2>1. Len(flowObjects) = 2 /\ Attached
    BY <1>4 DEF Attached, Contains
  <2>2. Append(flowObjects, Programs[Len(flowObjects) + 1]) = <<"network", "sockops", "filesystem">>
    BY <1>1, <1>4, <2>1, TwoAndOne
  <2>3. IsPrefix(flowObjects, Programs)
    BY <1>4, <2>1 DEF IsPrefix, Programs
  <2> QED
    BY <1>1, <1>4, <2>1, <2>2, <2>3 DEF Stages
<1>5. CASE flowObjects = <<"network", "sockops", "filesystem">>
  <2>1. Len(flowObjects) = 3 /\ Attached
    BY <1>5 DEF Attached, Contains
  <2>2. Append(flowObjects, Programs[Len(flowObjects) + 1]) = Programs
    BY <1>1, <1>5, <2>1, ThreeAndOne DEF Programs
  <2>3. IsPrefix(flowObjects, Programs)
    BY <1>5, <2>1 DEF IsPrefix, Programs
  <2> QED
    BY <1>1, <1>5, <2>1, <2>2, <2>3 DEF Stages
<1>6. CASE flowObjects = Programs
  BY <1>6 DEF Attached, Contains, IsPrefix, Programs, Stages
<1> QED
  BY <1>2, <1>3, <1>4, <1>5, <1>6 DEF Stages

\* The containers that made a connection, when one is added.
LEMMA MakersFacts ==
  ASSUME NEW S, NEW s \in Seq(S)
  PROVE  /\ ToSet(s) \subseteq S /\ IsFiniteSet(ToSet(s))
         /\ s # <<>> => s[1] \in ToSet(s) /\ Last(s) \in ToSet(s)
         /\ \A g \in S : /\ Append(s, g) \in Seq(S) /\ Append(s, g) # <<>>
                         /\ ToSet(Append(s, g)) = ToSet(s) \cup {g}
                         /\ Last(Append(s, g)) = g
                         /\ s # <<>> => Append(s, g)[1] = s[1]
<1>1. DOMAIN s = 1 .. Len(s) /\ Len(s) \in Nat /\ (s # <<>> => Len(s) >= 1)
  BY EmptySeq, LenProperties
<1>2. ToSet(s) \subseteq S
  BY <1>1 DEF ToSet
<1>3. IsFiniteSet(ToSet(s))
  <2>1. s \in Surjection(1 .. Len(s), ToSet(s))
    BY <1>1 DEF Surjection, ToSet
  <2>2. IsFiniteSet(1 .. Len(s))
    BY <1>1, FS_Interval
  <2> QED
    BY <2>1, <2>2, FS_Surjection
<1>4. s # <<>> => s[1] \in ToSet(s) /\ Last(s) \in ToSet(s)
  BY <1>1 DEF ToSet, Last
<1>5. ASSUME NEW g \in S
      PROVE  /\ Append(s, g) \in Seq(S) /\ Append(s, g) # <<>>
             /\ ToSet(Append(s, g)) = ToSet(s) \cup {g}
             /\ Last(Append(s, g)) = g
             /\ s # <<>> => Append(s, g)[1] = s[1]
  <2>1. /\ Append(s, g) \in Seq(S) /\ Append(s, g) # <<>> /\ Len(Append(s, g)) = Len(s) + 1
        /\ \A i \in 1 .. Len(s) : Append(s, g)[i] = s[i]
        /\ Append(s, g)[Len(s) + 1] = g
    BY AppendProperties
  <2>2. DOMAIN Append(s, g) = (1 .. Len(s)) \cup {Len(s) + 1}
    BY <1>1, <2>1, LenProperties
  <2>3. ToSet(Append(s, g)) = ToSet(s) \cup {g}
    BY <1>1, <2>1, <2>2 DEF ToSet
  <2> QED
    BY <1>1, <2>1, <2>3 DEF Last
<1> QED
  BY <1>2, <1>3, <1>4, <1>5

\* A set of one container: all that made the connection are its first.
LEMMA OneMaker ==
  ASSUME Types, NEW c \in FlowConns, flowMakers[c] # <<>>,
         Cardinality(ToSet(flowMakers[c])) = 1
  PROVE  Sole(flowMakers[c])
<1>1. flowMakers[c] \in Seq(FlowCgroups)
  BY DEF Types
<1>2. IsFiniteSet(ToSet(flowMakers[c])) /\ flowMakers[c][1] \in ToSet(flowMakers[c])
  BY <1>1, MakersFacts
<1>3. PICK x : ToSet(flowMakers[c]) = {x}
  BY <1>2, FS_Singleton
<1> QED
  BY <1>2, <1>3 DEF Sole

\* What a look-up finds is an entry of the map, and it finds one if there is one.
LEMMA LookupFound ==
  ASSUME NEW n, NEW key
  PROVE  \/ LookupInMap(n, key) = <<>> /\ \A e \in flowMaps[n] : e.key # key
         \/ \E e \in flowMaps[n] : e.key = key /\ LookupInMap(n, key) = <<e.cgroup>>
<1> DEFINE hits == {e \in flowMaps[n] : e.key = key}
<1>1. CASE hits = {}
  BY <1>1 DEF LookupInMap, FlowMapOf
<1>2. CASE hits # {}
  <2>1. (CHOOSE e \in hits : TRUE) \in hits
    BY <1>2
  <2>2. LookupInMap(n, key) = <<(CHOOSE e \in hits : TRUE).cgroup>>
    BY <1>2 DEF LookupInMap, FlowMapOf
  <2> QED
    BY <2>1, <2>2
<1> QED
  BY <1>1, <1>2

----------------------------------------------------------------------------
(* The invariant.                                                          *)

LEMMA InitInv == FlowInit => IInv
<1> SUFFICES ASSUME FlowInit PROVE IInv
  OBVIOUS
<1>1. Types
  <2>1. Resting \in Lookup
    BY DEF Resting, Lookup, Maybe
  <2>2. flowMakers \in [FlowConns -> Seq(FlowCgroups)] /\ <<>> \in Maybe(1..flowCount)
    BY DEF FlowInit, Maybe
  <2> QED
    BY <2>1, <2>2, FlowAssumption DEF FlowInit, Types, Stages
<1>2. Loads
  BY <1>1, StageFacts, FlowAssumption DEF FlowInit, Loads, Types
<1>3. MapsSound
  BY FS_EmptySet, FlowAssumption DEF FlowInit, MapsSound
<1>4. WrittenMapIsLatest /\ \A t \in FlowTasks : TaskSound(t)
  <2>1. ~Attached
    BY DEF FlowInit, Attached, Contains
  <2> QED
    BY <2>1 DEF FlowInit, WrittenMapIsLatest, TaskSound, Resting
<1> QED
  BY <1>1, <1>2, <1>3, <1>4 DEF IInv

\* A task that does nothing, but may lose what made it fresh, while the load goes on, maps are
\* written and connections are made.
LEMMA TaskKept ==
  ASSUME IInv, NEW t \in FlowTasks,
         flowTask'[t] = flowTask[t] \/ flowTask'[t] = [flowTask[t] EXCEPT !.fresh = FALSE],
         flowCount' \in Nat, flowCount' >= flowCount,
         flowTask[t].conn \in FlowConns =>
           /\ flowMakers'[flowTask[t].conn] # <<>> \/ flowMakers[flowTask[t].conn] = <<>>
           /\ ToSet(flowMakers[flowTask[t].conn]) \subseteq ToSet(flowMakers'[flowTask[t].conn])
           /\ flowMakers[flowTask[t].conn] # <<>> =>
                flowMakers'[flowTask[t].conn][1] = flowMakers[flowTask[t].conn][1]
           /\ flowTask[t].pc \in {"missed", "opened"} =>
                flowMakers'[flowTask[t].conn] = flowMakers[flowTask[t].conn],
         /\ flowTask[t].pc \in {"missed", "opened"} /\ flowTask'[t].fresh
         /\ Attached /\ flowPin = <<flowCount>>
         /\ \E e \in flowMaps[flowCount] : e.key = flowTask[t].conn
         => /\ Attached' /\ flowPin' = flowPin /\ flowCount' = flowCount
            /\ \E e \in flowMaps'[flowCount] : e.key = flowTask[t].conn
  PROVE  TaskSound(t)'
<1> DEFINE L == flowTask[t]
           K == flowTask'[t]
<1>1. /\ K.pc = L.pc /\ K.conn = L.conn /\ K.map = L.map /\ K.answer = L.answer
      /\ K.since = L.since /\ K.written = L.written /\ (K.fresh => L.fresh)
  BY DEF IInv, Types, Lookup
<1>2. flowCount \in Nat /\ L.pc \in {"rest", "missed", "opened", "done"}
  BY DEF IInv, Types, Lookup
<1>3. TaskSound(t)
  BY DEF IInv
<1> SUFFICES ASSUME L.pc # "rest"
             PROVE  L.conn \in FlowConns /\ flowMakers'[L.conn] # <<>>
                    /\ UnderWay(t)' /\ AnswerSound(t)'
  BY <1>1 DEF TaskSound
<1>4. /\ L.conn \in FlowConns /\ flowMakers[L.conn] # <<>> /\ flowMakers'[L.conn] # <<>>
      /\ UnderWay(t) /\ AnswerSound(t)
  BY <1>3 DEF TaskSound
<1>5. UnderWay(t)'
  <2> SUFFICES ASSUME L.pc \in {"missed", "opened"}
               PROVE  /\ K.answer = <<>> /\ K.since = {Last(flowMakers'[K.conn])}
                      /\ K.pc = "opened" => K.map # <<>>
                      /\ K.fresh => /\ Attached' /\ flowPin' = <<flowCount'>> /\ Sole(flowMakers'[K.conn])
                                    /\ \E e \in flowMaps'[flowCount'] : e.key = K.conn
                                    /\ K.pc = "opened" => K.map = <<flowCount'>>
    BY <1>1 DEF UnderWay
  <2>1. flowMakers'[L.conn] = flowMakers[L.conn]
    BY <1>4
  <2>2. flowMakers'[K.conn] = flowMakers[L.conn]
    BY <1>1, <2>1
  <2> QED
    BY <1>1, <1>4, <2>1, <2>2 DEF UnderWay
<1>6. AnswerSound(t)'
  BY <1>1, <1>2, <1>4 DEF AnswerSound
<1> QED
  BY <1>4, <1>5, <1>6

\* The maps are as they were: what is said of them stays true.
LEMMA MapsKept ==
  ASSUME IInv, UNCHANGED <<flowMaps, flowMakers>>, flowCount' \in Nat, flowCount' >= flowCount
  PROVE  MapsSound'
<1>1. flowCount \in Nat
  BY DEF IInv, Types
<1> QED
  BY <1>1 DEF IInv, MapsSound

\* Steps of the load that leave the tasks alone: something fresh is not under way when the pin
\* or the map that is written changes.
LEMMA LoadSteps ==
  ASSUME IInv, LoadBegins \/ LoadObject \/ PinMap \/ LoadEnds
  PROVE  IInv'
<1>1. UNCHANGED <<flowMaps, flowProxy, flowSlot, flowTask, flowMakers>>
  BY DEF LoadBegins, LoadObject, PinMap, LoadEnds, proxyVars
<1>2. flowObjects \in Stages /\ flowCount \in 0..MaxMaps /\ MaxMaps \in Nat
  BY FlowAssumption DEF IInv, Types
<1>3. Loads
  BY DEF IInv
<1>4. /\ flowPhase' \in {"down", "loading", "pinning", "removed", "up"} /\ flowObjects' \in Stages
      /\ flowCount' \in 0..MaxMaps /\ flowCount' >= flowCount /\ flowPin' \in Maybe(1..flowCount')
      /\ Loads'
      /\ Attached /\ flowPin = <<flowCount>> =>
           Attached' /\ flowPin' = flowPin /\ flowCount' = flowCount
      /\ Attached' => \/ flowCount' = flowCount + 1
                      \/ flowCount' = flowCount /\ Attached
  <2>1. flowPin \in Maybe(1..flowCount)
    BY DEF IInv, Types
  <2>2. Attached <=> flowObjects \notin {<<>>, <<"network">>}
    BY <1>2, StageFacts
  <2>3. ASSUME flowObjects' \in Stages PROVE Attached' <=> flowObjects' \notin {<<>>, <<"network">>}
    <3>1. CASE flowObjects' = <<>>
      BY <3>1 DEF Attached, Contains
    <3>2. CASE flowObjects' = <<"network">>
      BY <3>2 DEF Attached, Contains
    <3>3. CASE flowObjects' = <<"network", "sockops">>
      BY <3>3 DEF Attached, Contains
    <3>4. CASE flowObjects' = <<"network", "sockops", "filesystem">>
      BY <3>4 DEF Attached, Contains
    <3>5. CASE flowObjects' = Programs
      BY <3>5 DEF Attached, Contains, Programs
    <3> QED
      BY <2>3, <3>1, <3>2, <3>3, <3>4, <3>5 DEF Stages
  <2>4. CASE LoadBegins
    <3>1. /\ flowPhase = "down" /\ flowCount < MaxMaps /\ flowPhase' = "loading"
          /\ flowObjects' = <<>> /\ UNCHANGED <<flowCount, flowPin>>
      BY <2>4 DEF LoadBegins
    <3>2. ~Attached /\ flowObjects' \in Stages /\ ~Attached'
      BY <1>3, <2>2, <2>3, <3>1 DEF Loads, Stages
    <3> QED
      BY <1>2, <2>1, <3>1, <3>2 DEF Loads, Programs
  <2>5. CASE LoadObject
    <3>1. /\ flowPhase = "loading" /\ Len(flowObjects) < Len(Programs) /\ UNCHANGED flowPin
          /\ flowObjects' = Append(flowObjects, Programs[Len(flowObjects) + 1])
          /\ flowPhase' = IF Programs[Len(flowObjects) + 1] = "sockops" THEN "pinning" ELSE "loading"
          /\ flowCount' = IF Programs[Len(flowObjects) + 1] = "sockops" THEN flowCount + 1 ELSE flowCount
      BY <2>5 DEF LoadObject
    <3>2. flowObjects' \in Stages /\ (Programs[Len(flowObjects) + 1] = "sockops" <=> flowObjects = <<"network">>)
      BY <1>2, <3>1, StageFacts
    <3>3. CASE flowObjects = <<"network">>
      <4>1. flowPhase' = "pinning" /\ flowCount' = flowCount + 1 /\ ~Attached
        BY <2>2, <3>1, <3>2, <3>3
      <4>2. flowCount < MaxMaps
        BY <1>3, <3>1, <4>1 DEF Loads
      <4>3. flowObjects' = <<"network", "sockops">>
        <5>1. Len(flowObjects) + 1 = 2 /\ Programs[2] = "sockops"
          BY <3>3 DEF Programs
        <5>2. flowObjects' = Append(<<"network">>, "sockops")
          BY <3>1, <3>3, <5>1
        <5> QED
          BY <5>2, OneAndOne
      <4>4. Attached'
        BY <2>3, <3>2, <4>3
      <4>5. flowPin' \in Maybe(1..flowCount')
        BY <1>2, <2>1, <3>1, <4>1 DEF Maybe
      <4> QED
        BY <1>2, <3>1, <3>2, <4>1, <4>2, <4>4, <4>5 DEF Loads
    <3>4. CASE flowObjects # <<"network">>
      <4>1. flowPhase' = "loading" /\ flowCount' = flowCount
        BY <3>1, <3>2, <3>4
      <4>2. Attached' <=> Attached
        <5>1. CASE flowObjects = <<>>
          <6>1. flowObjects' = <<"network">>
            BY <3>1, <5>1 DEF Programs
          <6> QED
            BY <2>2, <2>3, <3>2, <5>1, <6>1
        <5>2. CASE flowObjects # <<>>
          <6>1. flowObjects' \notin {<<>>, <<"network">>}
            BY <1>2, <3>1, <3>4, <5>2 DEF Stages, Programs
          <6> QED
            BY <2>2, <2>3, <3>2, <3>4, <5>2, <6>1
        <5> QED
          BY <5>1, <5>2
      <4> QED
        BY <1>2, <1>3, <2>1, <3>1, <3>2, <4>1, <4>2 DEF Loads
    <3> QED
      BY <3>3, <3>4
  <2>6. CASE PinMap
    <3>1. /\ flowPhase = "removed" /\ flowPhase' = "loading" /\ flowPin' \in {<<>>, <<flowCount>>}
          /\ UNCHANGED <<flowObjects, flowCount>>
      BY <2>6 DEF PinMap
    <3>2. Attached /\ Attached' /\ flowPin = <<>> /\ flowCount >= 1
      BY <1>2, <1>3, <2>2, <2>3, <3>1 DEF Loads
    <3>3. flowPin' \in Maybe(1..flowCount')
      BY <1>2, <3>1, <3>2 DEF Maybe
    <3>4. flowPin # <<flowCount>>
      BY <3>2
    <3> QED
      BY <1>2, <3>1, <3>2, <3>3, <3>4 DEF Loads
  <2>7. CASE LoadEnds
    <3>1. /\ flowPhase = "loading" /\ flowObjects = Programs /\ flowPhase' = "up"
          /\ UNCHANGED <<flowObjects, flowCount, flowPin>>
      BY <2>7 DEF LoadEnds
    <3>2. Attached /\ Attached'
      BY <1>2, <2>2, <2>3, <3>1 DEF Programs
    <3> QED
      BY <1>2, <1>3, <2>1, <3>1, <3>2 DEF Loads
  <2> QED
    BY <2>4, <2>5, <2>6, <2>7
<1>5. Types'
  <2>1. flowSlot' \in Maybe(1..flowCount')
    BY <1>1, <1>2, <1>4 DEF IInv, Types, Maybe
  <2>2. flowTask' \in [FlowTasks -> Lookup']
    <3>1. Maybe(1..flowCount) \subseteq Maybe(1..flowCount')
      BY <1>2, <1>4 DEF Maybe
    <3> QED
      BY <1>1, <3>1 DEF IInv, Types, Lookup
  <2> QED
    BY <1>1, <1>4, <2>1, <2>2 DEF IInv, Types
<1>6. MapsSound'
  BY <1>1, <1>2, <1>4, MapsKept
<1>7. WrittenMapIsLatest'
  <2> SUFFICES ASSUME Attached'
               PROVE  \A e \in flowMaps'[flowCount'] : e.cgroup = Last(flowMakers'[e.key])
    BY DEF WrittenMapIsLatest
  <2>1. CASE flowCount' = flowCount + 1
    <3>1. flowCount' \in 1..MaxMaps /\ flowCount' > flowCount
      BY <1>2, <1>4, <2>1
    <3>2. flowMaps[flowCount'] = {}
      BY <3>1 DEF IInv, MapsSound
    <3> QED
      BY <1>1, <3>2
  <2>2. CASE flowCount' = flowCount /\ Attached
    BY <1>1, <2>2 DEF IInv, WrittenMapIsLatest
  <2> QED
    BY <1>4, <2>1, <2>2
<1>8. ASSUME NEW t \in FlowTasks PROVE TaskSound(t)'
  BY <1>1, <1>2, <1>4, TaskKept
<1> QED
  BY <1>4, <1>5, <1>6, <1>7, <1>8 DEF IInv

\* NoLongerFresh changes nothing else.
LEMMA FreshOnly ==
  ASSUME IInv, NEW S, NoLongerFresh(S), flowCount' = flowCount
  PROVE  /\ flowTask' \in [FlowTasks -> Lookup']
         /\ \A t \in FlowTasks :
              /\ flowTask'[t] = flowTask[t] \/ flowTask'[t] = [flowTask[t] EXCEPT !.fresh = FALSE]
              /\ flowTask[t].conn \in S => ~flowTask'[t].fresh
<1>1. flowTask \in [FlowTasks -> Lookup] /\ Lookup' = Lookup
  BY DEF IInv, Types, Lookup
<1>2. \A t \in FlowTasks :
        flowTask'[t] = IF flowTask[t].conn \in S THEN [flowTask[t] EXCEPT !.fresh = FALSE] ELSE flowTask[t]
  BY DEF NoLongerFresh
<1>3. ASSUME NEW L \in Lookup
      PROVE  [L EXCEPT !.fresh = FALSE] \in Lookup /\ ~[L EXCEPT !.fresh = FALSE].fresh
  BY DEF Lookup
<1>4. \A t \in FlowTasks : flowTask'[t] \in Lookup
  BY <1>1, <1>2, <1>3
<1>5. flowTask' \in [FlowTasks -> Lookup]
  BY <1>4 DEF NoLongerFresh
<1> QED
  BY <1>1, <1>2, <1>3, <1>5

\* The pin is removed, or the controller goes: nothing is fresh any more.
LEMMA PinGoes ==
  ASSUME IInv, RemovePin \/ Unload
  PROVE  IInv'
<1>1. /\ UNCHANGED <<flowCount, flowMaps, flowProxy, flowSlot, flowMakers>>
      /\ NoLongerFresh(FlowConns)
  BY DEF RemovePin, Unload
<1>2. /\ flowTask' \in [FlowTasks -> Lookup']
      /\ \A t \in FlowTasks :
           /\ flowTask'[t] = flowTask[t] \/ flowTask'[t] = [flowTask[t] EXCEPT !.fresh = FALSE]
           /\ flowTask[t].conn \in FlowConns => ~flowTask'[t].fresh
  BY <1>1, FreshOnly
<1>3. flowObjects \in Stages /\ flowCount \in 0..MaxMaps /\ MaxMaps \in Nat
      /\ flowPin \in Maybe(1..flowCount)
  BY FlowAssumption DEF IInv, Types
<1>4. /\ flowPhase' \in {"down", "removed"} /\ flowObjects' \in Stages /\ flowPin' \in Maybe(1..flowCount)
      /\ Attached' => Attached
      /\ Loads'
  <2>1. CASE RemovePin
    <3>1. flowPhase = "pinning" /\ flowPhase' = "removed" /\ flowPin' = <<>> /\ UNCHANGED flowObjects
      BY <2>1 DEF RemovePin
    <3>2. Attached' = Attached
      BY <3>1 DEF Attached
    <3> QED
      BY <1>1, <1>3, <3>1, <3>2 DEF IInv, Loads, Maybe
  <2>2. CASE Unload
    <3>1. flowPhase' = "down" /\ flowObjects' = <<>> /\ UNCHANGED flowPin
      BY <2>2 DEF Unload
    <3>2. ~Attached'
      BY <3>1 DEF Attached, Contains
    <3>3. <<>> \in Stages /\ Programs # <<>>
      BY DEF Stages, Programs
    <3> QED
      BY <1>1, <1>3, <3>1, <3>2, <3>3 DEF Loads
  <2> QED
    BY <2>1, <2>2
<1>5. Types'
  BY <1>1, <1>2, <1>4 DEF IInv, Types
<1>6. MapsSound'
  BY <1>1, <1>3, MapsKept
<1>7. WrittenMapIsLatest'
  BY <1>1, <1>4 DEF IInv, WrittenMapIsLatest
<1>8. ASSUME NEW t \in FlowTasks PROVE TaskSound(t)'
  <2>1. flowTask[t].pc \in {"missed", "opened"} => flowTask[t].conn \in FlowConns
    BY DEF IInv, TaskSound
  <2> QED
    BY <1>1, <1>2, <1>3, <1>4, <2>1, TaskKept
<1> QED
  BY <1>4, <1>5, <1>6, <1>7, <1>8 DEF IInv

\* A connection is made, and recorded when the program is attached.
LEMMA ConnectStep ==
  ASSUME IInv, NEW conn \in FlowConns, NEW g \in FlowCgroups, Connect(conn, g)
  PROVE  IInv'
<1>1. /\ \A t \in FlowTasks : flowTask[t].conn # conn \/ flowTask[t].pc \in {"rest", "done"}
      /\ flowMaps' = Recorded(conn, g)
      /\ Attached => Cardinality(flowMaps'[flowCount]) <= FlowRoom
      /\ flowMakers' = [flowMakers EXCEPT ![conn] = Append(@, g)]
      /\ UNCHANGED <<flowPhase, flowObjects, flowCount, flowPin, flowProxy, flowSlot, flowTask>>
  BY DEF Connect, proxyVars
<1>2. /\ flowCount \in 0..MaxMaps /\ MaxMaps \in Nat /\ flowMaps \in [1..MaxMaps -> SUBSET Flow]
      /\ flowMakers \in [FlowConns -> Seq(FlowCgroups)]
  BY FlowAssumption DEF IInv, Types
<1>3. Attached' = Attached
  BY <1>1 DEF Attached
<1>4. /\ flowMakers' \in [FlowConns -> Seq(FlowCgroups)] /\ flowMakers'[conn] = Append(flowMakers[conn], g)
      /\ \A c \in FlowConns \ {conn} : flowMakers'[c] = flowMakers[c]
  BY <1>1, <1>2, MakersFacts
<1>5. /\ flowMakers'[conn] # <<>> /\ Last(flowMakers'[conn]) = g
      /\ ToSet(flowMakers'[conn]) = ToSet(flowMakers[conn]) \cup {g}
      /\ flowMakers[conn] # <<>> => flowMakers'[conn][1] = flowMakers[conn][1]
  BY <1>2, <1>4, MakersFacts
<1> DEFINE x == [key |-> conn, cgroup |-> g]
<1>6. x \in Flow /\ x.key = conn /\ x.cgroup = g
  BY DEF Flow
<1>7. CASE Attached
  <2>1. flowCount \in 1..MaxMaps
    BY <1>2, <1>7 DEF IInv, Loads
  <2>2. flowMaps' = [flowMaps EXCEPT ![flowCount] = {e \in flowMaps[flowCount] : e.key # conn} \cup {x}]
    BY <1>1, <1>7 DEF Recorded, RecordFlow, FlowKey, FlowMapOf
  <2> DEFINE kept == {e \in flowMaps[flowCount] : e.key # conn}
  <2>3. kept \subseteq flowMaps[flowCount] /\ (\A e \in kept : e.key # conn) /\ kept \subseteq Flow
        /\ \A e \in flowMaps[flowCount] : e.key # conn => e \in kept
    BY <1>2, <2>1
  <2> HIDE DEF x, kept
  <2>4. /\ flowMaps' \in [1..MaxMaps -> SUBSET Flow] /\ flowMaps'[flowCount] = kept \cup {x}
        /\ \A n \in (1..MaxMaps) \ {flowCount} : flowMaps'[n] = flowMaps[n]
    <3>1. flowMaps' = [flowMaps EXCEPT ![flowCount] = kept \cup {x}]
      BY <2>2 DEF kept
    <3> QED
      BY <1>2, <1>6, <2>1, <2>3, <3>1
  <2>5. Types'
    <3>1. Lookup' = Lookup
      BY <1>1 DEF Lookup
    <3> QED
      BY <1>1, <1>4, <2>4, <3>1 DEF IInv, Types
  <2>6. IsFiniteSet(kept \cup {x})
    <3>1. IsFiniteSet(flowMaps[flowCount])
      BY <2>1 DEF IInv, MapsSound
    <3> QED
      BY <2>3, <3>1, FS_Subset, FS_AddElement
  <2>7. MapsSound'
    <3> SUFFICES ASSUME NEW n \in 1..MaxMaps
                 PROVE  /\ IsFiniteSet(flowMaps'[n]) /\ Cardinality(flowMaps'[n]) <= FlowRoom
                        /\ \A e, f \in flowMaps'[n] : e.key = f.key => e = f
                        /\ \A e \in flowMaps'[n] : e.cgroup \in ToSet(flowMakers'[e.key])
                        /\ n > flowCount' => flowMaps'[n] = {}
      BY DEF MapsSound
    <3>1. /\ \A e, f \in flowMaps[n] : e.key = f.key => e = f
          /\ \A e \in flowMaps[n] : e.key \in FlowConns /\ e.cgroup \in ToSet(flowMakers'[e.key])
      <4>1. \A e \in flowMaps[n] : e.key \in FlowConns /\ e.cgroup \in ToSet(flowMakers[e.key])
        BY <1>2 DEF IInv, MapsSound, Flow
      <4>2. \A c \in FlowConns : ToSet(flowMakers[c]) \subseteq ToSet(flowMakers'[c])
        BY <1>4, <1>5
      <4> QED
        BY <4>1, <4>2 DEF IInv, MapsSound
    <3>2. CASE n = flowCount
      <4>1. flowMaps'[n] = kept \cup {x} /\ kept \subseteq flowMaps[n]
        BY <2>3, <2>4, <3>2
      <4>2. \A e, f \in flowMaps'[n] : e.key = f.key => e = f
        BY <1>6, <2>3, <3>1, <4>1
      <4>3. \A e \in flowMaps'[n] : e.cgroup \in ToSet(flowMakers'[e.key])
        BY <1>5, <1>6, <3>1, <4>1
      <4>4. IsFiniteSet(flowMaps'[n])
        BY <2>6, <4>1
      <4>5. Cardinality(flowMaps'[n]) <= FlowRoom
        BY <1>1, <1>7, <3>2
      <4>6. ~(n > flowCount')
        BY <1>1, <1>2, <3>2
      <4> QED
        BY <4>2, <4>3, <4>4, <4>5, <4>6
    <3>3. CASE n # flowCount
      BY <1>1, <2>4, <3>1, <3>3 DEF IInv, MapsSound
    <3> QED
      BY <3>2, <3>3
  <2>8. WrittenMapIsLatest'
    <3> SUFFICES ASSUME NEW e \in flowMaps'[flowCount]
                 PROVE  e.cgroup = Last(flowMakers'[e.key])
      BY <1>1 DEF WrittenMapIsLatest
    <3>1. CASE e = x
      BY <1>5, <1>6, <3>1
    <3>2. CASE e \in kept
      <4>1. e \in flowMaps[flowCount] /\ e.key \in FlowConns \ {conn}
        BY <2>3, <3>2 DEF Flow
      <4> QED
        BY <1>4, <1>7, <4>1 DEF IInv, WrittenMapIsLatest
    <3> QED
      BY <2>4, <3>1, <3>2
  <2>9. ASSUME NEW t \in FlowTasks PROVE TaskSound(t)'
    <3>1. \A c : (\E e \in flowMaps[flowCount] : e.key = c) => \E e \in flowMaps'[flowCount] : e.key = c
      BY <1>6, <2>3, <2>4
    <3>2. flowTask[t].conn = conn => flowTask[t].pc \in {"rest", "done"}
      BY <1>1
    <3> DEFINE c == flowTask[t].conn
    <3>3. c \in FlowConns =>
            /\ flowMakers'[c] # <<>> \/ flowMakers[c] = <<>>
            /\ ToSet(flowMakers[c]) \subseteq ToSet(flowMakers'[c])
            /\ flowMakers[c] # <<>> => flowMakers'[c][1] = flowMakers[c][1]
            /\ flowTask[t].pc \in {"missed", "opened"} => flowMakers'[c] = flowMakers[c]
      <4>1. CASE c = conn
        BY <1>5, <3>2, <4>1
      <4>2. CASE c # conn
        BY <1>4, <4>2
      <4> QED
        BY <4>1, <4>2
    <3>4. /\ flowTask'[t] = flowTask[t] /\ flowCount' \in Nat /\ flowCount' >= flowCount
          /\ flowPin' = flowPin /\ flowCount' = flowCount
      BY <1>1, <1>2
    <3>5. (\E e \in flowMaps[flowCount] : e.key = flowTask[t].conn)
          => \E e \in flowMaps'[flowCount] : e.key = flowTask[t].conn
      BY <3>1
    <3> HIDE DEF c
    <3> QED
      BY <1>3, <3>3, <3>4, <3>5, TaskKept DEF c
  <2>10. Loads'
    BY <1>1, <1>3 DEF IInv, Loads
  <2> QED
    BY <2>5, <2>7, <2>8, <2>9, <2>10 DEF IInv
<1>8. CASE ~Attached
  <2>1. flowMaps' = flowMaps
    BY <1>1, <1>8 DEF Recorded
  <2>2. Types' /\ Loads'
    <3>1. Lookup' = Lookup
      BY <1>1 DEF Lookup
    <3> QED
      BY <1>1, <1>3, <1>4, <2>1, <3>1 DEF IInv, Types, Loads
  <2>3. MapsSound'
    <3>1. \A n \in 1..MaxMaps : \A e \in flowMaps[n] : e.key \in FlowConns
      BY <1>2 DEF Flow
    <3> QED
      BY <1>1, <1>4, <1>5, <2>1, <3>1 DEF IInv, MapsSound
  <2>4. WrittenMapIsLatest'
    BY <1>3, <1>8 DEF WrittenMapIsLatest
  <2>5. ASSUME NEW t \in FlowTasks PROVE TaskSound(t)'
    <3>1. flowTask[t].conn = conn => flowTask[t].pc \in {"rest", "done"}
      BY <1>1
    <3> QED
      BY <1>1, <1>2, <1>3, <1>4, <1>5, <1>8, <3>1, TaskKept
  <2> QED
    BY <2>2, <2>3, <2>4, <2>5 DEF IInv
<1> QED
  BY <1>7, <1>8

\* A full map loses an entry; whoever looks for it cannot count on it any more.
LEMMA EvictStep ==
  ASSUME IInv, Evict
  PROVE  IInv'
<1>1. PICK x \in flowMaps[flowCount] :
        /\ flowMaps' = [flowMaps EXCEPT ![flowCount] = @ \ {x}]
        /\ NoLongerFresh({c \in FlowConns : c = x.key})
  BY DEF Evict, FlowMapOf, FlowKey
<1>2. /\ flowCount > 0
      /\ UNCHANGED <<flowPhase, flowObjects, flowCount, flowPin, flowProxy, flowSlot, flowMakers>>
  BY DEF Evict
<1>3. /\ flowCount \in 1..MaxMaps /\ MaxMaps \in Nat /\ flowMaps \in [1..MaxMaps -> SUBSET Flow]
  BY <1>2, FlowAssumption DEF IInv, Types
<1>4. Attached' = Attached
  BY <1>2 DEF Attached
<1>5. /\ flowMaps' \in [1..MaxMaps -> SUBSET Flow] /\ flowMaps'[flowCount] = flowMaps[flowCount] \ {x}
      /\ \A n \in 1..MaxMaps : flowMaps'[n] \subseteq flowMaps[n]
  BY <1>1, <1>3
<1>6. /\ flowTask' \in [FlowTasks -> Lookup']
      /\ \A t \in FlowTasks :
           /\ flowTask'[t] = flowTask[t] \/ flowTask'[t] = [flowTask[t] EXCEPT !.fresh = FALSE]
           /\ flowTask[t].conn \in {c \in FlowConns : c = x.key} => ~flowTask'[t].fresh
  BY <1>1, <1>2, FreshOnly
<1>7. Types' /\ Loads'
  BY <1>2, <1>4, <1>5, <1>6 DEF IInv, Types, Loads
<1>8. MapsSound'
  <2> SUFFICES ASSUME NEW n \in 1..MaxMaps
               PROVE  /\ IsFiniteSet(flowMaps'[n]) /\ Cardinality(flowMaps'[n]) <= FlowRoom
                      /\ \A e, f \in flowMaps'[n] : e.key = f.key => e = f
                      /\ \A e \in flowMaps'[n] : e.cgroup \in ToSet(flowMakers'[e.key])
                      /\ n > flowCount' => flowMaps'[n] = {}
    BY DEF MapsSound
  <2>1. IsFiniteSet(flowMaps'[n]) /\ Cardinality(flowMaps'[n]) <= FlowRoom
    <3>1. IsFiniteSet(flowMaps[n]) /\ Cardinality(flowMaps[n]) <= FlowRoom
      BY DEF IInv, MapsSound
    <3>2. IsFiniteSet(flowMaps'[n]) /\ Cardinality(flowMaps'[n]) <= Cardinality(flowMaps[n])
      BY <1>5, <3>1, FS_Subset
    <3>3. Cardinality(flowMaps[n]) \in Nat /\ Cardinality(flowMaps'[n]) \in Nat /\ FlowRoom \in Nat
      BY <3>1, <3>2, FS_CardinalityType, FlowAssumption
    <3> QED
      BY <3>1, <3>2, <3>3
  <2> QED
    BY <1>2, <1>5, <2>1 DEF IInv, MapsSound
<1>9. WrittenMapIsLatest'
  BY <1>2, <1>3, <1>4, <1>5 DEF IInv, WrittenMapIsLatest
<1>10. ASSUME NEW t \in FlowTasks PROVE TaskSound(t)'
  <2>1. flowTask[t].pc \in {"missed", "opened"} => flowTask[t].conn \in FlowConns
    BY DEF IInv, TaskSound
  <2>2. ASSUME flowTask[t].pc \in {"missed", "opened"}, flowTask'[t].fresh,
               NEW e \in flowMaps[flowCount], e.key = flowTask[t].conn
        PROVE  e \in flowMaps'[flowCount]
    <3>1. e # x
      BY <1>6, <2>1, <2>2
    <3> QED
      BY <1>5, <3>1
  <2> QED
    BY <1>2, <1>3, <1>4, <1>6, <2>2, TaskKept
<1> QED
  BY <1>7, <1>8, <1>9, <1>10 DEF IInv

----------------------------------------------------------------------------
(* The proxy.                                                              *)

\* A step of one task, which may put another map into the slot.
LEMMA OwnStep ==
  ASSUME IInv, NEW t \in FlowTasks, NEW l \in Lookup,
         flowTask' = [flowTask EXCEPT ![t] = l],
         flowSlot' \in Maybe(1..flowCount), flowProxy' \in {"down", "up"},
         UNCHANGED <<flowPhase, flowObjects, flowCount, flowMaps, flowPin, flowMakers>>,
         TaskSound(t)'
  PROVE  IInv'
<1>1. flowTask \in [FlowTasks -> Lookup] /\ flowCount \in Nat
  BY DEF IInv, Types
<1>2. /\ flowTask' \in [FlowTasks -> Lookup]
      /\ \A q \in FlowTasks \ {t} : flowTask'[q] = flowTask[q]
  BY <1>1
<1>3. Attached' = Attached /\ Lookup' = Lookup
  BY DEF Attached, Lookup
<1>4. Types' /\ Loads'
  BY <1>2, <1>3 DEF IInv, Types, Loads
<1>5. MapsSound'
  BY <1>1, MapsKept
<1>6. WrittenMapIsLatest'
  BY <1>3 DEF IInv, WrittenMapIsLatest
<1>7. ASSUME NEW q \in FlowTasks PROVE TaskSound(q)'
  <2>1. CASE q = t
    BY <2>1
  <2>2. CASE q # t
    <3>1. flowTask'[q] = flowTask[q] /\ flowCount' \in Nat /\ flowCount' >= flowCount
      BY <1>1, <1>2, <2>2
    <3> QED
      BY <1>3, <3>1, TaskKept
  <2> QED
    BY <2>1, <2>2
<1> QED
  BY <1>4, <1>5, <1>6, <1>7 DEF IInv

\* The proxy starts with the map that is pinned then.
LEMMA ProxyStartsStep ==
  ASSUME IInv, ProxyStarts
  PROVE  IInv'
<1>1. /\ flowProxy' = "up" /\ flowSlot' = flowPin
      /\ UNCHANGED <<flowPhase, flowObjects, flowCount, flowMaps, flowPin, flowTask, flowMakers>>
  BY DEF ProxyStarts, ctlVars
<1>2. flowCount \in Nat
  BY DEF IInv, Types
<1>3. Attached' = Attached /\ Lookup' = Lookup
  BY <1>1 DEF Attached, Lookup
<1>4. Types' /\ Loads'
  BY <1>1, <1>3 DEF IInv, Types, Loads
<1>5. MapsSound' /\ WrittenMapIsLatest'
  BY <1>1, <1>2, <1>3, MapsKept DEF IInv, WrittenMapIsLatest
<1>6. ASSUME NEW t \in FlowTasks PROVE TaskSound(t)'
  <2>1. flowTask'[t] = flowTask[t] /\ flowCount' \in Nat /\ flowCount' >= flowCount
    BY <1>1, <1>2
  <2> QED
    BY <1>1, <1>3, <2>1, TaskKept
<1> QED
  BY <1>4, <1>5, <1>6 DEF IInv

\* What a map says of a connection: one that made it; the latest when the map is written.
LEMMA AnswerFound ==
  ASSUME IInv, NEW n \in 1..flowCount, NEW c \in FlowConns, LookupInMap(n, c) # <<>>
  PROVE  \E g \in FlowCgroups :
           /\ LookupInMap(n, c) = <<g>> /\ g \in ToSet(flowMakers[c])
           /\ IsWritten(<<n>>) => g = Last(flowMakers[c])
<1>1. n \in 1..MaxMaps /\ flowCount \in Nat
  BY FlowAssumption DEF IInv, Types
<1>2. PICK e \in flowMaps[n] : e.key = c /\ LookupInMap(n, c) = <<e.cgroup>>
  BY LookupFound
<1>3. e.cgroup \in FlowCgroups /\ e.cgroup \in ToSet(flowMakers[c])
  BY <1>1, <1>2 DEF IInv, Types, MapsSound, Flow
<1>4. IsWritten(<<n>>) => n = flowCount /\ Attached
  BY DEF IsWritten
<1>5. IsWritten(<<n>>) => e.cgroup = Last(flowMakers[c])
  BY <1>2, <1>4 DEF IInv, WrittenMapIsLatest
<1> QED
  BY <1>2, <1>3, <1>5

\* The map at hand answers, or the look-up goes on.
LEMMA LookCachedStep ==
  ASSUME IInv, NEW t \in FlowTasks, NEW conn \in FlowConns, LookCached(t, conn)
  PROVE  IInv'
<1> DEFINE hit == IF flowSlot = <<>> THEN <<>> ELSE LookupInMap(flowSlot[1], conn)
           l == [pc |-> IF hit = <<>> THEN "missed" ELSE "done", conn |-> conn, map |-> <<>>,
                 answer |-> hit, since |-> {Last(flowMakers[conn])},
                 written |-> hit # <<>> /\ IsWritten(flowSlot), fresh |-> Countable(conn)]
<1>1. /\ flowMakers[conn] # <<>> /\ flowTask' = [flowTask EXCEPT ![t] = l]
      /\ UNCHANGED <<flowPhase, flowObjects, flowCount, flowMaps, flowPin, flowProxy, flowSlot, flowMakers>>
  BY DEF LookCached, ctlVars, FlowKey
<1>2. /\ flowCount \in Nat /\ flowSlot \in Maybe(1..flowCount) /\ flowProxy \in {"down", "up"}
      /\ flowMakers[conn] \in Seq(FlowCgroups) /\ flowTask \in [FlowTasks -> Lookup]
  BY DEF IInv, Types
<1>3. \/ hit = <<>>
      \/ \E g \in FlowCgroups :
           /\ hit = <<g>> /\ g \in ToSet(flowMakers[conn]) /\ flowCount >= 1
           /\ IsWritten(flowSlot) => g = Last(flowMakers[conn])
  <2>1. CASE flowSlot = <<>>
    BY <2>1
  <2>2. CASE flowSlot # <<>>
    <3>1. PICK n \in 1..flowCount : flowSlot = <<n>>
      BY <1>2, <2>2 DEF Maybe
    <3>2. hit = LookupInMap(n, conn)
      BY <2>2, <3>1
    <3>3. flowCount >= 1
      BY <1>2
    <3> HIDE DEF hit
    <3>4. CASE hit = <<>>
      BY <3>4
    <3>5. CASE hit # <<>>
      <4>1. PICK g \in FlowCgroups :
              /\ LookupInMap(n, conn) = <<g>> /\ g \in ToSet(flowMakers[conn])
              /\ IsWritten(<<n>>) => g = Last(flowMakers[conn])
        BY <3>2, <3>5, AnswerFound
      <4> QED
        BY <3>1, <3>2, <3>3, <4>1
    <3> QED
      BY <3>4, <3>5
  <2> QED
    BY <2>1, <2>2
<1>4. Countable(conn) \in BOOLEAN /\ (hit # <<>> /\ IsWritten(flowSlot)) \in BOOLEAN
  BY DEF Countable
<1>5. Countable(conn) =>
        /\ Attached /\ flowPin = <<flowCount>> /\ Sole(flowMakers[conn])
        /\ \E e \in flowMaps[flowCount] : e.key = conn
  BY <1>1, OneMaker, LookupFound DEF Countable, FlowKey, IInv
<1>6. Last(flowMakers[conn]) \in FlowCgroups
  BY <1>1, <1>2, MakersFacts
<1> HIDE DEF hit
<1>7. hit \in Maybe(FlowCgroups)
  BY <1>3 DEF Maybe
<1>8. l \in Lookup
  BY <1>4, <1>6, <1>7 DEF Lookup, Maybe
<1>9. /\ l.pc = (IF hit = <<>> THEN "missed" ELSE "done") /\ l.conn = conn /\ l.answer = hit
      /\ l.since = {Last(flowMakers[conn])} /\ l.fresh = Countable(conn)
      /\ l.written => IsWritten(flowSlot)
  OBVIOUS
<1> HIDE DEF l
<1>10. flowTask'[t] = l
  BY <1>1, <1>2
<1>11. Attached' = Attached
  BY <1>1 DEF Attached
<1>12. UnderWay(t)'
  BY <1>1, <1>5, <1>9, <1>10, <1>11 DEF UnderWay
<1>13. AnswerSound(t)'
  <2>1. CASE hit = <<>>
    BY <1>9, <1>10, <2>1 DEF AnswerSound
  <2>2. CASE hit # <<>>
    <3>1. PICK g \in FlowCgroups :
            /\ hit = <<g>> /\ g \in ToSet(flowMakers[conn]) /\ flowCount >= 1
            /\ IsWritten(flowSlot) => g = Last(flowMakers[conn])
      BY <1>3, <2>2
    <3>2. hit[1] = g
      BY <3>1
    <3>3. l.fresh => hit = <<flowMakers[conn][1]>>
      BY <1>5, <1>9, <3>1 DEF Sole
    <3> QED
      BY <1>1, <1>9, <1>10, <1>11, <3>1, <3>2, <3>3 DEF AnswerSound
  <2> QED
    BY <2>1, <2>2
<1>14. TaskSound(t)'
  BY <1>1, <1>9, <1>10, <1>12, <1>13 DEF TaskSound
<1> QED
  BY <1>1, <1>2, <1>8, <1>14, OwnStep

\* The pin is opened, or there is none and the look-up ends without an answer.
LEMMA OpenPinStep ==
  ASSUME IInv, NEW t \in FlowTasks, OpenPin(t)
  PROVE  IInv'
<1>1. /\ flowTask[t].pc = "missed"
      /\ IF flowPin = <<>> THEN Answered(t, <<>>, FALSE)
         ELSE flowTask' = [flowTask EXCEPT ![t].pc = "opened", ![t].map = flowPin]
      /\ UNCHANGED <<flowPhase, flowObjects, flowCount, flowMaps, flowPin, flowProxy, flowSlot, flowMakers>>
  BY DEF OpenPin, ctlVars
<1>2. /\ flowTask \in [FlowTasks -> Lookup] /\ flowPin \in Maybe(1..flowCount)
      /\ flowSlot \in Maybe(1..flowCount) /\ flowProxy \in {"down", "up"}
  BY DEF IInv, Types
<1>3. flowTask[t].conn \in FlowConns /\ flowMakers[flowTask[t].conn] # <<>> /\ UnderWay(t)
  BY <1>1 DEF IInv, TaskSound
<1>4. Attached' = Attached
  BY <1>1 DEF Attached
<1>5. CASE flowPin = <<>>
  <2> DEFINE l == [flowTask[t] EXCEPT !.pc = "done", !.answer = <<>>, !.map = <<>>, !.written = FALSE]
  <2>1. flowTask' = [flowTask EXCEPT ![t] = l]
    BY <1>1, <1>5, <1>2 DEF Answered
  <2>2. /\ l \in Lookup /\ l.pc = "done" /\ l.answer = <<>> /\ l.conn = flowTask[t].conn
        /\ l.fresh = flowTask[t].fresh
    BY <1>2 DEF Lookup, Maybe
  <2> HIDE DEF l
  <2>3. flowTask'[t] = l
    BY <1>2, <2>1
  <2>4. ~l.fresh
    BY <1>1, <1>3, <1>5, <2>2 DEF UnderWay
  <2>5. TaskSound(t)'
    BY <1>1, <1>3, <2>2, <2>3, <2>4 DEF TaskSound, UnderWay, AnswerSound
  <2> QED
    BY <1>1, <1>2, <2>1, <2>2, <2>5, OwnStep
<1>6. CASE flowPin # <<>>
  <2> DEFINE l == [flowTask[t] EXCEPT !.pc = "opened", !.map = flowPin]
  <2>1. flowTask' = [flowTask EXCEPT ![t] = l]
    BY <1>1, <1>2, <1>6
  <2>2. /\ l \in Lookup /\ l.pc = "opened" /\ l.answer = flowTask[t].answer
        /\ l.conn = flowTask[t].conn /\ l.fresh = flowTask[t].fresh
        /\ l.since = flowTask[t].since /\ l.map = flowPin
    BY <1>2 DEF Lookup
  <2> HIDE DEF l
  <2>3. flowTask'[t] = l
    BY <1>2, <2>1
  <2>4. UnderWay(t)'
    BY <1>1, <1>3, <1>4, <1>6, <2>2, <2>3 DEF UnderWay
  <2>5. AnswerSound(t)'
    BY <1>1, <1>3, <2>2, <2>3 DEF UnderWay, AnswerSound
  <2>6. TaskSound(t)'
    BY <1>1, <1>3, <2>2, <2>3, <2>4, <2>5 DEF TaskSound
  <2> QED
    BY <1>1, <1>2, <2>1, <2>2, <2>6, OwnStep
<1> QED
  BY <1>5, <1>6

\* The map that was opened answers, and becomes the one at hand.
LEMMA RefreshStep ==
  ASSUME IInv, NEW t \in FlowTasks, Refresh(t)
  PROVE  IInv'
<1> DEFINE c == flowTask[t].conn
<1>1. /\ flowTask \in [FlowTasks -> Lookup] /\ flowProxy \in {"down", "up"}
      /\ flowTask[t].map \in Maybe(1..flowCount) /\ flowCount \in Nat
  BY DEF IInv, Types, Lookup
<1>2. /\ flowTask[t].pc = "opened" /\ flowSlot' = flowTask[t].map
      /\ Answered(t, LookupInMap(flowTask[t].map[1], c), IsWritten(flowTask[t].map))
      /\ UNCHANGED <<flowPhase, flowObjects, flowCount, flowMaps, flowPin, flowProxy, flowMakers>>
  BY DEF Refresh, ctlVars, FlowKey
<1>3. c \in FlowConns /\ flowMakers[c] # <<>> /\ UnderWay(t)
  BY <1>2 DEF IInv, TaskSound
<1>4. PICK n \in 1..flowCount : flowTask[t].map = <<n>>
  BY <1>1, <1>2, <1>3 DEF UnderWay, Maybe
<1> DEFINE answer == LookupInMap(n, c)
           written == IsWritten(<<n>>)
           l == [flowTask[t] EXCEPT !.pc = "done", !.answer = answer, !.map = <<>>, !.written = written]
<1>5. answer = <<>> \/ \E g \in FlowCgroups :
           /\ answer = <<g>> /\ g \in ToSet(flowMakers[c])
           /\ IsWritten(<<n>>) => g = Last(flowMakers[c])
  BY <1>3, AnswerFound
<1>6. flowTask[t].fresh => answer # <<>> /\ Sole(flowMakers[c])
  <2> SUFFICES ASSUME flowTask[t].fresh PROVE answer # <<>> /\ Sole(flowMakers[c])
    OBVIOUS
  <2>1. /\ \E e \in flowMaps[flowCount] : e.key = c
        /\ flowTask[t].map = <<flowCount>> /\ Sole(flowMakers[c])
    BY <1>2, <1>3 DEF UnderWay
  <2>2. n = flowCount
    BY <1>4, <2>1
  <2>3. \E e \in flowMaps[n] : e.key = c
    BY <2>1, <2>2
  <2>4. \/ answer = <<>> /\ \A e \in flowMaps[n] : e.key # c
        \/ \E e \in flowMaps[n] : answer = <<e.cgroup>>
    BY LookupFound
  <2>5. \A x : <<x>> # <<>>
    OBVIOUS
  <2>6. answer # <<>>
    BY <2>3, <2>4, <2>5
  <2> QED
    BY <2>1, <2>6
<1>7. flowTask' = [flowTask EXCEPT ![t] = l]
  <2>1. flowTask[t].map[1] = n
    BY <1>4
  <2>2. Answered(t, answer, written)
    BY <1>2, <1>4, <2>1
  <2> HIDE DEF answer, written
  <2>3. flowTask[t] \in Lookup
    BY <1>1
  <2>4. flowTask' = [flowTask EXCEPT ![t].pc = "done", ![t].answer = answer, ![t].map = <<>>,
                                      ![t].written = written]
    BY <2>2 DEF Answered
  <2> QED
    BY <1>1, <2>3, <2>4
<1>8. answer \in Maybe(FlowCgroups) /\ written \in BOOLEAN
  BY <1>5 DEF Maybe, IsWritten
<1> HIDE DEF answer, written
<1>9. /\ l \in Lookup /\ l.pc = "done" /\ l.answer = answer /\ l.conn = c
      /\ l.fresh = flowTask[t].fresh /\ l.since = flowTask[t].since /\ l.written = written
  BY <1>1, <1>8 DEF Lookup, Maybe
<1> HIDE DEF l
<1>10. flowTask'[t] = l /\ Attached' = Attached
  BY <1>1, <1>2, <1>7 DEF Attached
<1>11. flowTask[t].since = {Last(flowMakers[c])}
  BY <1>2, <1>3 DEF UnderWay
<1>12. AnswerSound(t)'
  <2>1. CASE answer = <<>>
    BY <1>6, <1>9, <1>10, <2>1 DEF AnswerSound
  <2>2. CASE answer # <<>>
    <3>1. PICK g \in FlowCgroups :
           /\ answer = <<g>> /\ g \in ToSet(flowMakers[c])
           /\ IsWritten(<<n>>) => g = Last(flowMakers[c])
      BY <1>5, <2>2
    <3>2. answer[1] = g /\ flowCount >= 1
      BY <1>1, <3>1
    <3>3. l.fresh => answer = <<flowMakers[c][1]>>
      BY <1>6, <1>9, <3>1 DEF Sole
    <3>4. written => g = Last(flowMakers[c])
      BY <3>1 DEF written
    <3> HIDE DEF c
    <3> QED
      BY <1>2, <1>9, <1>10, <1>11, <3>1, <3>2, <3>3, <3>4 DEF AnswerSound
  <2> QED
    BY <2>1, <2>2
<1>13. TaskSound(t)'
  BY <1>2, <1>3, <1>9, <1>10, <1>12 DEF TaskSound, UnderWay
<1> QED
  BY <1>1, <1>2, <1>7, <1>9, <1>13, OwnStep

LEMMA NextInv == IInv /\ [FlowNext]_flowVars => IInv'
<1> SUFFICES ASSUME IInv, [FlowNext]_flowVars PROVE IInv'
  OBVIOUS
<1>1. CASE UNCHANGED flowVars
  <2>1. /\ UNCHANGED <<flowPhase, flowObjects, flowCount, flowMaps, flowPin, flowProxy, flowSlot, flowTask, flowMakers>>
    BY <1>1 DEF flowVars
  <2>2. Attached' = Attached /\ Lookup' = Lookup
    BY <2>1 DEF Attached, Lookup
  <2>3. Types' /\ Loads' /\ MapsSound' /\ WrittenMapIsLatest'
    BY <2>1, <2>2 DEF IInv, Types, Loads, MapsSound, WrittenMapIsLatest
  <2>4. ASSUME NEW t \in FlowTasks PROVE TaskSound(t)'
    <3>1. flowTask'[t] = flowTask[t] /\ flowCount' \in Nat /\ flowCount' >= flowCount
      BY <2>1 DEF IInv, Types
    <3> QED
      BY <2>1, <2>2, <3>1, TaskKept
  <2> QED
    BY <2>3, <2>4 DEF IInv
<1>2. CASE FlowNext
  BY <1>2, LoadSteps, PinGoes, ConnectStep, EvictStep, ProxyStartsStep, OpenPinStep, RefreshStep,
     LookCachedStep DEF FlowNext
<1> QED
  BY <1>1, <1>2

\* Keys of a map that has one entry for each: as many as its entries.
LEMMA KeysCounted ==
  ASSUME NEW M, IsFiniteSet(M), \A e, f \in M : e.key = f.key => e = f
  PROVE  Cardinality({e.key : e \in M}) = Cardinality(M)
<1> DEFINE f == [e \in M |-> e.key]
       T == {e.key : e \in M}
<1>1. f \in [M -> T]
  OBVIOUS
<1>2. \A e, g \in M : f[e] = f[g] => e = g
  OBVIOUS
<1>3. \A k \in T : \E e \in M : f[e] = k
  OBVIOUS
<1> HIDE DEF f, T
<1>4. f \in Bijection(M, T)
  BY <1>1, <1>2, <1>3 DEF Bijection, Injection, Surjection, IsInjective
<1>5. Cardinality(T) = Cardinality(M)
  BY <1>4, FS_Bijection DEF ExistsBijection
<1> QED
  BY <1>5 DEF T

----------------------------------------------------------------------------
(***************************************************************************)
(* load_programs, handle_sockops and lookup_cgroup_by_flow: whatever maps  *)
(* earlier controllers left behind and whichever the proxy holds open, a   *)
(* connection is attributed only to a container that had its ends, to the  *)
(* last one when the answer is of the map being written, and one whose     *)
(* ends are new and that stays in the pinned map is found by every         *)
(* look-up.                                                                *)
(***************************************************************************)
THEOREM FlowsAreAttributed == FlowSpec => []FlowsFindTheirMakers
<1>1. IInv => FlowsFindTheirMakers
  <2> SUFFICES ASSUME IInv PROVE FlowsFindTheirMakers
    OBVIOUS
  <2>1. FlowTypeOK
    <3>1. \A n \in 1..MaxMaps :
            /\ Cardinality(FlowMapOf(n)) <= FlowRoom
            /\ Cardinality({e.key : e \in FlowMapOf(n)}) = Cardinality(FlowMapOf(n))
      BY KeysCounted DEF IInv, MapsSound, FlowMapOf
    <3>2. \A m \in {flowPin, flowSlot} : m = <<>> \/ m[1] \in 1..flowCount
      BY DEF IInv, Types, Maybe
    <3>3. IsPrefix(flowObjects, Programs)
      BY StageFacts DEF IInv, Types
    <3> QED
      BY <3>1, <3>2, <3>3 DEF FlowTypeOK, IInv, Types, Loads, Lookup
  <2>2. ASSUME NEW t \in FlowTasks, flowTask[t].pc = "done" PROVE AnswerSound(t)
    BY <2>2 DEF IInv, TaskSound
  <2>3. AnswersOnlyMakers /\ LatestMakerWins /\ FreshFlowResolves
    BY <2>2 DEF AnswersOnlyMakers, LatestMakerWins, FreshFlowResolves, Done, AnswerSound
  <2>4. PinIsOurs
    <3>1. flowPhase = "up" => Attached
      <4>1. Programs \notin {<<>>, <<"network">>}
        BY DEF Programs
      <4> QED
        BY <4>1, StageFacts DEF IInv, Types, Loads
    <3> QED
      BY <3>1 DEF PinIsOurs, IInv, Loads
  <2> QED
    BY <2>1, <2>3, <2>4 DEF FlowsFindTheirMakers
<1> QED
  BY InitInv, NextInv, <1>1, PTL DEF FlowSpec

(***************************************************************************)
(* SecurityLog.                                                            *)
(*                                                                         *)
(* The events of an object stand in one order over file, list and ring:    *)
(* what is written comes before what is drained, and that before what      *)
(* waits in the ring.                                                      *)
(***************************************************************************)
Occurred == [by : RingSet, n : Nat]
Pieces == [by : RingSet \cup Writers \cup {"end"}, n : Nat]
WriterSteps == {"rest", "drain", "open", "locked", "written", "ended", "done"}
Writing == {"open", "locked", "written", "ended"}

LogTypes ==
  /\ evtCount \in [RingSet -> 0..MaxEvents] /\ evtRing \in [RingSet -> Seq(Occurred)]
  /\ evtObject \in 1..(Len(Rings) + 1) /\ evtTodo \in Seq(Occurred) /\ evtFile \in Seq(Pieces)
  /\ evtWriter \in [Writers -> WriterSteps] /\ evtLock \subseteq Writers

\* Who holds the lock, and what the poller has in hand.
Locking ==
  /\ evtLock = {} \/ \E w \in Writers : evtLock = {w}
  /\ \A w \in Writers : w \in evtLock <=> evtWriter[w] \in {"locked", "written", "ended"}
  /\ evtWriter[Poller] = "drain" => evtObject \in 1..Len(Rings)
  /\ evtWriter[Poller] # "done" /\ (evtWriter[Poller] = "rest" => evtTodo = <<>>)
  /\ evtWriter[Poller] \in Writing => evtTodo # <<>>

Sorted(s) ==
  \A j, k \in 1..Len(s) : j < k /\ s[j].by = s[k].by /\ s[j].by \in RingSet => s[j].n < s[k].n
Before(s, t) ==
  \A j \in 1..Len(s), k \in 1..Len(t) : s[j].by = t[k].by /\ s[j].by \in RingSet => s[j].n < t[k].n
Happened(s, c) == \A j \in 1..Len(s) : s[j].by \in RingSet => s[j].n <= c[s[j].by]

\* What the poller has not written yet.
Pending == IF evtWriter[Poller] \in {"written", "ended"} THEN Tail(evtTodo) ELSE evtTodo

Rows ==
  /\ \A r \in RingSet : /\ Sorted(evtRing[r]) /\ Happened(evtRing[r], evtCount) /\ Len(evtRing[r]) <= RingRoom
                        /\ \A k \in 1..Len(evtRing[r]) : evtRing[r][k].by = r
                        /\ Before(evtTodo, evtRing[r]) /\ Before(evtFile, evtRing[r])
  /\ Sorted(evtTodo) /\ Happened(evtTodo, evtCount) /\ Sorted(evtFile) /\ Happened(evtFile, evtCount)
  /\ Before(evtFile, Pending)

Whole ==
  /\ \A k \in 1..Len(evtFile) : evtFile[k].by = "end" => k > 1 /\ evtFile[k - 1].by # "end"
  /\ \A w \in Writers : evtWriter[w] = "written" =>
       evtFile # <<>> /\ evtFile[Len(evtFile)].by # "end"

LInv == LogTypes /\ Locking /\ Rows /\ Whole

-----------------------------------------------------------------------------
(* Sequences.                                                              *)

LEMMA AppendFacts ==
  ASSUME NEW S, NEW s \in Seq(S), NEW e \in S
  PROVE  /\ Append(s, e) \in Seq(S) /\ Len(Append(s, e)) = Len(s) + 1
         /\ Append(s, e)[Len(s) + 1] = e
         /\ \A j \in 1..Len(s) : Append(s, e)[j] = s[j]
         /\ Len(s) \in Nat
BY AppendProperties, LenProperties

LEMMA TailFacts ==
  ASSUME NEW S, NEW s \in Seq(S), s # <<>>
  PROVE  /\ Head(s) \in S /\ Head(s) = s[1] /\ Tail(s) \in Seq(S)
         /\ Len(Tail(s)) = Len(s) - 1 /\ Len(s) \in Nat \ {0}
         /\ \A j \in 1..(Len(s) - 1) : Tail(s)[j] = s[j + 1]
BY HeadTailProperties, LenProperties, EmptySeq

LEMMA SortedAppend ==
  ASSUME NEW S, NEW s \in Seq(S), NEW e \in S, Sorted(s),
         \A j \in 1..Len(s) : s[j].by = e.by /\ e.by \in RingSet => s[j].n < e.n
  PROVE  Sorted(Append(s, e))
<1>1. PICK n \in Nat : n = Len(s)
  BY LenProperties
<1> DEFINE t == Append(s, e)
<1>2. Len(t) = n + 1 /\ t[n + 1] = e /\ \A j \in 1..n : t[j] = s[j]
  BY <1>1, AppendFacts
<1> HIDE DEF t
<1>3. ASSUME NEW j \in 1..(n + 1), NEW k \in 1..(n + 1), j < k, t[j].by = t[k].by, t[j].by \in RingSet
      PROVE  t[j].n < t[k].n
  <2>1. j \in 1..n /\ t[j] = s[j]
    BY <1>2, <1>3
  <2>2. CASE k = n + 1
    BY <1>1, <1>2, <1>3, <2>1, <2>2
  <2>3. CASE k \in 1..n
    BY <1>1, <1>2, <1>3, <2>1, <2>3 DEF Sorted
  <2> QED
    BY <1>3, <2>2, <2>3
<1> QED
  BY <1>2, <1>3 DEF Sorted, t

LEMMA SortedTail ==
  ASSUME NEW S, NEW s \in Seq(S), s # <<>>, Sorted(s)
  PROVE  /\ Sorted(Tail(s))
         /\ \A j \in 1..Len(Tail(s)) : Head(s).by = Tail(s)[j].by /\ Head(s).by \in RingSet
                                         => Head(s).n < Tail(s)[j].n
<1>1. PICK n \in Nat \ {0} : n = Len(s)
  BY TailFacts
<1> DEFINE t == Tail(s)
<1>2. Len(t) = n - 1 /\ Head(s) = s[1] /\ \A j \in 1..(n - 1) : t[j] = s[j + 1]
  BY <1>1, TailFacts
<1> HIDE DEF t
<1>3. ASSUME NEW j \in 1..(n - 1), NEW k \in 1..(n - 1), j < k, t[j].by = t[k].by, t[j].by \in RingSet
      PROVE  t[j].n < t[k].n
  <2>1. PICK x \in 1..n, y \in 1..n : x = j + 1 /\ y = k + 1
    OBVIOUS
  <2>2. t[j] = s[x] /\ t[k] = s[y] /\ x < y
    BY <1>2, <1>3, <2>1
  <2> QED
    BY <1>1, <1>3, <2>2 DEF Sorted
<1>4. ASSUME NEW j \in 1..(n - 1), s[1].by = t[j].by, s[1].by \in RingSet
      PROVE  s[1].n < t[j].n
  <2>1. PICK x \in 1..n : x = j + 1
    OBVIOUS
  <2>2. t[j] = s[x] /\ 1 \in 1..n /\ 1 < x
    BY <1>2, <2>1
  <2> QED
    BY <1>1, <1>4, <2>2 DEF Sorted
<1> QED
  BY <1>2, <1>3, <1>4 DEF Sorted, t

\* What comes before a sequence comes before its head and before its tail.
LEMMA BeforeTail ==
  ASSUME NEW S, NEW s \in Seq(S), s # <<>>, NEW q, Before(q, s)
  PROVE  /\ Before(q, Tail(s))
         /\ \A j \in 1..Len(q) : q[j].by = Head(s).by /\ Head(s).by \in RingSet => q[j].n < Head(s).n
<1>1. PICK n \in Nat \ {0} : n = Len(s)
  BY TailFacts
<1> DEFINE t == Tail(s)
<1>2. Len(t) = n - 1 /\ Head(s) = s[1] /\ \A j \in 1..(n - 1) : t[j] = s[j + 1]
  BY <1>1, TailFacts
<1> HIDE DEF t
<1>3. ASSUME NEW j \in 1..Len(q), NEW k \in 1..(n - 1), q[j].by = t[k].by, q[j].by \in RingSet
      PROVE  q[j].n < t[k].n
  <2>1. PICK y \in 1..n : y = k + 1
    OBVIOUS
  <2>2. t[k] = s[y]
    BY <1>2, <2>1
  <2> QED
    BY <1>1, <1>3, <2>2 DEF Before
<1>4. 1 \in 1..n
  OBVIOUS
<1>5. \A j \in 1..Len(q) : q[j].by = s[1].by /\ s[1].by \in RingSet => q[j].n < s[1].n
  BY <1>1, <1>4 DEF Before
<1> QED
  BY <1>2, <1>3, <1>5 DEF Before, t

LEMMA TailComesBefore ==
  ASSUME NEW S, NEW s \in Seq(S), s # <<>>, NEW q, Before(s, q)
  PROVE  Before(Tail(s), q)
<1>1. PICK n \in Nat \ {0} : n = Len(s)
  BY TailFacts
<1> DEFINE t == Tail(s)
<1>2. Len(t) = n - 1 /\ \A j \in 1..(n - 1) : t[j] = s[j + 1]
  BY <1>1, TailFacts
<1> HIDE DEF t
<1>3. ASSUME NEW j \in 1..(n - 1), NEW k \in 1..Len(q), t[j].by = q[k].by, t[j].by \in RingSet
      PROVE  t[j].n < q[k].n
  <2>1. PICK x \in 1..n : x = j + 1
    OBVIOUS
  <2>2. t[j] = s[x]
    BY <1>2, <2>1
  <2> QED
    BY <1>1, <1>3, <2>2 DEF Before
<1> QED
  BY <1>2, <1>3 DEF Before, t

\* A sequence grows at its end, after what stands before it and before what follows it.
LEMMA BeforeAppend ==
  ASSUME NEW S, NEW s \in Seq(S), NEW e \in S, NEW q
  PROVE  /\ Before(q, s)
            /\ (\A j \in 1..Len(q) : q[j].by = e.by /\ e.by \in RingSet => q[j].n < e.n)
            => Before(q, Append(s, e))
         /\ Before(s, q)
            /\ (\A j \in 1..Len(q) : e.by = q[j].by /\ e.by \in RingSet => e.n < q[j].n)
            => Before(Append(s, e), q)
<1>1. PICK n \in Nat : n = Len(s)
  BY LenProperties
<1> DEFINE t == Append(s, e)
<1>2. Len(t) = n + 1 /\ t[n + 1] = e /\ \A j \in 1..n : t[j] = s[j]
  BY <1>1, AppendFacts
<1> HIDE DEF t
<1>3. ASSUME Before(q, s), \A j \in 1..Len(q) : q[j].by = e.by /\ e.by \in RingSet => q[j].n < e.n,
             NEW j \in 1..Len(q), NEW k \in 1..(n + 1), q[j].by = t[k].by, q[j].by \in RingSet
      PROVE  q[j].n < t[k].n
  <2>1. CASE k = n + 1
    BY <1>2, <1>3, <2>1
  <2>2. CASE k \in 1..n
    BY <1>1, <1>2, <1>3, <2>2 DEF Before
  <2> QED
    BY <2>1, <2>2
<1>4. ASSUME Before(s, q), \A j \in 1..Len(q) : e.by = q[j].by /\ e.by \in RingSet => e.n < q[j].n,
             NEW j \in 1..(n + 1), NEW k \in 1..Len(q), t[j].by = q[k].by, t[j].by \in RingSet
      PROVE  t[j].n < q[k].n
  <2>1. CASE j = n + 1
    BY <1>2, <1>4, <2>1
  <2>2. CASE j \in 1..n
    BY <1>1, <1>2, <1>4, <2>2 DEF Before
  <2> QED
    BY <2>1, <2>2
<1> QED
  BY <1>2, <1>3, <1>4 DEF Before, t

LEMMA HappenedParts ==
  ASSUME NEW S, NEW c, NEW s \in Seq(S), Happened(s, c)
  PROVE  /\ \A e \in S : (e.by \in RingSet => e.n <= c[e.by]) => Happened(Append(s, e), c)
         /\ s # <<>> => Happened(Tail(s), c) /\ (Head(s).by \in RingSet => Head(s).n <= c[Head(s).by])
<1>1. PICK n \in Nat : n = Len(s)
  BY LenProperties
<1>2. ASSUME NEW e \in S, e.by \in RingSet => e.n <= c[e.by]
      PROVE  Happened(Append(s, e), c)
  <2> DEFINE t == Append(s, e)
  <2>1. Len(t) = n + 1 /\ t[n + 1] = e /\ \A j \in 1..n : t[j] = s[j]
    BY <1>1, AppendFacts
  <2> HIDE DEF t
  <2>2. ASSUME NEW j \in 1..(n + 1), t[j].by \in RingSet
        PROVE  t[j].n <= c[t[j].by]
    <3>1. CASE j = n + 1
      BY <1>2, <2>1, <2>2, <3>1
    <3>2. CASE j \in 1..n
      BY <1>1, <2>1, <2>2, <3>2 DEF Happened
    <3> QED
      BY <3>1, <3>2
  <2> QED
    BY <2>1, <2>2 DEF Happened, t
<1>3. ASSUME s # <<>>
      PROVE  Happened(Tail(s), c) /\ (Head(s).by \in RingSet => Head(s).n <= c[Head(s).by])
  <2> DEFINE t == Tail(s)
  <2>1. n \in Nat \ {0} /\ Len(t) = n - 1 /\ Head(s) = s[1] /\ \A j \in 1..(n - 1) : t[j] = s[j + 1]
    BY <1>1, <1>3, TailFacts
  <2> HIDE DEF t
  <2>2. ASSUME NEW j \in 1..(n - 1), t[j].by \in RingSet
        PROVE  t[j].n <= c[t[j].by]
    <3>1. PICK x \in 1..n : x = j + 1
      BY <2>1
    <3>2. t[j] = s[x]
      BY <2>1, <3>1
    <3> QED
      BY <1>1, <2>2, <3>2 DEF Happened
  <2>3. 1 \in 1..n
    BY <2>1
  <2>4. s[1].by \in RingSet => s[1].n <= c[s[1].by]
    BY <1>1, <2>3 DEF Happened
  <2> QED
    BY <2>1, <2>2, <2>4 DEF Happened, t
<1> QED
  BY <1>2, <1>3

LEMMA HappenedGrows ==
  ASSUME NEW S, \A e \in S : e.n \in Nat, NEW s \in Seq(S),
         NEW c \in [RingSet -> Nat], NEW d \in [RingSet -> Nat], \A r \in RingSet : c[r] <= d[r], Happened(s, c)
  PROVE  Happened(s, d)
<1>1. PICK n \in Nat : n = Len(s)
  BY LenProperties
<1>2. ASSUME NEW j \in 1..n, s[j].by \in RingSet
      PROVE  s[j].n <= d[s[j].by]
  <2>1. s[j] \in S
    BY <1>1, <1>2, ElementOfSeq
  <2>2. PICK r \in RingSet, m \in Nat : r = s[j].by /\ m = s[j].n
    BY <1>2, <2>1
  <2>3. m <= c[r] /\ c[r] <= d[r] /\ c[r] \in Nat /\ d[r] \in Nat
    BY <1>1, <1>2, <2>2 DEF Happened
  <2> QED
    BY <2>2, <2>3
<1> QED
  BY <1>1, <1>2 DEF Happened

\* An event that is counted now comes after all that happened.
LEMMA CountedLast ==
  ASSUME NEW S, \A x \in S : x.n \in Nat, NEW s \in Seq(S), NEW c \in [RingSet -> Nat], Happened(s, c),
         NEW e, e.by \in RingSet, e.n = c[e.by] + 1
  PROVE  \A j \in 1..Len(s) : s[j].by = e.by => s[j].n < e.n
<1>1. PICK n \in Nat : n = Len(s)
  BY LenProperties
<1>2. ASSUME NEW j \in 1..n, s[j].by = e.by
      PROVE  s[j].n < e.n
  <2>1. s[j] \in S
    BY <1>1, <1>2, ElementOfSeq
  <2>2. PICK r \in RingSet, m \in Nat : r = s[j].by /\ m = s[j].n
    BY <1>2, <2>1
  <2>3. m <= c[r] /\ c[r] \in Nat
    BY <1>1, <1>2, <2>2 DEF Happened
  <2> QED
    BY <1>2, <2>2, <2>3
<1> QED
  BY <1>1, <1>2

LEMMA NothingIsSorted ==
  ASSUME NEW q, NEW c
  PROVE  /\ Sorted(<<>>) /\ Happened(<<>>, c) /\ Before(<<>>, q) /\ Before(q, <<>>)
<1>1. 1..Len(<<>>) = {}
  OBVIOUS
<1> QED
  BY <1>1 DEF Sorted, Happened, Before

-----------------------------------------------------------------------------
(* The actions.                                                            *)

LEMMA LogStarts == LogInit => LInv
<1> SUFFICES ASSUME LogInit PROVE LInv
  OBVIOUS
<1> USE DEF LogInit
<1>1. Len(Rings) \in Nat /\ MaxEvents \in Nat /\ RingRoom \in Nat /\ Len(<<>>) = 0
  BY SecurityAssumption, LenProperties
<1>2. LogTypes
  <2>1. evtCount \in [RingSet -> 0..MaxEvents] /\ evtWriter \in [Writers -> WriterSteps]
    BY <1>1 DEF WriterSteps
  <2>2. evtRing \in [RingSet -> Seq(Occurred)] /\ evtTodo \in Seq(Occurred) /\ evtFile \in Seq(Pieces)
    BY EmptySeq
  <2>3. evtObject \in 1..(Len(Rings) + 1) /\ evtLock \subseteq Writers
    BY <1>1
  <2> QED
    BY <2>1, <2>2, <2>3 DEF LogTypes
<1>3. Poller \in Writers
  BY DEF Writers
<1>4. Locking
  BY <1>3 DEF Locking, Writing
<1>5. Pending = <<>>
  BY <1>3 DEF Pending
<1>6. Rows
  BY <1>1, <1>5, NothingIsSorted DEF Rows
<1>7. Whole
  BY <1>1 DEF Whole
<1> QED
  BY <1>2, <1>4, <1>6, <1>7 DEF LInv

\* What the rows of the programs and of the poller are made of.
LEMMA LogShape ==
  ASSUME LInv
  PROVE  /\ Poller \in Writers /\ evtCount \in [RingSet -> Nat] /\ RingRoom \in Nat
         /\ \A e \in Occurred : e \in Pieces /\ e.n \in Nat /\ e.by \in RingSet /\ e.by # "end"
         /\ \A e \in Pieces : e.n \in Nat
         /\ \A r \in RingSet : evtRing[r] \in Seq(Occurred)
         /\ \A w \in Writers : evtWriter[w] \in WriterSteps
<1>1. MaxEvents \in Nat /\ RingRoom \in Nat /\ "end" \notin RingSet
  BY SecurityAssumption
<1>2. LogTypes
  BY DEF LInv
<1>3. evtCount \in [RingSet -> Nat]
  BY <1>1, <1>2 DEF LogTypes
<1>4. \A e \in Occurred : e \in Pieces /\ e.n \in Nat /\ e.by \in RingSet /\ e.by # "end"
  BY <1>1 DEF Occurred, Pieces
<1>5. \A e \in Pieces : e.n \in Nat
  BY DEF Pieces
<1> QED
  BY <1>1, <1>2, <1>3, <1>4, <1>5 DEF Writers, LogTypes

LEMMA EmitKeeps ==
  ASSUME LInv, NEW r \in RingSet, EmitEvent(r)
  PROVE  LInv'
<1> USE DEF EmitEvent
<1> DEFINE e == Event(r, evtCount[r] + 1)
           new == IF Len(evtRing[r]) = RingRoom THEN evtRing[r] ELSE Append(evtRing[r], e)
<1>1. LogTypes /\ Rows /\ Locking /\ Whole
  BY DEF LInv
<1>2. e \in Occurred /\ e.by = r /\ e.n = evtCount[r] + 1 /\ e.by \in RingSet
  BY LogShape DEF Event, Occurred
<1>3. /\ evtCount' \in [RingSet -> 0..MaxEvents] /\ evtCount' \in [RingSet -> Nat]
      /\ \A x \in RingSet : evtCount[x] <= evtCount'[x]
      /\ evtCount'[r] = evtCount[r] + 1
  BY <1>1, SecurityAssumption DEF LogTypes
<1> HIDE DEF e
<1>4. /\ evtRing' \in [RingSet -> Seq(Occurred)] /\ evtRing'[r] = new
      /\ \A x \in RingSet \ {r} : evtRing'[x] = evtRing[x]
  <2>1. evtRing[r] \in Seq(Occurred) /\ new \in Seq(Occurred)
    BY <1>2, LogShape, AppendFacts
  <2> QED
    BY <1>1, <2>1 DEF LogTypes, e
<1>5. /\ \A x \in RingSet : Happened(evtRing[x], evtCount')
      /\ Happened(evtTodo, evtCount') /\ Happened(evtFile, evtCount')
  BY <1>1, <1>3, LogShape, HappenedGrows DEF LogTypes, Rows
<1>6. /\ Sorted(new) /\ Happened(new, evtCount') /\ Before(evtTodo, new) /\ Before(evtFile, new)
      /\ Len(new) <= RingRoom /\ \A k \in 1..Len(new) : new[k].by = r
  <2>1. CASE Len(evtRing[r]) = RingRoom
    BY <1>1, <1>5, <2>1 DEF Rows
  <2>2. CASE Len(evtRing[r]) # RingRoom
    <3>1. new = Append(evtRing[r], e) /\ evtRing[r] \in Seq(Occurred)
      BY <2>2, LogShape
    <3>2. \A j \in 1..Len(evtRing[r]) : evtRing[r][j].by = e.by => evtRing[r][j].n < e.n
      BY <1>1, <1>2, <3>1, LogShape, CountedLast DEF Rows
    <3>3. \A j \in 1..Len(evtTodo) : evtTodo[j].by = e.by => evtTodo[j].n < e.n
      BY <1>1, <1>2, LogShape, CountedLast DEF Rows, LogTypes
    <3>4. \A j \in 1..Len(evtFile) : evtFile[j].by = e.by => evtFile[j].n < e.n
      BY <1>1, <1>2, LogShape, CountedLast DEF Rows, LogTypes
    <3>5. Sorted(new)
      BY <1>1, <1>2, <3>1, <3>2, SortedAppend DEF Rows
    <3>6. Happened(new, evtCount')
      <4>1. e.by \in RingSet => e.n <= evtCount'[e.by]
        BY <1>2, <1>3, LogShape
      <4>2. PICK q \in Seq(Occurred), c \in [RingSet -> Nat] : q = evtRing[r] /\ c = evtCount'
        BY <1>3, <3>1
      <4>3. Happened(q, c)
        BY <1>5, <4>2
      <4>4. e \in Occurred /\ (e.by \in RingSet => e.n <= c[e.by])
        BY <1>2, <4>1, <4>2
      <4>5. \A x \in Occurred : (x.by \in RingSet => x.n <= c[x.by]) => Happened(Append(q, x), c)
        BY <4>3, HappenedParts
      <4>6. Happened(Append(q, e), c)
        BY <4>4, <4>5
      <4> QED
        BY <3>1, <4>2, <4>6
    <3>7. Before(evtTodo, new)
      BY <1>1, <1>2, <3>1, <3>3, BeforeAppend DEF Rows
    <3>8. Before(evtFile, new)
      BY <1>1, <1>2, <3>1, <3>4, BeforeAppend DEF Rows
    <3>9. PICK n \in Nat : n = Len(evtRing[r])
      BY <3>1, LenProperties
    <3>10. Len(new) = n + 1 /\ new[n + 1] = e /\ \A k \in 1..n : new[k] = evtRing[r][k]
      BY <1>2, <3>1, <3>9, AppendFacts
    <3>11. n <= RingRoom /\ n # RingRoom /\ RingRoom \in Nat /\ \A k \in 1..n : evtRing[r][k].by = r
      BY <1>1, <2>2, <3>9, SecurityAssumption DEF Rows
    <3> HIDE DEF new
    <3>12. Len(new) <= RingRoom
      BY <3>9, <3>10, <3>11
    <3>13. ASSUME NEW k \in 1..(n + 1)
           PROVE  new[k].by = r
      <4>1. CASE k = n + 1
        BY <1>2, <3>10, <4>1
      <4>2. CASE k \in 1..n
        BY <3>10, <3>11, <4>2
      <4> QED
        BY <3>9, <4>1, <4>2
    <3> QED
      BY <3>5, <3>6, <3>7, <3>8, <3>10, <3>12, <3>13
  <2> QED
    BY <2>1, <2>2
<1>7. UNCHANGED <<evtObject, evtTodo, evtLock, evtWriter, evtFile>>
  OBVIOUS
<1> HIDE DEF EmitEvent, new
<1>8. LogTypes'
  BY <1>1, <1>3, <1>4, <1>7 DEF LogTypes
<1>9. Locking' /\ Whole'
  BY <1>1, <1>7 DEF Locking, Whole
<1>10. Pending' = Pending
  BY <1>7 DEF Pending
<1>11. Rows'
  <2>1. ASSUME NEW x \in RingSet
        PROVE  /\ Sorted(evtRing'[x]) /\ Happened(evtRing'[x], evtCount') /\ Len(evtRing'[x]) <= RingRoom
               /\ \A k \in 1..Len(evtRing'[x]) : evtRing'[x][k].by = x
               /\ Before(evtTodo, evtRing'[x]) /\ Before(evtFile, evtRing'[x])
    <3>1. CASE x = r
      BY <1>4, <1>6, <3>1
    <3>2. CASE x # r
      BY <1>1, <1>4, <1>5, <3>2 DEF Rows
    <3> QED
      BY <3>1, <3>2
  <2> QED
    BY <1>1, <1>5, <1>7, <1>10, <2>1 DEF Rows
<1> QED
  BY <1>8, <1>9, <1>11 DEF LInv

\* What is reported, drained and written stays when only writers move on.
LEMMA RowsStay ==
  ASSUME LInv, UNCHANGED <<evtCount, evtRing, evtTodo, evtFile>>,
         evtWriter[Poller] \in {"written", "ended"} <=> evtWriter'[Poller] \in {"written", "ended"}
  PROVE  Rows'
<1>1. Pending' = Pending
  BY DEF Pending
<1> QED
  BY <1>1 DEF LInv, Rows

LEMMA PollKeeps ==
  ASSUME LInv, PollEvents
  PROVE  LInv'
<1> USE DEF PollEvents, WriterAt
<1>1. LogTypes /\ Locking /\ Whole /\ Poller \in Writers
  BY LogShape DEF LInv
<1>2. evtWriter' \in [Writers -> WriterSteps] /\ evtWriter'[Poller] = "drain"
      /\ \A w \in Writers \ {Poller} : evtWriter'[w] = evtWriter[w]
  BY <1>1 DEF LogTypes, WriterSteps
<1>3. Len(Rings) \in Nat \ {0} /\ 1 \in 1..Len(Rings) /\ 1 \in 1..(Len(Rings) + 1)
  BY SecurityAssumption, EmptySeq, LenProperties
<1>4. evtObject' = 1 /\ UNCHANGED <<evtCount, evtRing, evtTodo, evtLock, evtFile>> /\ evtWriter[Poller] = "rest"
  OBVIOUS
<1> HIDE DEF PollEvents, WriterAt
<1>5. LogTypes'
  BY <1>1, <1>2, <1>3, <1>4 DEF LogTypes
<1>6. Locking'
  BY <1>1, <1>2, <1>3, <1>4 DEF Locking, Writing
<1>7. Rows'
  BY <1>2, <1>4, RowsStay
<1>8. Whole'
  BY <1>1, <1>2, <1>4 DEF Whole
<1> QED
  BY <1>5, <1>6, <1>7, <1>8 DEF LInv

LEMMA NextObjectKeeps ==
  ASSUME LInv, NextObject
  PROVE  LInv'
<1> USE DEF NextObject, WriterAt
<1>1. LogTypes /\ Locking /\ Whole /\ Poller \in Writers
  BY LogShape DEF LInv
<1>2. /\ UNCHANGED <<evtCount, evtRing, evtTodo, evtLock, evtFile>> /\ evtWriter[Poller] = "drain"
      /\ evtObject \in 1..Len(Rings) /\ Len(Rings) \in Nat
  BY <1>1, SecurityAssumption, LenProperties DEF Locking
<1>3. /\ evtWriter' \in [Writers -> WriterSteps]
      /\ \A w \in Writers \ {Poller} : evtWriter'[w] = evtWriter[w]
      /\ evtWriter'[Poller] \in {"drain", "rest", "open"}
      /\ evtWriter'[Poller] = "rest" => evtTodo = <<>>
      /\ evtWriter'[Poller] = "open" => evtTodo # <<>>
  BY <1>1, <1>2 DEF LogTypes, WriterSteps
<1>4. evtObject' \in 1..Len(Rings) /\ evtObject' \in 1..(Len(Rings) + 1)
  BY <1>2
<1> HIDE DEF NextObject, WriterAt
<1>5. LogTypes'
  BY <1>1, <1>2, <1>3, <1>4 DEF LogTypes
<1>6. Locking'
  BY <1>1, <1>2, <1>3, <1>4 DEF Locking, Writing
<1>7. Rows'
  BY <1>2, <1>3, RowsStay
<1>8. Whole'
  BY <1>1, <1>2, <1>3 DEF Whole
<1> QED
  BY <1>5, <1>6, <1>7, <1>8 DEF LInv

LEMMA WriterStartsKeeps ==
  ASSUME LInv, NEW w \in Writers, WriterStarts(w)
  PROVE  LInv'
<1> USE DEF WriterStarts
<1>1. LogTypes /\ Locking /\ Whole /\ Poller \in Writers
  BY LogShape DEF LInv
<1>2. UNCHANGED <<evtCount, evtRing, evtObject, evtTodo, evtLock, evtFile>> /\ w # Poller /\ evtWriter[w] = "rest"
  OBVIOUS
<1>3. evtWriter' \in [Writers -> WriterSteps] /\ evtWriter'[w] = "open"
      /\ \A v \in Writers \ {w} : evtWriter'[v] = evtWriter[v]
  BY <1>1 DEF LogTypes, WriterSteps
<1> HIDE DEF WriterStarts
<1>4. LogTypes'
  BY <1>1, <1>2, <1>3 DEF LogTypes
<1>5. Locking'
  BY <1>1, <1>2, <1>3 DEF Locking, Writing
<1>6. Rows'
  BY <1>1, <1>2, <1>3, RowsStay
<1>7. Whole'
  BY <1>1, <1>2, <1>3 DEF Whole
<1> QED
  BY <1>4, <1>5, <1>6, <1>7 DEF LInv

LEMMA TakeLockKeeps ==
  ASSUME LInv, NEW w \in Writers, TakeLock(w)
  PROVE  LInv'
<1> USE DEF TakeLock, WriterAt
<1>1. LogTypes /\ Locking /\ Whole /\ Poller \in Writers
  BY LogShape DEF LInv
<1>2. /\ UNCHANGED <<evtCount, evtRing, evtObject, evtTodo, evtFile>> /\ evtWriter[w] = "open"
      /\ evtLock = {} /\ evtLock' = {w}
  OBVIOUS
<1>3. evtWriter' \in [Writers -> WriterSteps] /\ evtWriter'[w] = "locked"
      /\ \A v \in Writers \ {w} : evtWriter'[v] = evtWriter[v]
  BY <1>1 DEF LogTypes, WriterSteps
<1> HIDE DEF TakeLock, WriterAt
<1>4. LogTypes'
  BY <1>1, <1>2, <1>3 DEF LogTypes
<1>5. Locking'
  BY <1>1, <1>2, <1>3 DEF Locking, Writing
<1>6. Rows'
  <2>1. CASE w = Poller
    BY <1>2, <1>3, <2>1, RowsStay
  <2>2. CASE w # Poller
    BY <1>1, <1>2, <1>3, <2>2, RowsStay
  <2> QED
    BY <2>1, <2>2
<1>7. Whole'
  BY <1>1, <1>2, <1>3 DEF Whole
<1> QED
  BY <1>4, <1>5, <1>6, <1>7 DEF LInv

\* The poller drains the oldest event of a ring.
LEMMA NextItemKeeps ==
  ASSUME LInv, NextItem
  PROVE  LInv'
<1> USE DEF NextItem
<1>1. LogTypes /\ Locking /\ Rows /\ Whole
  BY DEF LInv
<1>2. PICK r \in RingSet : r = Rings[evtObject]
  <2>1. evtObject \in 1..Len(Rings)
    BY <1>1 DEF Locking
  <2> QED
    BY <2>1, SecurityAssumption, ElementOfSeq
<1>3. /\ evtRing[r] # <<>> /\ evtTodo' = Append(evtTodo, Head(evtRing[r]))
      /\ evtRing' = [evtRing EXCEPT ![r] = Tail(evtRing[r])]
      /\ UNCHANGED <<evtCount, evtObject, evtLock, evtWriter, evtFile>> /\ evtWriter[Poller] = "drain"
  BY <1>2
<1> HIDE DEF NextItem
<1>4. PICK q \in Seq(Occurred), todo \in Seq(Occurred) : q = evtRing[r] /\ todo = evtTodo /\ q # <<>>
  BY <1>1, <1>3, LogShape DEF LogTypes
<1>5. PICK e \in Occurred, t \in Seq(Occurred) : e = Head(q) /\ t = Tail(q)
  BY <1>4, TailFacts
<1>6. /\ evtRing'[r] = t /\ evtRing' \in [RingSet -> Seq(Occurred)]
      /\ \A x \in RingSet \ {r} : evtRing'[x] = evtRing[x]
  BY <1>1, <1>3, <1>4, <1>5 DEF LogTypes
<1>7. evtTodo' = Append(todo, e) /\ Append(todo, e) \in Seq(Occurred)
  BY <1>3, <1>4, <1>5, AppendFacts
<1>8. Sorted(q) /\ Before(todo, q) /\ Before(evtFile, q) /\ Happened(q, evtCount) /\ Sorted(todo) /\ Before(evtFile, todo)
  <2>1. Pending = evtTodo
    BY <1>3 DEF Pending
  <2> QED
    BY <1>1, <1>4, <2>1 DEF Rows
<1>9. /\ Sorted(t) /\ Before(todo, t) /\ Before(evtFile, t)
      /\ \A j \in 1..Len(t) : e.by = t[j].by /\ e.by \in RingSet => e.n < t[j].n
      /\ \A j \in 1..Len(todo) : todo[j].by = e.by /\ e.by \in RingSet => todo[j].n < e.n
      /\ \A j \in 1..Len(evtFile) : evtFile[j].by = e.by /\ e.by \in RingSet => evtFile[j].n < e.n
  <2>1. Sorted(t) /\ \A j \in 1..Len(t) : e.by = t[j].by /\ e.by \in RingSet => e.n < t[j].n
    BY <1>4, <1>5, <1>8, SortedTail
  <2>2. Before(todo, t) /\ \A j \in 1..Len(todo) : todo[j].by = e.by /\ e.by \in RingSet => todo[j].n < e.n
    BY <1>4, <1>5, <1>8, BeforeTail
  <2>3. Before(evtFile, t) /\ \A j \in 1..Len(evtFile) : evtFile[j].by = e.by /\ e.by \in RingSet => evtFile[j].n < e.n
    BY <1>4, <1>5, <1>8, BeforeTail
  <2> QED
    BY <2>1, <2>2, <2>3
<1>10. Happened(t, evtCount) /\ Happened(Append(todo, e), evtCount)
  <2>1. PICK c \in [RingSet -> Nat] : c = evtCount
    BY LogShape
  <2>2. Happened(q, c) /\ Happened(todo, c)
    BY <1>1, <1>4, <1>8, <2>1 DEF Rows
  <2>3. Happened(t, c) /\ (e.by \in RingSet => e.n <= c[e.by])
    BY <1>4, <1>5, <2>2, HappenedParts
  <2>4. \A x \in Occurred : (x.by \in RingSet => x.n <= c[x.by]) => Happened(Append(todo, x), c)
    BY <2>2, HappenedParts
  <2> QED
    BY <2>1, <2>3, <2>4
<1>11. Sorted(Append(todo, e)) /\ Before(Append(todo, e), t) /\ Before(evtFile, Append(todo, e))
  BY <1>8, <1>9, SortedAppend, BeforeAppend
<1>12. Len(t) <= RingRoom /\ \A k \in 1..Len(t) : t[k].by = r
  <2>1. PICK n \in Nat \ {0} : n = Len(q)
    BY <1>4, TailFacts
  <2>2. Len(t) = n - 1 /\ \A j \in 1..(n - 1) : t[j] = q[j + 1]
    BY <1>4, <1>5, <2>1, TailFacts
  <2>3. n <= RingRoom /\ RingRoom \in Nat /\ \A k \in 1..n : q[k].by = r
    BY <1>1, <1>4, <2>1, LogShape DEF Rows
  <2>4. ASSUME NEW k \in 1..(n - 1)
        PROVE  t[k].by = r
    <3>1. PICK y \in 1..n : y = k + 1
      BY <2>1
    <3> QED
      BY <2>2, <2>3, <3>1
  <2> QED
    BY <2>2, <2>3, <2>4
<1>13. ASSUME NEW x \in RingSet \ {r}
       PROVE  Before(Append(todo, e), evtRing[x])
  <2>1. evtRing[x] \in Seq(Occurred) /\ Before(todo, evtRing[x]) /\ \A k \in 1..Len(evtRing[x]) : evtRing[x][k].by = x
    BY <1>1, <1>4, LogShape DEF Rows
  <2>2. e.by = r
    <3>1. Len(q) \in Nat \ {0} /\ e = q[1] /\ \A k \in 1..Len(q) : q[k].by = r
      BY <1>1, <1>4, <1>5, TailFacts DEF Rows
    <3> QED
      BY <3>1
  <2>3. \A j \in 1..Len(evtRing[x]) : e.by = evtRing[x][j].by /\ e.by \in RingSet => e.n < evtRing[x][j].n
    BY <2>1, <2>2
  <2> QED
    BY <2>1, <2>3, BeforeAppend
<1>14. LogTypes'
  BY <1>1, <1>3, <1>6, <1>7 DEF LogTypes
<1>15. Locking'
  BY <1>1, <1>3 DEF Locking, Writing
<1>16. Whole'
  BY <1>1, <1>3 DEF Whole
<1>17. Pending' = Append(todo, e)
  BY <1>3, <1>7 DEF Pending
<1>18. Rows'
  <2>1. ASSUME NEW x \in RingSet
        PROVE  /\ Sorted(evtRing'[x]) /\ Happened(evtRing'[x], evtCount) /\ Len(evtRing'[x]) <= RingRoom
               /\ \A k \in 1..Len(evtRing'[x]) : evtRing'[x][k].by = x
               /\ Before(Append(todo, e), evtRing'[x]) /\ Before(evtFile, evtRing'[x])
    <3>1. CASE x = r
      BY <1>6, <1>9, <1>10, <1>11, <1>12, <3>1
    <3>2. CASE x # r
      BY <1>1, <1>6, <1>13, <3>2 DEF Rows
    <3> QED
      BY <3>1, <3>2
  <2> QED
    BY <1>1, <1>3, <1>7, <1>10, <1>11, <1>17, <2>1 DEF Rows
<1> QED
  BY <1>14, <1>15, <1>16, <1>18 DEF LInv

\* The file grows by a piece that belongs after everything of its object.
LEMMA FileGrows ==
  ASSUME LInv, NEW e \in Pieces, evtFile' = Append(evtFile, e),
         UNCHANGED <<evtCount, evtRing, evtTodo>>,
         \A j \in 1..Len(evtFile) : evtFile[j].by = e.by /\ e.by \in RingSet => evtFile[j].n < e.n,
         e.by \in RingSet => e.n <= evtCount[e.by],
         \A x \in RingSet : \A j \in 1..Len(evtRing[x]) :
           e.by = evtRing[x][j].by /\ e.by \in RingSet => e.n < evtRing[x][j].n,
         Before(Append(evtFile, e), Pending')
  PROVE  Rows'
<1>1. Rows /\ LogTypes
  BY DEF LInv
<1>2. PICK file \in Seq(Pieces), c \in [RingSet -> Nat] : file = evtFile /\ c = evtCount
  BY <1>1, LogShape DEF LogTypes
<1>3. Sorted(Append(file, e))
  BY <1>1, <1>2, SortedAppend DEF Rows
<1>4. Happened(Append(file, e), c)
  <2>1. Happened(file, c) /\ (e.by \in RingSet => e.n <= c[e.by])
    BY <1>1, <1>2 DEF Rows
  <2>2. \A x \in Pieces : (x.by \in RingSet => x.n <= c[x.by]) => Happened(Append(file, x), c)
    BY <2>1, HappenedParts
  <2> QED
    BY <2>1, <2>2
<1>5. ASSUME NEW x \in RingSet
      PROVE  Before(Append(file, e), evtRing[x])
  BY <1>1, <1>2, BeforeAppend DEF Rows
<1> QED
  BY <1>1, <1>2, <1>3, <1>4, <1>5 DEF Rows

LEMMA WriteEntryKeeps ==
  ASSUME LInv, NEW w \in Writers, WriteEntry(w)
  PROVE  LInv'
<1> USE DEF WriteEntry, WriterAt
<1>1. LogTypes /\ Locking /\ Rows /\ Whole /\ Poller \in Writers
  BY LogShape DEF LInv
<1>2. /\ UNCHANGED <<evtCount, evtRing, evtObject, evtTodo, evtLock>> /\ evtWriter[w] = "locked"
      /\ evtFile' = Append(evtFile, LogEntry(w))
  OBVIOUS
<1>3. evtWriter' \in [Writers -> WriterSteps] /\ evtWriter'[w] = "written"
      /\ \A v \in Writers \ {w} : evtWriter'[v] = evtWriter[v]
  BY <1>1 DEF LogTypes, WriterSteps
<1> HIDE DEF WriteEntry, WriterAt
<1>4. PICK todo \in Seq(Occurred), file \in Seq(Pieces) : todo = evtTodo /\ file = evtFile
  BY <1>1 DEF LogTypes
<1>5. Before(file, todo) \/ w # Poller
  BY <1>1, <1>2, <1>4 DEF Rows, Pending
<1>6. w = Poller => todo # <<>>
  BY <1>1, <1>2, <1>4 DEF Locking, Writing
<1>7. PICK e \in Pieces : e = LogEntry(w) /\ e.by # "end" /\ (w # Poller => e.by \notin RingSet)
  <2>1. CASE w = Poller
    <3>1. Head(todo) \in Occurred /\ LogEntry(w) = Head(todo)
      BY <1>4, <1>6, <2>1, TailFacts DEF LogEntry
    <3> QED
      BY <2>1, <3>1, LogShape
  <2>2. CASE w # Poller
    <3>1. w \in LogWriters /\ w \notin RingSet /\ w # "end"
      BY <2>2, SecurityAssumption DEF Writers
    <3>2. LogEntry(w) = [by |-> w, n |-> 0] /\ LogEntry(w).by = w
      BY <2>2 DEF LogEntry, Event
    <3>3. LogEntry(w) \in Pieces
      BY <3>2 DEF Pieces
    <3> QED
      BY <3>1, <3>2, <3>3
  <2> QED
    BY <2>1, <2>2
<1>8. /\ \A j \in 1..Len(file) : file[j].by = e.by /\ e.by \in RingSet => file[j].n < e.n
      /\ e.by \in RingSet => e.n <= evtCount[e.by]
      /\ \A x \in RingSet : \A j \in 1..Len(evtRing[x]) :
           e.by = evtRing[x][j].by /\ e.by \in RingSet => e.n < evtRing[x][j].n
      /\ Before(Append(file, e), Pending')
  <2>1. CASE w = Poller
    <3>1. e = Head(todo) /\ todo # <<>> /\ Pending' = Tail(todo)
      BY <1>2, <1>3, <1>4, <1>6, <1>7, <2>1 DEF LogEntry, Pending
    <3>2. PICK t \in Seq(Occurred) : t = Tail(todo)
      BY <3>1, TailFacts
    <3>3. Before(file, t) /\ \A j \in 1..Len(file) : file[j].by = e.by /\ e.by \in RingSet => file[j].n < e.n
      BY <1>5, <2>1, <3>1, <3>2, BeforeTail
    <3>4. \A j \in 1..Len(t) : e.by = t[j].by /\ e.by \in RingSet => e.n < t[j].n
      BY <1>1, <1>4, <3>1, <3>2, SortedTail DEF Rows
    <3>5. Before(Append(file, e), t)
      BY <3>3, <3>4, BeforeAppend
    <3>6. PICK c \in [RingSet -> Nat] : c = evtCount
      BY LogShape
    <3>7. e.by \in RingSet => e.n <= c[e.by]
      <4>1. Happened(todo, c)
        BY <1>1, <1>4, <3>6 DEF Rows
      <4> QED
        BY <3>1, <4>1, HappenedParts
    <3>8. Len(todo) \in Nat \ {0} /\ e = todo[1]
      BY <3>1, TailFacts
    <3>9. ASSUME NEW x \in RingSet, NEW j \in 1..Len(evtRing[x]), e.by = evtRing[x][j].by, e.by \in RingSet
          PROVE  e.n < evtRing[x][j].n
      <4>1. Before(todo, evtRing[x]) /\ 1 \in 1..Len(todo)
        BY <1>1, <1>4, <3>8 DEF Rows
      <4> QED
        BY <3>8, <3>9, <4>1 DEF Before
    <3> QED
      BY <3>1, <3>2, <3>3, <3>5, <3>6, <3>7, <3>9
  <2>2. CASE w # Poller
    <3>1. e.by \notin RingSet /\ Pending' = Pending /\ Before(file, Pending)
      BY <1>1, <1>2, <1>3, <1>4, <1>7, <2>2 DEF Pending, Rows
    <3>2. Before(Append(file, e), Pending)
      BY <3>1, BeforeAppend
    <3> QED
      BY <3>1, <3>2
  <2> QED
    BY <2>1, <2>2
<1>9. Rows'
  BY <1>2, <1>4, <1>7, <1>8, FileGrows
<1>10. LogTypes'
  <2>1. Append(file, e) \in Seq(Pieces)
    BY AppendFacts
  <2> QED
    BY <1>1, <1>2, <1>3, <1>4, <1>7, <2>1 DEF LogTypes
<1>11. Locking'
  BY <1>1, <1>2, <1>3 DEF Locking, Writing
<1>12. Whole'
  <2>1. PICK n \in Nat : n = Len(file)
    BY <1>4, LenProperties
  <2> DEFINE t == Append(file, e)
  <2>2. Len(t) = n + 1 /\ t[n + 1] = e /\ \A j \in 1..n : t[j] = file[j]
    BY <2>1, AppendFacts
  <2>3. evtFile' = t
    BY <1>2, <1>4, <1>7
  <2> HIDE DEF t
  <2>4. ASSUME NEW k \in 1..(n + 1), t[k].by = "end"
        PROVE  k > 1 /\ t[k - 1].by # "end"
    <3>1. k \in 1..n /\ t[k] = file[k]
      BY <1>7, <2>2, <2>4
    <3>2. k > 1 /\ file[k - 1].by # "end"
      BY <1>1, <1>4, <2>1, <2>4, <3>1 DEF Whole
    <3>3. PICK i \in 1..n : i = k - 1
      BY <3>1, <3>2
    <3> QED
      BY <2>2, <3>2, <3>3
  <2>5. t # <<>>
    BY <2>1, <2>2
  <2> QED
    BY <1>7, <2>2, <2>3, <2>4, <2>5 DEF Whole
<1> QED
  BY <1>9, <1>10, <1>11, <1>12 DEF LInv

LEMMA WriteEndKeeps ==
  ASSUME LInv, NEW w \in Writers, WriteEnd(w)
  PROVE  LInv'
<1> USE DEF WriteEnd, WriterAt
<1>1. LogTypes /\ Locking /\ Rows /\ Whole /\ Poller \in Writers
  BY LogShape DEF LInv
<1>2. /\ UNCHANGED <<evtCount, evtRing, evtObject, evtTodo, evtLock>> /\ evtWriter[w] = "written"
      /\ evtFile' = Append(evtFile, EndOfLine)
  OBVIOUS
<1>3. evtWriter' \in [Writers -> WriterSteps] /\ evtWriter'[w] = "ended"
      /\ \A v \in Writers \ {w} : evtWriter'[v] = evtWriter[v]
  BY <1>1 DEF LogTypes, WriterSteps
<1> HIDE DEF WriteEnd, WriterAt
<1>4. PICK file \in Seq(Pieces), e \in Pieces : file = evtFile /\ e = EndOfLine /\ e.by = "end" /\ e.by \notin RingSet
  <2>1. EndOfLine \in Pieces /\ EndOfLine.by = "end"
    BY DEF EndOfLine, Pieces
  <2>2. "end" \notin RingSet
    BY SecurityAssumption
  <2> QED
    BY <1>1, <2>1, <2>2 DEF LogTypes
<1>5. Pending' = Pending
  BY <1>1, <1>2, <1>3 DEF Pending
<1>6. Before(Append(file, e), Pending)
  BY <1>1, <1>4, BeforeAppend DEF Rows
<1>7. Rows'
  BY <1>2, <1>4, <1>5, <1>6, FileGrows
<1>8. LogTypes'
  <2>1. Append(file, e) \in Seq(Pieces)
    BY AppendFacts
  <2> QED
    BY <1>1, <1>2, <1>3, <1>4, <2>1 DEF LogTypes
<1>9. Locking'
  BY <1>1, <1>2, <1>3 DEF Locking, Writing
<1>10. \A v \in Writers : evtWriter'[v] # "written"
  <2>1. w \in evtLock /\ \A v \in evtLock : v = w
    BY <1>1, <1>2 DEF Locking
  <2> QED
    BY <1>1, <1>2, <1>3, <2>1 DEF Locking
<1>11. Whole'
  <2>1. PICK n \in Nat : n = Len(file)
    BY <1>4, LenProperties
  <2> DEFINE t == Append(file, e)
  <2>2. Len(t) = n + 1 /\ t[n + 1] = e /\ \A j \in 1..n : t[j] = file[j]
    BY <2>1, AppendFacts
  <2>3. evtFile' = t
    BY <1>2, <1>4
  <2> HIDE DEF t
  <2>4. n > 0 /\ file[n].by # "end"
    BY <1>1, <1>2, <1>4, <2>1, EmptySeq DEF Whole
  <2>5. ASSUME NEW k \in 1..(n + 1), t[k].by = "end"
        PROVE  k > 1 /\ t[k - 1].by # "end"
    <3>1. CASE k = n + 1
      <4>1. PICK i \in 1..n : i = n
        BY <2>1, <2>4
      <4>2. t[i] = file[i] /\ k - 1 = i /\ k > 1
        BY <2>2, <2>4, <3>1, <4>1
      <4> QED
        BY <2>4, <4>1, <4>2
    <3>2. CASE k \in 1..n
      <4>1. k > 1 /\ file[k - 1].by # "end"
        BY <1>1, <1>4, <2>1, <2>2, <2>5, <3>2 DEF Whole
      <4>2. PICK i \in 1..n : i = k - 1
        BY <3>2, <4>1
      <4> QED
        BY <2>2, <4>1, <4>2
    <3> QED
      BY <3>1, <3>2
  <2> QED
    BY <1>10, <2>2, <2>3, <2>5 DEF Whole
<1> QED
  BY <1>7, <1>8, <1>9, <1>11 DEF LInv

LEMMA UnlockKeeps ==
  ASSUME LInv, NEW w \in Writers, Unlock(w)
  PROVE  LInv'
<1> USE DEF Unlock, WriterAt
<1>1. LogTypes /\ Locking /\ Rows /\ Whole /\ Poller \in Writers
  BY LogShape DEF LInv
<1>2. /\ UNCHANGED <<evtCount, evtRing, evtObject, evtFile>> /\ evtWriter[w] = "ended" /\ evtLock' = {}
      /\ evtTodo' = IF w = Poller THEN Tail(evtTodo) ELSE evtTodo
  OBVIOUS
<1>3. /\ evtWriter' \in [Writers -> WriterSteps]
      /\ evtWriter'[w] = IF w # Poller THEN "done" ELSE IF Len(evtTodo) = 1 THEN "rest" ELSE "open"
      /\ \A v \in Writers \ {w} : evtWriter'[v] = evtWriter[v]
  BY <1>1 DEF LogTypes, WriterSteps
<1> HIDE DEF Unlock, WriterAt
<1>4. w \in evtLock /\ \A v \in evtLock : v = w
  BY <1>1, <1>2 DEF Locking
<1>5. \A v \in Writers : evtWriter'[v] \notin {"locked", "written", "ended"}
  BY <1>1, <1>2, <1>3, <1>4 DEF Locking
<1>6. PICK todo \in Seq(Occurred) : todo = evtTodo
  BY <1>1 DEF LogTypes
<1>7. CASE w = Poller
  <2>1. todo # <<>> /\ Pending = Tail(todo)
    BY <1>1, <1>2, <1>6, <1>7 DEF Locking, Writing, Pending
  <2>2. PICK t \in Seq(Occurred), n \in Nat \ {0} : t = Tail(todo) /\ n = Len(todo) /\ Len(t) = n - 1
    BY <2>1, TailFacts
  <2>3. evtTodo' = t /\ Pending' = t
    BY <1>2, <1>5, <1>6, <1>7, <2>2 DEF Pending
  <2>4. /\ evtWriter'[Poller] = "rest" => t = <<>>
        /\ evtWriter'[Poller] \in Writing => t # <<>>
        /\ evtWriter'[Poller] # "drain" /\ evtWriter'[Poller] # "done"
    <3>1. t = <<>> <=> n = 1
      BY <2>2, EmptySeq
    <3>2. n = 1 \/ n # 1
      OBVIOUS
    <3> QED
      BY <1>3, <1>6, <1>7, <2>2, <3>1, <3>2 DEF Writing
  <2>5. LogTypes'
    BY <1>1, <1>2, <1>3, <2>3 DEF LogTypes
  <2>6. Locking'
    BY <1>1, <1>2, <1>5, <2>3, <2>4 DEF Locking
  <2>7. Rows'
    <3>1. Sorted(t)
      BY <1>1, <1>6, <2>1, <2>2, SortedTail DEF Rows
    <3>2. Happened(t, evtCount)
      <4>1. PICK c \in [RingSet -> Nat] : c = evtCount
        BY LogShape
      <4>2. Happened(todo, c)
        BY <1>1, <1>6, <4>1 DEF Rows
      <4> QED
        BY <2>1, <2>2, <4>1, <4>2, HappenedParts
    <3>3. ASSUME NEW x \in RingSet
          PROVE  Before(t, evtRing[x])
      <4>1. Before(todo, evtRing[x])
        BY <1>1, <1>6 DEF Rows
      <4> QED
        BY <2>1, <2>2, <4>1, TailComesBefore
    <3>4. Before(evtFile, t)
      BY <1>1, <2>1, <2>2 DEF Rows
    <3> QED
      BY <1>1, <1>2, <2>3, <3>1, <3>2, <3>3, <3>4 DEF Rows
  <2>8. Whole'
    BY <1>1, <1>2, <1>5 DEF Whole
  <2> QED
    BY <2>5, <2>6, <2>7, <2>8 DEF LInv
<1>8. CASE w # Poller
  <2>1. evtTodo' = evtTodo /\ evtWriter'[Poller] = evtWriter[Poller]
    BY <1>1, <1>2, <1>3, <1>8
  <2>2. LogTypes' /\ Locking'
    BY <1>1, <1>2, <1>3, <1>5, <2>1 DEF LogTypes, Locking, Writing
  <2>3. Rows'
    BY <1>2, <2>1, RowsStay
  <2>4. Whole'
    BY <1>1, <1>2, <1>5 DEF Whole
  <2> QED
    BY <2>2, <2>3, <2>4 DEF LInv
<1> QED
  BY <1>7, <1>8

LEMMA WriteFailsKeeps ==
  ASSUME LInv, NEW w \in Writers, WriteFails(w)
  PROVE  LInv'
<1> USE DEF WriteFails, WriterAt
<1>1. LogTypes /\ Locking /\ Rows /\ Whole /\ Poller \in Writers
  BY LogShape DEF LInv
<1>2. /\ UNCHANGED <<evtCount, evtRing, evtObject, evtFile>> /\ evtWriter[w] \in {"open", "locked", "written"}
      /\ evtLock' = evtLock \ {w} /\ evtTodo' = IF w = Poller THEN <<>> ELSE evtTodo
  OBVIOUS
<1>3. /\ evtWriter' \in [Writers -> WriterSteps]
      /\ evtWriter'[w] = IF w = Poller THEN "rest" ELSE "done"
      /\ \A v \in Writers \ {w} : evtWriter'[v] = evtWriter[v]
  BY <1>1 DEF LogTypes, WriterSteps
<1> HIDE DEF WriteFails, WriterAt
<1>4. LogTypes'
  <2>1. <<>> \in Seq(Occurred) /\ evtTodo' \in Seq(Occurred)
    BY <1>1, <1>2, EmptySeq DEF LogTypes
  <2> QED
    BY <1>1, <1>2, <1>3, <2>1 DEF LogTypes
<1>5. Locking'
  <2>1. evtLock' = {} \/ \E v \in Writers : evtLock' = {v}
    BY <1>1, <1>2 DEF Locking
  <2>2. \A v \in Writers : v \in evtLock' <=> evtWriter'[v] \in {"locked", "written", "ended"}
    BY <1>1, <1>2, <1>3 DEF Locking
  <2>3. CASE w = Poller
    BY <1>2, <1>3, <2>1, <2>2, <2>3 DEF Locking, Writing
  <2>4. CASE w # Poller
    BY <1>1, <1>2, <1>3, <2>1, <2>2, <2>4 DEF Locking, Writing
  <2> QED
    BY <2>3, <2>4
<1>6. Rows'
  <2>1. CASE w = Poller
    <3>1. evtTodo' = <<>> /\ Pending' = <<>>
      BY <1>2, <1>3, <2>1 DEF Pending
    <3> QED
      BY <1>1, <1>2, <3>1, NothingIsSorted DEF Rows
  <2>2. CASE w # Poller
    BY <1>1, <1>2, <1>3, <2>2, RowsStay
  <2> QED
    BY <2>1, <2>2
<1>7. Whole'
  BY <1>1, <1>2, <1>3 DEF Whole
<1> QED
  BY <1>4, <1>5, <1>6, <1>7 DEF LInv

-----------------------------------------------------------------------------
LEMMA LogKeeps == LInv /\ [LogNext]_evtVars => LInv'
<1> SUFFICES ASSUME LInv, [LogNext]_evtVars
             PROVE  LInv'
  OBVIOUS
<1>1. ASSUME NEW r \in RingSet, EmitEvent(r)
      PROVE  LInv'
  BY <1>1, EmitKeeps
<1>2. CASE PollEvents
  BY <1>2, PollKeeps
<1>3. CASE NextItem
  BY <1>3, NextItemKeeps
<1>4. CASE NextObject
  BY <1>4, NextObjectKeeps
<1>5. ASSUME NEW w \in Writers, WriterStarts(w) \/ TakeLock(w)
      PROVE  LInv'
  BY <1>5, WriterStartsKeeps, TakeLockKeeps
<1>6. ASSUME NEW w \in Writers, WriteEntry(w) \/ WriteEnd(w)
      PROVE  LInv'
  BY <1>6, WriteEntryKeeps, WriteEndKeeps
<1>7. ASSUME NEW w \in Writers, Unlock(w) \/ WriteFails(w)
      PROVE  LInv'
  BY <1>7, UnlockKeeps, WriteFailsKeeps
<1>8. CASE UNCHANGED evtVars
  BY <1>8 DEF evtVars, LInv, LogTypes, Locking, Rows, Whole, Pending
<1> QED
  BY <1>1, <1>2, <1>3, <1>4, <1>5, <1>6, <1>7, <1>8 DEF LogNext

\* The invariant says what LogIsFaithful does.
LEMMA LogFollows == LInv => LogIsFaithful
<1> SUFFICES ASSUME LInv PROVE LogIsFaithful
  OBVIOUS
<1>1. LogTypes /\ Locking /\ Rows /\ Whole /\ Poller \in Writers
  BY LogShape DEF LInv
<1>2. LogTypeOK
  <2>1. \A r \in RingSet : evtCount[r] \in 0..MaxEvents /\ Len(evtRing[r]) <= RingRoom
    BY <1>1 DEF LogTypes, Rows
  <2>2. Cardinality(evtLock) <= 1
    <3>1. CASE evtLock = {}
      BY <3>1, FS_EmptySet
    <3>2. ASSUME NEW w \in Writers, evtLock = {w}
          PROVE  Cardinality(evtLock) <= 1
      BY <3>2, FS_Singleton
    <3> QED
      BY <1>1, <3>1, <3>2 DEF Locking
  <2>3. evtWriter[Poller] = "rest" => evtTodo = <<>>
    BY <1>1 DEF Locking
  <2>4. evtTodo = <<>> => evtWriter[Poller] \in {"rest", "drain"}
    <3>1. Poller \notin LogWriters
      BY SecurityAssumption
    <3>2. evtWriter[Poller] # "done"
      BY <1>1 DEF Locking
    <3> QED
      BY <1>1, <3>2 DEF Locking, LogTypes, Writing, WriterSteps
  <2> QED
    BY <1>1, <2>1, <2>2, <2>3, <2>4 DEF LogTypeOK, LogTypes, Locking, WriterSteps
<1>3. DOMAIN evtFile = 1..Len(evtFile)
  BY <1>1, LenProperties DEF LogTypes
<1>4. EventsKeepTheirOrder
  BY <1>1, <1>3 DEF EventsKeepTheirOrder, Rows, Sorted
<1>5. LinesAreWhole
  BY <1>1, <1>3 DEF LinesAreWhole, Whole, EndOfLine
<1> QED
  BY <1>2, <1>4, <1>5 DEF LogIsFaithful

\* Of each object's events none is logged twice and none before one that happened earlier, and
\* each line is whole: however many objects, threads and events there are, and whatever is lost
\* (poll_events, process_events, write_line).
THEOREM LogStaysFaithful == LogSpec => []LogIsFaithful
<1>1. LogSpec => []LInv
  BY LogStarts, LogKeeps, PTL DEF LogSpec
<1> QED
  BY <1>1, LogFollows, PTL

(***************************************************************************)
(* CertMaterial.                                                           *)
(*                                                                         *)
(* An endpoint, a client that was let in and a status are each sound when  *)
(* they come about, and nothing of what they rest on changes afterwards:   *)
(* the files that are replaced are not read again.                         *)
(***************************************************************************)
SoundEndpoint(e) ==
  /\ {"digitalSignature", "keyEncipherment"} \subseteq e.cert.usage /\ "decipherOnly" \notin e.cert.usage
  /\ "TLS Web Server Authentication" \in e.cert.eku /\ e.key = e.cert.key
  /\ IF e.hasCrl THEN e.crl.signer = e.ca.key /\ e.crl.issuer = e.ca.subject ELSE e.crl.serials = {}

VettedPeer(e, p) ==
  /\ p.cert.issuer = e.ca.subject /\ p.cert.signer = e.ca.key
  /\ p.cert.from <= p.at /\ p.at < p.cert.till
  /\ p.cert.serial \notin e.crl.serials /\ e.ca.serial \notin e.crl.serials

TrueStatus(s) ==
  s.status.loaded /\ s.at # s.file.body.till =>
    ((s.status.expired \/ s.status.notYet) <=> ~ InTime(s.file.body, s.at))

MInv ==
  /\ matNow \in 0..MaxMoment /\ matDisk \in TlsCases
  /\ matEndpoint = <<>> \/ \E e : matEndpoint = <<e>> /\ SoundEndpoint(e)
  /\ \/ matPeer = <<>>
     \/ \E e, p : matEndpoint = <<e>> /\ matPeer = <<p>> /\ VettedPeer(e, p) /\ p.at \in 0..matNow
  /\ matStatus = <<>> \/ \E s : matStatus = <<s>> /\ TrueStatus(s)

\* What is loaded without an error is what lies in a file of its kind.
LEMMA LoadedIsRead ==
  ASSUME NEW f, NEW what, Fine(LoadPem(f, what))
  PROVE  f.what = what /\ LoadPem(f, what).val = f.body
<1>1. LoadPem(f, what).err = "none"
  BY DEF Fine
<1>2. ValidateCertPath(f) = "none" \/ LoadPem(f, what).err = ValidateCertPath(f)
  BY DEF LoadPem, Bad
<1>3. LoadPem(f, what) = ParsePem(f, what)
  BY <1>1, <1>2 DEF LoadPem
<1> QED
  BY <1>1, <1>3 DEF ParsePem, Good, Bad

\* A certificate with the purpose of a server says so by its long name.
LEMMA ServerPurpose ==
  ASSUME NEW k \in TlsCases, Fine(LoadX509(k.cert)), CheckExtendedKeyUsage(LoadX509(k.cert).val, "serverAuth")
  PROVE  "TLS Web Server Authentication" \in LoadX509(k.cert).val.eku
<1>1. k.cert.what = "cert" /\ LoadX509(k.cert).val = k.cert.body
  BY LoadedIsRead DEF LoadX509
<1>2. k.cert.body.eku \cap ShortNames = {}
  BY <1>1, MaterialAssumption
<1>3. GetOidAliases("serverAuth") \subseteq {"serverAuth", "TLS Web Server Authentication", "1.3.6.1.5.5.7.3.1"}
  <2>1. ASSUME NEW names \in OidMappings, "serverAuth" \in names
        PROVE  names \subseteq {"serverAuth", "TLS Web Server Authentication", "1.3.6.1.5.5.7.3.1"}
    <3>1. "serverAuth" \notin {"clientAuth", "TLS Web Client Authentication", "1.3.6.1.5.5.7.3.2"}
      OBVIOUS
    <3> QED
      BY <2>1, <3>1 DEF OidMappings
  <2> QED
    BY <2>1 DEF GetOidAliases
<1> QED
  BY <1>1, <1>2, <1>3 DEF CheckExtendedKeyUsage, ShortNames

LEMMA UsageRead ==
  ASSUME NEW c, CheckKeyUsageContains(c, {"digitalSignature", "keyEncipherment"})
  PROVE  {"digitalSignature", "keyEncipherment"} \subseteq c.usage /\ "decipherOnly" \notin c.usage
<1>1. ExtractKeyUsageFlags(c).err = "none"
  BY DEF CheckKeyUsageContains, Fine
<1>2. c.hasUsage /\ c.usage # {} /\ "decipherOnly" \notin c.usage
  BY <1>1 DEF ExtractKeyUsageFlags, Bad
<1>3. ExtractKeyUsageFlags(c).val = c.usage
  BY <1>2 DEF ExtractKeyUsageFlags, Good
<1> QED
  BY <1>2, <1>3 DEF CheckKeyUsageContains

LEMMA EndpointBuilt ==
  ASSUME NEW k \in TlsCases, NEW now, LoadTlsCertificates(k), ConfigureCrlVerification(k, now)
  PROVE  SoundEndpoint(Endpoint(k))
<1> DEFINE cert == LoadX509(k.cert).val
           ca == LoadX509(k.ca).val
<1>1. /\ Fine(LoadX509(k.cert)) /\ CheckKeyUsageContains(cert, {"digitalSignature", "keyEncipherment"})
      /\ CheckExtendedKeyUsage(cert, "serverAuth")
      /\ LoadPrivateKey(k.key, k.password).val.key = cert.key
  BY DEF LoadTlsCertificates
<1>2. k.hasCrl => LoadCrl(k.crl).val.signer = ca.key /\ LoadCrl(k.crl).val.issuer = ca.subject
  <2> SUFFICES ASSUME k.hasCrl
               PROVE  LoadCrl(k.crl).val.signer = ca.key /\ LoadCrl(k.crl).val.issuer = ca.subject
    OBVIOUS
  <2>1. Fine(LoadAndVerifyCrl(k.crl, ca, now))
    BY DEF ConfigureCrlVerification
  <2>2. VerifyCrl(LoadCrl(k.crl).val, ca, now)
    BY <2>1 DEF LoadAndVerifyCrl, Fine, Bad
  <2> QED
    BY <2>2 DEF VerifyCrl
<1>3. /\ Endpoint(k).cert = cert /\ Endpoint(k).ca = ca /\ Endpoint(k).hasCrl = k.hasCrl
      /\ Endpoint(k).key = LoadPrivateKey(k.key, k.password).val.key
      /\ Endpoint(k).crl = IF k.hasCrl THEN LoadCrl(k.crl).val ELSE NoCrl
  BY DEF Endpoint
<1>4. NoCrl.serials = {}
  BY DEF NoCrl
<1>5. {"digitalSignature", "keyEncipherment"} \subseteq cert.usage /\ "decipherOnly" \notin cert.usage
  BY <1>1, UsageRead
<1>6. "TLS Web Server Authentication" \in cert.eku
  BY <1>1, ServerPurpose
<1> HIDE DEF cert, ca
<1> QED
  BY <1>1, <1>2, <1>3, <1>4, <1>5, <1>6 DEF SoundEndpoint

\* Who passes the handshake passed OpenSSL and, where there is a list, is not on it.
LEMMA PeerLetIn ==
  ASSUME NEW e, NEW peer, NEW now, SoundEndpoint(e), VerifyChain(peer, e.ca, now),
         e.hasCrl => VerifyCertWithCrl(TRUE, {peer, e.ca}, e)
  PROVE  VettedPeer(e, [cert |-> peer, at |-> now])
<1>1. /\ peer.issuer = e.ca.subject /\ peer.signer = e.ca.key
      /\ peer.from <= now /\ now < peer.till
  BY DEF VerifyChain, InTime
<1>2. peer.serial \notin e.crl.serials /\ e.ca.serial \notin e.crl.serials
  <2>1. CASE e.hasCrl
    BY <2>1 DEF VerifyCertWithCrl, IsCertRevoked
  <2>2. CASE ~ e.hasCrl
    BY <2>2 DEF SoundEndpoint
  <2> QED
    BY <2>1, <2>2
<1> QED
  BY <1>1, <1>2 DEF VettedPeer

\* The checker reads a certificate that has its moments.
LEMMA StatusTaken ==
  ASSUME NEW k \in TlsCases, NEW now \in Nat
  PROVE  TrueStatus([status |-> CheckOne(k.cert, now), file |-> k.cert, at |-> now])
<1> DEFINE f == k.cert
           st == CheckOne(f, now)
<1> SUFFICES ASSUME st.loaded, now # f.body.till
             PROVE  (st.expired \/ st.notYet) <=> ~ InTime(f.body, now)
  BY DEF TrueStatus
<1>1. Fine(LoadX509(f))
  BY DEF CheckOne
<1>2. f.what = "cert" /\ LoadX509(f).val = f.body
  BY <1>1, LoadedIsRead DEF LoadX509
<1>3. PICK from \in Nat, till \in Nat : from = f.body.from /\ till = f.body.till
  BY <1>2, MaterialAssumption
<1>4. /\ st.expired <=> till < now
      /\ st.notYet <=> from > now
  BY <1>1, <1>2, <1>3 DEF CheckOne, IsExpired, IsNotYetValid
<1>5. InTime(f.body, now) <=> from <= now /\ now < till
  BY <1>3 DEF InTime
<1>6. now # till
  BY <1>3
<1> HIDE DEF st, f
<1> QED
  BY <1>4, <1>5, <1>6

LEMMA MaterialStarts == MaterialInit => MInv
<1>1. FirstCase \in TlsCases
  BY MaterialAssumption DEF FirstCase
<1>2. 0 \in 0..MaxMoment
  BY MaterialAssumption
<1> QED
  BY <1>1, <1>2 DEF MaterialInit, MInv

LEMMA BuildKeeps == MInv /\ BuildTls => MInv'
<1> SUFFICES ASSUME MInv, BuildTls
             PROVE  MInv'
  OBVIOUS
<1>1. matEndpoint = <<>> /\ UNCHANGED <<matNow, matDisk, matPeer, matStatus>> /\ matPeer = <<>>
  BY DEF BuildTls, MInv
<1>2. CASE LoadTlsCertificates(matDisk) /\ ConfigureCrlVerification(matDisk, matNow)
  <2>1. matEndpoint' = <<Endpoint(matDisk)>>
    BY <1>2 DEF BuildTls
  <2>2. SoundEndpoint(Endpoint(matDisk))
    BY <1>2, EndpointBuilt DEF MInv
  <2>3. PICK e : e = Endpoint(matDisk)
    OBVIOUS
  <2> QED
    BY <1>1, <2>1, <2>2, <2>3 DEF MInv
<1>3. CASE ~ (LoadTlsCertificates(matDisk) /\ ConfigureCrlVerification(matDisk, matNow))
  <2>1. matEndpoint' = <<>>
    BY <1>3 DEF BuildTls
  <2> QED
    BY <1>1, <2>1 DEF MInv
<1> QED
  BY <1>2, <1>3

LEMMA HandshakeKeeps ==
  ASSUME MInv, NEW peer \in TlsPeers, Handshake(peer)
  PROVE  MInv'
<1>1. /\ matEndpoint # <<>> /\ UNCHANGED <<matNow, matDisk, matEndpoint, matStatus>>
      /\ matPeer' = <<[cert |-> peer, at |-> matNow]>>
  BY DEF Handshake
<1>2. PICK e : matEndpoint = <<e>> /\ SoundEndpoint(e)
  BY <1>1 DEF MInv
<1>3. matEndpoint[1] = e /\ matNow \in Nat
  BY <1>2, MaterialAssumption DEF MInv
<1>4. VerifyChain(peer, e.ca, matNow) /\ (e.hasCrl => VerifyCertWithCrl(TRUE, {peer, e.ca}, e))
  BY <1>3 DEF Handshake, VerifyCertWithCrl
<1>5. PICK p : p = [cert |-> peer, at |-> matNow]
  OBVIOUS
<1>6. VettedPeer(e, p) /\ p.at = matNow
  BY <1>2, <1>4, <1>5, PeerLetIn
<1>7. matPeer' = <<p>> /\ p.at \in 0..matNow
  BY <1>1, <1>3, <1>5, <1>6
<1> QED
  BY <1>1, <1>2, <1>6, <1>7 DEF MInv

LEMMA CheckKeeps == MInv /\ CheckAll => MInv'
<1> SUFFICES ASSUME MInv, CheckAll
             PROVE  MInv'
  OBVIOUS
<1>1. /\ UNCHANGED <<matNow, matDisk, matEndpoint, matPeer>>
      /\ matStatus' = <<[status |-> CheckOne(matDisk.cert, matNow), file |-> matDisk.cert, at |-> matNow]>>
  BY DEF CheckAll
<1>2. matDisk \in TlsCases /\ matNow \in Nat
  BY MaterialAssumption DEF MInv
<1>3. PICK s : s = [status |-> CheckOne(matDisk.cert, matNow), file |-> matDisk.cert, at |-> matNow]
  OBVIOUS
<1>4. TrueStatus(s)
  BY <1>2, <1>3, StatusTaken
<1>5. matStatus' = <<s>>
  BY <1>1, <1>3
<1> QED
  BY <1>1, <1>4, <1>5 DEF MInv

LEMMA MaterialKeeps == MInv /\ [MaterialNext]_matVars => MInv'
<1> SUFFICES ASSUME MInv, [MaterialNext]_matVars
             PROVE  MInv'
  OBVIOUS
<1>1. CASE BuildTls
  BY <1>1, BuildKeeps
<1>2. CASE ServerStops
  BY <1>2 DEF ServerStops, MInv
<1>3. CASE CheckAll
  BY <1>3, CheckKeeps
<1>4. CASE TimePasses
  <2>1. /\ UNCHANGED <<matDisk, matEndpoint, matPeer, matStatus>>
        /\ matNow' \in 0..MaxMoment /\ \A n \in 0..matNow : n \in 0..matNow'
    BY <1>4, MaterialAssumption DEF TimePasses, MInv
  <2> QED
    BY <2>1 DEF MInv
<1>5. ASSUME NEW peer \in TlsPeers, Handshake(peer)
      PROVE  MInv'
  BY <1>5, HandshakeKeeps
<1>6. ASSUME NEW k \in TlsCases, FilesReplaced(k)
      PROVE  MInv'
  BY <1>6 DEF FilesReplaced, MInv
<1>7. CASE UNCHANGED matVars
  BY <1>7 DEF matVars, MInv
<1> QED
  BY <1>1, <1>2, <1>3, <1>4, <1>5, <1>6, <1>7 DEF MaterialNext

LEMMA AtMostOne ==
  ASSUME NEW m, m = <<>> \/ \E e : m = <<e>>
  PROVE  Len(m) <= 1 /\ \A k \in 1..Len(m) : k = 1 /\ m # <<>>
<1>1. CASE m = <<>>
  <2>1. Len(m) = 0 /\ 1..Len(m) = {}
    BY <1>1
  <2> QED
    BY <2>1
<1>2. ASSUME NEW e, m = <<e>>
      PROVE  Len(m) = 1 /\ 1..Len(m) = {1} /\ m # <<>>
  BY <1>2
<1> QED
  BY <1>1, <1>2

LEMMA MaterialFollows == MInv => MaterialIsVetted
<1> SUFFICES ASSUME MInv PROVE MaterialIsVetted
  OBVIOUS
<1>1. Len(matEndpoint) <= 1 /\ \A k \in 1..Len(matEndpoint) : k = 1 /\ matEndpoint # <<>>
  BY AtMostOne DEF MInv
<1>2. Len(matStatus) <= 1 /\ \A k \in 1..Len(matStatus) : k = 1 /\ matStatus # <<>>
  BY AtMostOne DEF MInv
<1>3. MaterialTypeOK
  <2>1. matPeer # <<>> => matEndpoint # <<>> /\ matPeer[1].at <= matNow
    BY MaterialAssumption DEF MInv
  <2> QED
    BY <1>1, <1>2, <2>1 DEF MaterialTypeOK, MInv
<1>4. EndpointIsSound
  <2>1. matEndpoint # <<>> => SoundEndpoint(matEndpoint[1])
    BY DEF MInv
  <2>2. ASSUME NEW e, SoundEndpoint(e)
        PROVE  /\ {"digitalSignature", "keyEncipherment"} \subseteq e.cert.usage
               /\ "decipherOnly" \notin e.cert.usage
               /\ "TLS Web Server Authentication" \in e.cert.eku
               /\ e.key = e.cert.key
               /\ e.hasCrl => e.crl.signer = e.ca.key /\ e.crl.issuer = e.ca.subject
    BY <2>2 DEF SoundEndpoint
  <2> QED
    BY <1>1, <2>1, <2>2 DEF EndpointIsSound
<1>5. PeersAreVetted
  BY DEF MInv, PeersAreVetted, VettedPeer
<1>6. StatusMatchesOpenSsl
  <2>1. matStatus # <<>> => TrueStatus(matStatus[1])
    BY DEF MInv
  <2> QED
    BY <1>2, <2>1 DEF StatusMatchesOpenSsl, TrueStatus
<1> QED
  BY <1>3, <1>4, <1>5, <1>6 DEF MaterialIsVetted

\* Whatever files are put in place, whenever, and whatever clients come: the server runs with fit
\* material only, lets fit clients in only, and the checker judges as OpenSSL does
\* (load_tls_certificates, verify_cert_with_crl, check_one).
THEOREM MaterialStaysVetted == MaterialSpec => []MaterialIsVetted
<1>1. MaterialSpec => []MInv
  BY MaterialStarts, MaterialKeeps, PTL DEF MaterialSpec
<1> QED
  BY <1>1, MaterialFollows, PTL

-----------------------------------------------------------------------------
(***************************************************************************)
(* Trustring.                                                              *)
(*                                                                         *)
(* What a node loaded is fit to sign with; what the nodes signed has one   *)
(* signer and a text that tells its id; and an answer that is still to be  *)
(* read is about a plugin that is still there.                             *)
(***************************************************************************)
DigitalOnly(c) == Fine(ExtractKeyUsageFlags(c)) /\ ExtractKeyUsageFlags(c).val = {"digitalSignature"}

Loaded(p) ==
  /\ DigitalOnly(p.cert) /\ p.id = p.cert.id /\ p.id \in KeyIds
  /\ p.cert \in RingCerts /\ p.ca \in RingCas
  /\ p.hasCrl \/ p.serials = {}

OwnObject(cms) ==
  \E s : /\ cms = [form |-> "cms", certs |-> {s.cert}, signers |-> <<s>>]
         /\ s.digest = "sha256" /\ DigitalOnly(s.cert) /\ s.cert \in RingCerts

HasOrigin(id, made) ==
  \/ \E o \in made : Covers(o, id) /\ Owns(o.signers[1].cert, id)
  \/ \E o \in ForeignCms : o.form = "cms" /\ Covers(o, id)

Earned(a, plugin) ==
  a.kind \in {"verify", "verifySign"} /\ a.result \in 0..2 =>
    /\ Len(a.cms.signers) = 1 /\ a.cms.signers[1].cert \in a.cms.certs
    /\ a.cms.signers[1].text = a.data \o a.id /\ a.cms.signers[1].digest = "sha256"
    /\ a.cms.signers[1].cert.issuer = plugin.ca.subject /\ a.cms.signers[1].cert.signer = plugin.ca.key
    /\ a.cms.signers[1].cert.usage = {"digitalSignature"} /\ a.cms.signers[1].cert.curve = "p256"
    /\ a.cms.signers[1].cert.from <= a.at /\ a.at < plugin.ca.till
    /\ \A c \in a.cms.certs : c.serial \notin plugin.serials

Recognised(a, plugin, made) ==
  LET c == a.cms.signers[1].cert
  IN /\ a.kind = "verify" /\ a.cms \in made
     /\ a.id # Undecodable /\ a.cms.signers[1].text = a.data \o a.id
     /\ c.issuer = plugin.ca.subject /\ c.signer = plugin.ca.key /\ a.at < plugin.ca.till
     /\ c.from <= a.at /\ c.serial \notin plugin.serials /\ c.eku = {} /\ c.curve = "p256"
     => a.result = IF c.key = plugin.cert.key THEN 2 ELSE IF a.id = plugin.id THEN 0 ELSE 1

RInv ==
  /\ ringNow \in 0..MaxRingMoment /\ IsFiniteSet(ringMade) /\ Cardinality(ringMade) <= MaxMade
  /\ ringPlugin = [n \in RingNodes |-> ringPlugin[n]]
  /\ \A n \in RingNodes : ringPlugin[n] = <<>> \/ \E p : ringPlugin[n] = <<p>> /\ Loaded(p)
  /\ \A cms \in ringMade : OwnObject(cms)
  /\ \A cms \in ringMade, id \in RingIds \ {Undecodable} : Covers(cms, id) => HasOrigin(id, ringMade)
  /\ \/ ringAnswer = <<>>
     \/ \E a, p : /\ ringAnswer = <<a>> /\ a.node \in RingNodes /\ ringPlugin[a.node] = <<p>>
                  /\ Earned(a, p) /\ Recognised(a, p, ringMade)

-----------------------------------------------------------------------------
(* OpenSSL's complaints.                                                   *)

Complaints == [code : Nat, depth : Nat]

Single(code, depth) == <<[code |-> code, depth |-> depth]>>

LEMMA OneComplaint ==
  ASSUME NEW code \in Nat, NEW depth \in Nat
  PROVE  /\ Single(code, depth) \in Seq(Complaints) /\ <<>> \in Seq(Complaints) /\ Unexcused(<<>>) = {}
         /\ Unexcused(Single(code, depth)) = {} <=> code = 10 /\ depth = 0
<1> DEFINE e == [code |-> code, depth |-> depth]
<1>1. Single(code, depth) = <<e>> /\ DOMAIN <<e>> = {1} /\ <<e>>[1] = e /\ e \in Complaints
  BY DEF Complaints, Single
<1>2. e.code = code /\ e.depth = depth
  OBVIOUS
<1> HIDE DEF e
<1>3. <<e>> \in Seq(Complaints) /\ <<>> \in Seq(Complaints)
  BY <1>1, EmptySeq
<1>4. Unexcused(<<e>>) = {} <=> VerifyCallback(e)
  BY <1>1 DEF Unexcused
<1>5. VerifyCallback(e) <=> code = 10 /\ depth = 0
  BY <1>2 DEF VerifyCallback
<1>6. Unexcused(<<>>) = {}
  BY DEF Unexcused
<1> QED
  BY <1>1, <1>3, <1>4, <1>5, <1>6

\* Two lists of complaints are excused if each of them is.
LEMMA ExcusedParts ==
  ASSUME NEW s \in Seq(Complaints), NEW t \in Seq(Complaints)
  PROVE  /\ s \o t \in Seq(Complaints)
         /\ Unexcused(s \o t) = {} <=> Unexcused(s) = {} /\ Unexcused(t) = {}
<1>1. PICK m \in Nat, n \in Nat : m = Len(s) /\ n = Len(t)
  BY LenProperties
<1> DEFINE u == s \o t
<1>2. /\ u \in Seq(Complaints) /\ Len(u) = m + n
      /\ \A i \in 1..(m + n) : u[i] = IF i <= m THEN s[i] ELSE t[i - m]
  BY <1>1, ConcatProperties
<1>3. DOMAIN s = 1..m /\ DOMAIN t = 1..n /\ DOMAIN u = 1..(m + n)
  BY <1>1, <1>2, LenProperties
<1> HIDE DEF u
<1>4. ASSUME Unexcused(u) = {}, NEW i \in 1..m
      PROVE  VerifyCallback(s[i])
  <2>1. i \in 1..(m + n) /\ u[i] = s[i]
    BY <1>2
  <2> QED
    BY <1>3, <1>4, <2>1 DEF Unexcused
<1>5. ASSUME Unexcused(u) = {}, NEW i \in 1..n
      PROVE  VerifyCallback(t[i])
  <2>1. PICK k \in 1..(m + n) : k = m + i
    OBVIOUS
  <2>2. u[k] = t[i]
    <3>1. ~ (k <= m) /\ k - m = i
      BY <2>1
    <3> QED
      BY <1>2, <3>1
  <2> QED
    BY <1>3, <1>5, <2>2 DEF Unexcused
<1>6. ASSUME Unexcused(s) = {}, Unexcused(t) = {}, NEW i \in 1..(m + n)
      PROVE  VerifyCallback(u[i])
  <2>1. CASE i <= m
    <3>1. i \in 1..m /\ u[i] = s[i]
      BY <1>2, <2>1
    <3> QED
      BY <1>3, <1>6, <3>1 DEF Unexcused
  <2>2. CASE ~ (i <= m)
    <3>1. PICK k \in 1..n : k = i - m
      BY <2>2
    <3>2. u[i] = t[k]
      BY <1>2, <2>2, <3>1
    <3> QED
      BY <1>3, <1>6, <3>1, <3>2 DEF Unexcused
  <2> QED
    BY <2>1, <2>2
<1> QED
  BY <1>2, <1>3, <1>4, <1>5, <1>6 DEF Unexcused, u

\* A chain is accepted if the CA named and signed the certificate and nothing but its end is over.
LEMMA ChainAccepted ==
  ASSUME NEW c, NEW ca, NEW now
  PROVE  Unexcused(ChainErrors(c, ca, now)) = {} <=>
           /\ c.issuer = ca.subject /\ PurposeOk(c) /\ ~ (now >= ca.till)
           /\ ~ (c.signer # ca.key) /\ ~ (now < c.from)
<1>1. CASE c.issuer # ca.subject
  <2>a. PICK code : code = IF c.issuer = c.subject THEN 18 ELSE 20
    OBVIOUS
  <2>b. code \in Nat /\ code # 10
    BY <2>a
  <2>c. ChainErrors(c, ca, now) = Complaint(TRUE, code, 0)
    BY <1>1, <2>a DEF ChainErrors
  <2>1. ChainErrors(c, ca, now) = Single(code, 0)
    BY <2>c DEF Complaint, Single
  <2>2. Unexcused(Single(code, 0)) # {}
    BY <2>b, OneComplaint
  <2> QED
    BY <1>1, <2>1, <2>2
<1>2. CASE c.issuer = ca.subject
  <2> DEFINE p == Complaint(~ PurposeOk(c), 26, 0)
             q == Complaint(now >= ca.till, 10, 1)
             r == Complaint(c.signer # ca.key, 7, 0)
             s == Complaint(now < c.from, 9, 0)
             t == Complaint(now >= c.till, 10, 0)
  <2>1. ChainErrors(c, ca, now) = p \o q \o r \o s \o t
    BY <1>2 DEF ChainErrors
  <2>2. p \in Seq(Complaints) /\ (Unexcused(p) = {} <=> PurposeOk(c))
    <3>1. CASE ~ PurposeOk(c)
      BY <3>1, OneComplaint DEF Complaint, Single
    <3>2. CASE ~ (~ PurposeOk(c))
      BY <3>2, OneComplaint DEF Complaint
    <3> QED
      BY <3>1, <3>2
  <2>3. q \in Seq(Complaints) /\ (Unexcused(q) = {} <=> ~ (now >= ca.till))
    <3>1. CASE now >= ca.till
      BY <3>1, OneComplaint DEF Complaint, Single
    <3>2. CASE ~ (now >= ca.till)
      BY <3>2, OneComplaint DEF Complaint
    <3> QED
      BY <3>1, <3>2
  <2>4. r \in Seq(Complaints) /\ (Unexcused(r) = {} <=> ~ (c.signer # ca.key))
    <3>1. CASE c.signer # ca.key
      BY <3>1, OneComplaint DEF Complaint, Single
    <3>2. CASE ~ (c.signer # ca.key)
      BY <3>2, OneComplaint DEF Complaint
    <3> QED
      BY <3>1, <3>2
  <2>5. s \in Seq(Complaints) /\ (Unexcused(s) = {} <=> ~ (now < c.from))
    <3>1. CASE now < c.from
      BY <3>1, OneComplaint DEF Complaint, Single
    <3>2. CASE ~ (now < c.from)
      BY <3>2, OneComplaint DEF Complaint
    <3> QED
      BY <3>1, <3>2
  <2>6. t \in Seq(Complaints) /\ Unexcused(t) = {}
    <3>1. CASE now >= c.till
      BY <3>1, OneComplaint DEF Complaint, Single
    <3>2. CASE ~ (now >= c.till)
      BY <3>2, OneComplaint DEF Complaint
    <3> QED
      BY <3>1, <3>2
  <2> HIDE DEF p, q, r, s, t
  <2>7. p \o q \in Seq(Complaints) /\ (Unexcused(p \o q) = {} <=> Unexcused(p) = {} /\ Unexcused(q) = {})
    BY <2>2, <2>3, ExcusedParts
  <2>8. PICK pq \in Seq(Complaints) : pq = p \o q
    BY <2>7
  <2>9. PICK pqr \in Seq(Complaints) : pqr = pq \o r /\ (Unexcused(pqr) = {} <=> Unexcused(pq) = {} /\ Unexcused(r) = {})
    BY <2>4, ExcusedParts
  <2>10. PICK pqrs \in Seq(Complaints) :
           pqrs = pqr \o s /\ (Unexcused(pqrs) = {} <=> Unexcused(pqr) = {} /\ Unexcused(s) = {})
    BY <2>5, ExcusedParts
  <2>11. Unexcused(pqrs \o t) = {} <=> Unexcused(pqrs) = {} /\ Unexcused(t) = {}
    BY <2>6, ExcusedParts
  <2>12. ChainErrors(c, ca, now) = pqrs \o t
    BY <2>1, <2>8, <2>9, <2>10
  <2> QED
    BY <1>2, <2>2, <2>3, <2>4, <2>5, <2>6, <2>7, <2>8, <2>9, <2>10, <2>11, <2>12
<1> QED
  BY <1>1, <1>2

-----------------------------------------------------------------------------
(* Verification.                                                           *)

Formed(cms) ==
  /\ DOMAIN cms.signers = 1..Len(cms.signers)
  /\ \A k \in DOMAIN cms.signers : cms.signers[k].cert.from \in Nat

LEMMA CertOfOne ==
  ASSUME NEW c, DigitalOnly(c)
  PROVE  c.hasUsage /\ c.usage = {"digitalSignature"} /\ VerifySignerKeyUsage(c)
<1>1. ExtractKeyUsageFlags(c).err = "none"
  BY DEF DigitalOnly, Fine
<1>2. c.hasUsage /\ ExtractKeyUsageFlags(c) = Good(c.usage)
  BY <1>1 DEF ExtractKeyUsageFlags, Bad
<1>3. ExtractKeyUsageFlags(c).val = c.usage
  BY <1>2 DEF Good
<1> QED
  BY <1>2, <1>3 DEF DigitalOnly, VerifySignerKeyUsage

\* What a verification that succeeds has looked at.
LEMMA VerifiedMeans ==
  ASSUME NEW plugin, NEW cms, NEW data, NEW id, NEW now \in Nat, plugin.ca.till \in Nat, Formed(cms),
         VerifySignatureOnly(plugin, cms, data, id, now) = "none"
  PROVE  /\ cms.form = "cms" /\ Len(cms.signers) = 1 /\ cms.signers[1].cert \in cms.certs
         /\ cms.signers[1].text = data \o id /\ cms.signers[1].digest = "sha256"
         /\ cms.signers[1].cert.issuer = plugin.ca.subject /\ cms.signers[1].cert.signer = plugin.ca.key
         /\ cms.signers[1].cert.usage = {"digitalSignature"} /\ cms.signers[1].cert.curve = "p256"
         /\ cms.signers[1].cert.from <= now /\ now < plugin.ca.till
         /\ plugin.hasCrl => \A c \in cms.certs : c.serial \notin plugin.serials
<1> DEFINE s == cms.signers[1]
           verified == CmsVerify(plugin, cms, Input(data, id), now)
<1>1. /\ cms.form = "cms" /\ verified = "none" /\ OneSigner(cms)
      /\ VerifySignerKeyUsage(s.cert) /\ VerifySignerAlgorithm(s) /\ CheckCrlRevocation(plugin, cms)
  <2>1. "none" \notin {"format", "usage", "algorithm", "revoked"}
    OBVIOUS
  <2> HIDE DEF s, verified
  <2>2. VerifySignatureOnly(plugin, cms, data, id, now) =
          IF cms.form # "cms" THEN "format"
          ELSE IF verified # "none" THEN verified
          ELSE IF ~ OneSigner(cms) THEN "format"
          ELSE IF ~ VerifySignerKeyUsage(s.cert) THEN "usage"
          ELSE IF ~ VerifySignerAlgorithm(s) THEN "algorithm"
          ELSE IF ~ CheckCrlRevocation(plugin, cms) THEN "revoked"
          ELSE "none"
    BY DEF VerifySignatureOnly, s, verified
  <2> QED
    BY <2>1, <2>2
<1>2. Len(cms.signers) = 1 /\ DOMAIN cms.signers = {1}
  BY <1>1 DEF OneSigner, Formed
<1>3. \A code : MapX509Error(code) # "none"
  BY DEF MapX509Error
<1>4. s.cert \in cms.certs /\ Unexcused(ChainErrors(s.cert, plugin.ca, now)) = {} /\ s.text = Input(data, id)
  BY <1>1, <1>2, <1>3 DEF CmsVerify
<1>5. /\ s.cert.issuer = plugin.ca.subject /\ s.cert.signer = plugin.ca.key
      /\ ~ (now >= plugin.ca.till) /\ ~ (now < s.cert.from)
  BY <1>4, ChainAccepted
<1>6. s.cert.from <= now /\ now < plugin.ca.till
  <2>1. s.cert.from \in Nat
    BY <1>2 DEF Formed
  <2> HIDE DEF s
  <2> QED
    BY <1>5, <2>1
<1>7. s.cert.usage = {"digitalSignature"}
  BY <1>1, CertOfOne DEF VerifySignerKeyUsage, DigitalOnly
<1>8. s.cert.curve = "p256" /\ s.digest = "sha256"
  BY <1>1 DEF VerifySignerAlgorithm
<1>9. plugin.hasCrl => \A c \in cms.certs : c.serial \notin plugin.serials
  BY <1>1 DEF CheckCrlRevocation
<1> QED
  BY <1>1, <1>2, <1>4, <1>5, <1>6, <1>7, <1>8, <1>9 DEF Input

\* What a node signed verifies where its CA and list allow it.
LEMMA GenuineVerifies ==
  ASSUME NEW plugin, NEW cms, NEW data, NEW id, NEW now \in Nat, plugin.ca.till \in Nat,
         OwnObject(cms), cms.signers[1].text = data \o id,
         cms.signers[1].cert.issuer = plugin.ca.subject, cms.signers[1].cert.signer = plugin.ca.key,
         now < plugin.ca.till, cms.signers[1].cert.from <= now,
         cms.signers[1].cert.serial \notin plugin.serials, cms.signers[1].cert.eku = {},
         cms.signers[1].cert.curve = "p256"
  PROVE  VerifySignatureOnly(plugin, cms, data, id, now) = "none"
<1>1. PICK s : /\ cms = [form |-> "cms", certs |-> {s.cert}, signers |-> <<s>>]
               /\ s.digest = "sha256" /\ DigitalOnly(s.cert) /\ s.cert \in RingCerts
  BY DEF OwnObject
<1>2. /\ cms.form = "cms" /\ cms.certs = {s.cert} /\ cms.signers = <<s>> /\ cms.signers[1] = s
      /\ Len(cms.signers) = 1 /\ DOMAIN cms.signers = {1}
  BY <1>1
<1>3. Unexcused(ChainErrors(s.cert, plugin.ca, now)) = {}
  <2>1. PurposeOk(s.cert)
    BY <1>1, <1>2, CertOfOne DEF PurposeOk
  <2>2. ~ (now >= plugin.ca.till) /\ ~ (now < s.cert.from)
    <3>1. s.cert.from \in Nat
      BY <1>1, RingAssumption
    <3>2. now < plugin.ca.till /\ s.cert.from <= now
      BY <1>2
    <3> QED
      BY <3>1, <3>2
  <2> QED
    BY <1>2, <2>1, <2>2, ChainAccepted
<1>4. CmsVerify(plugin, cms, Input(data, id), now) = "none"
  BY <1>2, <1>3 DEF CmsVerify, Input
<1>5. VerifySignerKeyUsage(s.cert) /\ VerifySignerAlgorithm(s) /\ OneSigner(cms) /\ CheckCrlRevocation(plugin, cms)
  BY <1>1, <1>2, CertOfOne DEF VerifySignerAlgorithm, OneSigner, CheckCrlRevocation
<1> QED
  BY <1>2, <1>4, <1>5 DEF VerifySignatureOnly

LEMMA InputFacts ==
  ASSUME NEW S, NEW a \in Seq(S), NEW x \in Seq(S)
  PROVE  /\ Len(Input(a, x)) = Len(a) + Len(x)
         /\ \A q \in 1..(Len(a) + Len(x)) : Input(a, x)[q] = IF q <= Len(a) THEN a[q] ELSE x[q - Len(a)]
BY ConcatProperties DEF Input

LEMMA SameEnd ==
  ASSUME NEW S, NEW a \in Seq(S), NEW x \in Seq(S), NEW b \in Seq(S), NEW y \in Seq(S),
         Len(a) = Len(b), Len(x) = Len(y), Input(a, x) = Input(b, y)
  PROVE  x = y
<1>1. \A q \in 1..(Len(a) + Len(x)) : Input(a, x)[q] = IF q <= Len(a) THEN a[q] ELSE x[q - Len(a)]
  BY InputFacts
<1>2. \A q \in 1..(Len(b) + Len(y)) : Input(b, y)[q] = IF q <= Len(b) THEN b[q] ELSE y[q - Len(b)]
  BY InputFacts
<1>3. PICK m \in Nat, n \in Nat : m = Len(a) /\ n = Len(x)
  BY LenProperties
<1>4. ASSUME NEW l \in 1..n
      PROVE  x[l] = y[l]
  <2>1. PICK p \in 1..(m + n) : p = m + l
    OBVIOUS
  <2>2. ~ (p <= m) /\ p - m = l
    BY <2>1
  <2>3. Input(a, x)[p] = x[l]
    BY <1>1, <1>3, <2>2
  <2>4. Input(b, y)[p] = y[l]
    BY <1>2, <1>3, <2>2
  <2> QED
    BY <2>3, <2>4
<1> QED
  BY <1>3, <1>4, SeqEqual

LEMMA SameText ==
  ASSUME NEW i \in KeyIds, NEW j \in KeyIds, NEW d \in RingData, NEW e \in RingData, d \o i = e \o j
  PROVE  i = j
<1>s. PICK S : S = STRING
  OBVIOUS
<1>1. PICK x \in Seq(S), y \in Seq(S) : x = i /\ y = j
  BY <1>s, RingAssumption
<1>2. PICK a \in Seq(S), b \in Seq(S) : a = d /\ b = e
  BY <1>s, RingAssumption
<1>3. PICK n \in Nat : n = Len(x) /\ n = Len(y)
  BY <1>1, RingAssumption, LenProperties
<1>4. PICK m \in Nat, k \in Nat : m = Len(a) /\ k = Len(b)
  BY LenProperties
<1>5. Input(a, x) = Input(b, y)
  BY <1>1, <1>2 DEF Input
<1>6. Len(Input(a, x)) = m + n /\ Len(Input(b, y)) = k + n
  BY <1>3, <1>4, InputFacts
<1>7. m = k
  BY <1>5, <1>6
<1> QED
  BY <1>1, <1>3, <1>4, <1>5, <1>7, SameEnd

-----------------------------------------------------------------------------
(* The nodes.                                                              *)

LEMMA RingStarts == RingInit => RInv
<1>1. 0 \in 0..MaxRingMoment /\ MaxMade \in Nat
  BY RingAssumption
<1>2. IsFiniteSet({}) /\ Cardinality({}) = 0
  BY FS_EmptySet
<1> QED
  BY <1>1, <1>2 DEF RingInit, RInv

\* What a node loads is what lies at its paths, and can sign.
LEMMA LoadedPlugin ==
  ASSUME NEW n \in RingNodes, NEW k \in RingCases[n], NEW now, PluginUsable(k, now)
  PROVE  Loaded(NewPlugin(k))
<1> DEFINE p == NewPlugin(k)
           cert == LoadX509(k.cert)
           key == LoadPrivateKey(k.key, NoPassword)
<1>1. /\ Fine(LoadCmsCertificate(k)) /\ Fine(LoadX509(k.ca))
  BY DEF PluginUsable
<1>2. /\ Fine(cert) /\ DigitalOnly(cert.val) /\ Fine(ExtractSubjectKeyId(cert.val))
      /\ LoadCmsCertificate(k).val.cert = cert.val
      /\ LoadCmsCertificate(k).val.id = ExtractSubjectKeyId(cert.val).val
  <2>1. LoadCmsCertificate(k).err = "none"
    BY <1>1 DEF Fine
  <2>2. /\ Fine(cert) /\ Fine(ExtractKeyUsageFlags(cert.val))
        /\ ExtractKeyUsageFlags(cert.val).val = {"digitalSignature"} /\ Fine(ExtractSubjectKeyId(cert.val))
        /\ LoadCmsCertificate(k) = Good([cert |-> cert.val, key |-> key.val.key,
                                         id |-> ExtractSubjectKeyId(cert.val).val])
    <3> HIDE DEF cert, key
    <3>1. \/ LoadCmsCertificate(k) = Bad("format")
          \/ /\ Fine(cert) /\ Fine(ExtractKeyUsageFlags(cert.val))
             /\ ExtractKeyUsageFlags(cert.val).val = {"digitalSignature"} /\ Fine(ExtractSubjectKeyId(cert.val))
             /\ LoadCmsCertificate(k) = Good([cert |-> cert.val, key |-> key.val.key,
                                              id |-> ExtractSubjectKeyId(cert.val).val])
      BY DEF LoadCmsCertificate, cert, key
    <3> QED
      BY <2>1, <3>1 DEF Bad
  <2> HIDE DEF cert, key
  <2> QED
    BY <2>2 DEF DigitalOnly, Good
<1>3. k.cert.what = "cert" /\ cert.val = k.cert.body /\ k.ca.what = "cert" /\ LoadX509(k.ca).val = k.ca.body
  BY <1>1, <1>2, LoadedIsRead DEF LoadX509
<1>4. cert.val \in RingCerts /\ LoadX509(k.ca).val \in RingCas
  BY <1>3 DEF RingCerts, RingCas
<1>5. cert.val.hasId /\ ExtractSubjectKeyId(cert.val).val = cert.val.id
  BY <1>2 DEF ExtractSubjectKeyId, Fine, Good, Bad
<1>6. cert.val.id \in KeyIds
  BY <1>4, <1>5 DEF KeyIds
<1>7. /\ p.cert = LoadCmsCertificate(k).val.cert /\ p.id = LoadCmsCertificate(k).val.id
      /\ p.ca = LoadX509(k.ca).val /\ p.hasCrl = k.hasCrl
      /\ p.serials = IF k.hasCrl THEN LoadCrl(k.crl).val.serials ELSE {}
  BY DEF NewPlugin
<1>8. p.hasCrl \/ p.serials = {}
  BY <1>7
<1> HIDE DEF p, cert
<1> QED
  BY <1>2, <1>4, <1>5, <1>6, <1>7, <1>8 DEF Loaded, p

LEMMA PluginMoves ==
  ASSUME RInv, NEW n \in RingNodes, NEW new, ringAnswer = <<>>, UNCHANGED <<ringNow, ringMade, ringAnswer>>,
         ringPlugin' = [ringPlugin EXCEPT ![n] = new], new = <<>> \/ \E p : new = <<p>> /\ Loaded(p)
  PROVE  RInv'
<1>1. ringPlugin = [m \in RingNodes |-> ringPlugin[m]]
  BY DEF RInv
<1>2. /\ ringPlugin' = [m \in RingNodes |-> ringPlugin'[m]] /\ ringPlugin'[n] = new
      /\ \A m \in RingNodes \ {n} : ringPlugin'[m] = ringPlugin[m]
  BY <1>1
<1> QED
  BY <1>2 DEF RInv

LEMMA PluginLoadsKeeps ==
  ASSUME RInv, NEW n \in RingNodes, NEW k \in RingCases[n], PluginLoads(n, k)
  PROVE  RInv'
<1>1. PICK new : new = IF PluginUsable(k, ringNow) THEN <<NewPlugin(k)>> ELSE <<>>
  OBVIOUS
<1>2. /\ ringAnswer = <<>> /\ UNCHANGED <<ringNow, ringMade, ringAnswer>>
      /\ ringPlugin' = [ringPlugin EXCEPT ![n] = new]
  BY <1>1 DEF PluginLoads, AnswerWasRead
<1>3. new = <<>> \/ \E p : new = <<p>> /\ Loaded(p)
  <2>1. PICK p : p = NewPlugin(k)
    OBVIOUS
  <2>2. PluginUsable(k, ringNow) => Loaded(p)
    BY <2>1, LoadedPlugin
  <2> QED
    BY <1>1, <2>1, <2>2
<1> QED
  BY <1>2, <1>3, PluginMoves

LEMMA NodeStopsKeeps ==
  ASSUME RInv, NEW n \in RingNodes, NodeStops(n)
  PROVE  RInv'
BY PluginMoves DEF NodeStops, AnswerWasRead

-----------------------------------------------------------------------------
(* The answers.                                                            *)

Reply(n, kind, cms, data, id, result) ==
  [node |-> n, kind |-> kind, cms |-> cms, data |-> data, id |-> id, result |-> result, at |-> ringNow]

\* An answer that made nothing.
LEMMA QuietAnswer ==
  ASSUME RInv, NEW a, NEW p, ringAnswer' = <<a>>, UNCHANGED <<ringNow, ringPlugin, ringMade>>,
         a.node \in RingNodes, ringPlugin[a.node] = <<p>>, Earned(a, p), Recognised(a, p, ringMade)
  PROVE  RInv'
BY DEF RInv

\* An answer that goes with an object the node signed.
LEMMA SigningAnswer ==
  ASSUME RInv, NEW a, NEW p, NEW new, Room, ringAnswer' = <<a>>, UNCHANGED <<ringNow, ringPlugin>>,
         ringMade' = ringMade \cup {new}, OwnObject(new),
         \A id \in RingIds \ {Undecodable} : Covers(new, id) => HasOrigin(id, ringMade \cup {new}),
         a.node \in RingNodes, ringPlugin[a.node] = <<p>>, Earned(a, p), a.kind # "verify"
  PROVE  RInv'
<1>1. Recognised(a, p, ringMade')
  BY DEF Recognised
<1>2. IsFiniteSet(ringMade') /\ Cardinality(ringMade') <= MaxMade
  <2>1. IsFiniteSet(ringMade) /\ Cardinality(ringMade) < MaxMade /\ Cardinality(ringMade) \in Nat
    BY FS_CardinalityType DEF RInv, Room
  <2>2. IsFiniteSet(ringMade') /\ (Cardinality(ringMade') = Cardinality(ringMade) \/ Cardinality(ringMade') = Cardinality(ringMade) + 1)
    BY <2>1, FS_AddElement
  <2> QED
    BY <2>1, <2>2, RingAssumption
<1>3. ASSUME NEW id, HasOrigin(id, ringMade)
      PROVE  HasOrigin(id, ringMade')
  BY <1>3 DEF HasOrigin
<1>4. \A cms \in ringMade', id \in RingIds \ {Undecodable} : Covers(cms, id) => HasOrigin(id, ringMade')
  BY <1>3 DEF RInv
<1>5. \A cms \in ringMade' : OwnObject(cms)
  BY DEF RInv
<1> QED
  BY <1>1, <1>2, <1>4, <1>5 DEF RInv

LEMMA NoSuccess ==
  ASSUME NEW err \in {"chain", "revoked", "mismatch", "usage", "format", "openssl", "algorithm", "json", "base64", "ids"}
  PROVE  ResultCode(err) \notin 0..2
BY DEF ResultCode

LEMMA Verdicts ==
  ASSUME NEW plugin, NEW cms, NEW data, NEW id, NEW now
  PROVE  VerifySignatureOnly(plugin, cms, data, id, now)
           \in {"format", "chain", "revoked", "mismatch", "usage", "algorithm", "none"}
<1> DEFINE verified == CmsVerify(plugin, cms, Input(data, id), now)
<1>1. \A code : MapX509Error(code) \in {"chain", "revoked", "mismatch"}
  BY DEF MapX509Error
<1>2. verified \in {"chain", "revoked", "mismatch", "none"}
  BY <1>1 DEF CmsVerify
<1> HIDE DEF verified
<1> QED
  BY <1>2 DEF VerifySignatureOnly, verified

LEMMA RefusalKeeps ==
  ASSUME RInv, NEW n \in RingNodes, ringPlugin[n] # <<>>, NEW kind, NEW cms, NEW data, NEW id,
         NEW err \in {"chain", "revoked", "mismatch", "usage", "format", "openssl", "algorithm", "json", "base64", "ids"},
         Refuse(n, kind, cms, data, id, err),
         kind # "verify" \/ cms \notin ringMade
  PROVE  RInv'
<1>1. PICK p : ringPlugin[n] = <<p>>
  BY DEF RInv
<1>2. PICK a : a = Reply(n, kind, cms, data, id, ResultCode(err))
  OBVIOUS
<1>3. a.node = n /\ a.kind = kind /\ a.cms = cms /\ a.result = ResultCode(err)
  BY <1>2 DEF Reply
<1>4. ringAnswer' = <<a>> /\ UNCHANGED <<ringNow, ringPlugin, ringMade>>
  BY <1>2 DEF Refuse, Answer, Reply
<1>5. Earned(a, p)
  BY <1>3, NoSuccess DEF Earned
<1>6. Recognised(a, p, ringMade)
  BY <1>3 DEF Recognised
<1> QED
  BY <1>1, <1>3, <1>4, <1>5, <1>6, QuietAnswer

LEMMA ForeignToNodes == RInv => NoCms \notin ringMade
<1>1. NoCms.form = "none"
  BY DEF NoCms
<1>2. ASSUME NEW cms, OwnObject(cms)
      PROVE  cms.form = "cms"
  BY <1>2 DEF OwnObject
<1> QED
  BY <1>1, <1>2 DEF RInv

LEMMA GarbledKeeps ==
  ASSUME RInv, NEW n \in RingNodes, NEW kind, HandleGarbled(n, kind)
  PROVE  RInv'
<1>1. ringPlugin[n] # <<>> /\ Refuse(n, kind, NoCms, <<>>, <<>>, "json")
  BY DEF HandleGarbled, RefuseToSign
<1> QED
  BY <1>1, RefusalKeeps, ForeignToNodes

\* What signing makes.
LEMMA Signed ==
  ASSUME NEW p, Loaded(p), NEW data \in RingData, NEW id \in KeyIds, Fine(SignWithInput(p, data, id)),
         NEW new, new = SignWithInput(p, data, id).val
  PROVE  /\ OwnObject(new) /\ new.signers[1].cert = p.cert /\ Covers(new, id)
         /\ \A other \in KeyIds : Covers(new, other) => other = id
<1> DEFINE s == [cert |-> p.cert, text |-> Input(data, id), digest |-> "sha256"]
<1>1. SignWithInput(p, data, id).err = "none"
  BY DEF Fine
<1>2. SignWithInput(p, data, id) = Good([form |-> "cms", certs |-> {p.cert}, signers |-> <<s>>])
  BY <1>1 DEF SignWithInput, Bad
<1>3. s.cert = p.cert /\ s.text = Input(data, id) /\ s.digest = "sha256"
  OBVIOUS
<1> HIDE DEF s
<1>4. new = [form |-> "cms", certs |-> {s.cert}, signers |-> <<s>>]
  BY <1>2, <1>3 DEF Good
<1>5. new.signers = <<s>> /\ DOMAIN new.signers = {1} /\ new.signers[1] = s
  BY <1>4
<1>6. OwnObject(new)
  BY <1>3, <1>4 DEF OwnObject, Loaded
<1>7. Covers(new, id)
  BY <1>3, <1>5 DEF Covers, Input
<1>8. ASSUME NEW other \in KeyIds, Covers(new, other)
      PROVE  other = id
  <2>1. PICK d \in RingData : data \o id = d \o other
    BY <1>3, <1>5, <1>8 DEF Covers, Input
  <2> QED
    BY <2>1, SameText
<1> QED
  BY <1>3, <1>5, <1>6, <1>7, <1>8

LEMMA SignKeeps ==
  ASSUME RInv, NEW n \in RingNodes, NEW data \in RingData, HandleSign(n, data)
  PROVE  RInv'
<1>1. PICK p : ringPlugin[n] = <<p>> /\ Loaded(p) /\ ringPlugin[n][1] = p
  BY DEF RInv, HandleSign
<1>2. p.id \in KeyIds /\ p.id = p.cert.id /\ Room /\ ringPlugin[n] # <<>>
  BY <1>1 DEF Loaded, HandleSign
<1>3. PICK id \in KeyIds : id = p.id
  BY <1>2
<1>4. PICK signed : signed = SignWithInput(p, data, id)
  OBVIOUS
<1>5. IF Fine(signed) THEN Answer(n, "sign", signed.val, data, id, 0, {signed.val})
      ELSE RefuseToSign(n, "sign", signed.err)
  BY <1>1, <1>3, <1>4 DEF HandleSign, Sign
<1>6. CASE Fine(signed)
  <2>1. PICK new : new = signed.val
    OBVIOUS
  <2>2. PICK a : a = Reply(n, "sign", new, data, id, 0)
    OBVIOUS
  <2>3. a.node = n /\ a.kind = "sign"
    BY <2>2 DEF Reply
  <2>4. ringAnswer' = <<a>> /\ ringMade' = ringMade \cup {new} /\ UNCHANGED <<ringNow, ringPlugin>>
    BY <1>5, <1>6, <2>1, <2>2 DEF Answer, Reply
  <2>5. /\ OwnObject(new) /\ new.signers[1].cert = p.cert /\ Covers(new, id)
        /\ \A other \in KeyIds : Covers(new, other) => other = id
    BY <1>1, <1>4, <1>6, <2>1, Signed
  <2>6. ASSUME NEW i \in RingIds \ {Undecodable}, Covers(new, i)
        PROVE  HasOrigin(i, ringMade \cup {new})
    <3>1. i = id
      BY <2>5, <2>6 DEF KeyIds
    <3> QED
      BY <1>2, <1>3, <2>5, <3>1 DEF HasOrigin, Owns
  <2>7. Earned(a, p)
    BY <2>3 DEF Earned
  <2> QED
    BY <1>1, <1>2, <2>3, <2>4, <2>5, <2>6, <2>7, SigningAnswer
<1>7. CASE ~ Fine(signed)
  <2>1. signed.err = "openssl"
    BY <1>4, <1>7 DEF SignWithInput, Fine, Good, Bad
  <2>2. Refuse(n, "sign", NoCms, <<>>, <<>>, "openssl")
    BY <1>5, <1>7, <2>1 DEF RefuseToSign
  <2> QED
    BY <1>2, <2>2, RefusalKeeps
<1> QED
  BY <1>6, <1>7

\* An object that a node or a stranger made can be looked into.
LEMMA ObjectsAreFormed ==
  ASSUME RInv, NEW cms \in ringMade \cup ForeignCms
  PROVE  Formed(cms)
<1>1. CASE cms \in ringMade
  <2>1. PICK s : /\ cms = [form |-> "cms", certs |-> {s.cert}, signers |-> <<s>>] /\ s.cert \in RingCerts
    BY <1>1 DEF RInv, OwnObject
  <2>2. cms.signers = <<s>> /\ DOMAIN cms.signers = {1} /\ Len(cms.signers) = 1 /\ 1..Len(cms.signers) = {1}
        /\ cms.signers[1] = s
    BY <2>1
  <2>3. s.cert.from \in Nat
    BY <2>1, RingAssumption
  <2> QED
    BY <2>2, <2>3 DEF Formed
<1>2. CASE cms \in ForeignCms
  <2>1. cms.signers \in Seq(ToSet(cms.signers)) /\ \A s \in ToSet(cms.signers) : s.cert.from \in Nat
    BY <1>2, RingAssumption
  <2>2. DOMAIN cms.signers = 1..Len(cms.signers)
    BY <2>1, LenProperties
  <2>3. \A k \in DOMAIN cms.signers : cms.signers[k] \in ToSet(cms.signers)
    BY DEF ToSet
  <2> QED
    BY <2>1, <2>2, <2>3 DEF Formed
<1> QED
  BY <1>1, <1>2

\* A verification that succeeds earns its result.
LEMMA SuccessIsEarned ==
  ASSUME RInv, NEW n \in RingNodes, NEW p, Loaded(p), NEW cms \in ringMade \cup ForeignCms, NEW data, NEW id,
         VerifySignatureOnly(p, cms, data, id, ringNow) = "none",
         NEW a, a.cms = cms, a.data = data, a.id = id, a.at = ringNow
  PROVE  Earned(a, p)
<1>1. PICK now \in Nat : now = ringNow
  BY RingAssumption DEF RInv
<1>2. p.ca.till \in Nat /\ (p.hasCrl \/ p.serials = {})
  BY RingAssumption DEF Loaded
<1>3. Formed(cms)
  BY ObjectsAreFormed
<1>4. /\ Len(cms.signers) = 1 /\ cms.signers[1].cert \in cms.certs
      /\ cms.signers[1].text = data \o id /\ cms.signers[1].digest = "sha256"
      /\ cms.signers[1].cert.issuer = p.ca.subject /\ cms.signers[1].cert.signer = p.ca.key
      /\ cms.signers[1].cert.usage = {"digitalSignature"} /\ cms.signers[1].cert.curve = "p256"
      /\ cms.signers[1].cert.from <= now /\ now < p.ca.till
      /\ p.hasCrl => \A c \in cms.certs : c.serial \notin p.serials
  BY <1>1, <1>2, <1>3, VerifiedMeans
<1>5. \A c \in cms.certs : c.serial \notin p.serials
  BY <1>2, <1>4
<1> QED
  BY <1>1, <1>4, <1>5 DEF Earned

LEMMA VerifySignKeeps ==
  ASSUME RInv, NEW n \in RingNodes, NEW cms \in ringMade \cup ForeignCms, NEW data \in RingData, NEW id \in RingIds,
         NEW newData \in RingData, NEW newId \in RingIds, HandleVerifySign(n, cms, data, id, newData, newId)
  PROVE  RInv'
<1>1. PICK p : ringPlugin[n] = <<p>> /\ Loaded(p) /\ ringPlugin[n][1] = p
  BY DEF RInv, HandleVerifySign
<1>2. Room /\ ringPlugin[n] # <<>>
  BY DEF HandleVerifySign
<1>3. PICK verified : verified = VerifySignatureOnly(p, cms, data, id, ringNow)
  OBVIOUS
<1>4. PICK signed : signed = SignWithInput(p, newData, newId)
  OBVIOUS
<1>5. CASE /\ id = newId /\ cms.form # "undecodable" /\ id # Undecodable /\ verified = "none" /\ Fine(signed)
           /\ Answer(n, "verifySign", cms, data, id, 0, {signed.val})
  <2>1. PICK new : new = signed.val
    OBVIOUS
  <2>2. PICK a : a = Reply(n, "verifySign", cms, data, id, 0)
    OBVIOUS
  <2>3. a.node = n /\ a.kind = "verifySign" /\ a.cms = cms /\ a.data = data /\ a.id = id /\ a.at = ringNow
        /\ a.result = 0
    BY <2>2 DEF Reply
  <2>4. ringAnswer' = <<a>> /\ ringMade' = ringMade \cup {new} /\ UNCHANGED <<ringNow, ringPlugin>>
    BY <1>5, <2>1, <2>2 DEF Answer, Reply
  <2>5. id \in KeyIds
    BY <1>5 DEF KeyIds
  <2>6. OwnObject(new) /\ \A other \in KeyIds : Covers(new, other) => other = id
    BY <1>1, <1>4, <1>5, <2>1, <2>5, Signed
  <2>7. Earned(a, p)
    BY <1>1, <1>3, <1>5, <2>3, SuccessIsEarned
  <2>8. HasOrigin(id, ringMade)
    <3>1. Covers(cms, id) /\ cms.form = "cms"
      <4>1. Len(cms.signers) = 1 /\ cms.signers[1].text = data \o id
        BY <2>3, <2>7 DEF Earned
      <4>2. 1 \in DOMAIN cms.signers
        BY <4>1, ObjectsAreFormed DEF Formed
      <4>3. cms.form = "cms"
        BY <1>3, <1>5 DEF VerifySignatureOnly
      <4> QED
        BY <4>1, <4>2, <4>3 DEF Covers
    <3>2. CASE cms \in ringMade
      BY <1>5, <3>1, <3>2 DEF RInv
    <3>3. CASE cms \in ForeignCms
      BY <3>1, <3>3 DEF HasOrigin
    <3> QED
      BY <3>2, <3>3
  <2>9. ASSUME NEW i \in RingIds \ {Undecodable}, Covers(new, i)
        PROVE  HasOrigin(i, ringMade \cup {new})
    <3>1. i = id
      BY <2>6, <2>9 DEF KeyIds
    <3> QED
      BY <2>8, <3>1 DEF HasOrigin
  <2> QED
    BY <1>1, <1>2, <2>3, <2>4, <2>6, <2>7, <2>9, SigningAnswer
<1>6. CASE \E err \in {"chain", "revoked", "mismatch", "usage", "format", "openssl", "algorithm", "json", "base64", "ids"} :
             RefuseToSign(n, "verifySign", err)
  BY <1>2, <1>6, RefusalKeeps DEF RefuseToSign
<1>7. \/ /\ id = newId /\ cms.form # "undecodable" /\ id # Undecodable /\ verified = "none" /\ Fine(signed)
         /\ Answer(n, "verifySign", cms, data, id, 0, {signed.val})
      \/ RefuseToSign(n, "verifySign", "ids") \/ RefuseToSign(n, "verifySign", "base64")
      \/ verified # "none" /\ RefuseToSign(n, "verifySign", verified)
      \/ ~ Fine(signed) /\ RefuseToSign(n, "verifySign", signed.err)
  BY <1>1, <1>3, <1>4 DEF HandleVerifySign, SameId
<1>8. verified \in {"format", "chain", "revoked", "mismatch", "usage", "algorithm", "none"}
  BY <1>3, Verdicts
<1>9. ~ Fine(signed) => signed.err = "openssl"
  BY <1>4 DEF SignWithInput, Fine, Good, Bad
<1> QED
  BY <1>5, <1>6, <1>7, <1>8, <1>9

LEMMA VerifyKeeps ==
  ASSUME RInv, NEW n \in RingNodes, NEW cms \in ringMade \cup ForeignCms, NEW data \in RingData, NEW id \in RingIds,
         HandleVerify(n, cms, data, id)
  PROVE  RInv'
<1>1. PICK p : ringPlugin[n] = <<p>> /\ Loaded(p) /\ ringPlugin[n][1] = p
  BY DEF RInv, HandleVerify
<1>2. ringPlugin[n] # <<>>
  BY DEF HandleVerify
<1>3. PICK verified : verified = VerifySignatureOnly(p, cms, data, id, ringNow)
  OBVIOUS
<1>4. PICK result :
        /\ \/ /\ result = ResultCode("base64") /\ (cms.form = "undecodable" \/ id = Undecodable)
           \/ result = ResultCode(verified) /\ verified # "none"
           \/ result = DetermineIdentity(p, cms, id) /\ verified = "none"
        /\ Answer(n, "verify", cms, data, id, result, {})
  BY <1>1, <1>3 DEF HandleVerify, Refuse
<1>5. PICK a : a = Reply(n, "verify", cms, data, id, result)
  OBVIOUS
<1>6. a.node = n /\ a.kind = "verify" /\ a.cms = cms /\ a.data = data /\ a.id = id /\ a.result = result /\ a.at = ringNow
  BY <1>5 DEF Reply
<1>7. ringAnswer' = <<a>> /\ UNCHANGED <<ringNow, ringPlugin, ringMade>>
  BY <1>4, <1>5 DEF Answer, Reply
<1>8. Earned(a, p)
  <2>1. CASE verified = "none"
    BY <1>1, <1>3, <1>6, <2>1, SuccessIsEarned
  <2>2. CASE verified # "none"
    <3>1. verified \in {"format", "chain", "revoked", "mismatch", "usage", "algorithm"}
      BY <1>3, <2>2, Verdicts
    <3>2. result \notin 0..2
      BY <1>4, <2>2, <3>1, NoSuccess
    <3> QED
      BY <1>6, <3>2 DEF Earned
  <2> QED
    BY <2>1, <2>2
<1>9. Recognised(a, p, ringMade)
  <2> DEFINE c == cms.signers[1].cert
  <2>1. SUFFICES ASSUME cms \in ringMade, id # Undecodable, cms.signers[1].text = data \o id,
                        c.issuer = p.ca.subject, c.signer = p.ca.key, ringNow < p.ca.till,
                        c.from <= ringNow, c.serial \notin p.serials, c.eku = {}, c.curve = "p256"
                 PROVE  result = IF c.key = p.cert.key THEN 2 ELSE IF id = p.id THEN 0 ELSE 1
    BY <1>6 DEF Recognised
  <2>2. PICK now \in Nat : now = ringNow
    BY RingAssumption DEF RInv
  <2>3. OwnObject(cms) /\ p.ca.till \in Nat
    BY <1>1, <2>1, RingAssumption DEF RInv, Loaded
  <2>4. VerifySignatureOnly(p, cms, data, id, now) = "none"
    BY <2>1, <2>2, <2>3, GenuineVerifies
  <2>5. cms.form = "cms"
    BY <2>3 DEF OwnObject
  <2>6. result = DetermineIdentity(p, cms, id)
    <3>1. verified = "none" /\ cms.form # "undecodable"
      BY <1>3, <2>2, <2>4, <2>5
    <3> QED
      BY <1>4, <2>1, <3>1
  <2> QED
    BY <2>6 DEF DetermineIdentity
<1> QED
  BY <1>1, <1>6, <1>7, <1>8, <1>9, QuietAnswer

-----------------------------------------------------------------------------
LEMMA RingKeeps == RInv /\ [RingNext]_ringVars => RInv'
<1> SUFFICES ASSUME RInv, [RingNext]_ringVars
             PROVE  RInv'
  OBVIOUS
<1>1. CASE RingTimePasses
  <2>1. /\ UNCHANGED <<ringPlugin, ringMade, ringAnswer>> /\ ringNow' \in 0..MaxRingMoment
    BY <1>1, RingAssumption DEF RingTimePasses, RInv
  <2> QED
    BY <2>1 DEF RInv
<1>2. CASE ReadAnswer
  BY <1>2 DEF ReadAnswer, RInv
<1>3. ASSUME NEW n \in RingNodes, NodeStops(n)
      PROVE  RInv'
  BY <1>3, NodeStopsKeeps
<1>4. ASSUME NEW n \in RingNodes, NEW k \in RingCases[n], PluginLoads(n, k)
      PROVE  RInv'
  BY <1>4, PluginLoadsKeeps
<1>5. ASSUME NEW n \in RingNodes, NEW kind \in {"sign", "verifySign", "verify"}, HandleGarbled(n, kind)
      PROVE  RInv'
  BY <1>5, GarbledKeeps
<1>6. ASSUME NEW n \in RingNodes, NEW data \in RingData, HandleSign(n, data)
      PROVE  RInv'
  BY <1>6, SignKeeps
<1>7. ASSUME NEW n \in RingNodes, NEW cms \in ringMade \cup ForeignCms, NEW data \in RingData, NEW id \in RingIds,
             HandleVerify(n, cms, data, id)
      PROVE  RInv'
  BY <1>7, VerifyKeeps
<1>8. ASSUME NEW n \in RingNodes, NEW cms \in ringMade \cup ForeignCms, NEW data \in RingData, NEW id \in RingIds,
             NEW newData \in RingData, NEW newId \in RingIds, HandleVerifySign(n, cms, data, id, newData, newId)
      PROVE  RInv'
  BY <1>8, VerifySignKeeps
<1>9. CASE UNCHANGED ringVars
  BY <1>9 DEF ringVars, RInv
<1> QED
  BY <1>1, <1>2, <1>3, <1>4, <1>5, <1>6, <1>7, <1>8, <1>9 DEF RingNext

LEMMA RingFollows == RInv => RingIsHonest
<1> SUFFICES ASSUME RInv PROVE RingIsHonest
  OBVIOUS
<1>1. Len(ringAnswer) <= 1 /\ \A k \in 1..Len(ringAnswer) : k = 1 /\ ringAnswer # <<>>
  BY AtMostOne DEF RInv
<1>2. RingTypeOK
  <2>1. \A n \in RingNodes : Len(ringPlugin[n]) <= 1
    BY AtMostOne DEF RInv
  <2>2. ASSUME NEW cms \in ringMade
        PROVE  cms.form = "cms" /\ cms.certs = {cms.signers[1].cert}
    BY DEF RInv, OwnObject
  <2>3. ASSUME NEW a, NEW p, ringAnswer = <<a>>, ringPlugin[a.node] = <<p>>
        PROVE  ringPlugin[ringAnswer[1].node] # <<>>
    BY <2>3
  <2>4. ringAnswer # <<>> => ringPlugin[ringAnswer[1].node] # <<>>
    BY <2>3 DEF RInv
  <2> QED
    BY <2>1, <2>2, <2>4 DEF RingTypeOK, RInv
<1>3. ringAnswer # <<>> =>
        \E a, p : ringAnswer[1] = a /\ ringPlugin[a.node][1] = p /\ Earned(a, p) /\ Recognised(a, p, ringMade)
  BY DEF RInv
<1>4. PositiveIsEarned
  BY <1>1, <1>3 DEF PositiveIsEarned, Earned
<1>5. EveryChainHasAnOrigin
  BY DEF RInv, EveryChainHasAnOrigin, HasOrigin
<1>6. GenuineIsRecognised
  <2>1. ASSUME NEW k \in 1..Len(ringAnswer)
        PROVE  Recognised(ringAnswer[k], ringPlugin[ringAnswer[k].node][1], ringMade)
    BY <1>1, <1>3
  <2> QED
    BY <2>1 DEF GenuineIsRecognised, Recognised
<1> QED
  BY <1>2, <1>4, <1>5, <1>6 DEF RingIsHonest

\* Whatever the nodes load, sign and are shown, and however old lists and certificates become: a
\* positive answer is earned, a genuine signature gets one, and behind every object there is one
\* by the owner of its id or by a stranger the nodes trust (handler.rs, sign.rs, verify.rs).
THEOREM RingStaysHonest == RingSpec => []RingIsHonest
<1>1. RingSpec => []RInv
  BY RingStarts, RingKeeps, PTL DEF RingSpec
<1> QED
  BY <1>1, RingFollows, PTL

-----------------------------------------------------------------------------
(***************************************************************************)
(* Launcher.  What is computed one step after another, from any start.     *)
(***************************************************************************)
LEMMA LeastOf ==
  ASSUME NEW T \in SUBSET Nat, T # {}
  PROVE  \E x \in T : \A y \in T : x <= y
<1>1. PICK x \in T : \A y \in T : ~(<<y, x>> \in OpToRel(<, Nat))
  BY NatLessThanWellFounded, WFMin
<1>2. \A y \in T : ~(y < x)
  BY <1>1 DEF OpToRel
<1> QED
  BY <1>2

\* f takes the steps that S lists, from start.
Walks(f, S, start, n) ==
  /\ f = [k \in 0..n |-> f[k]] /\ f[0] = start
  /\ \A k \in 1..n : f[k] = S[k][f[k - 1]]

LEMMA StepByStep ==
  ASSUME NEW A, NEW start \in A, NEW n \in Nat, NEW S \in [1..n -> [A -> A]]
  PROVE  \E f \in [0..n -> A] : Walks(f, S, start, n)
<1> DEFINE Reached(m) == \E f \in [0..m -> A] : f[0] = start /\ \A k \in 1..m : f[k] = S[k][f[k - 1]]
           T == {m \in 0..n : ~Reached(m)}
<1>1. T = {}
  <2>1. SUFFICES ASSUME T # {} PROVE FALSE
    OBVIOUS
  <2>a. T \in SUBSET Nat
    OBVIOUS
  <2>2. PICK m \in T : \A j \in T : m <= j
    BY <2>1, <2>a, LeastOf
  <2>3. m # 0
    <3> DEFINE e == [k \in 0..0 |-> start]
    <3>1. e \in [0..0 -> A] /\ e[0] = start /\ \A k \in 1..0 : e[k] = S[k][e[k - 1]]
      OBVIOUS
    <3>2. Reached(0)
      BY <3>1
    <3> QED
      BY <2>2, <3>2
  <2>4. PICK l : l = m - 1
    OBVIOUS
  <2>5. l \in 0..n /\ l < m /\ m = l + 1 /\ m \in 1..n /\ l \in Nat
    BY <2>2, <2>3, <2>4
  <2>b. l \notin T
    <3> HIDE DEF T
    <3> QED
      BY <2>2, <2>5
  <2>c. Reached(l)
    BY <2>b, <2>5
  <2>6. PICK f \in [0..l -> A] : f[0] = start /\ \A k \in 1..l : f[k] = S[k][f[k - 1]]
    BY <2>c
  <2> DEFINE last == S[m][f[l]]
             g == [k \in 0..m |-> IF k = m THEN last ELSE f[k]]
  <2>7. last \in A
    BY <2>5, <2>6
  <2>8. g \in [0..m -> A]
    BY <2>5, <2>6, <2>7
  <2>9. \A k \in 0..l : g[k] = f[k]
    BY <2>5
  <2>10. g[m] = last
    BY <2>5
  <2> HIDE DEF g
  <2>11. g[0] = start
    BY <2>5, <2>6, <2>9
  <2>12. ASSUME NEW k \in 1..m PROVE g[k] = S[k][g[k - 1]]
    <3>1. CASE k = m
      BY <3>1, <2>5, <2>9, <2>10
    <3>2. CASE k # m
      <4>1. k \in 1..l /\ k \in 0..l /\ k - 1 \in 0..l
        BY <3>2, <2>5
      <4> QED
        BY <4>1, <2>6, <2>9
    <3> QED
      BY <3>1, <3>2
  <2>13. Reached(m)
    BY <2>8, <2>11, <2>12
  <2> QED
    BY <2>2, <2>13
<1>2. Reached(n)
  BY <1>1
<1>3. PICK f \in [0..n -> A] : f[0] = start /\ \A k \in 1..n : f[k] = S[k][f[k - 1]]
  BY <1>2
<1> QED
  BY <1>3 DEF Walks

(***************************************************************************)
(* What an option makes of a value is one thing or nothing.                *)
(***************************************************************************)
AtMost1(s) == s = <<>> \/ \E x : s = <<x>>

LEMMA NumericOnce ==
  ASSUME NEW text, NEW low \in Nat, NEW width \in Nat
  PROVE  Numeric(text, low, width) = <<>> \/ \E x \in low .. width - 1 : Numeric(text, low, width) = <<x>>
BY DEF Numeric

LEMMA NumberOnce ==
  ASSUME NEW v, NEW low \in Nat, NEW width \in Nat
  PROVE  ValidateNumber(v, low, width) = <<>> \/ \E x \in low .. width - 1 : ValidateNumber(v, low, width) = <<x>>
BY NumericOnce DEF ValidateNumber

LEMMA HandledOnce ==
  ASSUME NEW o \in LauOptions, NEW v
  PROVE  AtMost1(Handled(o, v))
<1>1. CASE o \in {"runtime", "kernel", "payload", "app-conf"}
  BY <1>1 DEF Handled, ValidateNonEmpty, AtMost1
<1>2. CASE o = "mem"
  BY <1>2, NumberOnce, LauAssumption DEF Handled, AtMost1
<1>3. CASE o = "smp"
  BY <1>3, NumberOnce, LauAssumption DEF Handled, AtMost1
<1>4. CASE o = "cid"
  BY <1>4, NumberOnce, LauAssumption DEF Handled, AtMost1
<1>5. CASE o = "virtiofs"
  BY <1>5 DEF Handled, ParseVirtiofs, AtMost1
<1>6. CASE o = "port-forward"
  <2>1. Handled(o, v) = ParsePortForward(v)
    BY <1>6 DEF Handled
  <2> QED
    BY <2>1 DEF ParsePortForward, AtMost1
<1>7. CASE o = "volume"
  BY <1>7 DEF Handled, ParseVolume, AtMost1
<1> QED
  BY <1>1, <1>2, <1>3, <1>4, <1>5, <1>6, <1>7 DEF LauOptions, Scalars, Lists

(***************************************************************************)
(* What the parser remembers of the words before the k-th.                 *)
(***************************************************************************)
Texts(words) == {words[k].text : k \in DOMAIN words} \cup {words[k].inline[1] : k \in DOMAIN words}
Things(words) == {Handled(o, v)[1] : o \in LauOptions, v \in Texts(words)}
ParseStates(words) ==
  [run : [LauOptions -> Seq(Things(words))], open : LauOptions \cup {""}, bad : BOOLEAN]

AtFirst == [run |-> NothingGiven, open |-> "", bad |-> FALSE]

\* An option was given, and h is what was made of its value.
Given(run, o, h) == [run EXCEPT ![o] = IF o \in Lists THEN @ \o h ELSE h]

LEMMA OptionTaken ==
  ASSUME NEW words, NEW st \in ParseStates(words), NEW o \in LauOptions, NEW v \in Texts(words)
  PROVE  /\ HandleOption(st, o, v) \in ParseStates(words)
         /\ ~HandleOption(st, o, v).bad /\ ~st.bad =>
              /\ Handled(o, v) # <<>> /\ HandleOption(st, o, v).open = ""
              /\ HandleOption(st, o, v).run = Given(st.run, o, Handled(o, v))
<1>1. PICK h : h = Handled(o, v)
  OBVIOUS
<1>2. AtMost1(h)
  BY <1>1, HandledOnce
<1>t. /\ st.run \in [LauOptions -> Seq(Things(words))] /\ st.open \in LauOptions \cup {""}
      /\ st.bad \in BOOLEAN
  BY DEF ParseStates
<1>3. CASE h = <<>>
  <2>1. HandleOption(st, o, v) = [st EXCEPT !.bad = TRUE, !.open = ""]
    BY <1>1, <1>3 DEF HandleOption
  <2>2. [st EXCEPT !.bad = TRUE, !.open = ""] \in ParseStates(words)
    BY DEF ParseStates
  <2>3. [st EXCEPT !.bad = TRUE, !.open = ""].bad
    BY DEF ParseStates
  <2> QED
    BY <2>1, <2>2, <2>3
<1>4. CASE h # <<>>
  <2>1. PICK x : h = <<x>>
    BY <1>2, <1>4 DEF AtMost1
  <2>2. x = h[1]
    BY <2>1
  <2>3. x \in Things(words)
    BY <1>1, <2>2 DEF Things
  <2>4. h \in Seq(Things(words))
    BY <2>1, <2>3
  <2>5. PICK s : s = (IF o \in Lists THEN st.run[o] \o h ELSE h)
    OBVIOUS
  <2>6. s \in Seq(Things(words))
    <3>1. st.run[o] \in Seq(Things(words))
      BY <1>t
    <3> QED
      BY <3>1, <2>4, <2>5, ConcatProperties
  <2> DEFINE next == [st EXCEPT !.open = "", !.run[o] = IF o \in Lists THEN @ \o h ELSE h]
  <2>7. HandleOption(st, o, v) = next
    BY <1>1, <1>4 DEF HandleOption
  <2>8. next.run = [st.run EXCEPT ![o] = s] /\ next.open = ""
    BY <2>5 DEF ParseStates
  <2>9. next \in ParseStates(words)
    BY <2>5, <2>6 DEF ParseStates
  <2> HIDE DEF next
  <2>10. [st.run EXCEPT ![o] = s] = Given(st.run, o, h)
    BY <1>t, <2>5 DEF Given
  <2> QED
    BY <2>7, <2>8, <2>9, <2>10, <1>1, <1>4
<1> QED
  BY <1>3, <1>4

LEMMA WordTaken ==
  ASSUME NEW words, NEW st \in ParseStates(words), NEW k \in DOMAIN words
  PROVE  TakeWord(st, words[k]) \in ParseStates(words)
<1>1. words[k].text \in Texts(words) /\ words[k].inline[1] \in Texts(words)
  BY DEF Texts
<1>t. /\ st.run \in [LauOptions -> Seq(Things(words))] /\ st.open \in LauOptions \cup {""}
      /\ st.bad \in BOOLEAN
  BY DEF ParseStates
<1>2. CASE st.bad
  BY <1>2 DEF TakeWord
<1>3. CASE ~st.bad /\ st.open # ""
  <2>1. TakeWord(st, words[k]) = HandleOption(st, st.open, words[k].text)
    BY <1>3 DEF TakeWord
  <2>2. st.open \in LauOptions
    BY <1>3, <1>t
  <2>3. HandleOption(st, st.open, words[k].text) \in ParseStates(words)
    BY <2>2, <1>1, OptionTaken
  <2> QED
    BY <2>1, <2>3
<1>4. CASE ~st.bad /\ st.open = "" /\ words[k].stem \in LauOptions
  <2>1. TakeWord(st, words[k]) = IF words[k].inline # <<>> THEN HandleOption(st, words[k].stem, words[k].inline[1])
                                 ELSE [st EXCEPT !.open = words[k].stem]
    <3>1. words[k].stem \notin {"help", "other"}
      BY <1>4 DEF LauOptions, Scalars, Lists
    <3> QED
      BY <1>4, <3>1 DEF TakeWord
  <2>2. [st EXCEPT !.open = words[k].stem] \in ParseStates(words)
    BY <1>4 DEF ParseStates
  <2>3. CASE words[k].inline # <<>>
    <3>1. HandleOption(st, words[k].stem, words[k].inline[1]) \in ParseStates(words)
      BY <1>1, <1>4, OptionTaken
    <3> QED
      BY <2>1, <2>3, <3>1
  <2>4. CASE words[k].inline = <<>>
    BY <2>1, <2>2, <2>4
  <2> QED
    BY <2>3, <2>4
<1>5. CASE ~st.bad /\ st.open = "" /\ words[k].stem \notin LauOptions
  <2>1. TakeWord(st, words[k]) \in {st, [st EXCEPT !.bad = TRUE]}
    BY <1>5 DEF TakeWord
  <2>2. [st EXCEPT !.bad = TRUE] \in ParseStates(words)
    BY DEF ParseStates
  <2> QED
    BY <2>1, <2>2
<1> QED
  BY <1>2, <1>3, <1>4, <1>5

\* The states of the parser, one after each word.
Parses(words, st) ==
  /\ st \in [0..Len(words) -> ParseStates(words)] /\ st[0] = AtFirst
  /\ \A k \in 1..Len(words) : st[k] = TakeWord(st[k - 1], words[k])

LEMMA ParseGoesOn ==
  ASSUME NEW W, NEW words \in Seq(W)
  PROVE  \E st : /\ Parses(words, st)
                 /\ ParseRunArgs(words) = [st[Len(words)] EXCEPT !.bad = @ \/ st[Len(words)].open # ""]
<1>1. PICK n : n = Len(words)
  OBVIOUS
<1>2. n \in Nat /\ DOMAIN words = 1..n
  BY <1>1, LenProperties
<1>3. AtFirst \in ParseStates(words)
  <2>1. NothingGiven \in [LauOptions -> Seq(Things(words))]
    BY EmptySeq DEF NothingGiven
  <2> QED
    BY <2>1 DEF AtFirst, ParseStates
<1> DEFINE S == [k \in 1..n |-> [x \in ParseStates(words) |-> TakeWord(x, words[k])]]
<1>4. S \in [1..n -> [ParseStates(words) -> ParseStates(words)]]
  <2>1. ASSUME NEW k \in 1..n PROVE [x \in ParseStates(words) |-> TakeWord(x, words[k])] \in [ParseStates(words) -> ParseStates(words)]
    BY <1>2, WordTaken
  <2> QED
    BY <2>1
<1>5. PICK f \in [0..n -> ParseStates(words)] : Walks(f, S, AtFirst, n)
  BY <1>2, <1>3, <1>4, StepByStep
<1>6. \A k \in 1..n : f[k] = TakeWord(f[k - 1], words[k])
  <2>1. ASSUME NEW k \in 1..n PROVE f[k] = TakeWord(f[k - 1], words[k])
    <3>1. k - 1 \in 0..n
      BY <1>2
    <3>2. f[k - 1] \in ParseStates(words)
      BY <3>1, <1>5
    <3>3. f[k] = S[k][f[k - 1]]
      BY <1>5 DEF Walks
    <3> QED
      BY <3>2, <3>3
  <2> QED
    BY <2>1
<1> DEFINE Body(g) == [k \in 0..Len(words) |-> IF k = 0 THEN AtFirst ELSE TakeWord(g[k - 1], words[k])]
<1>7. f = Body(f)
  <2>1. f = [k \in 0..n |-> f[k]]
    BY <1>5
  <2>2. \A k \in 0..n : f[k] = IF k = 0 THEN AtFirst ELSE TakeWord(f[k - 1], words[k])
    BY <1>2, <1>5, <1>6 DEF Walks
  <2> QED
    BY <1>1, <2>1, <2>2
<1> DEFINE st == CHOOSE g : g = Body(g)
<1>8. st = Body(st)
  BY <1>7
<1>9. ParseRunArgs(words) = [st[Len(words)] EXCEPT !.bad = @ \/ st[Len(words)].open # ""]
  BY DEF ParseRunArgs, AtFirst
<1> HIDE DEF st
<1>10. st[0] = AtFirst /\ \A k \in 1..n : st[k] = TakeWord(st[k - 1], words[k])
  BY <1>8, <1>1, <1>2
<1>11. \A k \in 0..n : st[k] \in ParseStates(words)
  <2> DEFINE T == {k \in 0..n : st[k] \notin ParseStates(words)}
  <2>1. SUFFICES ASSUME T # {} PROVE FALSE
    OBVIOUS
  <2>2. T \in SUBSET Nat
    OBVIOUS
  <2>3. PICK k \in T : \A j \in T : k <= j
    BY <2>1, <2>2, LeastOf
  <2>4. k \in 1..n /\ k - 1 \in 0..n
    BY <2>3, <1>2, <1>3, <1>10
  <2>5. k - 1 \notin T
    <3> HIDE DEF T
    <3> QED
      BY <2>2, <2>3
  <2>6. st[k - 1] \in ParseStates(words)
    BY <2>4, <2>5
  <2> QED
    BY <2>3, <2>4, <2>6, <1>2, <1>10, WordTaken
<1>12. st \in [0..n -> ParseStates(words)]
  <2>1. st = [k \in 0..n |-> st[k]]
    BY <1>1, <1>8
  <2> QED
    BY <2>1, <1>11
<1> QED
  BY <1>1, <1>9, <1>10, <1>12 DEF Parses

(***************************************************************************)
(* Which words are values, and what the options among the first k say.     *)
(***************************************************************************)
LEMMA ValuesAre ==
  ASSUME NEW W, NEW words \in Seq(W)
  PROVE  /\ Values(words) \subseteq 1..Len(words) /\ 1 \notin Values(words)
         /\ \A k \in 2..Len(words) : k \in Values(words) <=> Needs(words, k - 1) /\ k - 1 \notin Values(words)
<1>1. PICK n : n = Len(words)
  OBVIOUS
<1>2. n \in Nat /\ DOMAIN words = 1..n
  BY <1>1, LenProperties
<1> DEFINE S == [k \in 1..n |-> [x \in BOOLEAN |-> k > 1 /\ Needs(words, k - 1) /\ ~x]]
<1>3. S \in [1..n -> [BOOLEAN -> BOOLEAN]]
  OBVIOUS
<1>4. PICK f \in [0..n -> BOOLEAN] : Walks(f, S, FALSE, n)
  BY <1>2, <1>3, StepByStep
<1>5. \A k \in 1..n : f[k] = (k > 1 /\ Needs(words, k - 1) /\ ~f[k - 1])
  <2>1. ASSUME NEW k \in 1..n PROVE f[k] = (k > 1 /\ Needs(words, k - 1) /\ ~f[k - 1])
    <3>1. k - 1 \in 0..n /\ f[k - 1] \in BOOLEAN
      BY <1>2, <1>4
    <3>2. f[k] = S[k][f[k - 1]]
      BY <1>4 DEF Walks
    <3> QED
      BY <3>1, <3>2
  <2> QED
    BY <2>1
<1>6. \E g : g = [k \in 0..Len(words) |-> k > 1 /\ Needs(words, k - 1) /\ ~g[k - 1]]
  <2>1. f = [k \in 0..n |-> f[k]] /\ f[0] = FALSE
    BY <1>4 DEF Walks
  <2>2. \A k \in 0..n : f[k] = (k > 1 /\ Needs(words, k - 1) /\ ~f[k - 1])
    BY <1>2, <1>5, <2>1
  <2>3. f = [k \in 0..n |-> k > 1 /\ Needs(words, k - 1) /\ ~f[k - 1]]
    BY <2>1, <2>2
  <2> QED
    BY <1>1, <2>3
<1> DEFINE value == CHOOSE g : g = [k \in 0..Len(words) |-> k > 1 /\ Needs(words, k - 1) /\ ~g[k - 1]]
<1>7. value = [k \in 0..Len(words) |-> k > 1 /\ Needs(words, k - 1) /\ ~value[k - 1]]
  BY <1>6
<1>8. Values(words) = {k \in DOMAIN words : value[k]}
  BY DEF Values
<1> HIDE DEF value
<1>9. \A k \in 1..n : value[k] <=> k > 1 /\ Needs(words, k - 1) /\ ~value[k - 1]
  <2>1. ASSUME NEW k \in 1..n PROVE value[k] = (k > 1 /\ Needs(words, k - 1) /\ ~value[k - 1])
    <3>1. k \in 0..Len(words)
      BY <1>1, <1>2
    <3> QED
      BY <3>1, <1>7
  <2> QED
    BY <2>1
<1>10. \A k \in 1..n : k \in Values(words) <=> value[k]
  BY <1>2, <1>8
<1>11. Values(words) \subseteq 1..n
  BY <1>2, <1>8
<1>12. \A k \in 2..n : k \in Values(words) <=> Needs(words, k - 1) /\ k - 1 \notin Values(words)
  <2>1. ASSUME NEW k \in 2..n PROVE k \in Values(words) <=> Needs(words, k - 1) /\ k - 1 \notin Values(words)
    <3>1. k \in 1..n /\ k - 1 \in 1..n /\ k > 1
      BY <1>2
    <3> QED
      BY <3>1, <1>9, <1>10
  <2> QED
    BY <2>1
<1>13. 1 \notin Values(words)
  BY <1>9, <1>11, <1>10
<1> QED
  BY <1>1, <1>11, <1>12, <1>13

Early(words, o, k) == {j \in Mentions(words, o) : j <= k}

\* What the first k words say.
Meant(run, words, k) ==
  /\ \A o \in Scalars :
       run[o] = IF Early(words, o, k) = {} THEN <<>> ELSE Said(words, Max(Early(words, o, k)))
  /\ \A o \in Lists :
       /\ Len(run[o]) = Cardinality(Early(words, o, k))
       /\ \A j \in Early(words, o, k) :
            Said(words, j) = <<run[o][Cardinality({i \in Early(words, o, k) : i <= j})]>>

\* A number after all of a set.
LEMMA RanksStay ==
  ASSUME NEW k \in Nat \ {0}, NEW P \in SUBSET (1..(k - 1))
  PROVE  /\ Cardinality(P) \in Nat /\ Cardinality(P \cup {k}) = Cardinality(P) + 1
         /\ {i \in P \cup {k} : i <= k} = P \cup {k}
         /\ \A j \in P : /\ {i \in P \cup {k} : i <= j} = {i \in P : i <= j}
                         /\ Cardinality({i \in P : i <= j}) \in 1..Cardinality(P)
<1>1. IsFiniteSet(1..(k - 1))
  BY FS_Interval
<1>2. IsFiniteSet(P) /\ Cardinality(P) \in Nat
  BY <1>1, FS_Subset, FS_CardinalityType
<1>3. k \notin P
  OBVIOUS
<1>4. Cardinality(P \cup {k}) = Cardinality(P) + 1
  BY <1>2, <1>3, FS_AddElement
<1>5. ASSUME NEW j \in P
      PROVE  /\ {i \in P \cup {k} : i <= j} = {i \in P : i <= j}
             /\ Cardinality({i \in P : i <= j}) \in 1..Cardinality(P)
  <2>1. PICK Q : Q = {i \in P : i <= j}
    OBVIOUS
  <2>2. Q \subseteq P /\ j \in Q
    BY <2>1
  <2>3. IsFiniteSet(Q) /\ Cardinality(Q) <= Cardinality(P) /\ Cardinality(Q) \in Nat
    BY <1>2, <2>2, FS_Subset, FS_CardinalityType
  <2>4. Cardinality(Q) # 0
    BY <2>2, <2>3, FS_EmptySet
  <2>5. {i \in P \cup {k} : i <= j} = {i \in P : i <= j}
    OBVIOUS
  <2> QED
    BY <2>1, <2>3, <2>4, <2>5, <1>2
<1>6. {i \in P \cup {k} : i <= k} = P \cup {k}
  <2>1. \A i \in P \cup {k} : i <= k
    OBVIOUS
  <2> QED
    BY <2>1, Zenon
<1> QED
  BY <1>2, <1>4, <1>5, <1>6

LEMMA GreatestOf ==
  ASSUME NEW n \in Nat, NEW P \in SUBSET (1..n), P # {}
  PROVE  Max(P) \in P /\ \A y \in P : Max(P) >= y
<1> DEFINE D == {n - x : x \in P}
<1>1. D \in SUBSET Nat
  OBVIOUS
<1>e. D # {}
  <2>1. PICK x : x \in P
    OBVIOUS
  <2>2. n - x \in D
    BY <2>1
  <2> HIDE DEF D
  <2> QED
    BY <2>2
<1>2. PICK d \in D : \A e \in D : d <= e
  BY <1>1, <1>e, LeastOf
<1>3. PICK x \in P : d = n - x
  BY <1>2
<1>4. \A y \in P : x >= y
  <2>1. ASSUME NEW y \in P PROVE x >= y
    <3>1. n - y \in D
      OBVIOUS
    <3>2. d <= n - y
      BY <3>1, <1>2
    <3> QED
      BY <3>2, <1>3
  <2> QED
    BY <2>1
<1> QED
  BY <1>3, <1>4 DEF Max

LEMMA MaxOf ==
  ASSUME NEW k \in Nat, NEW P \in SUBSET (1..k), k \in P
  PROVE  Max(P) = k
<1>1. \A y \in P : k >= y
  OBVIOUS
<1>2. Max(P) \in P /\ \A y \in P : Max(P) >= y
  BY <1>1 DEF Max
<1>3. PICK m : m = Max(P)
  OBVIOUS
<1>4. m \in 1..k /\ m >= k
  BY <1>2, <1>3
<1> QED
  BY <1>3, <1>4

\* One more option, and what it says.
LEMMA MeansMore ==
  ASSUME NEW W, NEW words \in Seq(W), NEW k \in 1..Len(words), NEW T, NEW run \in [LauOptions -> Seq(T)],
         NEW o \in LauOptions, k \in Mentions(words, o), Meant(run, words, k - 1),
         NEW x \in T, Said(words, k) = <<x>>
  PROVE  Meant(Given(run, o, Said(words, k)), words, k)
<1>1. DOMAIN words = 1..Len(words) /\ Len(words) \in Nat /\ k \in Nat \ {0}
  BY LenProperties
<1> DEFINE after == Given(run, o, Said(words, k))
<1>2. words[k].stem = o
  BY DEF Mentions
<1>3. ASSUME NEW q \in LauOptions, q # o
      PROVE  after[q] = run[q] /\ Early(words, q, k) = Early(words, q, k - 1)
  <2>1. k \notin Mentions(words, q)
    BY <1>2, <1>3 DEF Mentions
  <2>2. Mentions(words, q) \subseteq 1..Len(words)
    BY <1>1 DEF Mentions
  <2>3. Early(words, q, k) = Early(words, q, k - 1)
    BY <2>1, <2>2, <1>1 DEF Early
  <2> QED
    BY <1>3, <2>3 DEF Given
<1>4. Mentions(words, o) \subseteq 1..Len(words)
  BY <1>1 DEF Mentions
<1>5. PICK P : P = Early(words, o, k - 1)
  OBVIOUS
<1>6. P \in SUBSET (1..(k - 1)) /\ Early(words, o, k) = P \cup {k}
  BY <1>1, <1>4, <1>5 DEF Early
<1>7. CASE o \in Scalars
  <2>1. o \notin Lists
    BY <1>7 DEF Scalars, Lists
  <2>2. after[o] = Said(words, k)
    BY <2>1 DEF Given
  <2>3. P \cup {k} \in SUBSET (1..k) /\ k \in P \cup {k}
    BY <1>1, <1>6
  <2>4. Max(P \cup {k}) = k
    BY <2>3, <1>1, MaxOf
  <2>5. Early(words, o, k) # {} /\ Max(Early(words, o, k)) = k
    BY <1>6, <2>3, <2>4
  <2>6. \A q \in Scalars : after[q] = IF Early(words, q, k) = {} THEN <<>> ELSE Said(words, Max(Early(words, q, k)))
    <3> SUFFICES ASSUME NEW q \in Scalars
                 PROVE  after[q] = IF Early(words, q, k) = {} THEN <<>> ELSE Said(words, Max(Early(words, q, k)))
      OBVIOUS
    <3> HIDE DEF after
    <3>1. q \in LauOptions
      BY DEF LauOptions
    <3>2. CASE q = o
      BY <3>2, <2>2, <2>5
    <3>3. CASE q # o
      BY <3>1, <3>3, <1>3 DEF Meant
    <3> QED
      BY <3>2, <3>3
  <2>7. \A q \in Lists : /\ Len(after[q]) = Cardinality(Early(words, q, k))
                         /\ \A j \in Early(words, q, k) :
                              Said(words, j) = <<after[q][Cardinality({i \in Early(words, q, k) : i <= j})]>>
    <3> HIDE DEF after
    <3>1. \A q \in Lists : q \in LauOptions /\ q # o
      BY <2>1 DEF LauOptions
    <3> QED
      BY <3>1, <1>3 DEF Meant
  <2> QED
    BY <2>6, <2>7 DEF Meant
<1>8. CASE o \in Lists
  <2>1. o \notin Scalars
    BY <1>8 DEF Scalars, Lists
  <2>2. run[o] \in Seq(T) /\ Len(run[o]) \in Nat /\ Len(run[o]) = Cardinality(P)
    BY <1>5, <1>8, LenProperties DEF Meant
  <2>3. after[o] = run[o] \o <<x>>
    BY <1>8 DEF Given
  <2>4. after[o] = Append(run[o], x)
    BY <2>2, <2>3
  <2> HIDE DEF after
  <2>5. /\ Len(after[o]) = Cardinality(P) + 1 /\ after[o][Cardinality(P) + 1] = x
        /\ \A j \in 1..Cardinality(P) : after[o][j] = run[o][j]
    BY <2>2, <2>4, AppendFacts
  <2>6. /\ Cardinality(P) \in Nat /\ Cardinality(P \cup {k}) = Cardinality(P) + 1
        /\ {i \in P \cup {k} : i <= k} = P \cup {k}
        /\ \A j \in P : /\ {i \in P \cup {k} : i <= j} = {i \in P : i <= j}
                        /\ Cardinality({i \in P : i <= j}) \in 1..Cardinality(P)
    BY <1>1, <1>6, RanksStay
  <2>7. ASSUME NEW j \in P \cup {k}
        PROVE  Said(words, j) = <<after[o][Cardinality({i \in P \cup {k} : i <= j})]>>
    <3>1. CASE j = k
      BY <3>1, <2>5, <2>6
    <3>2. CASE j # k
      <4>1. j \in P
        BY <3>2
      <4>2. Said(words, j) = <<run[o][Cardinality({i \in P : i <= j})]>>
        BY <4>1, <1>5, <1>8 DEF Meant
      <4> QED
        BY <4>1, <4>2, <2>5, <2>6
    <3> QED
      BY <3>1, <3>2
  <2>8. \A q \in Scalars : after[q] = IF Early(words, q, k) = {} THEN <<>> ELSE Said(words, Max(Early(words, q, k)))
    <3>1. \A q \in Scalars : q \in LauOptions /\ q # o
      BY <2>1 DEF LauOptions
    <3> QED
      BY <3>1, <1>3 DEF Meant
  <2>9. \A q \in Lists : /\ Len(after[q]) = Cardinality(Early(words, q, k))
                         /\ \A j \in Early(words, q, k) :
                              Said(words, j) = <<after[q][Cardinality({i \in Early(words, q, k) : i <= j})]>>
    <3> SUFFICES ASSUME NEW q \in Lists
                 PROVE  /\ Len(after[q]) = Cardinality(Early(words, q, k))
                        /\ \A j \in Early(words, q, k) :
                             Said(words, j) = <<after[q][Cardinality({i \in Early(words, q, k) : i <= j})]>>
      OBVIOUS
    <3>1. CASE q = o
      BY <3>1, <1>6, <2>5, <2>6, <2>7
    <3>2. CASE q # o
      BY <3>2, <1>3 DEF Meant, LauOptions
    <3> QED
      BY <3>1, <3>2
  <2> QED
    BY <2>8, <2>9 DEF Meant, after
<1> QED
  BY <1>7, <1>8 DEF LauOptions

LEMMA MeansTheSame ==
  ASSUME NEW W, NEW words \in Seq(W), NEW k \in 1..Len(words), NEW run, Meant(run, words, k - 1),
         \A o \in LauOptions : k \notin Mentions(words, o)
  PROVE  Meant(run, words, k)
<1>1. DOMAIN words = 1..Len(words) /\ Len(words) \in Nat /\ k \in Nat \ {0}
  BY LenProperties
<1>2. ASSUME NEW q \in LauOptions PROVE Early(words, q, k) = Early(words, q, k - 1)
  <2>1. Mentions(words, q) \subseteq 1..Len(words) /\ k \notin Mentions(words, q)
    BY <1>1 DEF Mentions
  <2> QED
    BY <2>1, <1>1 DEF Early
<1> QED
  BY <1>2 DEF Meant, LauOptions

\* After k words: all that they say was understood, but for a last option that waits for its value.
Understood(words, s, k) ==
  /\ s.open = "" => /\ Meant(s.run, words, k)
                    /\ k # 0 /\ Needs(words, k) => k \in Values(words)
  /\ s.open # "" => /\ k # 0 /\ words[k].stem = s.open /\ Needs(words, k) /\ k \notin Values(words)
                    /\ Meant(s.run, words, k - 1)

LEMMA SaysOne ==
  ASSUME NEW words, NEW o \in LauOptions, NEW v \in Texts(words), Handled(o, v) # <<>>
  PROVE  \E x \in Things(words) : Handled(o, v) = <<x>>
<1>1. PICK h : h = Handled(o, v)
  OBVIOUS
<1>2. PICK x : h = <<x>>
  BY <1>1, HandledOnce DEF AtMost1
<1>3. x = h[1]
  BY <1>2
<1>4. x \in Things(words)
  BY <1>1, <1>3 DEF Things
<1> QED
  BY <1>1, <1>2, <1>4

LEMMA WordUnderstood ==
  ASSUME NEW W, NEW words \in Seq(W), NEW st, Parses(words, st), NEW k \in 1..Len(words),
         ~st[k - 1].bad, ~st[k].bad, Understood(words, st[k - 1], k - 1)
  PROVE  Understood(words, st[k], k)
<1>1. DOMAIN words = 1..Len(words) /\ Len(words) \in Nat /\ k \in Nat \ {0}
  BY LenProperties
<1>2. PICK b : b = st[k - 1]
  OBVIOUS
<1>3. PICK e : e = st[k]
  OBVIOUS
<1>4. e = TakeWord(b, words[k]) /\ ~b.bad /\ ~e.bad /\ Understood(words, b, k - 1)
  BY <1>2, <1>3 DEF Parses
<1>5. b \in ParseStates(words)
  BY <1>1, <1>2 DEF Parses
<1>t. b.run \in [LauOptions -> Seq(Things(words))] /\ b.open \in LauOptions \cup {""}
  BY <1>5 DEF ParseStates
<1>6. words[k].text \in Texts(words) /\ words[k].inline[1] \in Texts(words)
  BY <1>1 DEF Texts
<1>7. CASE b.open # ""
  <2>1. PICK j : j = k - 1
    OBVIOUS
  <2>2. j # 0 /\ words[j].stem = b.open /\ Needs(words, j) /\ j \notin Values(words) /\ Meant(b.run, words, j - 1)
    BY <1>4, <1>7, <2>1 DEF Understood
  <2>3. j \in 1..Len(words) /\ k = j + 1 /\ k \in 2..Len(words)
    BY <2>1, <2>2, <1>1
  <2>4. k \in Values(words)
    BY <2>1, <2>2, <2>3, ValuesAre
  <2>5. PICK o : o = b.open
    OBVIOUS
  <2>6. o \in LauOptions
    BY <1>7, <1>t, <2>5
  <2>7. e = HandleOption(b, o, words[k].text)
    BY <1>4, <1>7, <2>5 DEF TakeWord
  <2>v. PICK v : v = words[k].text
    BY <1>6
  <2>t. v \in Texts(words)
    BY <2>v, <1>6
  <2>e. ~HandleOption(b, o, v).bad /\ ~b.bad
    BY <2>7, <2>v, <1>4
  <2>8. /\ Handled(o, v) # <<>> /\ HandleOption(b, o, v).open = ""
        /\ HandleOption(b, o, v).run = Given(b.run, o, Handled(o, v))
    BY <2>e, <2>t, <2>6, <1>5, OptionTaken
  <2>9. Said(words, j) = Handled(o, v)
    <3>1. Said(words, j) = Handled(words[j].stem, words[j + 1].text)
      BY <2>2 DEF Said
    <3> QED
      BY <3>1, <2>2, <2>3, <2>5, <2>v
  <2>10. PICK x \in Things(words) : Said(words, j) = <<x>>
    BY <2>t, <2>6, <2>8, <2>9, SaysOne
  <2>11. j \in Mentions(words, o)
    BY <2>2, <2>3, <2>5, <1>1 DEF Mentions
  <2>12. e.run = Given(b.run, o, Said(words, j))
    BY <2>7, <2>v, <2>8, <2>9
  <2>13. Meant(Given(b.run, o, Said(words, j)), words, j)
    BY <2>2, <2>3, <2>6, <2>10, <2>11, <1>t, MeansMore
  <2>14. Meant(e.run, words, k - 1)
    BY <2>1, <2>12, <2>13
  <2>15. \A q \in LauOptions : k \notin Mentions(words, q)
    BY <2>4 DEF Mentions
  <2>16. Meant(e.run, words, k)
    BY <2>14, <2>15, MeansTheSame
  <2> QED
    BY <2>4, <2>7, <2>v, <2>8, <2>16, <1>3 DEF Understood
<1>8. CASE b.open = ""
  <2>1. k \notin Values(words)
    <3>1. CASE k = 1
      BY <3>1, ValuesAre
    <3>2. CASE k # 1
      <4>1. k \in 2..Len(words) /\ k - 1 # 0
        BY <3>2, <1>1
      <4>2. Needs(words, k - 1) => k - 1 \in Values(words)
        BY <4>1, <1>4, <1>8 DEF Understood
      <4> QED
        BY <4>1, <4>2, ValuesAre
    <3> QED
      BY <3>1, <3>2
  <2>2. Meant(b.run, words, k - 1)
    BY <1>4, <1>8 DEF Understood
  <2>3. CASE words[k].stem \in LauOptions
    <3>1. PICK o : o = words[k].stem
      OBVIOUS
    <3>2. o \in LauOptions /\ o \notin {"help", "other"} /\ o # ""
      BY <2>3, <3>1 DEF LauOptions, Scalars, Lists
    <3>3. e = IF words[k].inline # <<>> THEN HandleOption(b, o, words[k].inline[1]) ELSE [b EXCEPT !.open = o]
      BY <1>4, <1>8, <3>1, <3>2 DEF TakeWord
    <3>4. k \in Mentions(words, o)
      BY <2>1, <3>1, <1>1 DEF Mentions
    <3>5. CASE words[k].inline = <<>>
      <4>1. e = [b EXCEPT !.open = o]
        BY <3>3, <3>5
      <4>2. e.open = o /\ e.run = b.run
        BY <4>1, <1>5 DEF ParseStates
      <4>3. Needs(words, k)
        BY <3>1, <3>2, <3>5 DEF Needs
      <4> QED
        BY <4>2, <4>3, <2>1, <2>2, <3>1, <3>2, <1>1, <1>3 DEF Understood
    <3>6. CASE words[k].inline # <<>>
      <4>1. e = HandleOption(b, o, words[k].inline[1])
        BY <3>3, <3>6
      <4>2. ~Needs(words, k)
        BY <3>6 DEF Needs
      <4>v. PICK v : v = words[k].inline[1]
        BY <1>6
      <4>3. Said(words, k) = Handled(o, v)
        BY <4>2, <4>v, <3>1 DEF Said
      <4>t. v \in Texts(words)
        BY <4>v, <1>6
      <4>e. ~HandleOption(b, o, v).bad /\ ~b.bad
        BY <4>1, <4>v, <1>4
      <4>4. /\ Handled(o, v) # <<>> /\ HandleOption(b, o, v).open = ""
            /\ HandleOption(b, o, v).run = Given(b.run, o, Handled(o, v))
        BY <4>e, <4>t, <3>2, <1>5, OptionTaken
      <4>5. PICK x \in Things(words) : Said(words, k) = <<x>>
        BY <4>t, <3>2, <4>3, <4>4, SaysOne
      <4>6. e.run = Given(b.run, o, Said(words, k))
        BY <4>1, <4>v, <4>3, <4>4
      <4>7. Meant(Given(b.run, o, Said(words, k)), words, k)
        BY <2>2, <3>2, <3>4, <4>5, <1>t, MeansMore
      <4>8. Meant(e.run, words, k)
        BY <4>6, <4>7
      <4> QED
        BY <4>1, <4>v, <4>2, <4>4, <4>8, <1>3 DEF Understood
    <3> QED
      BY <3>5, <3>6
  <2>4. CASE words[k].stem \notin LauOptions
    <3>1. e \in {b, [b EXCEPT !.bad = TRUE]}
      BY <2>4, <1>4, <1>8 DEF TakeWord
    <3>2. [b EXCEPT !.bad = TRUE].bad
      BY <1>5 DEF ParseStates
    <3>3. e = b
      BY <3>1, <3>2, <1>4
    <3>4. \A q \in LauOptions : k \notin Mentions(words, q)
      BY <2>4 DEF Mentions
    <3>5. Meant(b.run, words, k)
      BY <2>2, <3>4, MeansTheSame
    <3>6. ~Needs(words, k)
      BY <2>4 DEF Needs
    <3> QED
      BY <3>3, <3>5, <3>6, <1>3, <1>8 DEF Understood
  <2> QED
    BY <2>3, <2>4
<1> QED
  BY <1>7, <1>8

LEMMA BadStaysBad ==
  ASSUME NEW W, NEW words \in Seq(W), NEW st, Parses(words, st), NEW k \in 1..Len(words), st[k - 1].bad
  PROVE  st[k].bad
BY DEF Parses, TakeWord

LEMMA LineUnderstood ==
  ASSUME NEW W, NEW words \in Seq(W), ~ParseRunArgs(words).bad
  PROVE  /\ ParseRunArgs(words).run \in [LauOptions -> Seq(Things(words))]
         /\ Meant(ParseRunArgs(words).run, words, Len(words))
<1>1. PICK st : /\ Parses(words, st)
                /\ ParseRunArgs(words) = [st[Len(words)] EXCEPT !.bad = @ \/ st[Len(words)].open # ""]
  BY ParseGoesOn
<1>2. PICK n : n = Len(words)
  OBVIOUS
<1>3. n \in Nat /\ n \in 0..n
  BY <1>2, LenProperties
<1>4. PICK e : e = st[n]
  OBVIOUS
<1>5. e \in ParseStates(words)
  BY <1>1, <1>2, <1>3, <1>4 DEF Parses
<1>6. PICK p : p = ParseRunArgs(words)
  OBVIOUS
<1>7. p = [e EXCEPT !.bad = @ \/ e.open # ""]
  BY <1>1, <1>2, <1>4, <1>6
<1>8. p.run = e.run /\ (p.bad <=> e.bad \/ e.open # "")
  BY <1>5, <1>7 DEF ParseStates
<1>9. ~e.bad /\ e.open = ""
  BY <1>6, <1>8
<1> DEFINE T == {k \in 0..n : ~st[k].bad /\ ~Understood(words, st[k], k)}
<1>10. T = {}
  <2>1. SUFFICES ASSUME T # {} PROVE FALSE
    OBVIOUS
  <2>2. T \in SUBSET Nat
    OBVIOUS
  <2>3. PICK k \in T : \A j \in T : k <= j
    BY <2>1, <2>2, LeastOf
  <2>4. k \in 0..n /\ ~st[k].bad /\ ~Understood(words, st[k], k)
    BY <2>3
  <2>5. CASE k = 0
    <3>1. st[0] = AtFirst
      BY <1>1 DEF Parses
    <3>2. AtFirst.open = "" /\ AtFirst.run = NothingGiven
      BY DEF AtFirst
    <3>3. \A o \in LauOptions : NothingGiven[o] = <<>>
      BY DEF NothingGiven
    <3>4. \A o : Early(words, o, 0) = {}
      <4>1. DOMAIN words \subseteq Nat \ {0}
        BY LenProperties
      <4> QED
        BY <4>1 DEF Early, Mentions
    <3>5. Meant(NothingGiven, words, 0)
      BY <3>3, <3>4, FS_EmptySet, EmptySeq DEF Meant, LauOptions
    <3> QED
      BY <2>4, <2>5, <3>1, <3>2, <3>5 DEF Understood
  <2>6. CASE k # 0
    <3>1. PICK j : j = k - 1
      OBVIOUS
    <3>2. k \in 1..Len(words) /\ j \in 0..n /\ j < k /\ j \in Nat
      BY <3>1, <2>4, <2>6, <1>2, <1>3
    <3>3. j \notin T
      <4> HIDE DEF T
      <4> QED
        BY <2>2, <2>3, <3>2
    <3>4. ~st[j].bad
      BY <3>1, <3>2, <2>4, <1>1, BadStaysBad
    <3>5. Understood(words, st[j], j)
      BY <3>2, <3>3, <3>4
    <3> QED
      BY <3>1, <3>2, <3>4, <3>5, <2>4, <1>1, WordUnderstood
  <2> QED
    BY <2>5, <2>6
<1>11. Understood(words, e, n)
  BY <1>3, <1>4, <1>9, <1>10
<1>12. Meant(e.run, words, n)
  BY <1>9, <1>11 DEF Understood
<1>13. e.run \in [LauOptions -> Seq(Things(words))]
  BY <1>5 DEF ParseStates
<1> QED
  BY <1>2, <1>6, <1>8, <1>12, <1>13

AllGiven(run) == UNION {ToSet(run[o]) : o \in LauOptions}

\* What is given is one thing at most for a scalar, and a number is one of its kind.
FairlyGiven(run) ==
  /\ run \in [LauOptions -> Seq(AllGiven(run))]
  /\ \A o \in Scalars : AtMost1(run[o])
  /\ run["mem"] # <<>> => run["mem"][1] \in 1 .. U64 - 1
  /\ run["smp"] # <<>> => run["smp"][1] \in 1 .. U16 - 1
  /\ run["cid"] # <<>> => run["cid"][1] \in 3 .. U32 - 1

LEMMA FairlyTyped ==
  ASSUME NEW T, NEW run \in [LauOptions -> Seq(T)]
  PROVE  run \in [LauOptions -> Seq(AllGiven(run))]
<1> DEFINE R == AllGiven(run)
<1>1. ASSUME NEW o \in LauOptions PROVE run[o] \in Seq(R)
  <2>1. PICK s : s = run[o]
    OBVIOUS
  <2>2. s \in Seq(T)
    BY <2>1
  <2>3. \A j \in 1..Len(s) : s[j] \in R
    BY <2>1, <2>2, LenProperties DEF ToSet, AllGiven
  <2> HIDE DEF R
  <2>4. s \in Seq(R)
    BY <2>2, <2>3, LenProperties, SeqDef
  <2> QED
    BY <2>1, <2>4
<1> QED
  BY <1>1

LEMMA LineIsFair ==
  ASSUME NEW W, NEW words \in Seq(W), ~ParseRunArgs(words).bad
  PROVE  FairlyGiven(ParseRunArgs(words).run)
<1>1. PICK run : run = ParseRunArgs(words).run
  OBVIOUS
<1>2. run \in [LauOptions -> Seq(Things(words))] /\ Meant(run, words, Len(words))
  BY <1>1, LineUnderstood
<1>3. Len(words) \in Nat /\ DOMAIN words = 1..Len(words)
  BY LenProperties
<1>4. ASSUME NEW o \in Scalars PROVE run[o] = <<>> \/ \E v : run[o] = Handled(o, v)
  <2>1. CASE Early(words, o, Len(words)) = {}
    BY <2>1, <1>2, <1>4 DEF Meant
  <2>2. CASE Early(words, o, Len(words)) # {}
    <3>1. PICK k : k = Max(Early(words, o, Len(words)))
      OBVIOUS
    <3>2. run[o] = Said(words, k)
      BY <3>1, <2>2, <1>2, <1>4 DEF Meant
    <3>3. k \in Early(words, o, Len(words))
      <4>1. Early(words, o, Len(words)) \in SUBSET (1..Len(words))
        BY <1>3 DEF Early, Mentions
      <4> QED
        BY <3>1, <2>2, <4>1, <1>3, GreatestOf
    <3>4. words[k].stem = o
      BY <3>3 DEF Early, Mentions
    <3> QED
      BY <3>2, <3>4 DEF Said
  <2> QED
    BY <2>1, <2>2
<1>5. \A o \in Scalars : AtMost1(run[o])
  BY <1>4, HandledOnce DEF AtMost1, LauOptions
<1>6. run["mem"] # <<>> => run["mem"][1] \in 1 .. U64 - 1
  <2>1. SUFFICES ASSUME run["mem"] # <<>> PROVE run["mem"][1] \in 1 .. U64 - 1
    OBVIOUS
  <2>2. PICK v : run["mem"] = Handled("mem", v)
    BY <2>1, <1>4 DEF Scalars
  <2>3. run["mem"] = ValidateNumber(v, 1, U64)
    BY <2>2 DEF Handled
  <2>4. PICK x \in 1 .. U64 - 1 : run["mem"] = <<x>>
    BY <2>1, <2>3, NumberOnce, LauAssumption
  <2> QED
    BY <2>4
<1>7. run["smp"] # <<>> => run["smp"][1] \in 1 .. U16 - 1
  <2>1. SUFFICES ASSUME run["smp"] # <<>> PROVE run["smp"][1] \in 1 .. U16 - 1
    OBVIOUS
  <2>2. PICK v : run["smp"] = Handled("smp", v)
    BY <2>1, <1>4 DEF Scalars
  <2>3. run["smp"] = ValidateNumber(v, 1, U16)
    BY <2>2 DEF Handled
  <2>4. PICK x \in 1 .. U16 - 1 : run["smp"] = <<x>>
    BY <2>1, <2>3, NumberOnce, LauAssumption
  <2> QED
    BY <2>4
<1>8. run["cid"] # <<>> => run["cid"][1] \in 3 .. U32 - 1
  <2>1. SUFFICES ASSUME run["cid"] # <<>> PROVE run["cid"][1] \in 3 .. U32 - 1
    OBVIOUS
  <2>2. PICK v : run["cid"] = Handled("cid", v)
    BY <2>1, <1>4 DEF Scalars
  <2>3. run["cid"] = ValidateNumber(v, 3, U32)
    BY <2>2 DEF Handled
  <2>4. PICK x \in 3 .. U32 - 1 : run["cid"] = <<x>>
    BY <2>1, <2>3, NumberOnce, LauAssumption
  <2> QED
    BY <2>4
<1>9. run \in [LauOptions -> Seq(AllGiven(run))]
  BY <1>2, FairlyTyped
<1>10. FairlyGiven(run)
  BY <1>5, <1>6, <1>7, <1>8, <1>9 DEF FairlyGiven
<1> QED
  BY <1>1, <1>10

LEMMA NothingIsFair ==
  FairlyGiven(NothingGiven)
<1>1. NothingGiven \in [LauOptions -> Seq({})]
  BY EmptySeq DEF NothingGiven
<1>2. \A o \in LauOptions : NothingGiven[o] = <<>>
  BY DEF NothingGiven
<1>3. {"mem", "smp", "cid"} \subseteq LauOptions
  BY DEF LauOptions, Scalars
<1> QED
  BY <1>1, <1>2, <1>3, FairlyTyped DEF FairlyGiven, AtMost1, LauOptions

LEMMA AllIsSaid ==
  ASSUME NEW W, NEW words \in Seq(W), ~ParseRunArgs(words).bad, NEW run, run = ParseRunArgs(words).run
  PROVE  AsWritten(run, words)
<1>1. Len(words) \in Nat /\ DOMAIN words = 1..Len(words)
  BY LenProperties
<1>2. \A o : Early(words, o, Len(words)) = Mentions(words, o)
  BY <1>1 DEF Early, Mentions
<1>3. Meant(run, words, Len(words))
  BY LineUnderstood
<1> QED
  BY <1>2, <1>3 DEF Meant, AsWritten

-----------------------------------------------------------------------------
(***************************************************************************)
(* What is so in every state of the launcher.                              *)
(***************************************************************************)
Accepted(line) == line # <<>> /\ ~ParseRunArgs(Tail(line)).bad
Planned == {"helpers", "spawn", "wait"}
Described == {"shares"} \cup Planned

LauInv ==
  /\ lauAt \in {"parse", "tools", "options", "ended", "killed"} \cup Described
  /\ lauQemu \in {"none", "running", "exited", "killed"} /\ lauStderr \in {"none", "open", "closed"}
  /\ lauCode \in {-1, 0, 1} /\ lauConf.mem \in 0 .. U32 - 1
  /\ FairlyGiven(lauRun)
  /\ lauAt \notin {"parse", "ended"} =>
       lauLine \in LauLines /\ Accepted(lauLine) /\ lauRun = ParseRunArgs(Tail(lauLine)).run
  /\ lauAt \in Described => lauConf \in RunConfigs(lauRun)
  /\ lauAt \in Planned =>
       /\ lauShares = Virtio9p(lauConf.certs, lauRun["volume"])
       /\ lauFstab = [k \in DOMAIN lauRun["volume"] |-> [tag |-> UserTag(k - 1), guest |-> lauRun["volume"][k].guest]]

LEMMA EndIsClean ==
  ASSUME LauInv, NEW code \in {0, 1}, Ends(code), lauAt # "parse"
  PROVE  LauInv'
  BY DEF LauInv, Ends, lauPlan, Described, Planned

LEMMA SmallRest ==
  ASSUME NEW a \in Nat, NEW b \in Nat, a < b
  PROVE  a % b = a
OBVIOUS

LEMMA ConfigFits ==
  ASSUME NEW run, FairlyGiven(run), NEW conf \in RunConfigs(run)
  PROVE  /\ conf.mem \in 0 .. U32 - 1
         /\ run["app-conf"] = <<>> => conf.certs = <<>> /\ MachineAsked(run, conf)
         /\ run["app-conf"] # <<>> => \E dir : conf.certs = <<dir>>
<1>1. U32 \in Nat \ {0} /\ LauDefaults.mem \in 1 .. U32 - 1 /\ LauDefaults.smp \in 1 .. U16 - 1
      /\ LauDefaults.cid \in 3 .. U32 - 1 /\ U16 \in Nat /\ U64 \in Nat
  BY LauAssumption
<1>2. CASE run["app-conf"] # <<>>
  <2>1. PICK name : name = run["app-conf"][1]
    OBVIOUS
  <2>2. PICK k \in DOMAIN LauConfigs[name] :
          /\ name \in DOMAIN LauConfigs
          /\ LET c == LauConfigs[name][k] IN
             conf = [image |-> c.image, payload |-> c.payload, certs |-> <<c.certdir>>, mem |-> c.memory % U32,
                     smp |-> Last1(run["smp"], LauDefaults.smp), cid |-> c.cid, extra |-> c.extra]
    BY <1>2, <2>1 DEF RunConfigs
  <2>c. PICK c : c = LauConfigs[name][k]
    OBVIOUS
  <2>3. conf.mem = c.memory % U32 /\ conf.certs = <<c.certdir>>
    BY <2>2, <2>c
  <2>4. c.memory \in Nat
    BY <2>2, <2>c, LauAssumption
  <2>5. c.memory % U32 \in 0 .. U32 - 1
    BY <2>4, <1>1
  <2> QED
    BY <1>2, <2>3, <2>5
<1>3. CASE run["app-conf"] = <<>>
  <2>1. conf = [image |-> run["kernel"][1], payload |-> run["payload"][1], certs |-> <<>>,
                mem |-> Last1(run["mem"], LauDefaults.mem) % U32, smp |-> Last1(run["smp"], LauDefaults.smp),
                cid |-> Last1(run["cid"], LauDefaults.cid), extra |-> <<>>]
    BY <1>3 DEF RunConfigs
  <2>2. PICK m : m = Last1(run["mem"], LauDefaults.mem)
    OBVIOUS
  <2>3. /\ conf.certs = <<>> /\ conf.smp = Last1(run["smp"], LauDefaults.smp)
        /\ conf.cid = Last1(run["cid"], LauDefaults.cid) /\ conf.mem = m % U32
    BY <2>1, <2>2
  <2>4. conf.smp \in 1 .. U16 - 1 /\ conf.smp = Last1(run["smp"], conf.smp)
    BY <2>3, <1>1 DEF Last1, FairlyGiven
  <2>5. conf.cid \in 3 .. U32 - 1 /\ conf.cid = Last1(run["cid"], conf.cid)
    BY <2>3, <1>1 DEF Last1, FairlyGiven
  <2>6. m \in Nat /\ m # 0 /\ (run["mem"] = <<>> => m < U32) /\ (run["mem"] # <<>> => m = run["mem"][1])
    BY <2>2, <1>1 DEF Last1, FairlyGiven
  <2>7. m % U32 \in 0 .. U32 - 1
    BY <2>6, <1>1
  <2>8. m < U32 => m % U32 = m
    BY <2>6, <1>1, SmallRest
  <2>9. run["mem"] = <<>> \/ run["mem"][1] < U32 => conf.mem = m /\ m \in 1 .. U32 - 1
    BY <2>3, <2>6, <2>7, <2>8, <1>1
  <2>10. run["mem"] = <<>> \/ run["mem"][1] < U32 => conf.mem \in 1 .. U32 - 1 /\ conf.mem = Last1(run["mem"], conf.mem)
    BY <2>6, <2>9 DEF Last1
  <2> QED
    BY <1>3, <2>3, <2>4, <2>5, <2>7, <2>10 DEF MachineAsked
<1> QED
  BY <1>2, <1>3

LEMMA LauInit ==
  LaunchInit => LauInv
<1> SUFFICES ASSUME LaunchInit PROVE LauInv
  OBVIOUS
<1>1. lauConf.mem \in 0 .. U32 - 1
  BY LauAssumption DEF LaunchInit, NoConf
<1>2. FairlyGiven(lauRun)
  BY NothingIsFair DEF LaunchInit
<1> QED
  BY <1>1, <1>2 DEF LaunchInit, LauInv, Described, Planned

LEMMA LineParsed ==
  ASSUME LauInv, ParseArgs
  PROVE  LauInv'
<1>1. PICK line \in LauLines :
        /\ lauLine' = line
        /\ IF AsksForHelp(line) THEN lauAt' = "ended" /\ lauCode' = 0 /\ UNCHANGED lauRun
           ELSE LET st == ParseRunArgs(Tail(line)) IN
                IF line[1].stem # "run" \/ st.bad THEN lauAt' = "ended" /\ lauCode' = 1 /\ UNCHANGED lauRun
                ELSE /\ lauRun' = st.run /\ lauCode' = lauCode
                     /\ lauAt' = "tools"
  BY DEF ParseArgs
<1>2. lauAt = "parse" /\ UNCHANGED <<lauTools, lauConf, lauShares, lauFstab, lauHelpers, lauQemu, lauStderr>>
  BY DEF ParseArgs, lauKids
<1>4. CASE lauAt' = "ended" /\ lauCode' \in {0, 1} /\ UNCHANGED lauRun
  BY <1>2, <1>4 DEF LauInv, Described, Planned
<1>5. CASE /\ ~AsksForHelp(line) /\ ~ParseRunArgs(Tail(line)).bad /\ lauRun' = ParseRunArgs(Tail(line)).run
           /\ lauCode' = lauCode /\ lauAt' = "tools"
  <2>1. line # <<>>
    BY <1>5 DEF AsksForHelp
  <2>2. line \in Seq(ToSet(line))
    BY LauAssumption
  <2>3. Tail(line) \in Seq(ToSet(line))
    BY <2>1, <2>2, TailFacts
  <2>4. FairlyGiven(lauRun')
    BY <2>3, <1>5, LineIsFair
  <2>5. Accepted(lauLine') /\ lauLine' \in LauLines /\ lauRun' = ParseRunArgs(Tail(lauLine')).run
    BY <2>1, <1>1, <1>5 DEF Accepted
  <2> QED
    BY <2>4, <2>5, <1>2, <1>5 DEF LauInv, Described, Planned
<1> QED
  BY <1>1, <1>4, <1>5

LEMMA LaunchStep ==
  LauInv /\ [LaunchNext]_lauVars => LauInv'
<1> SUFFICES ASSUME LauInv, [LaunchNext]_lauVars PROVE LauInv'
  OBVIOUS
<1>1. CASE ParseArgs
  BY <1>1, LineParsed
<1>2. CASE FindRequiredTools
  <2>1. CASE Ends(1)
    BY <2>1, <1>2, EndIsClean DEF FindRequiredTools
  <2>2. CASE ~Ends(1)
    BY <1>2, <2>2 DEF FindRequiredTools, LauInv, lauKids, Described, Planned
  <2> QED
    BY <2>1, <2>2
<1>3. CASE AnalyzeRequiredArgs
  <2>1. CASE Ends(0)
    BY <2>1, <1>3, EndIsClean DEF AnalyzeRequiredArgs
  <2>2. CASE ~Ends(0)
    <3>1. /\ lauAt = "options" /\ lauConf' \in RunConfigs(lauRun) /\ lauAt' = "shares"
          /\ UNCHANGED <<lauLine, lauRun, lauTools, lauShares, lauFstab, lauHelpers, lauQemu, lauStderr, lauCode>>
      BY <1>3, <2>2 DEF AnalyzeRequiredArgs, lauKids
    <3>2. FairlyGiven(lauRun)
      BY DEF LauInv
    <3>3. lauConf'.mem \in 0 .. U32 - 1
      BY <3>1, <3>2, ConfigFits
    <3> QED
      BY <3>1, <3>3 DEF LauInv, Described, Planned
  <2> QED
    BY <2>1, <2>2
<1>4. CASE Configure9p
  <2>1. CASE Ends(0) \/ Ends(1)
    BY <2>1, <1>4, EndIsClean DEF Configure9p
  <2>2. CASE ~(Ends(0) \/ Ends(1))
    BY <1>4, <2>2 DEF Configure9p, LauInv, lauKids, Described, Planned
  <2> QED
    BY <2>1, <2>2
<1>5. CASE LaunchVirtiofsd
  <2>1. CASE Ends(0)
    BY <2>1, <1>5, EndIsClean DEF LaunchVirtiofsd
  <2>2. CASE ~Ends(0)
    BY <1>5, <2>2 DEF LaunchVirtiofsd, LauInv, lauPlan, Described, Planned
  <2> QED
    BY <2>1, <2>2
<1>6. CASE HelpersDropped
  BY <1>6 DEF HelpersDropped, LauInv, lauPlan, Described, Planned
<1>7. CASE SpawnQemu
  <2>1. CASE Ends(0)
    BY <2>1, <1>7, EndIsClean DEF SpawnQemu
  <2>2. CASE ~Ends(0)
    BY <1>7, <2>2 DEF SpawnQemu, LauInv, lauPlan, Described, Planned
  <2> QED
    BY <2>1, <2>2
<1>8. CASE StderrTaskEnds
  BY <1>8, EndIsClean DEF StderrTaskEnds
<1>9. CASE QemuWaited
  BY <1>9, EndIsClean DEF QemuWaited
<1>10. CASE QemuExits
  BY <1>10 DEF QemuExits, LauInv, lauPlan, Described, Planned
<1>11. CASE StderrBreaks
  BY <1>11 DEF StderrBreaks, LauInv, lauPlan, Described, Planned
<1>12. CASE HelperExits
  BY <1>12 DEF HelperExits, LauInv, lauPlan, Described, Planned
<1>13. CASE LauncherKilled
  BY <1>13 DEF LauncherKilled, LauInv, lauPlan, lauKids, Described, Planned
<1>14. CASE UNCHANGED lauVars
  BY <1>14 DEF lauVars, LauInv, Described, Planned
<1> QED
  BY <1>1, <1>2, <1>3, <1>4, <1>5, <1>6, <1>7, <1>8, <1>9, <1>10, <1>11, <1>12, <1>13, <1>14 DEF LaunchNext

(***************************************************************************)
(* Shares: the ids of Virtio9p are 0, 1 if there are certificates, and     *)
(* from 2 on.                                                              *)
(***************************************************************************)
LEMMA SharesOf ==
  ASSUME NEW V, NEW volumes \in Seq(V), NEW certs, certs = <<>> \/ \E dir : certs = <<dir>>
  PROVE  /\ Behind(Virtio9p(certs, volumes), <<"ccashare", 0>>) = {RunDir}
         /\ Behind(Virtio9p(certs, volumes), <<"certshare", 0>>) # {} <=> certs # <<>>
         /\ \A k \in DOMAIN volumes : Behind(Virtio9p(certs, volumes), UserTag(k - 1)) = {volumes[k].host}
<1>1. PICK n : n = Len(volumes)
  OBVIOUS
<1>2. n \in Nat /\ DOMAIN volumes = 1..n
  BY <1>1, LenProperties
<1>c. /\ DOMAIN certs = {1} \/ DOMAIN certs = {}
      /\ DOMAIN certs # {} <=> certs # <<>>
  <2>1. CASE certs = <<>>
    <3>1. DOMAIN certs = {}
      BY <2>1, EmptySeq
    <3> QED
      BY <3>1, <2>1
  <2>2. CASE \E dir : certs = <<dir>>
    <3>1. PICK dir : certs = <<dir>>
      BY <2>2
    <3>2. DOMAIN <<dir>> = {1} /\ <<dir>> # <<>>
      OBVIOUS
    <3> QED
      BY <3>1, <3>2
  <2> QED
    BY <2>1, <2>2
<1>d. DOMAIN certs # {} <=> certs # <<>>
  BY <1>c
<1> DEFINE fsdevs == {[id |-> 0, path |-> RunDir]} \cup {[id |-> 1, path |-> certs[k]] : k \in DOMAIN certs}
                       \cup {[id |-> k + 1, path |-> volumes[k].host] : k \in DOMAIN volumes}
           devices == {[id |-> 0, tag |-> <<"ccashare", 0>>]} \cup {[id |-> 1, tag |-> <<"certshare", 0>>] : k \in DOMAIN certs}
                        \cup {[id |-> k + 1, tag |-> UserTag(k - 1)] : k \in DOMAIN volumes}
<1>3. Virtio9p(certs, volumes).fsdevs = fsdevs /\ Virtio9p(certs, volumes).devices = devices
  BY DEF Virtio9p
<1>4. \A d \in devices : /\ d.tag = <<"ccashare", 0>> => d.id = 0
                         /\ d.tag = <<"certshare", 0>> => d.id = 1
                         /\ \A k \in 1..n : d.tag = UserTag(k - 1) => d.id = k + 1
  BY <1>2 DEF UserTag
<1>5. \A g \in fsdevs : /\ g.id = 0 => g.path = RunDir
                        /\ \A k \in 1..n : g.id = k + 1 => g.path = volumes[k].host
  BY <1>2, <1>c
<1>6. /\ [id |-> 0, path |-> RunDir] \in fsdevs /\ [id |-> 0, tag |-> <<"ccashare", 0>>] \in devices
      /\ \A k \in 1..n : /\ [id |-> k + 1, path |-> volumes[k].host] \in fsdevs
                         /\ [id |-> k + 1, tag |-> UserTag(k - 1)] \in devices
  BY <1>2
<1>7. certs # <<>> => [id |-> 1, path |-> certs[1]] \in fsdevs /\ [id |-> 1, tag |-> <<"certshare", 0>>] \in devices
  BY <1>c, <1>d
<1>8. certs = <<>> => \A d \in devices : d.tag # <<"certshare", 0>>
  BY <1>2, <1>d DEF UserTag
<1>9. \A tag : Behind(Virtio9p(certs, volumes), tag) =
                 {f.path : f \in {g \in fsdevs : \E d \in devices : d.tag = tag /\ d.id = g.id}}
  BY <1>3 DEF Behind
<1> HIDE DEF fsdevs, devices
<1>10. Behind(Virtio9p(certs, volumes), <<"ccashare", 0>>) = {RunDir}
  <2>1. \E g \in fsdevs : g.path = RunDir /\ \E d \in devices : d.tag = <<"ccashare", 0>> /\ d.id = g.id
    BY <1>6
  <2>2. \A g \in fsdevs, d \in devices : d.tag = <<"ccashare", 0>> /\ d.id = g.id => g.path = RunDir
    BY <1>4, <1>5
  <2> QED
    BY <2>1, <2>2, <1>9
<1>11. ASSUME NEW k \in DOMAIN volumes PROVE Behind(Virtio9p(certs, volumes), UserTag(k - 1)) = {volumes[k].host}
  <2>1. \E g \in fsdevs : g.path = volumes[k].host /\ \E d \in devices : d.tag = UserTag(k - 1) /\ d.id = g.id
    <3>1. PICK g \in fsdevs : g = [id |-> k + 1, path |-> volumes[k].host]
      BY <1>2, <1>6
    <3>2. PICK d \in devices : d = [id |-> k + 1, tag |-> UserTag(k - 1)]
      BY <1>2, <1>6
    <3>3. g.path = volumes[k].host /\ d.tag = UserTag(k - 1) /\ d.id = g.id
      BY <3>1, <3>2
    <3> QED
      BY <3>1, <3>2, <3>3
  <2>2. \A g \in fsdevs, d \in devices : d.tag = UserTag(k - 1) /\ d.id = g.id => g.path = volumes[k].host
    BY <1>2, <1>4, <1>5
  <2> QED
    BY <2>1, <2>2, <1>9
<1>12. Behind(Virtio9p(certs, volumes), <<"certshare", 0>>) # {} <=> certs # <<>>
  <2>1. ASSUME certs # <<>> PROVE Behind(Virtio9p(certs, volumes), <<"certshare", 0>>) # {}
    <3>1. PICK g \in fsdevs : \E d \in devices : d.tag = <<"certshare", 0>> /\ d.id = g.id
      BY <2>1, <1>7
    <3>2. g.path \in Behind(Virtio9p(certs, volumes), <<"certshare", 0>>)
      BY <3>1, <1>9
    <3> QED
      BY <3>2
  <2>2. ASSUME certs = <<>> PROVE Behind(Virtio9p(certs, volumes), <<"certshare", 0>>) = {}
    BY <2>2, <1>8, <1>9
  <2> QED
    BY <2>1, <2>2
<1> QED
  BY <1>10, <1>11, <1>12

(***************************************************************************)
(* Tags: an escaped byte tells what it was, and nothing that is trimmed    *)
(* begins with a slash.                                                    *)
(***************************************************************************)
Bytes == STRING \ Escapes

LEMMA EscapesTell ==
  ASSUME NEW c \in Bytes, NEW d \in Bytes, NEW first \in BOOLEAN, EscapeByte(c, first) = EscapeByte(d, first)
  PROVE  c = d
BY DEF EscapeByte, Bytes, Escapes

LEMMA TrimmedText ==
  ASSUME NEW text \in Seq(Bytes)
  PROVE  Trimmed(text) \in Seq(Bytes) /\ (Trimmed(text) # <<>> => Trimmed(text)[1] # "/")
<1>1. PICK n : n = Len(text)
  OBVIOUS
<1>2. n \in Nat /\ DOMAIN text = 1..n
  BY <1>1, LenProperties
<1>3. PICK solid : solid = {k \in DOMAIN text : text[k] # "/"}
  OBVIOUS
<1>4. solid \in SUBSET (1..n) /\ solid \in SUBSET Nat
  BY <1>2, <1>3
<1>5. CASE solid = {}
  <2>1. Trimmed(text) = <<>>
    BY <1>3, <1>5 DEF Trimmed
  <2> QED
    BY <2>1, EmptySeq
<1>6. CASE solid # {}
  <2>1. PICK low \in solid : \A y \in solid : low <= y
    BY <1>4, <1>6, LeastOf
  <2>2. Min(solid) \in solid /\ \A y \in solid : Min(solid) <= y
    BY <2>1 DEF Min
  <2>3. Max(solid) \in solid
    BY <1>2, <1>4, <1>6, GreatestOf
  <2>4. PICK a, b : a = Min(solid) /\ b = Max(solid)
    OBVIOUS
  <2>5. a \in 1..n /\ b \in 1..n /\ a <= b
    BY <2>2, <2>3, <2>4, <1>4
  <2>6. Trimmed(text) = SubSeq(text, a, b)
    BY <1>3, <1>6, <2>4 DEF Trimmed
  <2>7. text[a] # "/"
    BY <2>2, <2>4, <1>3
  <2>8. \A k \in a..b : text[k] \in Bytes
    BY <2>5, <1>1, <1>2
  <2>9. SubSeq(text, a, b) = [k \in 1..(b - a + 1) |-> text[a + k - 1]]
    BY <2>5, <1>1, <1>2, SubSeqProperties
  <2>10. SubSeq(text, a, b) \in Seq(Bytes)
    BY <2>5, <1>1, <1>2, SubSeqProperties
  <2>11. SubSeq(text, a, b)[1] = text[a]
    BY <2>5, <2>9, <1>2
  <2> QED
    BY <2>6, <2>7, <2>10, <2>11
<1> QED
  BY <1>5, <1>6

LEMMA SqueezedText ==
  ASSUME NEW text \in Seq(Bytes), text # <<>> => text[1] # "/"
  PROVE  /\ Squeezed(text) \in Seq(Bytes)
         /\ Squeezed(text) # <<>> => Squeezed(text)[1] # "/"
<1>1. PICK n : n = Len(text)
  OBVIOUS
<1>2. n \in Nat /\ DOMAIN text = 1..n /\ \A k \in 1..n : text[k] \in Bytes
  BY <1>1, LenProperties
<1> DEFINE Skipped(k) == text[k] = "/" /\ k > 1 /\ text[k - 1] = "/"
           S == [k \in 1..n |-> [x \in Seq(Bytes) |-> IF Skipped(k) THEN x ELSE Append(x, text[k])]]
<1>3. S \in [1..n -> [Seq(Bytes) -> Seq(Bytes)]]
  <2>1. ASSUME NEW k \in 1..n, NEW x \in Seq(Bytes) PROVE (IF Skipped(k) THEN x ELSE Append(x, text[k])) \in Seq(Bytes)
    <3>1. Append(x, text[k]) \in Seq(Bytes)
      BY <1>2, AppendFacts
    <3> QED
      BY <3>1
  <2> QED
    BY <2>1
<1>4. <<>> \in Seq(Bytes)
  OBVIOUS
<1>5. PICK f \in [0..n -> Seq(Bytes)] : Walks(f, S, <<>>, n)
  BY <1>2, <1>3, <1>4, StepByStep
<1>6. ASSUME NEW k \in 1..n PROVE f[k] = IF Skipped(k) THEN f[k - 1] ELSE Append(f[k - 1], text[k])
  <2>1. k - 1 \in 0..n
    BY <1>2
  <2>2. f[k - 1] \in Seq(Bytes)
    BY <2>1, <1>5
  <2>3. f[k] = S[k][f[k - 1]]
    BY <1>5 DEF Walks
  <2> QED
    BY <2>2, <2>3
<1> HIDE DEF Skipped, S
<1> DEFINE Body(g) == [k \in 0..Len(text) |-> IF k = 0 THEN <<>> ELSE IF Skipped(k) THEN g[k - 1] ELSE Append(g[k - 1], text[k])]
<1>7. f = Body(f)
  <2>1. f = [k \in 0..n |-> f[k]]
    BY <1>5
  <2>2. \A k \in 0..n : f[k] = IF k = 0 THEN <<>> ELSE IF Skipped(k) THEN f[k - 1] ELSE Append(f[k - 1], text[k])
    <3> SUFFICES ASSUME NEW k \in 0..n
                 PROVE  f[k] = IF k = 0 THEN <<>> ELSE IF Skipped(k) THEN f[k - 1] ELSE Append(f[k - 1], text[k])
      OBVIOUS
    <3>1. CASE k = 0
      BY <3>1, <1>5 DEF Walks
    <3>2. CASE k # 0
      <4>1. k \in 1..n
        BY <3>2, <1>2
      <4> QED
        BY <4>1, <3>2, <1>6
    <3> QED
      BY <3>1, <3>2
  <2> QED
    BY <1>1, <2>1, <2>2
<1> DEFINE upTo == CHOOSE g : g = Body(g)
<1>8. upTo = Body(upTo)
  BY <1>7
<1>9. Squeezed(text) = upTo[n]
  BY <1>1 DEF Squeezed, Skipped
<1> HIDE DEF upTo
<1>10. upTo[0] = <<>> /\ \A k \in 1..n : upTo[k] = IF Skipped(k) THEN upTo[k - 1] ELSE Append(upTo[k - 1], text[k])
  <2>1. upTo[0] = <<>>
    BY <1>8, <1>1, <1>2
  <2>2. ASSUME NEW k \in 1..n PROVE upTo[k] = IF Skipped(k) THEN upTo[k - 1] ELSE Append(upTo[k - 1], text[k])
    <3>1. k \in 0..Len(text) /\ k # 0
      BY <1>1, <1>2
    <3>2. upTo[k] = Body(upTo)[k]
      BY <1>8
    <3> QED
      BY <3>1, <3>2
  <2> QED
    BY <2>1, <2>2
<1> DEFINE Solid(k) == upTo[k] \in Seq(Bytes) /\ (k # 0 => upTo[k] # <<>> /\ upTo[k][1] = text[1])
           T == {k \in 0..n : ~Solid(k)}
<1>11. T = {}
  <2>1. SUFFICES ASSUME T # {} PROVE FALSE
    OBVIOUS
  <2>2. T \in SUBSET Nat
    OBVIOUS
  <2>3. PICK k \in T : \A j \in T : k <= j
    BY <2>1, <2>2, LeastOf
  <2>4. k \in 1..n
    <3>1. Solid(0)
      BY <1>4, <1>10
    <3>2. k # 0
      BY <2>3, <3>1
    <3>3. k \in 0..n
      OBVIOUS
    <3> QED
      BY <3>2, <3>3, <1>2
  <2>l. PICK l : l = k - 1
    OBVIOUS
  <2>m. l \in 0..n /\ l < k /\ l \in Nat /\ k \in Nat /\ (l = 0 => k = 1)
    BY <2>4, <2>l, <1>2
  <2>5. l \notin T
    <3> HIDE DEF T
    <3> QED
      BY <2>m, <2>2, <2>3
  <2>6. PICK s : s = upTo[l]
    OBVIOUS
  <2>7. s \in Seq(Bytes) /\ (l # 0 => s # <<>> /\ s[1] = text[1])
    BY <2>m, <2>5, <2>6
  <2>8. ~Solid(k)
    BY <2>3
  <2>9. upTo[k] = s \/ (upTo[k] = Append(s, text[k]) /\ (l = 0 => ~Skipped(k)))
    BY <2>4, <2>6, <2>l, <1>10
  <2>10. CASE l = 0
    <3>1. s = <<>> /\ k = 1
      BY <2>6, <2>10, <2>m, <1>10
    <3>2. ~Skipped(k)
      BY <3>1 DEF Skipped
    <3>3. upTo[k] = Append(<<>>, text[1])
      BY <3>1, <3>2, <2>4, <2>6, <2>l, <1>10
    <3>4. upTo[k] = <<text[1]>> /\ text[1] \in Bytes
      BY <3>1, <3>3, <2>4, <1>2
    <3> QED
      BY <3>4, <2>8
  <2>11. CASE l # 0 /\ upTo[k] = s
    BY <2>7, <2>8, <2>11
  <2>12. CASE l # 0 /\ upTo[k] = Append(s, text[k])
    <3>1. Len(s) \in Nat \ {0}
      BY <2>7, <2>12, LenProperties, EmptySeq
    <3>2. Append(s, text[k]) \in Seq(Bytes) /\ Len(Append(s, text[k])) = Len(s) + 1
          /\ \A j \in 1..Len(s) : Append(s, text[k])[j] = s[j]
      BY <2>4, <2>7, <1>2, AppendFacts
    <3>3. Append(s, text[k])[1] = text[1] /\ Append(s, text[k]) # <<>>
      BY <3>1, <3>2, <2>7, <2>12, EmptySeq
    <3> QED
      BY <3>2, <3>3, <2>8, <2>12
  <2> QED
    BY <2>9, <2>10, <2>11, <2>12
<1>12. n \in 0..n
  BY <1>2
<1>13. Solid(n)
  BY <1>11, <1>12
<1>14. n # 0 => text # <<>>
  BY <1>1, EmptySeq
<1>15. CASE n = 0
  BY <1>9, <1>10, <1>13, <1>15
<1>16. CASE n # 0
  BY <1>9, <1>13, <1>14, <1>16
<1> QED
  BY <1>15, <1>16

LEMMA TagsTell ==
  TagsTellPathsApart
<1> SUFFICES ASSUME NEW a \in LauTags, NEW b \in LauTags, EscapePath(a) = EscapePath(b)
             PROVE  Squeezed(Trimmed(a)) = Squeezed(Trimmed(b))
  BY DEF TagsTellPathsApart
<1>1. a \in Seq(Bytes) /\ b \in Seq(Bytes)
  BY LauAssumption DEF Bytes
<1>2. PICK s : s = Squeezed(Trimmed(a))
  OBVIOUS
<1>3. PICK t : t = Squeezed(Trimmed(b))
  OBVIOUS
<1>4. s \in Seq(Bytes) /\ (s # <<>> => s[1] # "/")
  BY <1>1, <1>2, TrimmedText, SqueezedText
<1>5. t \in Seq(Bytes) /\ (t # <<>> => t[1] # "/")
  BY <1>1, <1>3, TrimmedText, SqueezedText
<1>6. (IF s = <<>> THEN <<"-">> ELSE [k \in DOMAIN s |-> EscapeByte(s[k], k = 1)])
      = (IF t = <<>> THEN <<"-">> ELSE [k \in DOMAIN t |-> EscapeByte(t[k], k = 1)])
  BY <1>2, <1>3 DEF EscapePath
<1>7. \A r \in Seq(Bytes) : r # <<>> /\ r[1] # "/" => [k \in DOMAIN r |-> EscapeByte(r[k], k = 1)] # <<"-">>
  <2> SUFFICES ASSUME NEW r \in Seq(Bytes), r # <<>>, r[1] # "/", [k \in DOMAIN r |-> EscapeByte(r[k], k = 1)] = <<"-">>
               PROVE  FALSE
    OBVIOUS
  <2>1. 1 \in DOMAIN r /\ r[1] \in Bytes
    BY LenProperties, EmptySeq
  <2>2. EscapeByte(r[1], TRUE) = "-"
    BY <2>1
  <2> QED
    BY <2>1, <2>2 DEF EscapeByte, Bytes
<1>8. CASE s = <<>> \/ t = <<>>
  BY <1>4, <1>5, <1>6, <1>7, <1>8, <1>2, <1>3
<1>9. CASE s # <<>> /\ t # <<>>
  <2>1. [k \in DOMAIN s |-> EscapeByte(s[k], k = 1)] = [k \in DOMAIN t |-> EscapeByte(t[k], k = 1)]
    BY <1>6, <1>9
  <2>2. DOMAIN s = DOMAIN t
    BY <2>1
  <2>3. ASSUME NEW k \in DOMAIN s PROVE s[k] = t[k]
    <3>1. s[k] \in Bytes /\ t[k] \in Bytes
      BY <2>2, <1>4, <1>5
    <3>2. EscapeByte(s[k], k = 1) = EscapeByte(t[k], k = 1)
      BY <2>1, <2>2
    <3>3. PICK first \in BOOLEAN : first = (k = 1)
      OBVIOUS
    <3>4. EscapeByte(s[k], first) = EscapeByte(t[k], first)
      BY <3>2, <3>3
    <3> QED
      BY <3>1, <3>3, <3>4, EscapesTell
  <2>4. Len(s) = Len(t) /\ DOMAIN s = 1..Len(s)
    BY <2>2, <1>4, <1>5, LenProperties
  <2>5. s = t
    BY <2>3, <2>4, <1>4, <1>5, SeqEqual
  <2> QED
    BY <2>5, <1>2, <1>3
<1> QED
  BY <1>8, <1>9

LEMMA PlanIsKept ==
  LauInv => LaunchesAsAsked
<1> SUFFICES ASSUME LauInv PROVE LaunchesAsAsked
  OBVIOUS
<1>f. FairlyGiven(lauRun)
  BY DEF LauInv
<1>1. LauTypeOK
  <2>1. ASSUME NEW o \in Scalars PROVE Len(lauRun[o]) <= 1
    <3>1. lauRun[o] = <<>> \/ \E x : lauRun[o] = <<x>>
      BY <1>f DEF FairlyGiven, AtMost1
    <3>2. CASE lauRun[o] = <<>>
      BY <3>2
    <3>3. CASE \E x : lauRun[o] = <<x>>
      <4>1. PICK x : lauRun[o] = <<x>>
        BY <3>3
      <4>2. Len(lauRun[o]) = 1
        BY <4>1
      <4> QED
        BY <4>2
    <3> QED
      BY <3>1, <3>2, <3>3
  <2> QED
    BY <2>1 DEF LauInv, LauTypeOK, Described, Planned
<1>2. ArgumentsAreRead
  <2>1. SUFFICES ASSUME lauAt \notin {"parse", "ended"} PROVE AsWritten(lauRun, Tail(lauLine))
    BY DEF ArgumentsAreRead
  <2>2. lauLine \in LauLines /\ lauLine # <<>> /\ ~ParseRunArgs(Tail(lauLine)).bad /\ lauRun = ParseRunArgs(Tail(lauLine)).run
    BY <2>1 DEF LauInv, Accepted
  <2>3. lauLine \in Seq(ToSet(lauLine))
    BY <2>2, LauAssumption
  <2>4. Tail(lauLine) \in Seq(ToSet(lauLine))
    BY <2>2, <2>3, TailFacts
  <2> QED
    BY <2>2, <2>4, AllIsSaid
<1>3. SharesFindTheirPlaces
  <2>1. SUFFICES ASSUME lauAt \in Planned
                 PROVE  /\ Len(lauFstab) = Len(lauRun["volume"])
                        /\ \A k \in DOMAIN lauFstab :
                             /\ lauFstab[k].guest = lauRun["volume"][k].guest
                             /\ Behind(lauShares, lauFstab[k].tag) = {lauRun["volume"][k].host}
                        /\ Behind(lauShares, <<"ccashare", 0>>) = {RunDir}
                        /\ Behind(lauShares, <<"certshare", 0>>) # {} <=> lauRun["app-conf"] # <<>>
    BY DEF SharesFindTheirPlaces, Planned
  <2>2. /\ lauShares = Virtio9p(lauConf.certs, lauRun["volume"]) /\ lauConf \in RunConfigs(lauRun)
        /\ lauFstab = [k \in DOMAIN lauRun["volume"] |-> [tag |-> UserTag(k - 1), guest |-> lauRun["volume"][k].guest]]
    BY <2>1 DEF LauInv, Described
  <2>3. PICK volumes : volumes = lauRun["volume"]
    OBVIOUS
  <2>4. volumes \in Seq(AllGiven(lauRun))
    BY <2>3, <1>f DEF FairlyGiven, LauOptions, Lists
  <2>5. PICK n : n = Len(volumes)
    OBVIOUS
  <2>6. n \in Nat /\ DOMAIN volumes = 1..n
    BY <2>4, <2>5, LenProperties
  <2>7. PICK certs : certs = lauConf.certs
    OBVIOUS
  <2>8. /\ certs = <<>> \/ \E dir : certs = <<dir>>
        /\ certs # <<>> <=> lauRun["app-conf"] # <<>>
    <3>1. /\ lauRun["app-conf"] = <<>> => certs = <<>>
          /\ lauRun["app-conf"] # <<>> => \E dir : certs = <<dir>>
      BY <2>2, <2>7, <1>f, ConfigFits
    <3>2. \A dir : <<dir>> # <<>>
      OBVIOUS
    <3> QED
      BY <3>1, <3>2
  <2>9. /\ Behind(lauShares, <<"ccashare", 0>>) = {RunDir}
        /\ Behind(lauShares, <<"certshare", 0>>) # {} <=> certs # <<>>
        /\ \A k \in DOMAIN volumes : Behind(lauShares, UserTag(k - 1)) = {volumes[k].host}
    <3>1. lauShares = Virtio9p(certs, volumes)
      BY <2>2, <2>3, <2>7
    <3>2. /\ Behind(Virtio9p(certs, volumes), <<"ccashare", 0>>) = {RunDir}
          /\ Behind(Virtio9p(certs, volumes), <<"certshare", 0>>) # {} <=> certs # <<>>
          /\ \A k \in DOMAIN volumes : Behind(Virtio9p(certs, volumes), UserTag(k - 1)) = {volumes[k].host}
      BY <2>4, <2>8, SharesOf
    <3> QED
      BY <3>1, <3>2
  <2>10. lauFstab = [k \in 1..n |-> [tag |-> UserTag(k - 1), guest |-> volumes[k].guest]]
    BY <2>2, <2>3, <2>6
  <2>11. Len(lauFstab) = n
    BY <2>6, <2>10
  <2>12. ASSUME NEW k \in DOMAIN lauFstab
         PROVE  lauFstab[k].guest = volumes[k].guest /\ Behind(lauShares, lauFstab[k].tag) = {volumes[k].host}
    <3>1. k \in 1..n /\ lauFstab[k].guest = volumes[k].guest /\ lauFstab[k].tag = UserTag(k - 1)
      BY <2>10
    <3> QED
      BY <3>1, <2>6, <2>9
  <2> QED
    BY <2>3, <2>5, <2>8, <2>9, <2>11, <2>12
<1>4. MachineIsPossible
  <2>1. SUFFICES ASSUME lauAt \in Described, lauRun["app-conf"] = <<>>
                 PROVE  MachineAsked(lauRun, lauConf)
    BY DEF MachineIsPossible, Described, Planned
  <2>2. lauConf \in RunConfigs(lauRun)
    BY <2>1 DEF LauInv
  <2> QED
    BY <2>1, <2>2, <1>f, ConfigFits
<1> QED
  BY <1>1, <1>2, <1>3, <1>4, TagsTell DEF LaunchesAsAsked

\* Whatever command lines, files and defaults there are: every argument is read as it stands in the
\* line, every directory of --volume is mounted at the path it was asked for, and a machine no file
\* describes has the processors, context id and memory of up to 32 bits it was asked to have
\* (launcher/src).
THEOREM LaunchStaysAsAsked ==
  LaunchSpec => []LaunchesAsAsked
<1>1. LaunchInit => LauInv
  BY LauInit
<1>2. LauInv /\ [LaunchNext]_lauVars => LauInv'
  BY LaunchStep
<1>3. LauInv => LaunchesAsAsked
  BY PlanIsKept
<1> QED
  BY <1>1, <1>2, <1>3, PTL DEF LaunchSpec
=============================================================================
