-------------------------------- MODULE Tunnel --------------------------------
(***************************************************************************)
(* One outbound connection of the proxy, from its dial to the end of the   *)
(* tunnel it may become (proxy/src/forward/mod.rs and the outbound half of *)
(* proxy/src/server/mod.rs).                                               *)
(*                                                                         *)
(* A dial goes through TCP, the CONNECT exchange when a proxy is           *)
(* configured upstream, and TLS, all under one deadline.  A plain request  *)
(* then hands the stream to hyper; an upgrade writes its request, reads    *)
(* the answer's head and relays; a CONNECT relays at once.  The relay is   *)
(* two pumps that share one clock of last activity.                        *)
(*                                                                         *)
(* Deadlines are counters that TunnelTick runs down; a tick waits for      *)
(* whoever is due.  What a peer sends are units: numbers from 1 are the    *)
(* tunnel's data; ConnectHead and UpgradeHead end the two heads, and the   *)
(* unit before each is the rest of that head.                              *)
(***************************************************************************)
EXTENDS Integers, Sequences

CONSTANTS
  DialTimeout,      \* connection_timeout, in ticks
  TunnelIdle,       \* the idle budget of the relay, in ticks
  TunnelForms,      \* the forms of connection that are dialled
  UpUnits,          \* bound: units of data the client sends
  DownUnits,        \* bound: units of data the target sends
  TunnelRoom        \* units in flight to a peer that does not read

ASSUME TunnelAssumption ==
  /\ DialTimeout \in Nat \ {0} /\ TunnelIdle \in Nat \ {0}
  /\ TunnelForms \subseteq [kind : {"request", "upgrade", "blind"}, tls : BOOLEAN, via : BOOLEAN]
  /\ \A f \in TunnelForms : f.kind = "blind" => ~f.tls
  /\ UpUnits \in Nat /\ DownUnits \in Nat /\ TunnelRoom \in Nat \ {0}

VARIABLES
  tunForm,      \* what is dialled: kind, TLS or not, through an upstream proxy or not
  tunPhase,     \* where the task is
  tunLeft,      \* ticks left of the deadline of this phase
  tunSpent,     \* ticks since the dial began, forgotten when the relay starts
  tunResult,    \* how the dial ended
  tunReads,     \* [peer -> does it read what it is sent]
  tunSent,      \* [direction -> last unit its source sent]
  tunSource,    \* [direction -> its source: open, closed (EOF) or reset]
  tunIn,        \* [direction -> units sent and not yet read]
  tunBuf,       \* [direction -> units read and not yet written]
  tunOut,       \* [direction -> units written and not yet taken by the peer]
  tunGot,       \* [direction -> units the peer has taken]
  tunShown,     \* the tunnel's units that stand as headers in the client's answer
  tunPump,      \* [direction -> step of its pump]
  tunArm,       \* [direction -> ticks left of the armed read or write deadline]
  tunEnd,       \* [direction -> why it ended]
  tunAge,       \* ticks since last_activity, up to TunnelIdle
  tunQuiet      \* ticks since a unit was last read or written by a pump, up to TunnelIdle

tunStreams == <<tunSent, tunSource, tunIn, tunBuf, tunOut, tunGot, tunShown>>
tunPumps == <<tunPump, tunArm, tunEnd, tunAge, tunQuiet>>
tunDial == <<tunForm, tunPhase, tunLeft, tunSpent, tunResult, tunReads>>
tunVars == <<tunDial, tunStreams, tunPumps>>

Directions == {"up", "down"}
Peers == {"client", "target"}
OtherWay(d) == IF d = "up" THEN "down" ELSE "up"
SinkOf(d) == IF d = "up" THEN "target" ELSE "client"

Unformed == [kind |-> "none", tls |-> FALSE, via |-> FALSE]

ConnectHead == -2
UpgradeHead == 0

UnitsOf(d) == IF d = "up" THEN UpUnits ELSE DownUnits
DialPhases == {"tcp", "connectWrite", "connectRead", "tls"}
TimedPhases == DialPhases \cup {"hyper", "head"}

\* The first unit the target's side will send in this form, less one.
Before(f) == IF f.via THEN -4 ELSE IF f.kind = "upgrade" THEN -2 ELSE 0

TunnelInit ==
  /\ tunForm = Unformed
  /\ tunPhase = "rest" /\ tunLeft = 0 /\ tunSpent = 0 /\ tunResult = "none"
  /\ tunReads = [p \in Peers |-> TRUE]
  /\ tunSent = [d \in Directions |-> 0]
  /\ tunSource = [d \in Directions |-> "open"]
  /\ tunIn = [d \in Directions |-> <<>>]
  /\ tunBuf = [d \in Directions |-> <<>>]
  /\ tunOut = [d \in Directions |-> <<>>]
  /\ tunGot = [d \in Directions |-> <<>>]
  /\ tunShown = {}
  /\ tunPump = [d \in Directions |-> "off"]
  /\ tunArm = [d \in Directions |-> 0]
  /\ tunEnd = [d \in Directions |-> "none"]
  /\ tunAge = 0 /\ tunQuiet = 0

(***************************************************************************)
(* The dial.                                                               *)
(***************************************************************************)
Enter(phase, left) == tunPhase' = phase /\ tunLeft' = left
Finish(result) == Enter("done", 0) /\ tunResult' = result

\* TargetConnector::connect and connect_via, connect_upstream_plain, connect_plain_tcp: the
\* deadline is set before the first step.
Dial(f, reads) ==
  /\ tunPhase = "rest"
  /\ tunForm' = f /\ tunReads' = reads
  /\ Enter("tcp", DialTimeout)
  /\ tunSent' = [tunSent EXCEPT !["down"] = Before(f)]
  /\ UNCHANGED <<tunSpent, tunResult, tunSource, tunIn, tunBuf, tunOut, tunGot, tunShown,
                 tunPumps>>

\* The stream is there: to hyper, to the request of the upgrade, or to the client's own upgrade.
Connected ==
  CASE tunForm.kind = "request" -> Enter("hyper", DialTimeout)
    [] tunForm.kind = "upgrade" -> Enter("write", 0)
    [] OTHER -> Enter("client", 0)

\* tls_handshake follows under what is left of the deadline.
Secure == IF tunForm.tls THEN Enter("tls", tunLeft) ELSE Connected

TcpConnected ==
  /\ tunPhase = "tcp"
  /\ IF tunForm.via THEN Enter("connectWrite", tunLeft) ELSE Secure
  /\ UNCHANGED <<tunForm, tunSpent, tunResult, tunReads, tunStreams, tunPumps>>

\* map_tcp_connect_error: three classes, the last for everything else.
TcpFails ==
  /\ tunPhase = "tcp"
  /\ \E kind \in {"refused", "timeout", "targetTls"} : Finish(kind)
  /\ UNCHANGED <<tunForm, tunSpent, tunReads, tunStreams, tunPumps>>

ConnectWritten ==
  /\ tunPhase = "connectWrite"
  /\ Enter("connectRead", tunLeft)
  /\ UNCHANGED <<tunForm, tunSpent, tunResult, tunReads, tunStreams, tunPumps>>

\* connect_handshake reads byte by byte up to the end of the head and not a byte further; an
\* answer that is not 2xx is a failure.
ReadConnect ==
  /\ tunPhase = "connectRead" /\ tunIn["down"] # <<>>
  /\ tunIn' = [tunIn EXCEPT !["down"] = Tail(@)]
  /\ IF Head(tunIn["down"]) # ConnectHead
     THEN UNCHANGED <<tunPhase, tunLeft, tunResult>>
     ELSE \/ Secure /\ UNCHANGED tunResult
          \/ Finish("targetTls")
  /\ UNCHANGED <<tunForm, tunSpent, tunReads, tunSent, tunSource, tunBuf, tunOut, tunGot, tunShown,
                 tunPumps>>

TlsDone ==
  /\ tunPhase = "tls"
  /\ Connected
  /\ UNCHANGED <<tunForm, tunSpent, tunResult, tunReads, tunStreams, tunPumps>>

\* hyper_handshake: a budget of its own, whose expiry is a target failure.
HyperDone ==
  /\ tunPhase = "hyper"
  /\ Finish("connected")
  /\ UNCHANGED <<tunForm, tunSpent, tunReads, tunStreams, tunPumps>>

\* Any error of the stream, an early EOF, a head too long, a name no certificate can have.
DialBreaks ==
  /\ tunPhase \in {"connectWrite", "connectRead", "tls", "hyper", "write", "head"}
  /\ Finish("targetTls")
  /\ UNCHANGED <<tunForm, tunSpent, tunReads, tunStreams, tunPumps>>

DialExpires ==
  /\ tunPhase \in TimedPhases /\ tunLeft = 0
  /\ Finish(IF tunPhase \in DialPhases THEN "timeout" ELSE "targetTls")
  /\ UNCHANGED <<tunForm, tunSpent, tunReads, tunStreams, tunPumps>>

(***************************************************************************)
(* The upgrade: its request, the head of the answer, what came with it.    *)
(***************************************************************************)
\* write_upgrade_request has no deadline: a target that does not read may hold it for ever.
WriteUpgrade ==
  /\ tunPhase = "write"
  /\ Enter("head", DialTimeout)
  /\ UNCHANGED <<tunForm, tunSpent, tunResult, tunReads, tunStreams, tunPumps>>

Chunk(s, n) == SubSeq(s, 1, n)
Rest(s, n) == SubSeq(s, n + 1, Len(s))
Units(s) == {s[i] : i \in 1..Len(s)}

\* Mutant: what came along with the head is dropped.
LeftoverDropped(chunk) == <<>>

\* split_leftover: what the chunk holds after the end of the head is kept for the tunnel.
Leftover(chunk) == Rest(chunk, CHOOSE i \in DOMAIN chunk : chunk[i] = UpgradeHead)

\* build_upgrade_response splits the whole buffer into lines, what follows the head included: a
\* line with a colon is a header of the client's answer, and one that cannot be makes the answer
\* a 502, whatever the target's status was; the tunnel's task then has no client.
UpgradeResponse(leftover) ==
  \/ /\ Enter("client", 0) /\ UNCHANGED tunResult
     /\ tunBuf' = [tunBuf EXCEPT !["down"] = leftover]
     /\ tunShown' \in SUBSET Units(leftover)
  \/ /\ Finish("answered") /\ UNCHANGED tunBuf
     /\ tunShown' \in SUBSET Units(leftover)
  \/ Finish("spoiled") /\ UNCHANGED <<tunBuf, tunShown>>

\* read_target_head takes chunks, each with a full budget; the last may reach into the tunnel.
\* With 101 the tunnel follows, with another status the head is the whole answer.
ReadHead(n) ==
  /\ tunPhase = "head" /\ n <= Len(tunIn["down"])
  /\ LET chunk == Chunk(tunIn["down"], n) IN
     /\ tunIn' = [tunIn EXCEPT !["down"] = Rest(@, n)]
     /\ IF UpgradeHead \in Units(chunk)
        THEN UpgradeResponse(Leftover(chunk))
        ELSE Enter("head", DialTimeout) /\ UNCHANGED <<tunResult, tunBuf, tunShown>>
  /\ UNCHANGED <<tunForm, tunSpent, tunReads, tunSent, tunSource, tunOut, tunGot, tunPumps>>

\* spawn_upgrade_tunnel: the client's half is there once it has its answer (no deadline).
ClientUpgraded ==
  /\ tunPhase = "client"
  /\ Enter("leftover", 0)
  /\ UNCHANGED <<tunForm, tunSpent, tunResult, tunReads, tunStreams, tunPumps>>

ClientLeaves ==
  /\ tunPhase \in {"client", "leftover"}
  /\ Finish("clientLeft")
  /\ UNCHANGED <<tunForm, tunSpent, tunReads, tunStreams, tunPumps>>

\* The first unit of a pump's buffer goes to its peer.
PutOne(d) ==
  /\ tunBuf[d] # <<>> /\ Len(tunOut[d]) < TunnelRoom
  /\ tunOut' = [tunOut EXCEPT ![d] = Append(@, Head(tunBuf[d]))]
  /\ tunBuf' = [tunBuf EXCEPT ![d] = Tail(@)]

WriteLeftover ==
  /\ tunPhase = "leftover" /\ PutOne("down")
  /\ UNCHANGED <<tunDial, tunSent, tunSource, tunIn, tunGot, tunShown, tunPumps>>

StartRelay ==
  /\ tunPhase = "leftover" /\ tunBuf["down"] = <<>>
  /\ Enter("relay", 0)
  /\ tunPump' = [d \in Directions |-> "read"]
  /\ tunArm' = [d \in Directions |-> TunnelIdle]
  /\ tunAge' = 0 /\ tunQuiet' = 0 /\ tunSpent' = 0
  /\ UNCHANGED <<tunForm, tunResult, tunReads, tunStreams, tunEnd>>

(***************************************************************************)
(* relay_with_idle_timeout: two pumps and the clock they share.            *)
(***************************************************************************)
Stops(d, why) ==
  /\ tunPump' = [tunPump EXCEPT ![d] = "shut"]
  /\ tunEnd' = [tunEnd EXCEPT ![d] = why]

PumpReads(d, n) ==
  /\ tunPump[d] = "read" /\ tunSource[d] # "reset" /\ n <= Len(tunIn[d])
  /\ tunBuf' = [tunBuf EXCEPT ![d] = Chunk(tunIn[d], n)]
  /\ tunIn' = [tunIn EXCEPT ![d] = Rest(@, n)]
  /\ tunPump' = [tunPump EXCEPT ![d] = "write"]
  /\ tunArm' = [tunArm EXCEPT ![d] = TunnelIdle]
  /\ tunQuiet' = 0
  /\ UNCHANGED <<tunDial, tunSent, tunSource, tunOut, tunGot, tunShown, tunEnd, tunAge>>

PumpEof(d) ==
  /\ tunPump[d] = "read" /\ tunIn[d] = <<>> /\ tunSource[d] = "closed"
  /\ Stops(d, "eof")
  /\ UNCHANGED <<tunDial, tunStreams, tunArm, tunAge, tunQuiet>>

\* A reset stream fails to read, and fails to write.
PumpFails(d) ==
  /\ \/ tunPump[d] = "read" /\ tunSource[d] = "reset"
     \/ tunPump[d] = "write" /\ tunSource[OtherWay(d)] = "reset"
  /\ Stops(d, "error")
  /\ UNCHANGED <<tunDial, tunStreams, tunArm, tunAge, tunQuiet>>

\* The armed deadline passed with nothing to read: the clock decides, which the other
\* direction may have moved on.
ReadExpires(d) ==
  /\ tunPump[d] = "read" /\ tunArm[d] = 0
  /\ tunIn[d] = <<>> /\ tunSource[d] = "open"
  /\ IF tunAge >= TunnelIdle
     THEN Stops(d, "idle") /\ UNCHANGED tunArm
     ELSE /\ tunArm' = [tunArm EXCEPT ![d] = TunnelIdle - tunAge]
          /\ UNCHANGED <<tunPump, tunEnd>>
  /\ UNCHANGED <<tunDial, tunStreams, tunAge, tunQuiet>>

\* The clock is set when the whole chunk is out; the next read is armed from it.
PumpWrites(d) ==
  /\ tunPump[d] = "write" /\ tunSource[OtherWay(d)] # "reset" /\ PutOne(d)
  /\ tunQuiet' = 0
  /\ IF tunBuf'[d] = <<>>
     THEN /\ tunAge' = 0
          /\ tunPump' = [tunPump EXCEPT ![d] = "read"]
          /\ tunArm' = [tunArm EXCEPT ![d] = TunnelIdle]
     ELSE UNCHANGED <<tunAge, tunPump, tunArm>>
  /\ UNCHANGED <<tunDial, tunSent, tunSource, tunIn, tunGot, tunShown, tunEnd>>

\* Mutant: a write has no budget.
WriteWaits(d) == FALSE /\ UNCHANGED tunVars

WriteExpires(d) ==
  /\ tunPump[d] = "write" /\ tunArm[d] = 0
  /\ Len(tunOut[d]) = TunnelRoom
  /\ Stops(d, "stuck")
  /\ UNCHANGED <<tunDial, tunStreams, tunArm, tunAge, tunQuiet>>

\* shutdown() of the writer. TLS has a last record to flush, and no deadline for it.
Shutdown(d) ==
  /\ tunPump[d] = "shut"
  /\ tunForm.tls => Len(tunOut[d]) < TunnelRoom \/ tunSource[OtherWay(d)] = "reset"
  /\ tunPump' = [tunPump EXCEPT ![d] = "ended"]
  /\ UNCHANGED <<tunDial, tunStreams, tunArm, tunEnd, tunAge, tunQuiet>>

\* join! has both directions: the streams are dropped.
RelayEnds ==
  /\ tunPhase = "relay" /\ \A d \in Directions : tunPump[d] = "ended"
  /\ Finish("relayed")
  /\ UNCHANGED <<tunForm, tunSpent, tunReads, tunStreams, tunPumps>>

(***************************************************************************)
(* Time, and the two peers.                                                *)
(***************************************************************************)
Later(age) == IF age < TunnelIdle THEN age + 1 ELSE age

Waiting(d) == tunPump[d] \in {"read", "write"}

TunnelTick ==
  /\ \/ /\ tunPhase \in TimedPhases /\ tunLeft > 0
        /\ tunLeft' = tunLeft - 1
        /\ tunSpent' = tunSpent + 1
        /\ UNCHANGED tunPumps
     \/ /\ tunPhase = "relay" /\ \E d \in Directions : Waiting(d)
        /\ \A d \in Directions : Waiting(d) => tunArm[d] > 0
        /\ tunArm' = [d \in Directions |-> IF Waiting(d) THEN tunArm[d] - 1 ELSE tunArm[d]]
        /\ tunAge' = Later(tunAge) /\ tunQuiet' = Later(tunQuiet)
        /\ UNCHANGED <<tunLeft, tunSpent, tunPump, tunEnd>>
  /\ UNCHANGED <<tunForm, tunPhase, tunResult, tunReads, tunStreams>>

\* A source sends its next unit. The proxy upstream answers CONNECT, and what it relays of a
\* CONNECT tunnel may come along with its answer; the head of the upgrade answers its request.
MaySend(d) ==
  IF d = "up" THEN tunPhase = "relay"
  ELSE CASE tunSent[d] < ConnectHead -> tunPhase = "connectRead"
         [] tunForm.kind = "upgrade" -> tunPhase \in {"head", "client", "leftover", "relay"}
         [] tunForm.kind = "blind" -> tunPhase \in {"connectRead", "client", "leftover", "relay"}
         [] OTHER -> FALSE

\* After the CONNECT head a form that is not upgraded goes straight to its data.
NextUnit(d) == IF d = "down" /\ tunSent[d] = ConnectHead /\ tunForm.kind # "upgrade"
               THEN 1 ELSE tunSent[d] + 1

PeerSends(d) ==
  /\ MaySend(d) /\ tunSource[d] = "open" /\ NextUnit(d) <= UnitsOf(d)
  /\ tunSent' = [tunSent EXCEPT ![d] = NextUnit(d)]
  /\ tunIn' = [tunIn EXCEPT ![d] = Append(@, NextUnit(d))]
  /\ UNCHANGED <<tunDial, tunSource, tunBuf, tunOut, tunGot, tunShown, tunPumps>>

PeerCloses(d) ==
  /\ tunPhase = "relay" /\ tunSource[d] = "open"
  /\ \E how \in {"closed", "reset"} : tunSource' = [tunSource EXCEPT ![d] = how]
  /\ UNCHANGED <<tunDial, tunSent, tunIn, tunBuf, tunOut, tunGot, tunShown, tunPumps>>

PeerTakes(d) ==
  /\ tunReads[SinkOf(d)] /\ tunPhase \in {"leftover", "relay"} /\ tunOut[d] # <<>>
  /\ tunGot' = [tunGot EXCEPT ![d] = Append(@, Head(tunOut[d]))]
  /\ tunOut' = [tunOut EXCEPT ![d] = Tail(@)]
  /\ UNCHANGED <<tunDial, tunSent, tunSource, tunIn, tunBuf, tunShown, tunPumps>>

\* What the proxy's own task does once it can, and time.
TunnelTask ==
  /\ tunPhase # "rest"
  /\ \/ ReadConnect \/ DialExpires \/ WriteLeftover \/ StartRelay \/ RelayEnds \/ TunnelTick
     \/ \E n \in 1..(DownUnits + 2) : ReadHead(n)
     \/ \E d \in Directions :
          \/ PumpEof(d) \/ PumpFails(d) \/ ReadExpires(d) \/ PumpWrites(d) \/ WriteExpires(d)
          \/ Shutdown(d)
          \/ \E n \in 1..UnitsOf(d) : PumpReads(d, n)

\* What waits for a peer that reads.
UpgradeTaken == WriteUpgrade /\ tunReads["target"]
AnswerTaken == ClientUpgraded /\ tunReads["client"]

TunnelNext ==
  \/ \E f \in TunnelForms, reads \in [Peers -> BOOLEAN] : Dial(f, reads)
  \/ TcpConnected \/ TcpFails \/ ConnectWritten \/ TlsDone \/ HyperDone \/ DialBreaks
  \/ WriteUpgrade \/ ClientUpgraded \/ ClientLeaves
  \/ TunnelTask
  \/ \E d \in Directions : PeerSends(d) \/ PeerCloses(d) \/ PeerTakes(d)

TunnelSpec == TunnelInit /\ [][TunnelNext]_tunVars

TunnelFairness ==
  /\ WF_tunVars(TunnelTask)
  /\ WF_tunVars(UpgradeTaken) /\ WF_tunVars(AnswerTaken)
  /\ \A d \in Directions : WF_tunVars(PeerTakes(d))

-----------------------------------------------------------------------------
UnitSet == ConnectHead - 1 .. UpUnits + DownUnits

\* Type invariant.
TunnelTypeOK ==
  /\ tunForm \in TunnelForms \cup {Unformed}
  /\ tunPhase \in {"rest", "write", "client", "leftover", "relay", "done"} \cup TimedPhases
  /\ tunLeft \in 0..DialTimeout /\ tunSpent \in Nat
  /\ tunResult \in {"none", "refused", "timeout", "targetTls", "connected", "answered",
                    "spoiled", "clientLeft", "relayed"}
  /\ tunReads \in [Peers -> BOOLEAN]
  /\ tunSent \in [Directions -> ConnectHead - 2 .. UpUnits + DownUnits]
  /\ tunSource \in [Directions -> {"open", "closed", "reset"}]
  /\ \A q \in {tunIn, tunBuf, tunOut, tunGot} : q \in [Directions -> Seq(UnitSet)]
  /\ tunShown \subseteq UnitSet
  /\ tunPump \in [Directions -> {"off", "read", "write", "shut", "ended"}]
  /\ tunArm \in [Directions -> 0..TunnelIdle]
  /\ tunEnd \in [Directions -> {"none", "eof", "error", "idle", "stuck"}]
  /\ tunAge \in 0..TunnelIdle /\ tunQuiet \in 0..TunnelIdle

\* Once there is a tunnel, what reaches a peer through it is what the other one sent, from its
\* first byte and in its order: neither the answer to CONNECT nor the head of the upgrade leaks
\* into it, and no byte that came along with one of them is missing (connect_handshake,
\* split_leftover, pump). That there is one is not said: what came along may spoil the answer.
Travelling(d) == tunGot[d] \o tunOut[d] \o tunBuf[d] \o tunIn[d]
StreamsIntact ==
  tunPhase \in {"client", "leftover", "relay"} =>
    \A d \in Directions : Travelling(d) = [i \in 1..Len(Travelling(d)) |-> i]

\* The other way there is a leak, for build_upgrade_response reads on behind the head; but a unit
\* that stands in the client's answer is a copy, and comes in its place through the tunnel as well.
LeakIsACopy ==
  tunPhase \in {"client", "leftover", "relay"} => tunShown \subseteq 1..Len(Travelling("down"))

\* A direction that ends because its source closed has handed on everything that source sent,
\* whatever became of the other direction (half close).
EofLosesNothing ==
  \A d \in Directions :
    tunEnd[d] = "eof" => Len(tunGot[d]) + Len(tunOut[d]) >= tunSent[d]

\* TCP, CONNECT and TLS share one budget: no dial is still under way after connection_timeout.
\* A request's hyper handshake has one more.
DialInBudget ==
  /\ tunPhase \in DialPhases => tunSpent <= DialTimeout
  /\ tunPhase = "hyper" => tunSpent <= 2 * DialTimeout

\* A direction is cut for idleness only when neither direction moved a byte for the idle time, or
\* when the other one has a chunk it read and not yet written out, or failed to. The second case is
\* narrower than what relay_with_idle_timeout says (forward/mod.rs:335-337: any activity of either
\* direction resets the deadline, and only both silent end the relay): the clock is set when a
\* chunk is out, so that one that was just read, or is being written, does not count.
IdleMeansQuiet ==
  [][\A d \in Directions :
       (tunEnd[d] = "none" /\ tunEnd'[d] = "idle") =>
         \/ tunQuiet >= TunnelIdle
         \/ tunPump[OtherWay(d)] = "write"
         \/ tunEnd[OtherWay(d)] \in {"stuck", "error"}]_tunVars

\* A wait without a deadline before the relay, on a peer that does not read: the request of the
\* upgrade, or the client's answer and the bytes that follow it.
StartHung ==
  \/ tunPhase = "write" /\ ~tunReads["target"]
  \/ tunPhase \in {"client", "leftover"} /\ ~tunReads["client"]

\* A TLS stream waits to flush its last record to a peer that takes nothing any more.
ShutdownHung ==
  /\ tunForm.tls
  /\ \E d \in Directions :
       tunPump[d] = "shut" /\ ~tunReads[SinkOf(d)] /\ Len(tunOut[d]) = TunnelRoom

\* A relay comes to its end whether its peers read or not, the write budget and the idle clock
\* seeing to it, unless it hangs in the shutdown of a TLS stream, which has no deadline; and it
\* is reached from a successful dial unless a peer does not read.
TunnelFinishes ==
  /\ (tunPhase \in {"write", "client"}) ~> (tunPhase \in {"relay", "done"} \/ StartHung)
  /\ (tunPhase = "relay") ~> (tunPhase = "done" \/ ShutdownHung)

\* The relay loses, repeats and mixes up nothing, hands on every end of a stream after what came
\* before it, and the dial keeps its budget (forward/mod.rs: relay_with_idle_timeout, connect).
RelayIsFaithful == TunnelTypeOK /\ StreamsIntact /\ LeakIsACopy /\ EofLosesNothing /\ DialInBudget

\* A relay ends, and an idle cut has one of the reasons IdleMeansQuiet names (forward/mod.rs:
\* relay_with_idle_timeout).
RelayEndsInTime == IdleMeansQuiet /\ TunnelFinishes
=============================================================================
