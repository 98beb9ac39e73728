--------------------------- MODULE InferenceRemote ---------------------------
(***************************************************************************)
(* A question to an inference service behind a socket: connect, write one  *)
(* line, read one line back, each read with a deadline of its own          *)
(* (proxy/src/inference_uds.rs).  The service is the environment: it may   *)
(* send anything, in any pieces, and may stop or close at any time.        *)
(***************************************************************************)
EXTENDS Integers, Sequences, FiniteSets, SequencesExt

CONSTANTS
  ServiceTexts,  \* what a service may send before it closes, as symbols; "nl" ends a line
  ReadChunk,     \* symbols one read takes at most: 8192 bytes
  MaxLine        \* MAX_RESPONSE_LINE

ASSUME RemoteAssumption ==
  ReadChunk \in Nat \ {0} /\ MaxLine \in Nat /\ ServiceTexts \subseteq Seq(STRING)

VARIABLES
  udsPhase,      \* where the exchange is
  udsAsks,       \* "route" or "key"
  udsLine,       \* what is on its way from the service
  udsSent,       \* history: what the service has sent so far
  udsBuf,        \* what was read
  udsAnswer      \* what the caller is told

udsVars == <<udsPhase, udsAsks, udsLine, udsSent, udsBuf, udsAnswer>>

UdsInit ==
  /\ udsPhase = "rest" /\ udsAsks = "none" /\ udsLine = <<>>
  /\ udsSent = <<>> /\ udsBuf = <<>> /\ udsAnswer = "none"

-----------------------------------------------------------------------------
\* A whole answer is a line of two symbols: the bracket and the number of the result or status.
ParseEnvelope(line) == Len(line) = 2 /\ line[1] = "{"

\* The numbers of the protocol, of the result as of each modification; no other is accepted.
FromWire(d) == CASE d = "0" -> "forward" [] d = "1" -> "modified" [] d = "2" -> "block" [] OTHER -> "none"

\* Without a usable answer a request is blocked and a key is not delivered.
WithoutAnswer == IF udsAsks = "route" THEN "block" ELSE "delivery"

\* Which kind of message the service says it answers is not looked at.
AnswerOf(line) ==
  IF ~ParseEnvelope(line) THEN WithoutAnswer
  ELSE IF udsAsks = "key" THEN (IF line[2] = "0" THEN "ok" ELSE "delivery")
  ELSE IF FromWire(line[2]) = "none" THEN "block" ELSE FromWire(line[2])

EndsAs(answer) == udsPhase' = "done" /\ udsAnswer' = answer

-----------------------------------------------------------------------------
\* The address is read from the environment for each request; without one the library decides.
UdsDispatch ==
  /\ udsPhase = "rest"
  /\ udsAsks' \in {"route", "key"}
  /\ \/ udsPhase' = "connect" /\ UNCHANGED udsAnswer
     \/ EndsAs("local")
  /\ UNCHANGED <<udsLine, udsSent, udsBuf>>

UdsConnect ==
  /\ udsPhase = "connect"
  /\ \/ udsPhase' = "write" /\ UNCHANGED udsAnswer
     \/ EndsAs(WithoutAnswer)
  /\ UNCHANGED <<udsAsks, udsLine, udsSent, udsBuf>>

UdsWrite ==
  /\ udsPhase = "write"
  /\ \/ udsPhase' = "read" /\ UNCHANGED udsAnswer
     \/ EndsAs(WithoutAnswer)
  /\ UNCHANGED <<udsAsks, udsLine, udsSent, udsBuf>>

\* The service: its text is a prefix of one of those it may send.
ServiceSends ==
  /\ udsPhase = "read"
  /\ \E t \in ServiceTexts :
       /\ IsStrictPrefix(udsSent, t)
       /\ udsSent' = Append(udsSent, t[Len(udsSent) + 1])
       /\ udsLine' = Append(udsLine, t[Len(udsSent) + 1])
  /\ UNCHANGED <<udsPhase, udsAsks, udsBuf, udsAnswer>>

FirstLine(buf) == SubSeq(buf, 1, SelectInSeq(buf, LAMBDA x : x = "nl") - 1)

\* One read: some of what has arrived.  The end of the line comes before the limit on its length.
UdsRead ==
  /\ udsPhase = "read" /\ udsLine # <<>>
  /\ \E n \in 1..ReadChunk :
       /\ n <= Len(udsLine)
       /\ udsLine' = SubSeq(udsLine, n + 1, Len(udsLine))
       /\ udsBuf' = udsBuf \o SubSeq(udsLine, 1, n)
  /\ IF Contains(udsBuf', "nl") THEN EndsAs(AnswerOf(FirstLine(udsBuf')))
     ELSE IF Len(udsBuf') > MaxLine THEN EndsAs(WithoutAnswer)
     ELSE UNCHANGED <<udsPhase, udsAnswer>>
  /\ UNCHANGED <<udsAsks, udsSent>>

\* Nothing came for as long as one read may take, or the service closed or broke.
UdsReadFails ==
  /\ udsPhase = "read"
  /\ EndsAs(WithoutAnswer)
  /\ UNCHANGED <<udsAsks, udsLine, udsSent, udsBuf>>

UdsNext ==
  \/ UdsDispatch \/ UdsConnect \/ UdsWrite \/ ServiceSends \/ UdsRead \/ UdsReadFails

UdsSpec == UdsInit /\ [][UdsNext]_udsVars

-----------------------------------------------------------------------------
\* Every variable keeps its type (uds_exchange).
UdsTypeOK ==
  /\ udsPhase \in {"rest", "connect", "write", "read", "done"} /\ udsAsks \in {"none", "route", "key"}
  /\ udsAnswer \in {"none", "local", "forward", "modified", "block", "ok", "delivery"}
  /\ udsSent = udsBuf \o udsLine

\* A request goes on, or a key counts as delivered, only by a whole line of the service that says
\* so: its first one, whatever pieces it came in and whatever followed it (uds_roundtrip, uds_api_key).
OnlyWholeAnswersCount ==
  udsAnswer \in {"forward", "modified", "ok"} =>
    /\ Len(udsSent) >= 3 /\ udsSent[1] = "{" /\ udsSent[3] = "nl"
    /\ udsSent[2] = CASE udsAnswer = "forward" -> "0" [] udsAnswer = "ok" -> "0" [] OTHER -> "1"
    /\ (udsAnswer = "ok") <=> (udsAsks = "key")

\* However much a service sends without ending its line, what is kept of it is bounded
\* (MAX_RESPONSE_LINE).
KeptIsBounded == Len(udsBuf) <= MaxLine + ReadChunk
=============================================================================
