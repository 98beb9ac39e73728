------------------------------ MODULE Session -------------------------------
(***************************************************************************)
(* One connection of the vsock server as its bytes go                      *)
(* (vsock_server/connection.rs, message/mod.rs): requests arrive in        *)
(* pieces, a read gives up after a while, and what it had read by then is  *)
(* gone.                                                                   *)
(*                                                                         *)
(* The stream is a sequence of words.  A header is four of them: sequence  *)
(* number, version, type and length of the body, here in words.            *)
(***************************************************************************)
EXTENDS Naturals, Sequences, SequencesExt

CONSTANTS
  SesRequests,      \* the requests a client may send, in any order: [type, version, body]
  SesHandlers,      \* types with a handler
  MaxSize,          \* the longest body the server takes, in words
  MaxRequests,      \* bound: requests on the connection
  MaxIdleReads      \* reads in vain before the connection is idle for too long

ProtocolVersion == 900
HandlerPanic == 0
ErrorProtocol == 1
MessageTooLong == 2
HeaderSize == 4

\* A body is JSON text (docs/interface.md).  No four bytes of UTF-8 are the version, which has
\* 0xFF in it, nor a number as small as a length that the server takes.
TextWords == Nat \ ((0..MaxSize) \cup {ProtocolVersion})

\* A client numbers its requests from 1 and asks for no type that has the number of the version.
ASSUME SessionAssumption ==
  /\ MaxSize \in Nat /\ MaxRequests \in Nat /\ MaxIdleReads \in Nat \ {0}
  /\ MaxRequests < ProtocolVersion
  /\ \A r \in SesRequests :
       r \in [type : Nat \ {ProtocolVersion}, version : Nat, body : Seq(TextWords)]

VARIABLES
  sesAsked,        \* the requests the client has sent
  sesComing,       \* words on their way
  sesArrived,      \* words received and not read
  sesHeader,       \* the header that was read, while its body is awaited: <<>> or four words
  sesIdle,         \* reads in vain since the last message
  sesOpen,         \* the server holds the connection
  sesHandled,      \* the bodies given to handlers, with type and number of their header
  sesReplies       \* [seq, version, type] of the replies

sesVars == <<sesAsked, sesComing, sesArrived, sesHeader, sesIdle, sesOpen, sesHandled, sesReplies>>

\* VsockMessage::new and serialize.
Serialize(seq, version, type, body) == <<seq, version, type, Len(body)>> \o body

SessionInit ==
  /\ sesAsked = <<>> /\ sesComing = <<>> /\ sesArrived = <<>> /\ sesHeader = <<>>
  /\ sesIdle = 0 /\ sesOpen = TRUE /\ sesHandled = <<>> /\ sesReplies = <<>>

ClientSends(r) ==
  /\ Len(sesAsked) < MaxRequests
  /\ sesAsked' = Append(sesAsked, r)
  /\ sesComing' = sesComing \o Serialize(Len(sesAsked) + 1, r.version, r.type, r.body)
  /\ UNCHANGED <<sesArrived, sesHeader, sesIdle, sesOpen, sesHandled, sesReplies>>

WordsArrive(k) ==
  /\ k <= Len(sesComing)
  /\ sesArrived' = sesArrived \o SubSeq(sesComing, 1, k)
  /\ sesComing' = SubSeq(sesComing, k + 1, Len(sesComing))
  /\ UNCHANGED <<sesAsked, sesHeader, sesIdle, sesOpen, sesHandled, sesReplies>>

-----------------------------------------------------------------------------
Reading == sesOpen /\ sesHeader = <<>>
Reply(seq, version, type) == sesReplies' = Append(sesReplies, [seq |-> seq, version |-> version, type |-> type])
Close == sesOpen' = FALSE /\ sesIdle' = 0

VersionOk(version) == version = ProtocolVersion

TooLong(len) == len > MaxSize

\* A whole header is there: it is refused, or the body is awaited.
ReadHeader ==
  /\ Reading /\ Len(sesArrived) >= HeaderSize
  /\ sesArrived' = SubSeq(sesArrived, HeaderSize + 1, Len(sesArrived))
  /\ LET seq == sesArrived[1]
         version == sesArrived[2]
         len == sesArrived[4]
     IN CASE ~ VersionOk(version) ->
               Reply(seq, version, ErrorProtocol) /\ Close /\ sesHeader' = <<>>
          [] VersionOk(version) /\ TooLong(len) ->
               Reply(seq, version, MessageTooLong) /\ Close /\ sesHeader' = <<>>
          [] OTHER ->
               /\ sesHeader' = SubSeq(sesArrived, 1, HeaderSize)
               /\ UNCHANGED <<sesReplies, sesOpen, sesIdle>>
  /\ UNCHANGED <<sesAsked, sesComing, sesHandled>>

\* The read of a header gives up; the words it already had are lost with its buffer.
HeaderTimeout ==
  /\ Reading /\ Len(sesArrived) < HeaderSize
  /\ sesArrived' = <<>>
  /\ IF sesIdle + 1 > MaxIdleReads THEN Close ELSE sesIdle' = sesIdle + 1 /\ UNCHANGED sesOpen
  /\ UNCHANGED <<sesAsked, sesComing, sesHeader, sesHandled, sesReplies>>

\* What process_message makes of a message: the handler's answer, its refusal or its panic.
Outcomes(type) == IF type \in SesHandlers THEN {type + 1, ErrorProtocol, HandlerPanic} ELSE {ErrorProtocol}

Awaiting == sesOpen /\ sesHeader # <<>>
ReadBody ==
  /\ Awaiting /\ Len(sesArrived) >= sesHeader[4]
  /\ LET type == sesHeader[3]
     IN /\ sesHandled' = IF type \in SesHandlers
                         THEN Append(sesHandled, [seq |-> sesHeader[1], type |-> type,
                                                    body |-> SubSeq(sesArrived, 1, sesHeader[4])])
                         ELSE sesHandled
        /\ \E outcome \in Outcomes(type) : Reply(sesHeader[1], sesHeader[2], outcome)
  /\ sesArrived' = SubSeq(sesArrived, sesHeader[4] + 1, Len(sesArrived))
  /\ sesHeader' = <<>> /\ sesIdle' = 0
  /\ UNCHANGED <<sesAsked, sesComing, sesOpen>>

\* Mutant: a body that is not there yet is read again, from what comes next.
BodyTimeoutAgain ==
  /\ Awaiting /\ Len(sesArrived) < sesHeader[4]
  /\ sesArrived' = <<>>
  /\ UNCHANGED <<sesAsked, sesComing, sesHeader, sesIdle, sesOpen, sesHandled, sesReplies>>
\* The read of a body gives up: unlike a header's, this ends the connection.
BodyTimeout ==
  /\ Awaiting /\ Len(sesArrived) < sesHeader[4]
  /\ Reply(sesHeader[1], sesHeader[2], ErrorProtocol) /\ Close
  /\ sesArrived' = <<>> /\ sesHeader' = <<>>
  /\ UNCHANGED <<sesAsked, sesComing, sesHandled>>

\* The server shuts down, which it looks for between two messages.
SeesShutdown ==
  /\ Reading /\ sesAsked # <<>> /\ Close
  /\ UNCHANGED <<sesAsked, sesComing, sesArrived, sesHeader, sesHandled, sesReplies>>

\* The client has gone; whatever read is under way ends.
ConnectionClosed ==
  /\ sesOpen /\ sesComing = <<>> /\ sesAsked # <<>>
  /\ \/ Reading /\ Len(sesArrived) < HeaderSize /\ UNCHANGED sesReplies
     \/ Awaiting /\ Len(sesArrived) < sesHeader[4] /\ Reply(sesHeader[1], sesHeader[2], ErrorProtocol)
  /\ Close /\ sesArrived' = <<>> /\ sesHeader' = <<>>
  /\ UNCHANGED <<sesAsked, sesComing, sesHandled>>

SessionNext ==
  \/ \E r \in SesRequests : sesOpen /\ ClientSends(r)
  \/ \E k \in 1..HeaderSize : sesOpen /\ WordsArrive(k)
  \/ ReadHeader \/ HeaderTimeout \/ ReadBody \/ BodyTimeout
  \/ SeesShutdown \/ ConnectionClosed

SessionSpec == SessionInit /\ [][SessionNext]_sesVars

-----------------------------------------------------------------------------
\* A header that is being served passed both limits; nothing is awaited on a closed connection.
SessionTypeOK ==
  /\ sesHeader # <<>> => sesOpen /\ sesHeader[2] = ProtocolVersion /\ sesHeader[4] <= MaxSize
  /\ sesIdle \in 0..MaxIdleReads
  /\ Len(sesReplies) <= Len(sesAsked)

\* Two timeouts may swallow a request between them, header and all, and nobody is told.  But a
\* reply answers the request whose number it bears, and no number comes twice or out of turn; only
\* the last reply, on a connection that is then closed, may be an error with a number that no
\* request bears (connection.rs read_message: after lost words the version does not match), where
\* docs/interface.md:104 says that a general error bears those of its request.
RepliesBearTheirNumbers ==
  \A k \in DOMAIN sesReplies :
    LET reply == sesReplies[k]
    IN \/ /\ reply.seq \in DOMAIN sesAsked /\ reply.version = sesAsked[reply.seq].version
          /\ reply.type \in Outcomes(sesAsked[reply.seq].type) \cup {MessageTooLong}
          /\ \A j \in 1..(k - 1) : sesReplies[j].seq < reply.seq
       \/ k = Len(sesReplies) /\ ~ sesOpen /\ reply.type \in {ErrorProtocol, MessageTooLong}

\* A handler is only given what was sent for its type, whole, each body once and in order, however
\* the words were cut up and whatever the timeouts threw away.
HandledAsSent ==
  \A k \in DOMAIN sesHandled :
    LET h == sesHandled[k]
    IN /\ h.seq \in DOMAIN sesAsked
       /\ h.type = sesAsked[h.seq].type /\ h.body = sesAsked[h.seq].body
       /\ \A j \in 1..(k - 1) : sesHandled[j].seq < h.seq

\* However the bytes of a session arrive, its requests are handled as sent and each reply bears
\* the number of its request (connection.rs, message/mod.rs).
SessionKeepsPairs == SessionTypeOK /\ RepliesBearTheirNumbers /\ HandledAsSent
=============================================================================
