----------------------------- MODULE Trustring ------------------------------
(***************************************************************************)
(* The trustring plugin: a node signs texts, verifies another node's       *)
(* signature and signs on in its turn (trustring/src/handler.rs, sign.rs,  *)
(* verify.rs, cert_loader.rs, error_code_mapper.rs).  Several nodes, each  *)
(* with its own certificate, pass signed objects around.                   *)
(*                                                                         *)
(* A CMS object is a record [form, signers, certs]: how it is encoded, for *)
(* each signer its certificate, the text and the digest it signed, and the *)
(* certificates the object carries.  OpenSSL's part in a verification is   *)
(* CmsVerify and ChainErrors; a text is the data followed by an id.        *)
(***************************************************************************)
EXTENDS CertMaterial, SequencesExt

CONSTANTS
  RingNodes,       \* the nodes
  RingCases,       \* [RingNodes -> sets of what may lie at a node's paths]
  RingData,        \* data to sign, sequences
  RingIds,         \* ids a request names, encoded: <<"undecodable">> is not base64
  ForeignCms,      \* signed objects that no node made
  MaxRingMoment,
  MaxMade          \* bound: objects the nodes sign in a behaviour

Undecodable == <<"undecodable">>

\* The certificates that lie at the nodes' paths, and the ids in them: Subject Key IDs are hashes
\* of one length (docs/interface.md).
RingCerts == {k.cert.body : k \in {j \in UNION {RingCases[n] : n \in RingNodes} : j.cert.what = "cert"}}
RingCas == {k.ca.body : k \in {j \in UNION {RingCases[n] : n \in RingNodes} : j.ca.what = "cert"}}
KeyIds == (RingIds \ {Undecodable}) \cup {c.id : c \in {d \in RingCerts : d.hasId}}

ASSUME RingAssumption ==
  /\ MaxRingMoment \in Nat /\ MaxMade \in Nat
  /\ RingData \cup KeyIds \subseteq Seq(STRING)
  /\ \A i, j \in KeyIds : Len(i) = Len(j)
  /\ \A c \in RingCas : c.till \in Nat
  /\ \A c \in RingCerts : c.from \in Nat /\ c.till \in Nat
  /\ \A f \in ForeignCms : /\ f.signers \in Seq(ToSet(f.signers))
                          /\ \A s \in ToSet(f.signers) : s.cert.from \in Nat /\ s.cert.till \in Nat

VARIABLES
  ringNow,         \* the clock
  ringPlugin,      \* each node's plugin: <<>> or what it loaded
  ringMade,        \* the objects the nodes have signed
  ringAnswer       \* the last request with its answer

ringVars == <<ringNow, ringPlugin, ringMade, ringAnswer>>

-----------------------------------------------------------------------------
\* What a node loads (cert_loader.rs, TrustringPlugin::new).  That the key belongs to the
\* certificate is not looked at.
LoadCmsCertificate(k) ==
  LET cert == LoadX509(k.cert)
      key == LoadPrivateKey(k.key, NoPassword)
  IN IF /\ Fine(cert) /\ Fine(key)
        /\ Fine(ExtractKeyUsageFlags(cert.val))
        /\ ExtractKeyUsageFlags(cert.val).val = {"digitalSignature"}
        /\ Fine(ExtractSubjectKeyId(cert.val))
     THEN Good([cert |-> cert.val, key |-> key.val.key, id |-> ExtractSubjectKeyId(cert.val).val])
     ELSE Bad("format")

PluginUsable(k, now) ==
  /\ Fine(LoadCmsCertificate(k)) /\ Fine(LoadX509(k.ca))
  /\ k.hasCrl => Fine(LoadAndVerifyCrl(k.crl, LoadX509(k.ca).val, now))

NewPlugin(k) ==
  LET own == LoadCmsCertificate(k).val
  IN [cert |-> own.cert, key |-> own.key, id |-> own.id, ca |-> LoadX509(k.ca).val,
      hasCrl |-> k.hasCrl, serials |-> IF k.hasCrl THEN LoadCrl(k.crl).val.serials ELSE {}]

-----------------------------------------------------------------------------
\* Signing (sign.rs); OpenSSL refuses a key that does not fit the certificate.
Input(data, id) == data \o id
SignWithInput(plugin, data, id) ==
  IF plugin.key # plugin.cert.key THEN Bad("openssl")
  ELSE Good([form |-> "cms", certs |-> {plugin.cert},
             signers |-> <<[cert |-> plugin.cert, text |-> Input(data, id), digest |-> "sha256"]>>])
Sign(plugin, data) == SignWithInput(plugin, data, plugin.id)

-----------------------------------------------------------------------------
\* OpenSSL's complaints about a signer's chain, in the order it makes them: [code, depth].
Complaint(holds, code, depth) == IF holds THEN <<[code |-> code, depth |-> depth]>> ELSE <<>>
PurposeOk(c) ==
  /\ c.hasUsage => c.usage \cap {"digitalSignature", "nonRepudiation"} # {}
  /\ c.eku = {} \/ "E-mail Protection" \in c.eku
ChainErrors(c, ca, now) ==
  IF c.issuer # ca.subject THEN Complaint(TRUE, IF c.issuer = c.subject THEN 18 ELSE 20, 0)
  ELSE Complaint(~ PurposeOk(c), 26, 0) \o Complaint(now >= ca.till, 10, 1)
         \o Complaint(c.signer # ca.key, 7, 0) \o Complaint(now < c.from, 9, 0)
         \o Complaint(now >= c.till, 10, 0)

\* verify_callback: only the end of the signer's own certificate is excused.
VerifyCallback(e) == e.code = 10 /\ e.depth = 0

\* The first complaint that was not excused, or else the last that was: it stays in the cell.
Unexcused(errors) == {k \in DOMAIN errors : ~ VerifyCallback(errors[k])}
ErrorCell(errors) ==
  IF Unexcused(errors) # {} THEN errors[Min(Unexcused(errors))].code
  ELSE IF errors # <<>> THEN errors[Len(errors)].code ELSE 0

MapX509Error(code) ==
  CASE code \in {2, 18, 19, 20, 27, 28} -> "chain"
    [] code = 23 -> "revoked"
    [] OTHER -> "mismatch"

\* verify_cms_signature: every signer must be known, trusted and right about the text.
CmsVerify(plugin, cms, text, now) ==
  LET errors(s) == ChainErrors(s.cert, plugin.ca, now)
      distrusted == {k \in DOMAIN cms.signers : Unexcused(errors(cms.signers[k])) # {}}
  IN IF \E k \in DOMAIN cms.signers : cms.signers[k].cert \notin cms.certs THEN MapX509Error(0)
     ELSE IF distrusted # {} THEN MapX509Error(ErrorCell(errors(cms.signers[Min(distrusted)])))
     ELSE IF \E k \in DOMAIN cms.signers : cms.signers[k].text # text
     THEN MapX509Error(IF cms.signers = <<>> THEN 0 ELSE ErrorCell(errors(Last(cms.signers))))
     ELSE "none"

VerifySignerKeyUsage(c) ==
  Fine(ExtractKeyUsageFlags(c)) /\ ExtractKeyUsageFlags(c).val = {"digitalSignature"}
VerifySignerAlgorithm(s) == s.cert.curve = "p256" /\ s.digest = "sha256"
CheckCrlRevocation(plugin, cms) ==
  plugin.hasCrl => \A c \in cms.certs : c.serial \notin plugin.serials

\* Mutant: the signers beyond the first are not looked at.
OneSignerAtLeast(cms) == Len(cms.signers) >= 1
OneSigner(cms) == Len(cms.signers) = 1

VerifySignatureOnly(plugin, cms, data, id, now) ==
  LET verified == CmsVerify(plugin, cms, Input(data, id), now)
  IN IF cms.form # "cms" THEN "format"
     ELSE IF verified # "none" THEN verified
     ELSE IF ~ OneSigner(cms) THEN "format"
     ELSE IF ~ VerifySignerKeyUsage(cms.signers[1].cert) THEN "usage"
     ELSE IF ~ VerifySignerAlgorithm(cms.signers[1]) THEN "algorithm"
     ELSE IF ~ CheckCrlRevocation(plugin, cms) THEN "revoked"
     ELSE "none"

\* 0 the same node, 1 another node, 2 a conflict: the signer holds this node's own key.
DetermineIdentity(plugin, cms, id) ==
  IF cms.signers[1].cert.key = plugin.cert.key THEN 2 ELSE IF id = plugin.id THEN 0 ELSE 1

\* map_verify_error and to_result_code.  A signing error always finds OpenSSL's queue empty.
ResultCode(err) ==
  CASE err = "chain" -> 3
    [] err = "revoked" -> 4
    [] err = "mismatch" -> 5
    [] err = "usage" -> 6
    [] err = "format" -> 7
    [] err = "openssl" -> 10
    [] err = "algorithm" -> 12
    [] err = "json" -> 20
    [] err = "base64" -> 21
    [] err = "ids" -> 22

-----------------------------------------------------------------------------
RingInit ==
  /\ ringNow = 0 /\ ringPlugin = [n \in RingNodes |-> <<>>]
  /\ ringMade = {} /\ ringAnswer = <<>>

\* A request leaves nothing behind in a plugin: they are taken one at a time, and the last answer
\* is kept until it is read.
AnswerWasRead == ringAnswer = <<>>
ReadAnswer == ringAnswer # <<>> /\ ringAnswer' = <<>> /\ UNCHANGED <<ringNow, ringPlugin, ringMade>>

PluginLoads(n, k) ==
  /\ ringPlugin[n] = <<>> /\ AnswerWasRead
  /\ ringPlugin' = [ringPlugin EXCEPT ![n] = IF PluginUsable(k, ringNow) THEN <<NewPlugin(k)>> ELSE <<>>]
  /\ UNCHANGED <<ringNow, ringMade, ringAnswer>>

NodeStops(n) ==
  /\ ringPlugin[n] # <<>> /\ AnswerWasRead /\ ringPlugin' = [ringPlugin EXCEPT ![n] = <<>>]
  /\ UNCHANGED <<ringNow, ringMade, ringAnswer>>

RingTimePasses ==
  /\ ringNow < MaxRingMoment /\ AnswerWasRead /\ ringNow' = ringNow + 1
  /\ UNCHANGED <<ringPlugin, ringMade, ringAnswer>>

\* Every answer is a result code; an object goes with a code of 0 to a request that signs.
Answer(n, kind, cms, data, id, result, made) ==
  /\ AnswerWasRead
  /\ ringMade' = ringMade \cup made
  /\ ringAnswer' = <<[node |-> n, kind |-> kind, cms |-> cms, data |-> data, id |-> id,
                      result |-> result, at |-> ringNow]>>
  /\ UNCHANGED <<ringNow, ringPlugin>>
NoCms == [form |-> "none", signers |-> <<>>, certs |-> {}]
Refuse(n, kind, cms, data, id, err) == Answer(n, kind, cms, data, id, ResultCode(err), {})
\* A refused request that was to sign: its parts make no difference any more.
RefuseToSign(n, kind, err) == Refuse(n, kind, NoCms, <<>>, <<>>, err)

Room == Cardinality(ringMade) < MaxMade

\* A request that is not the JSON its type calls for.
HandleGarbled(n, kind) == ringPlugin[n] # <<>> /\ RefuseToSign(n, kind, "json")

\* 0x10
HandleSign(n, data) ==
  /\ ringPlugin[n] # <<>> /\ Room
  /\ LET signed == Sign(ringPlugin[n][1], data)
         id == ringPlugin[n][1].id
     IN IF Fine(signed) THEN Answer(n, "sign", signed.val, data, id, 0, {signed.val})
        ELSE RefuseToSign(n, "sign", signed.err)

SameId(old, new) == old = new

\* 0x12: verify the object over data and id, then sign the new data over the same id.
HandleVerifySign(n, cms, data, id, newData, newId) ==
  /\ ringPlugin[n] # <<>> /\ Room
  /\ LET plugin == ringPlugin[n][1]
         verified == VerifySignatureOnly(plugin, cms, data, id, ringNow)
         signed == SignWithInput(plugin, newData, newId)
         refuse(err) == RefuseToSign(n, "verifySign", err)
     IN IF ~ SameId(id, newId) THEN refuse("ids")
        ELSE IF cms.form = "undecodable" \/ id = Undecodable THEN refuse("base64")
        ELSE IF verified # "none" THEN refuse(verified)
        ELSE IF newId = Undecodable THEN refuse("base64")
        ELSE IF ~ Fine(signed) THEN refuse(signed.err)
        ELSE Answer(n, "verifySign", cms, data, id, 0, {signed.val})

\* 0x14
HandleVerify(n, cms, data, id) ==
  /\ ringPlugin[n] # <<>>
  /\ LET plugin == ringPlugin[n][1]
         verified == VerifySignatureOnly(plugin, cms, data, id, ringNow)
         refuse(err) == Refuse(n, "verify", cms, data, id, err)
     IN IF cms.form = "undecodable" \/ id = Undecodable THEN refuse("base64")
        ELSE IF verified # "none" THEN refuse(verified)
        ELSE Answer(n, "verify", cms, data, id, DetermineIdentity(plugin, cms, id), {})

RingNext ==
  \/ RingTimePasses \/ ReadAnswer
  \/ \E n \in RingNodes :
       \/ NodeStops(n)
       \/ \E k \in RingCases[n] : PluginLoads(n, k)
       \/ \E kind \in {"sign", "verifySign", "verify"} : HandleGarbled(n, kind)
       \/ \E data \in RingData : HandleSign(n, data)
       \/ \E cms \in ringMade \cup ForeignCms, data \in RingData, id \in RingIds :
            \/ HandleVerify(n, cms, data, id)
            \/ \E newData \in RingData, newId \in RingIds :
                 HandleVerifySign(n, cms, data, id, newData, newId)

RingSpec == RingInit /\ [][RingNext]_ringVars

-----------------------------------------------------------------------------
Owns(c, id) == c.id = id
Covers(cms, id) == \E k \in DOMAIN cms.signers : \E data \in RingData : cms.signers[k].text = data \o id

\* Types and bounds; only a node that signs is behind an object.
RingTypeOK ==
  /\ ringNow \in 0..MaxRingMoment /\ Cardinality(ringMade) <= MaxMade
  /\ \A n \in RingNodes : Len(ringPlugin[n]) <= 1
  /\ \A cms \in ringMade : cms.form = "cms" /\ cms.certs = {cms.signers[1].cert}
  /\ ringAnswer # <<>> => ringPlugin[ringAnswer[1].node] # <<>>

\* A verification that succeeds has one signer, and this one signed exactly the data and the id of
\* the request, with SHA-256 and a P-256 key, holds a certificate for digital signatures alone that
\* the node's CA issued, and no certificate of the object is on the node's list, however old list
\* and certificate are (verify.rs verify, verify_signature_only; results 0, 1, 2).
PositiveIsEarned ==
  \A k \in 1..Len(ringAnswer) :
    LET a == ringAnswer[k]
        plugin == ringPlugin[a.node][1]
        s == a.cms.signers[1]
    IN a.kind \in {"verify", "verifySign"} /\ a.result \in 0..2 =>
         /\ Len(a.cms.signers) = 1 /\ s.cert \in a.cms.certs
         /\ s.text = a.data \o a.id /\ s.digest = "sha256"
         /\ s.cert.issuer = plugin.ca.subject /\ s.cert.signer = plugin.ca.key
         /\ s.cert.usage = {"digitalSignature"} /\ s.cert.curve = "p256"
         /\ s.cert.from <= a.at /\ a.at < plugin.ca.till
         /\ \A c \in a.cms.certs : c.serial \notin plugin.serials

\* A node only signs for an id that is not its own after another object over that id: behind every
\* object there is one over the same id by the id's owner, or by somebody the nodes trust without
\* having made it (handler.rs: both ids of a verify-and-sign request must be the same).
EveryChainHasAnOrigin ==
  \A cms \in ringMade, id \in RingIds \ {Undecodable} :
    Covers(cms, id) =>
      \/ \E o \in ringMade : Covers(o, id) /\ Owns(o.signers[1].cert, id)
      \/ \E o \in ForeignCms : o.form = "cms" /\ Covers(o, id)

\* What a node signed with its key and another, whose CA and list allow it, is asked to verify is
\* always recognised: as a conflict at the holder of the same key, as an answer to itself at the
\* owner of the id, as another node's work elsewhere.  Its certificate may have ended meanwhile.
GenuineIsRecognised ==
  \A k \in 1..Len(ringAnswer) :
    LET a == ringAnswer[k]
        plugin == ringPlugin[a.node][1]
        c == a.cms.signers[1].cert
    IN /\ a.kind = "verify" /\ a.cms \in ringMade
       /\ a.id # Undecodable /\ a.cms.signers[1].text = a.data \o a.id
       /\ c.issuer = plugin.ca.subject /\ c.signer = plugin.ca.key /\ a.at < plugin.ca.till
       /\ c.from <= a.at /\ c.serial \notin plugin.serials /\ c.eku = {} /\ c.curve = "p256"
       => a.result = IF c.key = plugin.cert.key THEN 2 ELSE IF a.id = plugin.id THEN 0 ELSE 1

\* A positive answer of the ring is earned by a genuine signature, and a genuine one gets it
\* (trustring verify.rs, sign.rs, handler.rs).
RingIsHonest == RingTypeOK /\ PositiveIsEarned /\ EveryChainHasAnOrigin /\ GenuineIsRecognised
=============================================================================
