----------------------------- MODULE MCMaterial -----------------------------
(***************************************************************************)
(* Files and certificates for the certificate material and for the ring.   *)
(***************************************************************************)
EXTENDS Trustring, TLC

File(what, body) == [at |-> "allowed", form |-> "pem", what |-> what, body |-> body]
X509(key, from, till) ==
  [key |-> key, serial |-> key, subject |-> key, issuer |-> "ca", signer |-> "ca", from |-> from,
   till |-> till, hasId |-> TRUE, id |-> <<key>>, hasUsage |-> TRUE, usage |-> {"digitalSignature"},
   eku |-> {}, curve |-> "p256"]
MCCa == [X509("ca", 0, 3) EXCEPT !.usage = {"keyCertSign", "crlSign"}]
MCCrl(serials, till) == [issuer |-> "ca", signer |-> "ca", serials |-> serials, till |-> till]
Key(key, lock) == [key |-> key, lock |-> lock]

\* TLS: sound material, and one fault at a time.
ServerCert == [X509("server", 0, 2) EXCEPT !.usage = {"digitalSignature", "keyEncipherment"},
                                           !.eku = {"TLS Web Server Authentication"}]
MCTlsCase ==
  [sound |-> TRUE, cert |-> File("cert", ServerCert), key |-> File("key", Key("server", "")),
   password |-> "", ca |-> File("cert", MCCa), hasCrl |-> TRUE, crl |-> File("crl", MCCrl({"gone"}, 1))]
Faulty(k) == [k EXCEPT !.sound = FALSE]
MCTlsCases ==
  {MCTlsCase} \cup
  {Faulty(k) : k \in
    {[MCTlsCase EXCEPT !.hasCrl = FALSE],
     [MCTlsCase EXCEPT !.cert.form = "broken"],
     [MCTlsCase EXCEPT !.cert.at = "link"],
     [MCTlsCase EXCEPT !.cert.body.usage = {"digitalSignature"}],
     [MCTlsCase EXCEPT !.cert.body.usage = @ \cup {"decipherOnly"}],
     [MCTlsCase EXCEPT !.cert.body.eku = {"TLS Web Client Authentication"}],
     [MCTlsCase EXCEPT !.cert.body.from = 1, !.cert.body.till = 3, !.cert.form = "der"],
     [MCTlsCase EXCEPT !.key.body = Key("server", "secret"), !.password = "secret"],
     [MCTlsCase EXCEPT !.key.body = Key("server", "secret")],
     [MCTlsCase EXCEPT !.key.body = Key("other", "")],
     [MCTlsCase EXCEPT !.ca.at = "absent"],
     [MCTlsCase EXCEPT !.crl.body.signer = "other"],
     [MCTlsCase EXCEPT !.crl.body.issuer = "other"],
     [MCTlsCase EXCEPT !.crl.what = "cert"]}}
MCTlsPeers ==
  {X509("client", 0, 3), X509("gone", 0, 3), X509("client", 1, 2),
   [X509("client", 0, 3) EXCEPT !.eku = {"TLS Web Server Authentication"}],
   [X509("client", 0, 3) EXCEPT !.eku = {"TLS Web Client Authentication"}],
   [X509("client", 0, 3) EXCEPT !.issuer = "other", !.signer = "other"]}

-----------------------------------------------------------------------------
\* The ring: two nodes of one CA, a third party of the same CA that no node runs, and strangers.
RingCase(n, till) ==
  [cert |-> File("cert", X509(n, 0, till)), key |-> File("key", Key(n, "")), ca |-> File("cert", [MCCa EXCEPT !.till = 2]),
   hasCrl |-> TRUE, crl |-> File("crl", MCCrl({"gone"}, NoNextUpdate))]
MCRingCases ==
  ("A" :> {RingCase("A", 1),
           [RingCase("A", 1) EXCEPT !.crl.body = MCCrl({"gone", "B"}, 0)],
           [RingCase("A", 1) EXCEPT !.key.body = Key("B", "")],
           [RingCase("A", 1) EXCEPT !.cert.body.hasId = FALSE],
           [RingCase("A", 1) EXCEPT !.cert.body.usage = @ \cup {"nonRepudiation"}]}) @@
  ("B" :> {RingCase("B", 3), [RingCase("B", 3) EXCEPT !.hasCrl = FALSE],
           [RingCase("B", 3) EXCEPT !.crl.body.till = 0, !.crl.form = "broken"]})
By(c, text) == [cert |-> c, text |-> text, digest |-> "sha256"]
Object(c, text) == [form |-> "cms", signers |-> <<By(c, text)>>, certs |-> {c}]
Third == X509("C", 0, 3)
Stranger == [Third EXCEPT !.issuer = "C", !.signer = "C"]
Text == <<"x", "C">>
MCForeignCms ==
  {[form |-> f, signers |-> <<>>, certs |-> {}] : f \in {"undecodable", "broken", "cms"}} \cup
  {Object(c, Text) : c \in
     {Third, Stranger, [Third EXCEPT !.issuer = "other"], [Third EXCEPT !.serial = "gone"],
      [Third EXCEPT !.curve = "p384"], [Third EXCEPT !.usage = {"keyEncipherment"}],
      [Third EXCEPT !.usage = @ \cup {"nonRepudiation"}], [Third EXCEPT !.hasUsage = FALSE],
      [Third EXCEPT !.signer = "other"], [Third EXCEPT !.from = 1]}} \cup
  {[Object(Third, Text) EXCEPT !.signers[1].digest = "sha1"],
   [Object(Third, Text) EXCEPT !.certs = {}],
   [Object(Third, Text) EXCEPT !.signers = @ \o <<By([Third EXCEPT !.serial = "C2"], Text)>>,
                               !.certs = @ \cup {[Third EXCEPT !.serial = "C2"]}],
   [Object(Third, Text) EXCEPT !.certs = @ \cup {X509("gone", 0, 3)}]}
MCRingData == {<<"x">>}
MCRingIds == {<<"A">>, <<"C">>, Undecodable}
=============================================================================
