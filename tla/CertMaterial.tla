---------------------------- MODULE CertMaterial ----------------------------
(***************************************************************************)
(* Certificates, keys and revocation lists as the framework reads them     *)
(* (framework/src/cert/mod.rs), the TLS endpoint of the vsock server that  *)
(* is built from them (vsock_server/tls.rs), and the checker that watches  *)
(* the same files (core/cert_checker.rs).                                  *)
(*                                                                         *)
(* A file says where it lies, how it is written and what it holds.  A      *)
(* certificate is a record of the fields the code reads; a moment is a     *)
(* number of seconds.                                                      *)
(***************************************************************************)
EXTENDS Naturals, FiniteSets, Sequences

CONSTANTS
  ReleaseBuild,     \* built without debug assertions: paths are validated
  TlsCases,         \* what may lie at the paths of the TLS configuration
  TlsPeers,         \* the certificates of clients
  MaxMoment

\* OBJ_obj2txt, which answers the purposes of a certificate, gives one that it knows its long name.
ShortNames == {"serverAuth", "clientAuth", "1.3.6.1.5.5.7.3.1", "1.3.6.1.5.5.7.3.2"}
ASSUME MaterialAssumption ==
  /\ ReleaseBuild \in BOOLEAN /\ MaxMoment \in Nat
  /\ \E k \in TlsCases : k.sound
  /\ \A k \in TlsCases : k.cert.what = "cert" =>
       /\ k.cert.body.from \in Nat /\ k.cert.body.till \in Nat
       /\ k.cert.body.eku \cap ShortNames = {}

Good(v) == [err |-> "none", val |-> v]
Bad(e) == [err |-> e]
Fine(r) == r.err = "none"

-----------------------------------------------------------------------------
\* Files (cert/mod.rs).
ValidateCertPath(f) ==
  CASE f.at = "absent" -> "io"
    [] ReleaseBuild /\ f.at \in {"link", "outside"} -> "security"
    [] OTHER -> "none"

\* PEM is tried first, then DER.
ParsePem(f, what) == IF f.what = what /\ f.form \in {"pem", "der"} THEN Good(f.body) ELSE Bad("format")
LoadPem(f, what) == IF ValidateCertPath(f) = "none" THEN ParsePem(f, what) ELSE Bad(ValidateCertPath(f))
LoadX509(f) == LoadPem(f, "cert")
LoadCrl(f) == LoadPem(f, "crl")

\* A locked key opens with its password only; a password is of no harm to an open PEM key.
NoPassword == ""
LoadPrivateKey(f, password) ==
  LET loaded == LoadPem(f, "key")
      opens == IF f.form = "pem" THEN loaded.val.lock \in {NoPassword, password}
               ELSE loaded.val.lock = password
  IN CASE loaded.err \in {"io", "security"} -> loaded
       [] Fine(loaded) /\ opens -> loaded
       [] OTHER -> Bad(IF password = NoPassword THEN "format" ELSE "openssl")

-----------------------------------------------------------------------------
\* Revocation lists and certificates (cert/mod.rs).
NoNextUpdate == 0
IsCrlExpired(crl, now) == crl.till # NoNextUpdate /\ crl.till < now

VerifyCrl(crl, ca, now) ==
  /\ crl.signer = ca.key
  /\ crl.issuer = ca.subject
  /\ ~ IsCrlExpired(crl, now)

LoadAndVerifyCrl(f, ca, now) ==
  LET loaded == LoadCrl(f)
  IN IF Fine(loaded) /\ ~ VerifyCrl(loaded.val, ca, now) THEN Bad("crl") ELSE loaded

IsExpired(c, now) == c.till < now
IsNotYetValid(c, now) == c.from > now

ExtractSubjectKeyId(c) == IF c.hasId THEN Good(c.id) ELSE Bad("format")

\* Eight usages fit the first byte of the bit string; decipherOnly lies in the second.
ExtractKeyUsageFlags(c) ==
  IF c.hasUsage /\ c.usage # {} /\ "decipherOnly" \notin c.usage THEN Good(c.usage) ELSE Bad("format")
CheckKeyUsageContains(c, required) ==
  Fine(ExtractKeyUsageFlags(c)) /\ required \subseteq ExtractKeyUsageFlags(c).val

\* The names one purpose goes by; OBJ_obj2txt answers the long one, or digits.
OidMappings ==
  {{"serverAuth", "TLS Web Server Authentication", "1.3.6.1.5.5.7.3.1"},
   {"clientAuth", "TLS Web Client Authentication", "1.3.6.1.5.5.7.3.2"}}
GetOidAliases(oid) == {oid} \cup UNION {names \in OidMappings : oid \in names}
CheckExtendedKeyUsage(c, oid) == c.eku \cap GetOidAliases(oid) # {}

-----------------------------------------------------------------------------
VARIABLES
  matNow,          \* the clock
  matDisk,         \* what lies at the configured paths
  matEndpoint,     \* the TLS acceptor, once it is built: <<>> or one endpoint
  matPeer,         \* the last client let in and when
  matStatus        \* the checker's last status of the server certificate, with the file and the moment

matVars == <<matNow, matDisk, matEndpoint, matPeer, matStatus>>

FirstCase == CHOOSE k \in TlsCases : k.sound
MaterialInit ==
  /\ matNow = 0 /\ matDisk = FirstCase
  /\ matEndpoint = <<>> /\ matPeer = <<>> /\ matStatus = <<>>

\* What load_tls_certificates lets pass; OpenSSL refuses a key that does not fit the certificate.
LoadTlsCertificates(k) ==
  LET cert == LoadX509(k.cert)
      key == LoadPrivateKey(k.key, k.password)
  IN /\ Fine(cert)
     /\ CheckKeyUsageContains(cert.val, {"digitalSignature", "keyEncipherment"})
     /\ CheckExtendedKeyUsage(cert.val, "serverAuth")
     /\ Fine(key) /\ key.val.key = cert.val.key
     /\ Fine(LoadX509(k.ca))

NoCrl == [issuer |-> "none", signer |-> "none", serials |-> {}, till |-> NoNextUpdate]
Endpoint(k) ==
  [cert |-> LoadX509(k.cert).val, key |-> LoadPrivateKey(k.key, k.password).val.key,
   ca |-> LoadX509(k.ca).val, hasCrl |-> k.hasCrl,
   crl |-> IF k.hasCrl THEN LoadCrl(k.crl).val ELSE NoCrl]

ConfigureCrlVerification(k, now) ==
  k.hasCrl => Fine(LoadAndVerifyCrl(k.crl, LoadX509(k.ca).val, now))

\* The acceptor is built from the files of this moment, or the server does not start.
BuildTls ==
  /\ matEndpoint = <<>>
  /\ matEndpoint' = IF LoadTlsCertificates(matDisk) /\ ConfigureCrlVerification(matDisk, matNow)
                    THEN <<Endpoint(matDisk)>> ELSE <<>>
  /\ UNCHANGED <<matNow, matDisk, matPeer, matStatus>>

\* The acceptor lives as long as its process.
ServerStops ==
  /\ matEndpoint # <<>> /\ matEndpoint' = <<>> /\ matPeer' = <<>>
  /\ UNCHANGED <<matNow, matDisk, matStatus>>

\* OpenSSL's own verdict on a client's chain; a certificate ends at the second of its notAfter.
InTime(c, now) == c.from <= now /\ now < c.till
VerifyChain(peer, ca, now) ==
  /\ peer.issuer = ca.subject /\ peer.signer = ca.key
  /\ InTime(peer, now) /\ InTime(ca, now)
  /\ peer.eku = {} \/ CheckExtendedKeyUsage(peer, "clientAuth")

IsCertRevoked(c, serials) == c.serial \in serials

\* Mutant: a list past its next update revokes nobody.
VerifyCertWithFreshCrl(ok, chain, endpoint) ==
  /\ ok
  /\ \/ IsCrlExpired(endpoint.crl, matNow)
     \/ \A c \in chain : ~ IsCertRevoked(c, endpoint.crl.serials)
\* A list past its next update is warned about and still used.
VerifyCertWithCrl(ok, chain, endpoint) == ok /\ \A c \in chain : ~ IsCertRevoked(c, endpoint.crl.serials)

Handshake(peer) ==
  /\ matEndpoint # <<>>
  /\ LET endpoint == matEndpoint[1]
         ok == VerifyChain(peer, endpoint.ca, matNow)
     IN IF endpoint.hasCrl THEN VerifyCertWithCrl(ok, {peer, endpoint.ca}, endpoint) ELSE ok
  /\ matPeer' = <<[cert |-> peer, at |-> matNow]>>
  /\ UNCHANGED <<matNow, matDisk, matEndpoint, matStatus>>

\* check_one on the server certificate's path.
CheckOne(f, now) ==
  LET loaded == LoadX509(f)
  IN [expired |-> Fine(loaded) /\ IsExpired(loaded.val, now),
      notYet |-> Fine(loaded) /\ IsNotYetValid(loaded.val, now),
      loaded |-> Fine(loaded)]
CheckAll ==
  /\ matStatus' = <<[status |-> CheckOne(matDisk.cert, matNow), file |-> matDisk.cert, at |-> matNow]>>
  /\ UNCHANGED <<matNow, matDisk, matEndpoint, matPeer>>

\* The administrator puts other files in place; nothing that runs reads them again.
FilesReplaced(k) ==
  /\ k # matDisk /\ matDisk' = k
  /\ UNCHANGED <<matNow, matEndpoint, matPeer, matStatus>>

TimePasses ==
  /\ matNow < MaxMoment /\ matNow' = matNow + 1
  /\ UNCHANGED <<matDisk, matEndpoint, matPeer, matStatus>>

MaterialNext ==
  \/ BuildTls \/ ServerStops \/ CheckAll \/ TimePasses
  \/ \E peer \in TlsPeers : Handshake(peer)
  \/ \E k \in TlsCases : FilesReplaced(k)

MaterialSpec == MaterialInit /\ [][MaterialNext]_matVars

-----------------------------------------------------------------------------
\* Types; only a running server has let a client in.
MaterialTypeOK ==
  /\ matNow \in 0..MaxMoment /\ matDisk \in TlsCases
  /\ Len(matEndpoint) <= 1 /\ Len(matStatus) <= 1
  /\ matPeer # <<>> => matEndpoint # <<>> /\ matPeer[1].at <= matNow

\* A server runs with a certificate for TLS servers, the key that belongs to it, and a list that
\* its own CA issued and signed: everything less stops the start (tls.rs load_tls_certificates,
\* configure_crl_verification), whatever is put in the files' place later.
EndpointIsSound ==
  \A k \in 1..Len(matEndpoint) :
    LET e == matEndpoint[k]
    IN /\ {"digitalSignature", "keyEncipherment"} \subseteq e.cert.usage
       /\ "decipherOnly" \notin e.cert.usage
       /\ "TLS Web Server Authentication" \in e.cert.eku
       /\ e.key = e.cert.key
       /\ e.hasCrl => e.crl.signer = e.ca.key /\ e.crl.issuer = e.ca.subject

\* A client that was let in held a certificate of the server's CA that was in time and that the
\* list loaded at the start does not name, however old that list has become (tls.rs
\* verify_cert_with_crl: "continuing with stale CRL for revocation check").
PeersAreVetted ==
  matPeer # <<>> =>
    LET e == matEndpoint[1]
        p == matPeer[1].cert
    IN /\ p.issuer = e.ca.subject /\ p.signer = e.ca.key
       /\ p.from <= matPeer[1].at /\ matPeer[1].at < p.till
       /\ p.serial \notin e.crl.serials /\ e.ca.serial \notin e.crl.serials

\* What the checker calls neither expired nor early is what OpenSSL takes for valid, save in the
\* very second of notAfter, where the checker (not_after < now) is the milder of the two.
StatusMatchesOpenSsl ==
  \A k \in 1..Len(matStatus) :
    LET s == matStatus[k]
    IN s.status.loaded /\ s.at # s.file.body.till =>
         ((s.status.expired \/ s.status.notYet) <=> ~ InTime(s.file.body, s.at))

\* What was loaded from the files is fit for its use, admits fit peers only, and is judged by the
\* checker as OpenSSL judges it (vsock_server/tls.rs, cert/mod.rs, core cert_checker.rs).
MaterialIsVetted == MaterialTypeOK /\ EndpointIsSound /\ PeersAreVetted /\ StatusMatchesOpenSsl
=============================================================================
