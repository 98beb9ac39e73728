------------------------------ MODULE CertService ------------------------------
(***************************************************************************)
(* The certificates the proxy presents for one container (agentsandbox     *)
(* proxy/src/cert): the services map, the issuing CA behind its mutex, the *)
(* LRU cache behind a mutex of its own, set_ca() and certificate_for().    *)
(*                                                                         *)
(* Each TLS handshake calls certificate_for once; each refresh_policy      *)
(* message calls set_ca once. They interleave at every lock.               *)
(***************************************************************************)
EXTENDS Integers, SequencesExt

CONSTANTS
  Handshakes,   \* TLS handshakes of the container.
  Setters,      \* Calls of ContainerCertServices::set_ca for the container.
  Cas,          \* CA materials.
  Unparsable,   \* Those parse_ca rejects.
  Domains,      \* SNI names.
  Malformed,    \* Those CertIssuer::issue rejects.
  Capacity,     \* Entries of the LRU cache.
  NoOne,        \* No holder of a lock.
  NoCa          \* No CA was set.

ASSUME CapacityAssumption == Capacity \in Nat \ {0}
ASSUME NamesAssumption ==
  /\ NoCa \notin Cas
  /\ NoOne \notin Handshakes \cup Setters
  /\ Handshakes \cap Setters = {}

VARIABLES
  visible,     \* service_for(container) returns the service.
  mapLock,     \* Writer of the services map.
  issuer,      \* CertServiceInner.issuer: the CA it signs with.
  generation,  \* CertServiceInner.ca_generation.
  innerLock,   \* The set_ca call holding the mutex around both.
  cached,      \* LruMap.map: the certificate of each domain.
  order,       \* LruMap.order: the cached domains, least recently used first.
  setter,      \* Where each set_ca call is.
  call,        \* Where each certificate_for call is, with its locals.
  completed    \* Generation of the last set_ca that returned (history).

vars == <<visible, mapLock, issuer, generation, innerLock, cached, order, setter, call, completed>>

(***************************************************************************)
(* A certificate is known by the CA that signed it and the generation that *)
(* CA was injected as.                                                     *)
(***************************************************************************)
Cert == [ca : Cas, generation : Nat]
NoCert == [ca |-> NoCa, generation |-> 0]

CallStates == {"connected", "lookup", "missed", "issued", "done", "failed"}
Call == [at : CallStates, domain : Domains, cert : Cert \cup {NoCert}, since : Nat]

TypeOK ==
  /\ visible \in BOOLEAN
  /\ mapLock \in Setters \cup {NoOne}
  /\ issuer \in (Cas \ Unparsable) \cup {NoCa}
  /\ generation \in Nat
  /\ innerLock \in Setters \cup {NoOne}
  /\ cached \in [Domains -> Cert \cup {NoCert}]
  /\ order \in Seq(Domains)
  /\ setter \in [Setters -> {"idle", "parsed", "locked", "replaced", "done", "failed"}]
  /\ call \in [Handshakes -> Call]
  /\ completed \in Nat

Init ==
  /\ visible = FALSE
  /\ mapLock = NoOne
  /\ issuer = NoCa
  /\ generation = 0
  /\ innerLock = NoOne
  /\ cached = [d \in Domains |-> NoCert]
  /\ order = <<>>
  /\ setter = [s \in Setters |-> "idle"]
  /\ call \in [Handshakes -> {[at |-> "connected", domain |-> d, cert |-> NoCert, since |-> 0] :
                               d \in Domains}]
  /\ completed = 0

----------------------------------------------------------------------------
(* set_ca.                                                                 *)

service == <<visible, issuer, generation>>
cache == <<cached, order>>

At(s, from, to) == setter[s] = from /\ setter' = [setter EXCEPT ![s] = to]

\* parse_ca runs before any lock is taken; an unusable CA changes nothing.
Parse(s, ca) ==
  /\ At(s, "idle", IF ca \in Unparsable THEN "failed" ELSE "parsed")
  /\ UNCHANGED <<service, mapLock, innerLock, cache, call, completed>>

LockMap(s) ==
  /\ mapLock = NoOne
  /\ At(s, "parsed", "locked")
  /\ mapLock' = s
  /\ UNCHANGED <<service, innerLock, cache, call, completed>>

\* Mutant: the service is shown by the map before it has its CA.
CreateWithoutCa(s, ca) ==
  /\ ~visible
  /\ At(s, "locked", "done")
  /\ visible' = TRUE
  /\ generation' = generation + 1
  /\ completed' = generation'
  /\ mapLock' = NoOne
  /\ UNCHANGED <<issuer, innerLock, cache, call>>

\* No service yet: it gets its CA before the map shows it.
CreateService(s, ca) ==
  /\ ~visible
  /\ At(s, "locked", "done")
  /\ visible' = TRUE
  /\ issuer' = ca
  /\ generation' = generation + 1
  /\ completed' = generation'
  /\ mapLock' = NoOne
  /\ UNCHANGED <<innerLock, cache, call>>

\* set_ca on the service: new issuer and generation, under the inner lock.
ReplaceCa(s, ca) ==
  /\ visible
  /\ innerLock = NoOne
  /\ At(s, "locked", "replaced")
  /\ innerLock' = s
  /\ issuer' = ca
  /\ generation' = generation + 1
  /\ UNCHANGED <<visible, mapLock, cache, call, completed>>

\* Mutant: set_ca forgets cache.clear().
KeepCache(s) ==
  /\ At(s, "replaced", "done")
  /\ innerLock' = NoOne
  /\ mapLock' = NoOne
  /\ completed' = generation
  /\ UNCHANGED <<service, cache, call>>

\* The cache is cleared before the inner lock and then the map lock are released.
ClearCache(s) ==
  /\ At(s, "replaced", "done")
  /\ cached' = [d \in Domains |-> NoCert]
  /\ order' = <<>>
  /\ innerLock' = NoOne
  /\ mapLock' = NoOne
  /\ completed' = generation
  /\ UNCHANGED <<service, call>>

----------------------------------------------------------------------------
(* certificate_for, called when the ClientHello is in.                     *)

Step(h, from, to) ==
  /\ call[h].at = from
  /\ call' = [call EXCEPT ![h].at = to]

\* service_for, under the read lock of the map: no service, no handshake.
FindService(h) ==
  /\ mapLock = NoOne
  /\ Step(h, "connected", IF visible THEN "lookup" ELSE "failed")
  /\ UNCHANGED <<service, mapLock, innerLock, cache, setter, completed>>

\* Mutant: a hit does not refresh the recency list, it takes the domain off it.
HitForgetsOrder(h) ==
  LET d == call[h].domain
  IN /\ call[h].at = "lookup"
     /\ cached[d] # NoCert
     /\ call' = [call EXCEPT ![h].at = "done", ![h].cert = cached[d], ![h].since = completed]
     /\ order' = RemoveFirst(order, d)
     /\ UNCHANGED <<service, mapLock, innerLock, cached, setter, completed>>

\* A cached certificate is returned and its domain becomes the most recently used.
Hit(h) ==
  LET d == call[h].domain
  IN /\ call[h].at = "lookup"
     /\ cached[d] # NoCert
     /\ call' = [call EXCEPT ![h].at = "done", ![h].cert = cached[d], ![h].since = completed]
     /\ order' = Append(RemoveFirst(order, d), d)
     /\ UNCHANGED <<service, mapLock, innerLock, cached, setter, completed>>

\* The cache lock is released before the inner lock is taken.
Miss(h) ==
  /\ call[h].at = "lookup"
  /\ cached[call[h].domain] = NoCert
  /\ call' = [call EXCEPT ![h].at = "missed", ![h].since = completed]
  /\ UNCHANGED <<service, mapLock, innerLock, cache, setter, completed>>

\* The issuer and its generation are read together; the signing itself needs no lock.
Issue(h) ==
  LET fails == issuer = NoCa \/ call[h].domain \in Malformed
  IN /\ call[h].at = "missed"
     /\ innerLock = NoOne
     /\ call' = [call EXCEPT
                  ![h].at = IF fails THEN "failed" ELSE "issued",
                  ![h].cert = IF fails THEN NoCert ELSE [ca |-> issuer, generation |-> generation]]
     /\ UNCHANGED <<service, mapLock, innerLock, cache, setter, completed>>

\* Mutant: the newest entry is evicted instead of the oldest.
PutEvictsNewest(d, cert) ==
  LET rest == RemoveFirst(order, d)
      full == Len(rest) >= Capacity
  IN /\ order' = Append(IF full THEN SubSeq(rest, 1, Len(rest) - 1) ELSE rest, d)
     /\ cached' = [e \in Domains |-> IF e = d THEN cert
                                    ELSE IF full /\ e = rest[Len(rest)] THEN NoCert
                                    ELSE cached[e]]

\* CertCache::put: the oldest entry leaves a full cache.
Put(d, cert) ==
  LET rest == RemoveFirst(order, d)
      full == Len(rest) >= Capacity
  IN /\ order' = Append(IF full THEN Tail(rest) ELSE rest, d)
     /\ cached' = [e \in Domains |-> IF e = d THEN cert
                                    ELSE IF full /\ e = Head(rest) THEN NoCert
                                    ELSE cached[e]]

\* Mutant: the generation is not checked before the certificate is cached.
StoreAlways(h) ==
  /\ innerLock = NoOne
  /\ Step(h, "issued", "done")
  /\ Put(call[h].domain, call[h].cert)
  /\ UNCHANGED <<service, mapLock, innerLock, setter, completed>>

\* Back under the inner lock (held for this step): the certificate is cached unless the CA changed meanwhile.
StoreCurrent(h) ==
  /\ innerLock = NoOne
  /\ call[h].cert.generation = generation
  /\ Step(h, "issued", "done")
  /\ Put(call[h].domain, call[h].cert)
  /\ UNCHANGED <<service, mapLock, innerLock, setter, completed>>

DiscardStale(h) ==
  /\ innerLock = NoOne
  /\ call[h].cert.generation # generation
  /\ Step(h, "issued", "done")
  /\ UNCHANGED <<service, mapLock, innerLock, cache, setter, completed>>

----------------------------------------------------------------------------
SetCaNext(s) ==
  \/ \E ca \in Cas : Parse(s, ca)
  \/ LockMap(s)
  \/ \E ca \in Cas \ Unparsable : CreateService(s, ca) \/ ReplaceCa(s, ca)
  \/ ClearCache(s)

CertificateForNext(h) ==
  \/ FindService(h) \/ Hit(h) \/ Miss(h) \/ Issue(h) \/ StoreCurrent(h) \/ DiscardStale(h)

\* Every call returned: nothing is left to do.
Terminated ==
  /\ \A h \in Handshakes : call[h].at \in {"done", "failed"}
  /\ \A s \in Setters : setter[s] \in {"done", "failed"}
  /\ UNCHANGED vars

Next ==
  \/ \E s \in Setters : SetCaNext(s)
  \/ \E h \in Handshakes : CertificateForNext(h)
  \/ Terminated

Spec == Init /\ [][Next]_vars

----------------------------------------------------------------------------
(* Properties.                                                             *)

Replacing == \E s \in Setters : setter[s] = "replaced"

\* The map and the recency list of the cache name the same domains, at most Capacity of them
\* (LruMap keeps the two in step through every set_ca and certificate_for).
CacheWellFormed ==
  /\ TypeOK
  /\ {order[i] : i \in 1 .. Len(order)} = {d \in Domains : cached[d] # NoCert}
  /\ \A i, j \in 1 .. Len(order) : order[i] = order[j] => i = j
  /\ Len(order) <= Capacity

(***************************************************************************)
(* No certificate of a former CA stays in the cache: a call that signed    *)
(* with the old CA while set_ca ran cannot put it back (the generation     *)
(* check of certificate_for). Only between the two steps of set_ca, still  *)
(* under its lock, does the cache hold certificates about to be cleared.   *)
(***************************************************************************)
CacheIsCurrent ==
  \A d \in Domains :
    cached[d] # NoCert /\ ~Replacing => cached[d] = [ca |-> issuer, generation |-> generation]

(***************************************************************************)
(* A call that starts after a set_ca returned never gets a certificate of  *)
(* an earlier CA, be it from the cache or signed anew.                     *)
(***************************************************************************)
FreshCertificates ==
  \A h \in Handshakes :
    call[h].cert # NoCert => call[h].cert.generation >= call[h].since

\* The service becomes visible with a CA: no handshake finds it without one.
VisibleWithCa == visible => issuer \in Cas \ Unparsable

(***************************************************************************)
(* A domain used since another one outlives it: eviction drops the least   *)
(* recently used entry, and only set_ca drops more than one.               *)
(***************************************************************************)
Position(d) == CHOOSE i \in 1 .. Len(order) : order[i] = d

EvictsOldest ==
  [][ \A d, e \in Domains :
        /\ cached[d] # NoCert /\ cached[e] # NoCert /\ Position(d) < Position(e)
        /\ cached'[d] # NoCert
        => cached'[e] # NoCert ]_vars
================================================================================
