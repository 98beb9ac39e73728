--------------------------- MODULE CertServiceProofs ---------------------------
(***************************************************************************)
(* Proofs about CertService for every number of handshakes, set_ca calls,  *)
(* domains and cache entries: whose certificate is found, that it is not   *)
(* one of a former CA, and that the list of recency fits the cache.        *)
(***************************************************************************)
EXTENDS CertService, SequenceTheorems, TLAPS

Types ==
  /\ visible \in BOOLEAN
  /\ issuer \in Cas \cup {NoCa}
  /\ generation \in Nat
  /\ cached \in [Domains -> Cert \cup {NoCert}]
  /\ setter \in [Setters -> {"idle", "parsed", "locked", "replaced", "done", "failed"}]
  /\ call \in [Handshakes -> Call]
  /\ completed \in Nat

\* The locks are held by the calls between the steps that take and release them.
LockInv ==
  /\ \A s \in Setters : setter[s] \in {"locked", "replaced"} <=> mapLock = s
  /\ \A s \in Setters : setter[s] = "replaced" <=> innerLock = s
  /\ innerLock \in Setters \cup {NoOne}

\* A set_ca in progress is one generation ahead of the last one that returned.
GenerationInv ==
  /\ Replacing => generation = completed + 1
  /\ ~Replacing => generation = completed

\* A cached certificate is of the last completed generation; a new CA is not in the cache yet.
CacheInv ==
  \A d \in Domains :
    cached[d] # NoCert =>
      /\ visible
      /\ cached[d].generation = completed
      /\ ~Replacing => cached[d].ca = issuer

\* Where a call stands says whether it holds a certificate, and that the service exists.
PlaceInv ==
  \A h \in Handshakes :
    /\ call[h].at \in {"lookup", "missed", "issued", "done"} => visible
    /\ call[h].at = "issued" => call[h].cert # NoCert
    /\ call[h].at \in {"connected", "lookup", "missed"} => call[h].cert = NoCert

\* What a call holds is never from the future, never older than its start, of no false issuer.
CallInv ==
  \A h \in Handshakes :
    /\ call[h].since <= completed
    /\ call[h].cert # NoCert =>
         /\ call[h].since <= call[h].cert.generation
         /\ call[h].cert.generation <= generation
         /\ call[h].cert.generation = generation => call[h].cert.ca = issuer

IInv == Types /\ LockInv /\ GenerationInv /\ CacheInv /\ PlaceInv /\ CallInv /\ VisibleWithCa

LEMMA NoCertIsNotACert == NoCert \notin Cert
BY NamesAssumption DEF NoCert, Cert

LEMMA InitInv == Init => IInv
<1> SUFFICES ASSUME Init PROVE IInv
  OBVIOUS
<1>1. Types
  <2>1. visible \in BOOLEAN
    BY Zenon DEF Init
  <2>2. call \in [Handshakes -> Call]
    BY DEF Init, Call, CallStates
  <2> QED
    BY <2>1, <2>2 DEF Init, Types
<1>2. LockInv
  BY NamesAssumption DEF Init, LockInv
<1>3. GenerationInv
  BY DEF Init, GenerationInv, Replacing
<1>4. CacheInv
  BY DEF Init, CacheInv
<1>5. CallInv /\ PlaceInv
  BY DEF Init, CallInv, PlaceInv
<1>6. VisibleWithCa
  BY DEF Init, VisibleWithCa
<1> QED
  BY <1>1, <1>2, <1>3, <1>4, <1>5, <1>6 DEF IInv

----------------------------------------------------------------------------
(* The steps of set_ca.                                                    *)

LEMMA SetCaSteps ==
  ASSUME IInv, NEW s \in Setters, SetCaNext(s)
  PROVE  IInv'
<1> USE DEF IInv
<1>1. CASE \E ca \in Cas : Parse(s, ca)
  <2>1. PICK ca \in Cas : Parse(s, ca)
    BY <1>1
  <2>2. Types' /\ UNCHANGED <<service, mapLock, innerLock, cache, call, completed>>
    BY <2>1 DEF Parse, At, Types, service, cache
  <2>3. setter'[s] \in {"failed", "parsed"} /\ setter[s] = "idle"
        /\ \A t \in Setters : t # s => setter'[t] = setter[t]
    BY <2>1 DEF Parse, At, Types
  <2>4. LockInv' /\ Replacing' = Replacing
    BY <2>2, <2>3 DEF LockInv, Replacing
  <2> QED
    BY <2>2, <2>4 DEF GenerationInv, CacheInv, CallInv, PlaceInv, VisibleWithCa, service, cache
<1>2. CASE LockMap(s)
  <2>1. Types' /\ UNCHANGED <<service, innerLock, cache, call, completed>>
    BY <1>2 DEF LockMap, At, Types, service, cache
  <2>2. setter'[s] = "locked" /\ setter[s] = "parsed" /\ mapLock = NoOne /\ mapLock' = s
        /\ \A t \in Setters : t # s => setter'[t] = setter[t]
    BY <1>2 DEF LockMap, At, Types
  <2>3. LockInv' /\ Replacing' = Replacing
    BY <2>1, <2>2, NamesAssumption DEF LockInv, Replacing
  <2> QED
    BY <2>1, <2>3 DEF GenerationInv, CacheInv, CallInv, PlaceInv, VisibleWithCa, service, cache
<1>3. CASE \E ca \in Cas \ Unparsable : CreateService(s, ca)
  <2>1. PICK ca \in Cas \ Unparsable : CreateService(s, ca)
    BY <1>3
  <2>1a. Types'
    <3>1. visible' \in BOOLEAN
      BY <2>1, Zenon DEF CreateService
    <3> QED
      BY <2>1, <3>1 DEF CreateService, At, Types, cache
  <2>2. /\ ~visible /\ visible' /\ issuer' = ca
        /\ generation' = generation + 1 /\ completed' = generation'
        /\ UNCHANGED <<innerLock, cache, call>>
    BY <2>1, Zenon DEF CreateService
  <2>3. setter'[s] = "done" /\ setter[s] = "locked" /\ mapLock' = NoOne
        /\ \A t \in Setters : t # s => setter'[t] = setter[t]
    BY <2>1 DEF CreateService, At, Types
  <2>4. LockInv' /\ Replacing' = Replacing /\ ~Replacing
    BY <2>2, <2>3, NamesAssumption DEF LockInv, Replacing
  <2>5. \A d \in Domains : cached[d] = NoCert
    BY <2>2 DEF CacheInv
  <2>6. GenerationInv' /\ CacheInv' /\ VisibleWithCa'
    BY <2>2, <2>4, <2>5 DEF GenerationInv, CacheInv, VisibleWithCa, Types, cache
  <2>7. CallInv' /\ PlaceInv'
    BY <2>2 DEF CallInv, PlaceInv, Types, Call, Cert, GenerationInv
  <2> QED
    BY <2>1a, <2>4, <2>6, <2>7
<1>4. CASE \E ca \in Cas \ Unparsable : ReplaceCa(s, ca)
  <2>1. PICK ca \in Cas \ Unparsable : ReplaceCa(s, ca)
    BY <1>4
  <2>2. Types'
    BY <2>1 DEF ReplaceCa, At, Types, cache
  <2>3. /\ issuer' = ca /\ generation' = generation + 1
        /\ UNCHANGED <<visible, cache, call, completed>>
    BY <2>1 DEF ReplaceCa
  <2>4. /\ setter'[s] = "replaced" /\ setter[s] = "locked"
        /\ innerLock = NoOne /\ innerLock' = s /\ mapLock' = mapLock
        /\ \A t \in Setters : t # s => setter'[t] = setter[t]
    BY <2>1 DEF ReplaceCa, At, Types
  <2>5. LockInv' /\ ~Replacing /\ Replacing'
    BY <2>4, NamesAssumption DEF LockInv, Replacing
  <2>6. GenerationInv'
    BY <2>3, <2>5 DEF GenerationInv, Types
  <2>7. CacheInv'
    BY <2>3, <2>5 DEF CacheInv, cache
  <2>8. CallInv' /\ PlaceInv'
    BY <2>3 DEF CallInv, PlaceInv, Types, Call, Cert
  <2>9. VisibleWithCa'
    BY <2>3 DEF VisibleWithCa
  <2> QED
    BY <2>2, <2>5, <2>6, <2>7, <2>8, <2>9
<1>5. CASE ClearCache(s)
  <2>1. Types'
    BY <1>5 DEF ClearCache, At, Types, service
  <2>2. /\ UNCHANGED <<visible, issuer, generation, call>> /\ completed' = generation
        /\ cached' = [d \in Domains |-> NoCert]
    BY <1>5 DEF ClearCache, service
  <2>3. /\ setter'[s] = "done" /\ setter[s] = "replaced"
        /\ innerLock' = NoOne /\ mapLock' = NoOne
        /\ \A t \in Setters : t # s => setter'[t] = setter[t]
    BY <1>5 DEF ClearCache, At, Types
  <2>4. LockInv' /\ Replacing /\ ~Replacing'
    BY <2>3, NamesAssumption DEF LockInv, Replacing
  <2>5. GenerationInv' /\ CacheInv'
    BY <2>2, <2>4 DEF GenerationInv, CacheInv
  <2>6. CallInv' /\ PlaceInv'
    BY <2>2, <2>4 DEF CallInv, PlaceInv, GenerationInv, Types, Call, Cert
  <2>7. VisibleWithCa'
    BY <2>2 DEF VisibleWithCa
  <2> QED
    BY <2>1, <2>4, <2>5, <2>6, <2>7
<1> QED
  BY <1>1, <1>2, <1>3, <1>4, <1>5 DEF SetCaNext

----------------------------------------------------------------------------
(* The steps of certificate_for.                                           *)

\* These leave the service and its locks alone; the rest is about one call and the cache.
LEMMA CallStepsFrame ==
  ASSUME IInv, NEW h \in Handshakes, CertificateForNext(h)
  PROVE  /\ UNCHANGED <<visible, issuer, generation, mapLock, innerLock, setter, completed>>
         /\ Replacing' = Replacing
         /\ \A g \in Handshakes : g # h => call'[g] = call[g]
         /\ LockInv' /\ GenerationInv' /\ VisibleWithCa'
<1>1. UNCHANGED <<visible, issuer, generation, mapLock, innerLock, setter, completed>>
  BY DEF CertificateForNext, FindService, Hit, Miss, Issue, StoreCurrent, DiscardStale, service
<1>2. \A g \in Handshakes : g # h => call'[g] = call[g]
  BY DEF CertificateForNext, FindService, Hit, Miss, Issue, StoreCurrent, DiscardStale, Step,
         IInv, Types
<1> QED
  BY <1>1, <1>2 DEF IInv, LockInv, GenerationInv, VisibleWithCa, Replacing

LEMMA CallSteps ==
  ASSUME IInv, NEW h \in Handshakes, CertificateForNext(h)
  PROVE  IInv'
<1> USE DEF IInv
<1>1. CASE FindService(h) \/ Miss(h) \/ DiscardStale(h)
  <2>1. UNCHANGED cached
    BY <1>1 DEF FindService, Miss, DiscardStale, cache
  <2>2. /\ call'[h] \in Call
        /\ call'[h].cert = call[h].cert
        /\ \/ call'[h].since = call[h].since
           \/ call'[h].since = completed /\ call[h].cert = NoCert
        /\ call'[h].at # "issued"
        /\ call'[h].at \in {"connected", "lookup", "missed"} => call[h].cert = NoCert
        /\ call'[h].at \in {"lookup", "missed", "issued", "done"} => visible
    BY <1>1 DEF FindService, Miss, DiscardStale, Step, Types, Call, CallStates, CallInv, PlaceInv
  <2>3. Types'
    BY <1>1, <2>1, <2>2, CallStepsFrame
    DEF FindService, Miss, DiscardStale, Step, Types
  <2>4. CacheInv'
    BY <2>1, CallStepsFrame DEF CacheInv
  <2>5. CallInv' /\ PlaceInv'
    BY <2>2, CallStepsFrame DEF CallInv, PlaceInv, Types
  <2> QED
    BY <2>3, <2>4, <2>5, CallStepsFrame
<1>2. CASE Hit(h)
  <2>1. /\ UNCHANGED cached
        /\ call'[h] = [call[h] EXCEPT !.at = "done", !.cert = cached[call[h].domain],
                                    !.since = completed]
        /\ call[h].at = "lookup" /\ cached[call[h].domain] # NoCert
    BY <1>2 DEF Hit, Types
  <2>2. call[h].domain \in Domains /\ cached[call[h].domain] \in Cert
    BY <2>1 DEF Types, Call
  <2>3. call'[h] \in Call /\ call'[h].since = completed /\ call'[h].at = "done"
        /\ call'[h].cert = cached[call[h].domain]
    BY <2>1, <2>2 DEF Types, Call, CallStates
  <2>4. Types'
    BY <1>2, <2>1, <2>3, CallStepsFrame DEF Hit, Types
  <2>5. CacheInv'
    BY <2>1, CallStepsFrame DEF CacheInv
  <2>6. CallInv' /\ PlaceInv'
    <3> DEFINE hit == cached[call[h].domain]
    <3>1. completed \in Nat /\ completed <= generation /\ (completed = generation => ~Replacing)
      BY DEF GenerationInv, Types
    <3>2. hit.generation = completed /\ visible /\ (~Replacing => hit.ca = issuer)
      BY <2>1, <2>2 DEF CacheInv
    <3> HIDE DEF hit
    <3>3. call'[h].cert = hit
      BY <2>3 DEF hit
    <3>4. CallInv'
      <4>1. /\ call'[h].since <= completed /\ call'[h].since <= call'[h].cert.generation
            /\ call'[h].cert.generation <= generation
            /\ call'[h].cert.generation = generation => call'[h].cert.ca = issuer
        BY <2>3, <3>1, <3>2, <3>3
      <4>2. UNCHANGED <<issuer, generation, completed>>
            /\ \A g \in Handshakes : g # h => call'[g] = call[g]
        BY CallStepsFrame
      <4> QED
        BY <4>1, <4>2 DEF CallInv
    <3>5. PlaceInv'
      BY <2>1, <2>3, <3>2, CallStepsFrame DEF PlaceInv
    <3> QED
      BY <3>4, <3>5
  <2> QED
    BY <2>4, <2>5, <2>6, CallStepsFrame
<1>3. CASE Issue(h)
  <2>1. UNCHANGED cached /\ call[h].at = "missed" /\ visible /\ ~Replacing
    BY <1>3, NamesAssumption DEF Issue, cache, CallInv, PlaceInv, LockInv, Replacing
  <2>2. issuer \in Cas /\ issuer # NoCa
    BY <2>1, NamesAssumption DEF VisibleWithCa
  <2>3. CASE call[h].domain \in Malformed
    <3>1. call'[h] = [call[h] EXCEPT !.at = "failed", !.cert = NoCert]
      BY <1>3, <2>3 DEF Issue, Types
    <3>2. call'[h] \in Call /\ call'[h].cert = NoCert /\ call'[h].at = "failed"
          /\ call'[h].since = call[h].since
      BY <3>1 DEF Types, Call, CallStates
    <3>3. Types'
      BY <1>3, <2>1, <3>2, CallStepsFrame DEF Issue, Types
    <3>4. CacheInv'
      BY <2>1, CallStepsFrame DEF CacheInv
    <3>5. CallInv' /\ PlaceInv'
      BY <3>2, CallStepsFrame DEF CallInv, PlaceInv
    <3> QED
      BY <3>3, <3>4, <3>5, CallStepsFrame
  <2>4. CASE call[h].domain \notin Malformed
    <3> DEFINE new == [ca |-> issuer, generation |-> generation]
    <3>1. new \in Cert /\ new # NoCert /\ new.ca = issuer /\ new.generation = generation
      BY <2>2, NoCertIsNotACert DEF Types, Cert
    <3>2. call'[h] = [call[h] EXCEPT !.at = "issued", !.cert = new]
      BY <1>3, <2>2, <2>4 DEF Issue, Types
    <3> HIDE DEF new
    <3>3. call'[h] \in Call /\ call'[h].cert = new /\ call'[h].at = "issued"
          /\ call'[h].since = call[h].since
      BY <3>1, <3>2 DEF Types, Call, CallStates
    <3>4. Types'
      BY <1>3, <2>1, <3>3, CallStepsFrame DEF Issue, Types
    <3>5. CacheInv'
      BY <2>1, CallStepsFrame DEF CacheInv
    <3>6. CallInv' /\ PlaceInv'
      <4>1. completed \in Nat /\ completed = generation /\ call[h].since <= completed
        BY <2>1 DEF GenerationInv, Types, CallInv, PlaceInv
      <4>2. CallInv'
        BY <3>1, <3>3, <4>1, CallStepsFrame DEF CallInv
      <4>3. PlaceInv'
        BY <2>1, <3>1, <3>3, CallStepsFrame DEF PlaceInv
      <4> QED
        BY <4>2, <4>3
    <3> QED
      BY <3>4, <3>5, <3>6, CallStepsFrame
  <2> QED
    BY <2>3, <2>4
<1>4. CASE StoreCurrent(h)
  <2>1. /\ call[h].at = "issued" /\ call[h].cert.generation = generation
        /\ call[h].cert # NoCert /\ visible /\ ~Replacing
        /\ call' = [call EXCEPT ![h].at = "done"]
    BY <1>4, NamesAssumption DEF StoreCurrent, Step, CallInv, PlaceInv, LockInv, Replacing
  <2>2. call[h].domain \in Domains /\ call[h].cert \in Cert
    BY <2>1 DEF Types, Call
  <2>3. call'[h] \in Call /\ call'[h].cert = call[h].cert /\ call'[h].at = "done"
        /\ call'[h].since = call[h].since
    BY <2>1 DEF Types, Call, CallStates
  <2>4. /\ \A d \in Domains : cached'[d] \in {cached[d], call[h].cert, NoCert}
        /\ cached' \in [Domains -> Cert \cup {NoCert}]
    BY <1>4, <2>2 DEF StoreCurrent, Put, Types
  <2>5. Types'
    BY <2>1, <2>3, <2>4, CallStepsFrame DEF Types
  <2>6. call[h].cert.generation = completed /\ call[h].cert.ca = issuer
    BY <2>1 DEF CallInv, PlaceInv, GenerationInv
  <2>7. CacheInv'
    BY <2>1, <2>4, <2>6, CallStepsFrame DEF CacheInv
  <2>8. CallInv' /\ PlaceInv'
    BY <2>1, <2>3, CallStepsFrame DEF CallInv, PlaceInv
  <2> QED
    BY <2>5, <2>7, <2>8, CallStepsFrame
<1> QED
  BY <1>1, <1>2, <1>3, <1>4 DEF CertificateForNext

LEMMA NextInv == IInv /\ [Next]_vars => IInv'
<1> SUFFICES ASSUME IInv, [Next]_vars PROVE IInv'
  OBVIOUS
<1>1. CASE UNCHANGED vars
  BY <1>1 DEF vars, service, cache, IInv, Types, LockInv, GenerationInv, CacheInv, CallInv, PlaceInv,
              VisibleWithCa, Replacing
<1>2. CASE Next
  BY <1>1, <1>2, SetCaSteps, CallSteps DEF Next, Terminated
<1> QED
  BY <1>1, <1>2

LEMMA Invariance == Spec => []IInv
BY InitInv, NextInv, PTL DEF Spec

----------------------------------------------------------------------------
(* Theorems.                                                               *)

\* No certificate of a former CA survives in the cache past the set_ca that replaced it.
THEOREM CacheStaysCurrent == Spec => []CacheIsCurrent
<1>1. IInv => CacheIsCurrent
  <2> SUFFICES ASSUME IInv, NEW d \in Domains, cached[d] # NoCert, ~Replacing
               PROVE  cached[d] = [ca |-> issuer, generation |-> generation]
    BY DEF CacheIsCurrent
  <2>1. cached[d] \in Cert
    BY DEF IInv, Types
  <2>2. cached[d].ca = issuer /\ cached[d].generation = generation
    BY DEF IInv, CacheInv, GenerationInv
  <2> QED
    BY <2>1, <2>2 DEF Cert
<1> QED
  BY Invariance, <1>1, PTL

\* A call begun after a set_ca returned gets no certificate of an earlier CA.
THEOREM CertificatesAreFresh == Spec => []FreshCertificates
<1>1. IInv => FreshCertificates
  BY DEF IInv, Types, Call, Cert, CallInv, PlaceInv, FreshCertificates
<1> QED
  BY Invariance, <1>1, PTL

\* Whoever finds the service finds it with a CA that parsed.
THEOREM VisibleServiceHasCa == Spec => []VisibleWithCa
<1>1. IInv => VisibleWithCa
  BY DEF IInv
<1> QED
  BY Invariance, <1>1, PTL

----------------------------------------------------------------------------
(* The recency list.                                                       *)

Distinct(s) == \A i, j \in 1 .. Len(s) : s[i] = s[j] => i = j
Elements(s) == {s[i] : i \in 1 .. Len(s)}

\* RemoveFirst takes one element out of a list without repetitions.
LEMMA RemoveFirstEffect ==
  ASSUME NEW S, NEW s \in Seq(S), NEW e, Distinct(s)
  PROVE  /\ RemoveFirst(s, e) \in Seq(S)
         /\ Distinct(RemoveFirst(s, e))
         /\ Elements(RemoveFirst(s, e)) = Elements(s) \ {e}
         /\ Len(RemoveFirst(s, e)) <= Len(s)
         /\ e \in Elements(s) => Len(RemoveFirst(s, e)) = Len(s) - 1
<1>1. CASE e \notin Elements(s)
  <2>1. RemoveFirst(s, e) = s
    BY <1>1 DEF RemoveFirst, Elements
  <2> QED
    BY <1>1, <2>1
<1>2. CASE e \in Elements(s)
  <2>1. PICK k \in 1 .. Len(s) : s[k] = e
    BY <1>2 DEF Elements
  <2>2. {i \in 1 .. Len(s) : s[i] = e} = {k}
    BY <2>1 DEF Distinct
  <2>3. Min({k}) = k
    BY <2>1 DEF Min
  <2>4. SelectInSeq(s, LAMBDA v : v = e) = k
    BY <2>2, <2>3 DEF SelectInSeq
  <2> DEFINE r == RemoveFirst(s, e)
  <2>5. r = SubSeq(s, 1, k - 1) \o SubSeq(s, k + 1, Len(s))
    BY <2>1, <2>4 DEF RemoveFirst, RemoveAt
  <2>6. /\ r \in Seq(S) /\ Len(r) = Len(s) - 1
        /\ \A i \in 1 .. Len(s) - 1 : r[i] = IF i < k THEN s[i] ELSE s[i + 1]
    <3> DEFINE a == SubSeq(s, 1, k - 1)
               b == SubSeq(s, k + 1, Len(s))
    <3>1. Len(s) \in Nat /\ k \in 1 .. Len(s)
      OBVIOUS
    <3>2. /\ a \in Seq(S) /\ Len(a) = k - 1
          /\ \A i \in 1 .. k - 1 : a[i] = s[i]
      BY <3>1
    <3>3. /\ b \in Seq(S) /\ Len(b) = Len(s) - k
          /\ \A i \in 1 .. Len(s) - k : b[i] = s[k + i]
      BY <3>1
    <3>4. r = a \o b
      BY <2>5
    <3> HIDE DEF a, b, r
    <3>5. /\ r \in Seq(S) /\ Len(r) = Len(a) + Len(b)
          /\ \A i \in 1 .. Len(a) + Len(b) : r[i] = IF i <= Len(a) THEN a[i] ELSE b[i - Len(a)]
      BY <3>2, <3>3, <3>4, ConcatProperties
    <3> DEFINE la == Len(a)
               lb == Len(b)
               n == Len(s)
    <3>6. /\ n \in Nat /\ k \in 1 .. n /\ la = k - 1 /\ lb = n - k
          /\ \A i \in 1 .. la + lb : r[i] = IF i <= la THEN a[i] ELSE b[i - la]
          /\ \A i \in 1 .. k - 1 : a[i] = s[i]
          /\ \A i \in 1 .. n - k : b[i] = s[k + i]
      BY <3>1, <3>2, <3>3, <3>5
    <3> HIDE DEF la, lb, n
    <3>7. la + lb = n - 1
      BY <3>6
    <3>8. ASSUME NEW i \in 1 .. n - 1 PROVE r[i] = IF i < k THEN s[i] ELSE s[i + 1]
      <4>1. r[i] = IF i <= la THEN a[i] ELSE b[i - la]
        BY <3>6, <3>7
      <4>2. CASE i < k
        BY <3>6, <4>1, <4>2
      <4>3. CASE i >= k
        <5>1. i - la \in 1 .. n - k /\ k + (i - la) = i + 1 /\ ~(i <= la)
          BY <3>6, <4>3
        <5> QED
          BY <3>6, <4>1, <4>3, <5>1
      <4> QED
        BY <3>6, <4>2, <4>3
    <3> QED
      BY <3>5, <3>7, <3>8 DEF la, lb, n
  <2> HIDE DEF r
  <2>7. Distinct(r)
    <3> SUFFICES ASSUME NEW i \in 1 .. Len(r), NEW j \in 1 .. Len(r), r[i] = r[j] PROVE i = j
      BY DEF Distinct
    <3>1. /\ i \in 1 .. Len(s) /\ i + 1 \in 1 .. Len(s) /\ j \in 1 .. Len(s) /\ j + 1 \in 1 .. Len(s)
          /\ r[i] = (IF i < k THEN s[i] ELSE s[i + 1]) /\ r[j] = (IF j < k THEN s[j] ELSE s[j + 1])
      BY <2>1, <2>6
    <3> DEFINE p == IF i < k THEN i ELSE i + 1
               q == IF j < k THEN j ELSE j + 1
    <3>2. p \in 1 .. Len(s) /\ q \in 1 .. Len(s) /\ r[i] = s[p] /\ r[j] = s[q]
      BY <3>1
    <3>3. i \in Int /\ j \in Int /\ k \in Int /\ (p = q => i = j)
      BY <2>1, <2>6
    <3> HIDE DEF p, q
    <3>4. p = q
      BY <3>2 DEF Distinct
    <3> QED
      BY <3>3, <3>4
  <2>8. ASSUME NEW x \in Elements(r) PROVE x \in Elements(s) /\ x # e
    <3>1. PICK i \in 1 .. Len(s) - 1 : x = r[i]
      BY <2>6 DEF Elements
    <3> QED
      BY <2>1, <2>6, <3>1 DEF Elements, Distinct
  <2>9. ASSUME NEW x \in Elements(s), x # e PROVE x \in Elements(r)
    <3>1. PICK i \in 1 .. Len(s) : x = s[i]
      BY DEF Elements
    <3>2. CASE i < k
      <4>1. i \in 1 .. Len(r) /\ r[i] = x
        BY <2>1, <2>6, <3>1, <3>2
      <4> QED
        BY <4>1 DEF Elements
    <3>3. CASE i > k
      <4>1. i - 1 \in 1 .. Len(r) /\ r[i - 1] = x
        BY <2>1, <2>6, <3>1, <3>3
      <4> QED
        BY <4>1 DEF Elements
    <3> QED
      BY <2>1, <2>9, <3>1, <3>2, <3>3
  <2>10. Elements(r) = Elements(s) \ {e}
    BY <2>8, <2>9
  <2> QED
    BY <2>6, <2>7, <2>10 DEF r
<1> QED
  BY <1>1, <1>2

\* An element that is not in a list can be put at its end.
LEMMA AppendEffect ==
  ASSUME NEW S, NEW s \in Seq(S), NEW e \in S, Distinct(s), e \notin Elements(s)
  PROVE  /\ Append(s, e) \in Seq(S)
         /\ Distinct(Append(s, e))
         /\ Elements(Append(s, e)) = Elements(s) \cup {e}
         /\ Len(Append(s, e)) = Len(s) + 1
<1>1. /\ Append(s, e) \in Seq(S) /\ Len(Append(s, e)) = Len(s) + 1 /\ Len(s) \in Nat
      /\ \A i \in 1 .. Len(s) : Append(s, e)[i] = s[i]
      /\ Append(s, e)[Len(s) + 1] = e
  OBVIOUS
<1>2. \A i \in 1 .. Len(s) : s[i] # e
  BY DEF Elements
<1>3. Distinct(Append(s, e))
  BY <1>1, <1>2 DEF Distinct
<1>4. 1 .. Len(s) + 1 = (1 .. Len(s)) \cup {Len(s) + 1}
  BY <1>1
<1>5. Elements(Append(s, e)) = Elements(s) \cup {e}
  BY <1>1, <1>4 DEF Elements
<1> QED
  BY <1>1, <1>3, <1>5

\* The oldest entry can be taken off a list.
LEMMA TailEffect ==
  ASSUME NEW S, NEW s \in Seq(S), Distinct(s), s # <<>>
  PROVE  /\ Tail(s) \in Seq(S) /\ Head(s) \in S
         /\ Distinct(Tail(s))
         /\ Elements(Tail(s)) = Elements(s) \ {Head(s)}
         /\ Len(Tail(s)) = Len(s) - 1
<1>1. /\ Tail(s) \in Seq(S) /\ Len(Tail(s)) = Len(s) - 1 /\ Len(s) \in Nat \ {0}
      /\ \A i \in 1 .. Len(s) - 1 : Tail(s)[i] = s[i + 1]
      /\ Head(s) = s[1] /\ Head(s) \in S
  OBVIOUS
<1>2. Distinct(Tail(s))
  BY <1>1 DEF Distinct
<1>3. ASSUME NEW x \in Elements(Tail(s)) PROVE x \in Elements(s) /\ x # s[1]
  <2>1. PICK i \in 1 .. Len(s) - 1 : x = Tail(s)[i]
    BY <1>1 DEF Elements
  <2> QED
    BY <1>1, <2>1 DEF Elements, Distinct
<1>4. ASSUME NEW x \in Elements(s), x # s[1] PROVE x \in Elements(Tail(s))
  <2>1. PICK i \in 1 .. Len(s) : x = s[i]
    BY DEF Elements
  <2>2. i - 1 \in 1 .. Len(Tail(s)) /\ Tail(s)[i - 1] = x
    BY <1>1, <1>4, <2>1
  <2> QED
    BY <2>2 DEF Elements
<1> QED
  BY <1>1, <1>2, <1>3, <1>4

\* The list names the cached domains once each, and they fit the cache.
Recency(c, o) ==
  /\ o \in Seq(Domains)
  /\ Elements(o) = {d \in Domains : c[d] # NoCert}
  /\ Distinct(o)
  /\ Len(o) <= Capacity

\* CertCache::put keeps list and map in step.
LEMMA PutKeeps ==
  ASSUME NEW d \in Domains, NEW cert \in Cert, cached \in [Domains -> Cert \cup {NoCert}],
         Recency(cached, order), Put(d, cert)
  PROVE  Recency(cached, order)'
<1> DEFINE rest == RemoveFirst(order, d)
           full == Len(rest) >= Capacity
           kept == IF full THEN Tail(rest) ELSE rest
<1>1. /\ rest \in Seq(Domains) /\ Distinct(rest) /\ Elements(rest) = Elements(order) \ {d}
      /\ Len(rest) <= Len(order) /\ Len(rest) \in Nat
  BY RemoveFirstEffect DEF Recency
<1>2. /\ order' = Append(kept, d)
      /\ cached' = [e \in Domains |-> IF e = d THEN cert
                                      ELSE IF full /\ e = Head(rest) THEN NoCert ELSE cached[e]]
  BY DEF Put
<1>3. Len(rest) <= Capacity /\ Capacity \in Nat \ {0}
  BY <1>1, CapacityAssumption DEF Recency
<1>4. cert # NoCert
  BY NoCertIsNotACert
<1> HIDE DEF rest
<1>5. CASE full
  <2>1. rest # <<>>
    BY <1>3, <1>5
  <2>2. /\ Tail(rest) \in Seq(Domains) /\ Head(rest) \in Domains /\ Distinct(Tail(rest))
        /\ Elements(Tail(rest)) = Elements(rest) \ {Head(rest)}
        /\ Len(Tail(rest)) = Len(rest) - 1
    BY <1>1, <2>1, TailEffect
  <2>3. order' = Append(Tail(rest), d)
    BY <1>2, <1>5
  <2>4. d \notin Elements(Tail(rest))
    BY <1>1, <2>2
  <2>5. /\ order' \in Seq(Domains) /\ Distinct(order') /\ Len(order') = Len(rest)
        /\ Elements(order') = (Elements(rest) \ {Head(rest)}) \cup {d}
    <3> DEFINE rear == Tail(rest)
    <3>1. /\ rear \in Seq(Domains) /\ Distinct(rear) /\ d \notin Elements(rear)
          /\ Elements(rear) = Elements(rest) \ {Head(rest)}
          /\ Len(rear) = Len(rest) - 1 /\ order' = Append(rear, d)
      BY <2>2, <2>3, <2>4
    <3> HIDE DEF rear
    <3>2. /\ Append(rear, d) \in Seq(Domains) /\ Distinct(Append(rear, d))
          /\ Elements(Append(rear, d)) = Elements(rear) \cup {d}
          /\ Len(Append(rear, d)) = Len(rear) + 1
      BY <3>1, AppendEffect
    <3> QED
      BY <1>1, <3>1, <3>2
  <2>6. \A e \in Domains : cached'[e] # NoCert <=>
                             e = d \/ (e # Head(rest) /\ cached[e] # NoCert)
    BY <1>2, <1>4, <1>5
  <2>7. Elements(order') = {e \in Domains : cached'[e] # NoCert}
    BY <1>1, <2>5, <2>6 DEF Recency
  <2> QED
    BY <1>1, <1>3, <2>5, <2>7 DEF Recency, Distinct, Elements
<1>6. CASE ~full
  <2>1. order' = Append(rest, d)
    BY <1>2, <1>6
  <2>2. d \notin Elements(rest)
    BY <1>1
  <2>3. /\ order' \in Seq(Domains) /\ Distinct(order') /\ Len(order') = Len(rest) + 1
        /\ Elements(order') = Elements(rest) \cup {d}
    BY <1>1, <2>1, <2>2, AppendEffect
  <2>4. \A e \in Domains : cached'[e] # NoCert <=> e = d \/ cached[e] # NoCert
    BY <1>2, <1>4, <1>6
  <2>5. Elements(order') = {e \in Domains : cached'[e] # NoCert}
    BY <1>1, <2>3, <2>4 DEF Recency
  <2>6. Len(order') <= Capacity
    BY <1>1, <1>3, <1>6, <2>3
  <2> QED
    BY <2>3, <2>5, <2>6 DEF Recency, Distinct, Elements
<1> QED
  BY <1>5, <1>6

\* Types that need the list and the locks: a CA in use has been parsed.
Recent ==
  /\ mapLock \in Setters \cup {NoOne}
  /\ issuer \in (Cas \ Unparsable) \cup {NoCa}
  /\ Recency(cached, order)

\* Every step keeps the list in step with the map.
LEMMA RecencyStep == IInv /\ Recent /\ [Next]_vars => Recent'
<1> SUFFICES ASSUME IInv, Recent, [Next]_vars PROVE Recent'
  OBVIOUS
<1>1. ASSUME UNCHANGED <<mapLock, issuer, cache>> PROVE Recent'
  BY <1>1 DEF Recent, Recency, Distinct, Elements, cache
<1>2. CASE UNCHANGED vars \/ Terminated
  BY <1>1, <1>2 DEF vars, Terminated, cache
<1>3. ASSUME NEW s \in Setters, SetCaNext(s) PROVE Recent'
  <2>1. CASE \E ca \in Cas : Parse(s, ca)
    BY <1>1, <2>1 DEF Parse, service
  <2>2. ASSUME UNCHANGED cache, mapLock' \in {mapLock, s, NoOne},
               issuer' = issuer \/ issuer' \in Cas \ Unparsable
        PROVE  Recent'
    BY <2>2 DEF Recent, Recency, Distinct, Elements, cache
  <2>3. CASE LockMap(s)
    BY <2>2, <2>3 DEF LockMap, service
  <2>4. CASE \E ca \in Cas \ Unparsable : CreateService(s, ca) \/ ReplaceCa(s, ca)
    BY <2>2, <2>4 DEF CreateService, ReplaceCa
  <2>5. CASE ClearCache(s)
    <3>1. /\ cached' = [d \in Domains |-> NoCert] /\ order' = <<>>
          /\ mapLock' = NoOne /\ UNCHANGED issuer
      BY <2>5 DEF ClearCache, service
    <3>2. Recency(cached, order)'
      BY <3>1, CapacityAssumption DEF Recency, Distinct, Elements
    <3> QED
      BY <3>1, <3>2 DEF Recent
  <2> QED
    BY <1>3, <2>1, <2>3, <2>4, <2>5 DEF SetCaNext
<1>4. ASSUME NEW h \in Handshakes, CertificateForNext(h) PROVE Recent'
  <2>1. UNCHANGED <<mapLock, issuer>>
    BY <1>4, CallStepsFrame
  <2>2. CASE FindService(h) \/ Miss(h) \/ Issue(h) \/ DiscardStale(h)
    BY <1>1, <2>1, <2>2 DEF FindService, Miss, Issue, DiscardStale
  <2>3. CASE Hit(h)
    <3> DEFINE d == call[h].domain
               rest == RemoveFirst(order, d)
    <3>1. d \in Domains /\ d \in Elements(order)
      BY <2>3 DEF Hit, IInv, Types, Call, Recent, Recency
    <3>2. order' = Append(rest, d) /\ UNCHANGED cached
      BY <2>3 DEF Hit
    <3> HIDE DEF d
    <3>3. /\ rest \in Seq(Domains) /\ Distinct(rest) /\ Elements(rest) = Elements(order) \ {d}
          /\ Len(rest) = Len(order) - 1
      BY <3>1, RemoveFirstEffect DEF Recent, Recency
    <3> HIDE DEF rest
    <3>4. /\ order' \in Seq(Domains) /\ Distinct(order') /\ Elements(order') = Elements(order)
          /\ Len(order') = Len(order)
      <4>1. Len(order) \in Nat
        BY DEF Recent, Recency
      <4>2. /\ Append(rest, d) \in Seq(Domains) /\ Distinct(Append(rest, d))
            /\ Elements(Append(rest, d)) = Elements(rest) \cup {d}
            /\ Len(Append(rest, d)) = Len(rest) + 1
        BY <3>1, <3>3, AppendEffect
      <4> QED
        BY <3>1, <3>2, <3>3, <4>1, <4>2
    <3>5. Recency(cached, order)'
      BY <3>2, <3>4 DEF Recent, Recency, Distinct, Elements
    <3> QED
      BY <2>1, <3>5 DEF Recent
  <2>4. CASE StoreCurrent(h)
    <3>1. call[h].domain \in Domains /\ call[h].cert \in Cert
      BY <2>4 DEF StoreCurrent, Step, IInv, Types, Call, PlaceInv
    <3>2. Recency(cached, order)'
      BY <2>4, <3>1, PutKeeps DEF StoreCurrent, Recent, IInv, Types
    <3> QED
      BY <2>1, <3>2 DEF Recent
  <2> QED
    BY <1>4, <2>2, <2>3, <2>4 DEF CertificateForNext
<1> QED
  BY <1>2, <1>3, <1>4 DEF Next

(***************************************************************************)
(* The map of the cache and its recency list name the same domains, once   *)
(* each and within the capacity, through every set_ca, hit and eviction.   *)
(***************************************************************************)
THEOREM CacheIsWellFormed == Spec => []CacheWellFormed
<1>1. Init => Recent
  BY CapacityAssumption DEF Init, Recent, Recency, Distinct, Elements
<1>2. IInv /\ Recent => CacheWellFormed
  BY DEF IInv, Types, LockInv, Recent, Recency, Elements, Distinct, CacheWellFormed, TypeOK
<1> QED
  BY InitInv, NextInv, RecencyStep, <1>1, <1>2, PTL DEF Spec

(***************************************************************************)
(* CertCache::put never drops an entry that was used after one it keeps: a *)
(* full cache loses the head of the list, and a name that is put again     *)
(* makes room for itself.                                                  *)
(***************************************************************************)
THEOREM OldestGoesFirst == Spec => EvictsOldest
<1> DEFINE Kept ==
             \A d, e \in Domains :
               /\ cached[d] # NoCert /\ cached[e] # NoCert /\ Position(d) < Position(e)
               /\ cached'[d] # NoCert
               => cached'[e] # NoCert
<1>1. ASSUME UNCHANGED cached PROVE Kept
  BY <1>1
<1>2. ASSUME IInv, Recent, NEW d0 \in Domains, NEW cert \in Cert, Put(d0, cert) PROVE Kept
  <2> SUFFICES ASSUME NEW d \in Domains, NEW e \in Domains,
                      cached[d] # NoCert, cached[e] # NoCert, Position(d) < Position(e),
                      cached'[d] # NoCert, cached'[e] = NoCert
               PROVE  FALSE
    OBVIOUS
  <2> DEFINE rest == RemoveFirst(order, d0)
  <2>1. cached'[e] = IF e = d0 THEN cert
                     ELSE IF Len(rest) >= Capacity /\ e = Head(rest) THEN NoCert ELSE cached[e]
    BY <1>2 DEF Put
  <2>2. Len(rest) >= Capacity /\ e = Head(rest) /\ e # d0
    BY <2>1, NoCertIsNotACert
  <2>3. order \in Seq(Domains) /\ Distinct(order) /\ Len(order) <= Capacity
        /\ d \in Elements(order) /\ e \in Elements(order)
    BY <1>2 DEF Recent, Recency
  <2>4. d0 \notin Elements(order)
    <3>1. d0 \in Elements(order) => Len(rest) = Len(order) - 1
      BY <2>3, RemoveFirstEffect
    <3>2. Len(order) \in Nat /\ Capacity \in Nat
      BY <2>3, CapacityAssumption
    <3> HIDE DEF rest
    <3> QED
      BY <2>2, <2>3, <3>1, <3>2
  <2>5. rest = order
    BY <2>4 DEF RemoveFirst, Elements
  <2>6. Len(order) \in Nat /\ Len(order) >= 1 /\ e = order[1]
    BY <2>2, <2>3, <2>5 DEF Elements
  <2>7. Position(d) \in 1 .. Len(order)
    BY <2>3 DEF Position, Elements
  <2>8. Position(e) \in 1 .. Len(order) /\ order[Position(e)] = e
    BY <2>3 DEF Position, Elements
  <2>9. Position(e) = 1
    BY <2>3, <2>6, <2>8 DEF Distinct
  <2> QED
    BY <2>6, <2>7, <2>9
<1>3. ASSUME IInv, Recent, [Next]_vars PROVE Kept
  <2>1. CASE UNCHANGED vars \/ Terminated
    BY <1>1, <2>1 DEF vars, Terminated
  <2>2. ASSUME NEW s \in Setters, SetCaNext(s) PROVE Kept
    <3>1. CASE ClearCache(s)
      BY <3>1 DEF ClearCache
    <3>2. CASE ~ClearCache(s)
      BY <1>1, <2>2, <3>2
      DEF SetCaNext, Parse, LockMap, CreateService, ReplaceCa, service, cache
    <3> QED
      BY <3>1, <3>2
  <2>3. ASSUME NEW h \in Handshakes, CertificateForNext(h) PROVE Kept
    <3>1. CASE StoreCurrent(h)
      <4>1. call[h].domain \in Domains /\ call[h].cert \in Cert
        BY <1>3, <3>1 DEF StoreCurrent, Step, IInv, Types, Call, PlaceInv
      <4> QED
        BY <1>2, <1>3, <3>1, <4>1 DEF StoreCurrent
    <3>2. CASE ~StoreCurrent(h)
      BY <1>1, <2>3, <3>2
      DEF CertificateForNext, FindService, Hit, Miss, Issue, DiscardStale, cache
    <3> QED
      BY <3>1, <3>2
  <2> HIDE DEF Kept
  <2> QED
    BY <1>3, <2>1, <2>2, <2>3 DEF Next
<1>4. Init => Recent
  BY CapacityAssumption DEF Init, Recent, Recency, Distinct, Elements
<1>5. IInv /\ Recent /\ [Next]_vars => [Kept]_vars
  BY <1>3
<1> QED
  BY InitInv, NextInv, RecencyStep, <1>4, <1>5, PTL DEF Spec, EvictsOldest
================================================================================
