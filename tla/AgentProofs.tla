------------------------------ MODULE AgentProofs ------------------------------
(***************************************************************************)
(* Proofs about four parts of the proxy process, for any values of their   *)
(* constants.  NameCache: the cache is bounded and has one entry a name,   *)
(* and a request is decided on addresses of its own name.  Tunnel: the     *)
(* bytes of a tunnel arrive as they were sent, behind no head, and no dial *)
(* outlives its budget.  ProxyHost: the process starts once, armed, and    *)
(* keeps what a container needs, whoever races it.  ProxyFilter: the       *)
(* policy in use is the one last stored, its rules tried in their order,   *)
(* and texts and networks match as their definitions say.                  *)
(***************************************************************************)
EXTENDS NameCache, Tunnel, ProxyHost, ProxyFilter, FiniteSetTheorems, SequenceTheorems, WellFoundedInduction, TLAPS

(***************************************************************************)
(* NameCache.                                                              *)
(***************************************************************************)
CacheEntry == [name : Names, ips : AddressSets]
Asked ==
  [at : {"rest", "lookup", "answered", "done", "failed"}, name : Names \cup {NoAddress},
   ips : AddressSets \cup {NoAddress}]

NameTypes ==
  /\ nameOf \in [Names -> AddressSets]
  /\ nameCache \subseteq CacheEntry /\ IsFiniteSet(nameCache)
  /\ nameAsk \in [Lookups -> Asked]
  /\ nameSeen \in [Lookups -> SUBSET AddressSets]
  /\ nameWas \in [Lookups -> BOOLEAN]

\* What a request that missed has seen of its name: what the name stands for now while the resolver
\* is asked, and what the resolver answered from then on.
Witnessed(r) ==
  /\ At(r, "lookup") => nameAsk[r].name \in Names /\ nameOf[nameAsk[r].name] \in nameSeen[r]
  /\ At(r, "answered") => nameAsk[r].name \in Names /\ nameAsk[r].ips \in nameSeen[r]
  /\ At(r, "done") => nameAsk[r].ips # {} /\ (nameWas[r] \/ nameAsk[r].ips \in nameSeen[r])

IInv == NameTypes /\ NameCacheSound /\ \A r \in Lookups : Witnessed(r)

LEMMA InitInv == NameInit => IInv
<1> SUFFICES ASSUME NameInit PROVE IInv
  OBVIOUS
<1>1. NameTypes
  BY NameAssumption, FS_EmptySet DEF NameInit, NameTypes, Asked
<1>2. NameCacheSound
  BY NameAssumption, FS_EmptySet DEF NameInit, NameCacheSound
<1>3. \A r \in Lookups : Witnessed(r)
  BY DEF NameInit, Witnessed, At
<1> QED
  BY <1>1, <1>2, <1>3 DEF IInv

\* The entry Hit finds is one of the cache, and of the name that was looked up.
LEMMA EntryFound ==
  ASSUME NEW n \in Names, Cached(n)
  PROVE  Entry(n) \in nameCache /\ Entry(n).name = n
BY DEF Cached, Entry

\* A step of one request leaves the others as they are.
LEMMA OthersWitnessed ==
  ASSUME IInv, NEW r \in Lookups, nameAsk' \in [Lookups -> Asked], Witnessed(r)', nameOf' = nameOf,
         \A q \in Lookups \ {r} : /\ nameAsk'[q] = nameAsk[q]
                                  /\ nameSeen'[q] = nameSeen[q] /\ nameWas'[q] = nameWas[q]
  PROVE  \A q \in Lookups : Witnessed(q)'
<1> SUFFICES ASSUME NEW q \in Lookups, q # r PROVE Witnessed(q)'
  OBVIOUS
<1>1. Witnessed(q)
  BY DEF IInv
<1> QED
  BY <1>1 DEF Witnessed, At

\* Inserting an answer keeps the cache bounded, with one entry a name.
LEMMA StoreSound ==
  ASSUME NEW C, IsFiniteSet(C), C \subseteq CacheEntry, Cardinality(C) <= NameCacheCap,
         \A e, f \in C : e.name = f.name => e = f,
         \A e \in C : e.ips # {},
         NEW x \in CacheEntry, x.ips # {},
         NEW D, D = (IF Cardinality(C) >= NameCacheCap THEN {} ELSE {e \in C : e.name # x.name}) \cup {x}
  PROVE  /\ IsFiniteSet(D) /\ D \subseteq CacheEntry /\ Cardinality(D) <= NameCacheCap
         /\ \A e, f \in D : e.name = f.name => e = f
         /\ \A e \in D : e.ips # {}
<1> DEFINE kept == IF Cardinality(C) >= NameCacheCap THEN {} ELSE {e \in C : e.name # x.name}
<1>1. kept \subseteq C /\ \A e \in kept : e.name # x.name
  OBVIOUS
<1>2. Cardinality(C) \in Nat /\ NameCacheCap \in Nat \ {0}
  BY FS_CardinalityType, NameAssumption
<1>3. IsFiniteSet(kept) /\ Cardinality(kept) \in Nat /\ Cardinality(kept) + 1 <= NameCacheCap
  <2>1. CASE Cardinality(C) >= NameCacheCap
    BY <1>2, <2>1, FS_EmptySet
  <2>2. CASE ~(Cardinality(C) >= NameCacheCap)
    <3>1. IsFiniteSet(kept) /\ Cardinality(kept) <= Cardinality(C) /\ Cardinality(kept) \in Nat
      BY <1>1, FS_Subset, FS_CardinalityType
    <3> HIDE DEF kept
    <3> QED
      BY <1>2, <2>2, <3>1
  <2> QED
    BY <2>1, <2>2
<1>4. D = kept \cup {x}
  OBVIOUS
<1> HIDE DEF kept
<1>5. x \notin kept
  BY <1>1
<1>6. IsFiniteSet(D) /\ Cardinality(D) = Cardinality(kept) + 1
  BY <1>3, <1>4, <1>5, FS_AddElement
<1> QED
  BY <1>1, <1>3, <1>4, <1>6

----------------------------------------------------------------------------
\* A look-up begins: it is answered from the cache, or goes on to the resolver.
LEMMA BeginStep ==
  ASSUME IInv, NEW r \in Lookups, NEW n \in Names, Begin(r, n)
  PROVE  IInv'
<1> USE DEF IInv
<1>1. /\ nameSeen' = [nameSeen EXCEPT ![r] = {nameOf[n]}]
      /\ nameWas' = [nameWas EXCEPT ![r] = Cached(n)]
      /\ UNCHANGED <<nameOf, nameCache>>
  BY DEF Begin, Hit, Miss
<1>2. nameOf[n] \in AddressSets
  BY DEF NameTypes
<1>3. /\ nameSeen' \in [Lookups -> SUBSET AddressSets] /\ nameSeen'[r] = {nameOf[n]}
      /\ \A q \in Lookups \ {r} : nameSeen'[q] = nameSeen[q]
  BY <1>1, <1>2 DEF NameTypes
<1>4. /\ nameWas' \in [Lookups -> BOOLEAN] /\ nameWas'[r] = Cached(n)
      /\ \A q \in Lookups \ {r} : nameWas'[q] = nameWas[q]
  <2>1. Cached(n) \in BOOLEAN
    BY DEF Cached
  <2> QED
    BY <1>1, <2>1, Zenon DEF NameTypes
<1>5. NameCacheSound'
  BY <1>1 DEF NameCacheSound
<1>6. CASE Hit(r, n)
  <2>1. Cached(n) /\ nameAsk' = [nameAsk EXCEPT ![r] = [at |-> "done", name |-> n, ips |-> Entry(n).ips]]
    BY <1>6 DEF Hit
  <2> DEFINE found == Entry(n).ips
  <2>2. found \in AddressSets /\ found # {}
    BY <2>1, EntryFound DEF NameTypes, CacheEntry, NameCacheSound
  <2> HIDE DEF found
  <2>3. /\ nameAsk' \in [Lookups -> Asked] /\ nameAsk'[r] = [at |-> "done", name |-> n, ips |-> found]
        /\ \A q \in Lookups \ {r} : nameAsk'[q] = nameAsk[q]
    BY <2>1, <2>2 DEF NameTypes, Asked, found
  <2>4. Witnessed(r)'
    BY <1>4, <2>1, <2>2, <2>3 DEF Witnessed, At
  <2>5. NameTypes'
    BY <1>1, <1>3, <1>4, <2>3 DEF NameTypes
  <2> QED
    BY <1>1, <1>3, <1>4, <1>5, <2>3, <2>4, <2>5, OthersWitnessed
<1>7. CASE Miss(r, n)
  <2>1. nameAsk' = [nameAsk EXCEPT ![r] = [at |-> "lookup", name |-> n, ips |-> NoAddress]]
    BY <1>7 DEF Miss
  <2>2. /\ nameAsk' \in [Lookups -> Asked] /\ nameAsk'[r] = [at |-> "lookup", name |-> n, ips |-> NoAddress]
        /\ \A q \in Lookups \ {r} : nameAsk'[q] = nameAsk[q]
    BY <2>1 DEF NameTypes, Asked
  <2>3. Witnessed(r)'
    BY <1>1, <1>3, <2>2 DEF Witnessed, At
  <2>4. NameTypes'
    BY <1>1, <1>3, <1>4, <2>2 DEF NameTypes
  <2> QED
    BY <1>1, <1>3, <1>4, <1>5, <2>2, <2>3, <2>4, OthersWitnessed
<1> QED
  BY <1>6, <1>7 DEF Begin

\* The resolver answers or fails, an empty answer is a failure, a new request takes the place.
LEMMA AnswerSteps ==
  ASSUME IInv, NEW r \in Lookups,
         LookupAnswers(r) \/ LookupFails(r) \/ EmptyAnswer(r) \/ Again(r)
  PROVE  IInv'
<1> USE DEF IInv
<1>1. UNCHANGED <<nameOf, nameCache>>
  BY DEF LookupAnswers, LookupFails, EmptyAnswer, Again
<1>2. NameCacheSound'
  BY <1>1 DEF NameCacheSound
<1>3. CASE LookupAnswers(r)
  <2>1. nameAsk[r].name \in Names /\ nameOf[nameAsk[r].name] \in nameSeen[r]
    BY <1>3 DEF LookupAnswers, Witnessed
  <2> DEFINE now == nameOf[nameAsk[r].name]
  <2>2. now \in AddressSets /\ nameAsk' = [nameAsk EXCEPT ![r].at = "answered", ![r].ips = now]
        /\ UNCHANGED <<nameSeen, nameWas>>
    BY <1>3, <2>1 DEF LookupAnswers, NameTypes
  <2> HIDE DEF now
  <2>3. /\ nameAsk' \in [Lookups -> Asked] /\ nameAsk'[r].at = "answered" /\ nameAsk'[r].ips = now
        /\ nameAsk'[r].name = nameAsk[r].name
        /\ \A q \in Lookups \ {r} : nameAsk'[q] = nameAsk[q]
    BY <2>2 DEF NameTypes, Asked
  <2>4. Witnessed(r)'
    BY <2>1, <2>2, <2>3 DEF Witnessed, At, now
  <2> QED
    BY <1>1, <1>2, <2>2, <2>3, <2>4, OthersWitnessed DEF NameTypes
<1>4. CASE LookupFails(r) \/ EmptyAnswer(r)
  <2>1. nameAsk' = [nameAsk EXCEPT ![r].at = "failed"] /\ UNCHANGED <<nameSeen, nameWas>>
    BY <1>4 DEF LookupFails, EmptyAnswer
  <2>2. /\ nameAsk' \in [Lookups -> Asked] /\ nameAsk'[r].at = "failed"
        /\ \A q \in Lookups \ {r} : nameAsk'[q] = nameAsk[q]
    BY <2>1 DEF NameTypes, Asked
  <2>3. Witnessed(r)'
    BY <2>2 DEF Witnessed, At
  <2> QED
    BY <1>1, <1>2, <2>1, <2>2, <2>3, OthersWitnessed DEF NameTypes
<1>5. CASE Again(r)
  <2>1. /\ nameAsk' = [nameAsk EXCEPT ![r] = [at |-> "rest", name |-> NoAddress, ips |-> NoAddress]]
        /\ nameSeen' = [nameSeen EXCEPT ![r] = {}]
        /\ nameWas' = [nameWas EXCEPT ![r] = FALSE]
    BY <1>5 DEF Again
  <2>2. /\ nameAsk' \in [Lookups -> Asked] /\ nameAsk'[r].at = "rest"
        /\ nameSeen' \in [Lookups -> SUBSET AddressSets] /\ nameWas' \in [Lookups -> BOOLEAN]
        /\ \A q \in Lookups \ {r} : /\ nameAsk'[q] = nameAsk[q]
                                    /\ nameSeen'[q] = nameSeen[q] /\ nameWas'[q] = nameWas[q]
    BY <2>1 DEF NameTypes, Asked
  <2>3. Witnessed(r)'
    BY <2>2 DEF Witnessed, At
  <2> QED
    BY <1>1, <1>2, <2>2, <2>3, OthersWitnessed DEF NameTypes
<1> QED
  BY <1>3, <1>4, <1>5

\* The answer goes into the cache.
LEMMA StoreStep ==
  ASSUME IInv, NEW r \in Lookups, Store(r)
  PROVE  IInv'
<1> USE DEF IInv
<1> DEFINE x == [name |-> nameAsk[r].name, ips |-> nameAsk[r].ips]
<1>1. /\ At(r, "answered") /\ nameAsk[r].ips # {} /\ UNCHANGED <<nameOf, nameSeen, nameWas>>
      /\ nameAsk' = [nameAsk EXCEPT ![r].at = "done"]
      /\ nameCache' = (IF Cardinality(nameCache) >= NameCacheCap THEN {}
                       ELSE {e \in nameCache : e.name # x.name}) \cup {x}
  BY DEF Store
<1>2. nameAsk[r].name \in Names /\ nameAsk[r].ips \in nameSeen[r] /\ nameAsk[r].ips \in AddressSets
  BY <1>1 DEF Witnessed, NameTypes
<1>3. x \in CacheEntry /\ x.ips # {}
  BY <1>1, <1>2 DEF CacheEntry
<1> HIDE DEF x
<1>4. NameCacheSound' /\ IsFiniteSet(nameCache') /\ nameCache' \subseteq CacheEntry
  BY <1>1, <1>3, StoreSound DEF NameCacheSound, NameTypes
<1>5. /\ nameAsk' \in [Lookups -> Asked] /\ nameAsk'[r].at = "done" /\ nameAsk'[r].ips = nameAsk[r].ips
      /\ \A q \in Lookups \ {r} : nameAsk'[q] = nameAsk[q]
  BY <1>1 DEF NameTypes, Asked
<1>6. Witnessed(r)'
  BY <1>1, <1>2, <1>5 DEF Witnessed, At
<1> QED
  BY <1>1, <1>4, <1>5, <1>6, OthersWitnessed DEF NameTypes

\* A name gets other addresses, which every look-up of it has now seen.
LEMMA MoveStep ==
  ASSUME IInv, NEW n \in Names, NameMoves(n)
  PROVE  IInv'
<1> USE DEF IInv
<1>1. PICK ips \in AddressSets : nameOf' = [nameOf EXCEPT ![n] = ips]
  BY DEF NameMoves
<1>2. /\ UNCHANGED <<nameCache, nameAsk, nameWas>>
      /\ nameSeen' = [r \in Lookups |->
           IF nameAsk[r].at \in {"lookup", "answered"} /\ nameAsk[r].name = n
           THEN nameSeen[r] \cup {nameOf'[n]} ELSE nameSeen[r]]
  BY DEF NameMoves
<1>3. nameOf' \in [Names -> AddressSets] /\ nameOf'[n] = ips
      /\ \A m \in Names \ {n} : nameOf'[m] = nameOf[m]
  BY <1>1 DEF NameTypes
<1>4. NameTypes'
  BY <1>2, <1>3 DEF NameTypes
<1>5. NameCacheSound'
  BY <1>2 DEF NameCacheSound
<1>6. ASSUME NEW r \in Lookups PROVE Witnessed(r)'
  BY <1>2, <1>3 DEF Witnessed, At
<1> QED
  BY <1>4, <1>5, <1>6

LEMMA NextInv == IInv /\ [NameNext]_nameVars => IInv'
<1> SUFFICES ASSUME IInv, [NameNext]_nameVars PROVE IInv'
  OBVIOUS
<1>1. CASE UNCHANGED nameVars
  BY <1>1 DEF nameVars, IInv, NameTypes, NameCacheSound, Witnessed, At
<1>2. CASE NameNext
  BY <1>2, BeginStep, AnswerSteps, StoreStep, MoveStep DEF NameNext
<1> QED
  BY <1>1, <1>2

(***************************************************************************)
(* resolve_target_ips: however the look-ups of any number of requests and  *)
(* the changes of the names interleave, the cache keeps its bound and one  *)
(* entry a name, and a decision rests on addresses the name had while the  *)
(* request looked it up, or on those that were cached before.              *)
(***************************************************************************)
THEOREM DecisionsRestOnTheName == NameSpec => []NamesAreTrue
<1>1. IInv => NamesAreTrue
  BY DEF IInv, Witnessed, NamesAreTrue, DecidedOnTrueAddresses
<1> QED
  BY InitInv, NextInv, <1>1, PTL DEF NameSpec

(***************************************************************************)
(* Tunnel.                                                                 *)
(*                                                                         *)
(* A run is a sequence of the units from one number on.  The invariant     *)
(* says for each phase of the dial where the two streams stand: what a     *)
(* peer got, what is on its way and what waits is one run, from the number *)
(* behind the head that was read.                                          *)
(***************************************************************************)
Run(lo, q) == q \in Seq(Int) /\ \A i \in 1..Len(q) : q[i] = lo + i

LEMMA RunEmpty ==
  ASSUME NEW lo
  PROVE  Run(lo, << >>)
BY DEF Run

LEMMA RunAppend ==
  ASSUME NEW lo \in Int, NEW q, Run(lo, q), NEW u, u = lo + Len(q) + 1
  PROVE  Run(lo, Append(q, u)) /\ Len(Append(q, u)) = Len(q) + 1
BY DEF Run

LEMMA RunHead ==
  ASSUME NEW lo \in Int, NEW q, Run(lo, q), q # << >>
  PROVE  /\ Head(q) = lo + 1 /\ Run(lo + 1, Tail(q))
         /\ Len(q) \in Nat \ {0} /\ Len(Tail(q)) = Len(q) - 1
<1>1. q \in Seq(Int) /\ Len(q) \in Nat /\ Len(q) # 0
  BY EmptySeq DEF Run
<1>2. Tail(q) \in Seq(Int) /\ Len(Tail(q)) = Len(q) - 1
  BY <1>1, HeadTailProperties
<1>3. ASSUME NEW i \in 1..Len(Tail(q)) PROVE Tail(q)[i] = (lo + 1) + i
  <2>1. i + 1 \in 1..Len(q) /\ Tail(q)[i] = q[i + 1]
    BY <1>1, <1>2, <1>3
  <2> QED
    BY <1>1, <2>1 DEF Run
<1>4. Head(q) = lo + 1
  BY <1>1 DEF Run
<1> QED
  BY <1>1, <1>2, <1>3, <1>4 DEF Run

LEMMA RunParts ==
  ASSUME NEW lo \in Int, NEW q, Run(lo, q), NEW n \in 0..Len(q)
  PROVE  /\ Run(lo, Chunk(q, n)) /\ Len(Chunk(q, n)) = n
         /\ Run(lo + n, Rest(q, n)) /\ Len(Rest(q, n)) = Len(q) - n
<1>1. q \in Seq(Int) /\ Len(q) \in Nat /\ n \in Nat /\ n <= Len(q)
  BY DEF Run
<1>2. Chunk(q, n) \in Seq(Int) /\ Len(Chunk(q, n)) = n /\ \A i \in 1..n : Chunk(q, n)[i] = q[i]
  BY <1>1 DEF Chunk
<1>3. Rest(q, n) \in Seq(Int) /\ Len(Rest(q, n)) = Len(q) - n
  BY <1>1 DEF Rest
<1>4. ASSUME NEW i \in 1..(Len(q) - n) PROVE Rest(q, n)[i] = (lo + n) + i
  <2>1. n + i \in 1..Len(q) /\ Rest(q, n)[i] = q[n + i]
    BY <1>1, <1>4 DEF Rest
  <2> QED
    BY <1>1, <2>1 DEF Run
<1> QED
  BY <1>1, <1>2, <1>3, <1>4 DEF Run

LEMMA RunJoin ==
  ASSUME NEW lo \in Int, NEW p, NEW q, Run(lo, p), Run(lo + Len(p), q)
  PROVE  Run(lo, p \o q) /\ Len(p \o q) = Len(p) + Len(q)
<1>1. p \in Seq(Int) /\ q \in Seq(Int) /\ Len(p) \in Nat /\ Len(q) \in Nat
  BY DEF Run
<1>2. p \o q \in Seq(Int) /\ Len(p \o q) = Len(p) + Len(q)
  BY <1>1
<1>3. ASSUME NEW i \in 1..(Len(p) + Len(q)) PROVE (p \o q)[i] = lo + i
  <2>1. CASE i <= Len(p)
    <3>1. (p \o q)[i] = p[i]
      BY <1>1, <2>1
    <3> QED
      BY <1>1, <2>1, <3>1 DEF Run
  <2>2. CASE i > Len(p)
    <3>1. (p \o q)[i] = q[i - Len(p)] /\ i - Len(p) \in 1..Len(q)
      BY <1>1, <2>2
    <3> QED
      BY <1>1, <2>2, <3>1 DEF Run
  <2> QED
    BY <1>1, <2>1, <2>2
<1> QED
  BY <1>2, <1>3 DEF Run

LEMMA RunIsCount ==
  ASSUME NEW q, Run(0, q)
  PROVE  q = [i \in 1..Len(q) |-> i]
<1>1. q \in Seq(Int) /\ Len(q) \in Nat /\ q = [i \in 1..Len(q) |-> q[i]]
  BY DEF Run
<1>2. \A i \in 1..Len(q) : q[i] = i
  BY <1>1 DEF Run
<1> QED
  BY <1>1, <1>2

(***************************************************************************)
(* The inductive invariant: where the streams stand in every phase.        *)
(***************************************************************************)
\* Before the relay: what the upstream proxy answers, and the head of the upgrade, are numbered
\* without a gap up to the data they run into; Counted takes the rest of a head for no data yet.
Counted(u) == IF u < 0 THEN 0 ELSE u
Upgrades == tunForm.kind = "upgrade"
Rank(u) == IF Upgrades \/ u >= 0 THEN u ELSE u + 2
Answer(r) == IF Upgrades \/ r > 0 THEN r ELSE r - 2

RelayPhases == {"client", "leftover", "relay"}

\* The answer of the upstream proxy is read up to its end, and not to the end yet.
Proxied ==
  LET sent == tunSent["down"]
      lo == Rank(sent) - Len(tunIn["down"])
  IN /\ tunForm.via
     /\ \A i \in 1..Len(tunIn["down"]) : tunIn["down"][i] = Answer(lo + i)
     /\ Upgrades => lo \in {-4, -3} /\ sent <= ConnectHead
     /\ ~Upgrades => lo \in {-2, -1} /\ sent \notin {-1, 0}

\* The head of the upgrade is read, and not to its end yet.
Heading ==
  LET lo == tunSent["down"] - Len(tunIn["down"])
  IN Upgrades /\ lo \in {-2, -1} /\ Run(lo, tunIn["down"])

Quiet(d) == tunIn[d] = << >> /\ tunBuf[d] = << >> /\ tunOut[d] = << >> /\ tunGot[d] = << >>

Dialled ==
  /\ tunPhase \notin {"relay", "done"} => Quiet("up") /\ tunSent["up"] = 0
  /\ tunPhase \in {"connectRead", "tls", "hyper", "write", "head"} =>
       tunBuf["down"] = << >> /\ tunOut["down"] = << >> /\ tunGot["down"] = << >>
  /\ tunPhase = "rest" => tunForm = Unformed /\ Quiet("down") /\ tunSent["down"] = 0
  /\ tunPhase \in {"tcp", "connectWrite"} =>
       Quiet("down") /\ tunSent["down"] = Before(tunForm)
  /\ tunPhase = "connectWrite" => tunForm.via
  /\ tunPhase = "connectRead" => Proxied
  /\ tunPhase = "tls" => tunForm.tls
  /\ tunPhase = "hyper" => tunForm.kind = "request"
  /\ tunPhase = "write" => Upgrades
  /\ tunPhase \in {"tls", "write"} /\ Upgrades =>
       tunIn["down"] = << >> /\ tunSent["down"] = ConnectHead
  /\ tunPhase = "head" => Heading
  /\ tunPhase # "rest" => tunForm \in TunnelForms

\* The four places of a direction hold what its source sent, one after the other.
Line(got, out, buf, new, count) ==
  LET g == Len(got)
      o == g + Len(out)
      b == o + Len(buf)
  IN /\ Run(0, got) /\ Run(g, out) /\ Run(o, buf) /\ Run(b, new)
     /\ b + Len(new) = count

Flows(d) == Line(tunGot[d], tunOut[d], tunBuf[d], tunIn[d], Counted(tunSent[d]))

Flowing ==
  tunPhase \in RelayPhases =>
    /\ tunForm.kind \in {"upgrade", "blind"}
    /\ \A d \in Directions : Flows(d)
    /\ tunSent["up"] >= 0
    /\ tunSent["down"] >= 0 \/ (~Upgrades /\ tunSent["down"] = ConnectHead)

Pumping ==
  \A d \in Directions :
    /\ tunPhase \notin {"relay", "done"} => tunPump[d] = "off" /\ tunEnd[d] = "none"
    /\ tunPhase = "relay" => tunPump[d] # "off"
    /\ tunPump[d] \in {"read", "write", "shut"} => tunPhase = "relay"
    /\ tunPump[d] = "read" => tunBuf[d] = << >>
    /\ tunEnd[d] = "eof" =>
         /\ tunPump[d] \in {"shut", "ended"} /\ tunSource[d] # "open"
         /\ tunSent[d] <= Len(tunGot[d]) + Len(tunOut[d])

\* What was spent and what is left of the one budget.
Budgeted ==
  /\ tunPhase = "rest" => tunSpent = 0
  /\ tunPhase \in DialPhases => tunSpent + tunLeft <= DialTimeout
  /\ tunPhase = "hyper" => tunSpent + tunLeft <= 2 * DialTimeout

\* What stands in the client's answer is of the stream that is relayed.
Copied ==
  /\ tunPhase \notin RelayPhases \cup {"done"} => tunShown = {}
  /\ tunPhase \in RelayPhases => tunShown \subseteq 1..Counted(tunSent["down"])

TInv == TunnelTypeOK /\ Dialled /\ Flowing /\ Pumping /\ Budgeted /\ Copied

(***************************************************************************)
(* Types.                                                                  *)
(***************************************************************************)
AllPhases == {"rest", "write", "client", "leftover", "relay", "done"} \cup TimedPhases
Results == {"none", "refused", "timeout", "targetTls", "connected", "answered", "spoiled",
            "clientLeft", "relayed"}
Streams == [Directions -> Seq(UnitSet)]

DialTypes ==
  /\ tunForm \in TunnelForms \cup {Unformed} /\ tunPhase \in AllPhases
  /\ tunLeft \in 0..DialTimeout /\ tunSpent \in Nat
  /\ tunResult \in Results /\ tunReads \in [Peers -> BOOLEAN]
StreamTypes ==
  /\ tunSent \in [Directions -> ConnectHead - 2 .. UpUnits + DownUnits]
  /\ tunSource \in [Directions -> {"open", "closed", "reset"}]
  /\ tunIn \in Streams /\ tunBuf \in Streams /\ tunOut \in Streams /\ tunGot \in Streams
  /\ tunShown \subseteq UnitSet
PumpTypes ==
  /\ tunPump \in [Directions -> {"off", "read", "write", "shut", "ended"}]
  /\ tunArm \in [Directions -> 0..TunnelIdle]
  /\ tunEnd \in [Directions -> {"none", "eof", "error", "idle", "stuck"}]
  /\ tunAge \in 0..TunnelIdle /\ tunQuiet \in 0..TunnelIdle

LEMMA TypeParts == TunnelTypeOK <=> DialTypes /\ StreamTypes /\ PumpTypes
<1>1. (\A q \in {tunIn, tunBuf, tunOut, tunGot} : q \in Streams)
        <=> tunIn \in Streams /\ tunBuf \in Streams /\ tunOut \in Streams /\ tunGot \in Streams
  OBVIOUS
<1> QED
  BY <1>1 DEF TunnelTypeOK, DialTypes, StreamTypes, PumpTypes, AllPhases, Results, Streams

LEMMA TypePartsNext == TunnelTypeOK' <=> DialTypes' /\ StreamTypes' /\ PumpTypes'
BY TypeParts, PTL

LEMMA SourcesSend ==
  ASSUME StreamTypes, NEW d \in Directions, PeerSends(d)
  PROVE  StreamTypes'
<1> DEFINE u == NextUnit(d)
<1>1. u \in Int /\ u >= ConnectHead - 1 /\ u <= UpUnits + DownUnits
  <2>1. UpUnits \in Nat /\ DownUnits \in Nat /\ tunSent[d] \in Int /\ tunSent[d] >= ConnectHead - 2
    BY TunnelAssumption DEF StreamTypes, ConnectHead
  <2>2. u <= UnitsOf(d) /\ UnitsOf(d) <= UpUnits + DownUnits
    BY <2>1 DEF PeerSends, UnitsOf
  <2>3. u = 1 \/ u = tunSent[d] + 1
    BY DEF NextUnit
  <2> QED
    BY <2>1, <2>2, <2>3 DEF UnitsOf, ConnectHead
<1>2. u \in UnitSet
  BY <1>1, TunnelAssumption DEF UnitSet, ConnectHead
<1>3. tunSent' \in [Directions -> ConnectHead - 2 .. UpUnits + DownUnits]
  BY <1>1, TunnelAssumption DEF StreamTypes, PeerSends, ConnectHead
<1>4. tunIn' \in Streams
  BY <1>2 DEF StreamTypes, PeerSends, Streams
<1> QED
  BY <1>3, <1>4 DEF StreamTypes, PeerSends

\* The first unit of a stream taken off.
LEMMA StreamTail ==
  ASSUME NEW q \in Streams, NEW d \in Directions, q[d] # << >>
  PROVE  /\ Head(q[d]) \in UnitSet
         /\ [q EXCEPT ![d] = Tail(@)] \in Streams
<1>1. q[d] \in Seq(UnitSet)
  BY DEF Streams
<1>2. Head(q[d]) \in UnitSet /\ Tail(q[d]) \in Seq(UnitSet)
  BY <1>1
<1> QED
  BY <1>2 DEF Streams

LEMMA StreamGrown ==
  ASSUME NEW q \in Streams, NEW d \in Directions, NEW u \in UnitSet
  PROVE  [q EXCEPT ![d] = Append(@, u)] \in Streams
BY DEF Streams

LEMMA StreamParts ==
  ASSUME NEW q \in Streams, NEW d \in Directions, NEW n \in 0..Len(q[d])
  PROVE  Chunk(q[d], n) \in Seq(UnitSet) /\ Rest(q[d], n) \in Seq(UnitSet)
<1>1. q[d] \in Seq(UnitSet) /\ Len(q[d]) \in Nat /\ n \in Nat /\ n <= Len(q[d])
  BY DEF Streams
<1> QED
  BY <1>1 DEF Chunk, Rest

LEMMA EnterTypes ==
  ASSUME NEW phase \in AllPhases, NEW left \in 0..DialTimeout, Enter(phase, left), DialTypes,
         tunForm' \in TunnelForms \cup {Unformed}, tunSpent' \in Nat, tunResult' \in Results,
         tunReads' \in [Peers -> BOOLEAN]
  PROVE  DialTypes'
BY DEF Enter, DialTypes

LEMMA FinishTypes ==
  ASSUME NEW result \in Results, Finish(result), DialTypes,
         UNCHANGED <<tunForm, tunSpent, tunReads>>
  PROVE  DialTypes'
BY TunnelAssumption DEF Finish, Enter, DialTypes, AllPhases

LEMMA ConnectedTypes ==
  ASSUME Secure \/ Connected, DialTypes, UNCHANGED <<tunForm, tunSpent, tunResult, tunReads>>
  PROVE  DialTypes'
<1>1. DialTimeout \in Nat
  BY TunnelAssumption
<1>2. CASE Connected
  BY <1>1, <1>2 DEF Connected, Enter, DialTypes, AllPhases, TimedPhases
<1>3. CASE Secure /\ ~Connected
  BY <1>1, <1>3 DEF Secure, Enter, DialTypes, AllPhases, TimedPhases, DialPhases
<1> QED
  BY <1>2, <1>3

LEMMA TypesKept ==
  ASSUME StreamTypes, UNCHANGED tunStreams
  PROVE  StreamTypes'
BY DEF StreamTypes, tunStreams

LEMMA PumpTypesKept ==
  ASSUME PumpTypes, UNCHANGED tunPumps
  PROVE  PumpTypes'
BY DEF PumpTypes, tunPumps

LEMMA DialTypesKept ==
  ASSUME DialTypes, UNCHANGED tunDial
  PROVE  DialTypes'
BY DEF DialTypes, tunDial

\* The steps of the dial that touch neither a stream nor a pump.
LEMMA DialSteps ==
  ASSUME DialTypes, StreamTypes, PumpTypes,
         TcpConnected \/ TcpFails \/ ConnectWritten \/ TlsDone \/ HyperDone \/ DialBreaks
           \/ DialExpires \/ WriteUpgrade \/ ClientUpgraded \/ ClientLeaves \/ RelayEnds
  PROVE  DialTypes' /\ StreamTypes' /\ PumpTypes'
<1> USE TunnelAssumption
<1> DEFINE Kept == UNCHANGED <<tunForm, tunSpent, tunReads>>
<1>1. ASSUME TcpFails \/ HyperDone \/ DialBreaks \/ DialExpires \/ ClientLeaves \/ RelayEnds
      PROVE  DialTypes'
  <2>1. Kept /\ \E r \in Results : Finish(r)
    BY <1>1 DEF TcpFails, HyperDone, DialBreaks, DialExpires, ClientLeaves, RelayEnds, Results
  <2> QED
    BY <2>1, FinishTypes
<1>2. ASSUME TlsDone PROVE DialTypes'
  BY <1>2, ConnectedTypes DEF TlsDone
<1>3. ASSUME TcpConnected PROVE DialTypes'
  <2>1. CASE tunForm.via
    BY <1>3, <2>1, EnterTypes DEF TcpConnected, DialTypes, AllPhases, TimedPhases, DialPhases
  <2>2. CASE ~tunForm.via
    BY <1>3, <2>2, ConnectedTypes DEF TcpConnected
  <2> QED
    BY <2>1, <2>2
<1>4. ASSUME ConnectWritten \/ WriteUpgrade \/ ClientUpgraded PROVE DialTypes'
  BY <1>4 DEF ConnectWritten, WriteUpgrade, ClientUpgraded, Enter, DialTypes, AllPhases,
              TimedPhases, DialPhases
<1>5. UNCHANGED tunStreams /\ UNCHANGED tunPumps
  BY DEF TcpConnected, TcpFails, ConnectWritten, TlsDone, HyperDone, DialBreaks, DialExpires,
         WriteUpgrade, ClientUpgraded, ClientLeaves, RelayEnds
<1> QED
  BY <1>1, <1>2, <1>3, <1>4, <1>5, TypesKept, PumpTypesKept

LEMMA DialTyped ==
  ASSUME DialTypes, StreamTypes, PumpTypes, NEW f \in TunnelForms, NEW reads \in [Peers -> BOOLEAN],
         Dial(f, reads)
  PROVE  DialTypes' /\ StreamTypes' /\ PumpTypes'
<1>1. DialTypes'
  BY TunnelAssumption DEF Dial, Enter, DialTypes, AllPhases, TimedPhases, DialPhases
<1>2. Before(f) \in ConnectHead - 2 .. UpUnits + DownUnits
  BY TunnelAssumption DEF Before, ConnectHead
<1>3. StreamTypes'
  BY <1>2 DEF Dial, StreamTypes
<1>4. PumpTypes'
  BY PumpTypesKept DEF Dial
<1> QED
  BY <1>1, <1>3, <1>4

LEMMA ReadConnectTyped ==
  ASSUME DialTypes, StreamTypes, PumpTypes, ReadConnect
  PROVE  DialTypes' /\ StreamTypes' /\ PumpTypes'
<1>1. DialTypes'
  <2>1. CASE UNCHANGED <<tunPhase, tunLeft, tunResult>>
    BY <2>1 DEF ReadConnect, DialTypes
  <2>2. CASE Secure /\ UNCHANGED tunResult
    BY <2>2, ConnectedTypes DEF ReadConnect
  <2>3. CASE Finish("targetTls")
    BY <2>3, FinishTypes DEF ReadConnect, Results
  <2> QED
    BY <2>1, <2>2, <2>3 DEF ReadConnect
<1>2. StreamTypes'
  BY StreamTail DEF ReadConnect, StreamTypes, Directions
<1>3. PumpTypes'
  BY PumpTypesKept DEF ReadConnect
<1> QED
  BY <1>1, <1>2, <1>3

LEMMA LeftoverTyped ==
  ASSUME NEW q \in Seq(UnitSet), UpgradeHead \in Units(q)
  PROVE  Leftover(q) \in Seq(UnitSet)
<1>1. PICK i \in DOMAIN q : i = CHOOSE k \in DOMAIN q : q[k] = UpgradeHead
  BY DEF Units
<1>2. Rest(q, i) \in Seq(UnitSet)
  BY DEF Rest
<1> QED
  BY <1>1, <1>2 DEF Leftover

LEMMA ReadHeadTyped ==
  ASSUME DialTypes, StreamTypes, PumpTypes, NEW n \in Nat, ReadHead(n)
  PROVE  DialTypes' /\ StreamTypes' /\ PumpTypes'
<1> DEFINE chunk == Chunk(tunIn["down"], n)
<1>0. "down" \in Directions /\ tunIn \in Streams /\ Len(tunIn["down"]) \in Nat
  BY DEF StreamTypes, Streams, Directions
<1>1. n \in 0..Len(tunIn["down"])
  BY <1>0 DEF ReadHead
<1>2. chunk \in Seq(UnitSet) /\ Rest(tunIn["down"], n) \in Seq(UnitSet)
  BY <1>0, <1>1, StreamParts
<1>3. DialTypes'
  <2>1. CASE Enter("head", DialTimeout) /\ UNCHANGED tunResult
    BY <2>1, TunnelAssumption DEF ReadHead, Enter, DialTypes, AllPhases, TimedPhases
  <2>2. CASE Enter("client", 0) /\ UNCHANGED tunResult
    BY <2>2, TunnelAssumption DEF ReadHead, Enter, DialTypes, AllPhases
  <2>3. CASE Finish("answered") \/ Finish("spoiled")
    BY <2>3, FinishTypes DEF ReadHead, Results
  <2> QED
    BY <2>1, <2>2, <2>3 DEF ReadHead, UpgradeResponse
<1>4. tunIn' \in Streams
  BY <1>0, <1>2 DEF ReadHead, Streams
<1>5. tunBuf' \in Streams
  <2>1. CASE UNCHANGED tunBuf
    BY <2>1 DEF StreamTypes
  <2>2. CASE UpgradeHead \in Units(chunk) /\ tunBuf' = [tunBuf EXCEPT !["down"] = Leftover(chunk)]
    BY <1>0, <1>2, <2>2, LeftoverTyped DEF StreamTypes, Streams
  <2> QED
    BY <2>1, <2>2 DEF ReadHead, UpgradeResponse
<1>6. tunShown' \subseteq UnitSet
  <2>1. CASE UNCHANGED tunShown
    BY <2>1 DEF StreamTypes
  <2>2. CASE UpgradeHead \in Units(chunk) /\ tunShown' \in SUBSET Units(Leftover(chunk))
    <3>1. Leftover(chunk) \in Seq(UnitSet)
      BY <1>2, <2>2, LeftoverTyped
    <3>2. Units(Leftover(chunk)) \subseteq UnitSet
      BY <3>1 DEF Units
    <3> QED
      BY <2>2, <3>2
  <2> QED
    BY <2>1, <2>2 DEF ReadHead, UpgradeResponse
<1>7. StreamTypes'
  BY <1>4, <1>5, <1>6 DEF StreamTypes, ReadHead
<1>8. PumpTypes'
  BY PumpTypesKept DEF ReadHead
<1> QED
  BY <1>3, <1>7, <1>8

LEMMA PutTyped ==
  ASSUME StreamTypes, NEW d \in Directions, PutOne(d)
  PROVE  tunOut' \in Streams /\ tunBuf' \in Streams
<1>1. Head(tunBuf[d]) \in UnitSet /\ tunBuf' \in Streams
  BY StreamTail DEF PutOne, StreamTypes
<1>2. tunOut' \in Streams
  BY <1>1, StreamGrown DEF PutOne, StreamTypes
<1> QED
  BY <1>1, <1>2

LEMMA LeftoverStepsTyped ==
  ASSUME DialTypes, StreamTypes, PumpTypes, WriteLeftover \/ StartRelay
  PROVE  DialTypes' /\ StreamTypes' /\ PumpTypes'
<1>1. CASE WriteLeftover
  <2>1. StreamTypes'
    BY <1>1, PutTyped DEF WriteLeftover, StreamTypes, Directions
  <2> QED
    BY <1>1, <2>1, DialTypesKept, PumpTypesKept DEF WriteLeftover
<1>2. CASE StartRelay
  <2>1. DialTypes'
    BY <1>2, TunnelAssumption DEF StartRelay, Enter, DialTypes, AllPhases
  <2>2. PumpTypes'
    BY <1>2, TunnelAssumption DEF StartRelay, PumpTypes
  <2> QED
    BY <1>2, <2>1, <2>2, TypesKept DEF StartRelay
<1> QED
  BY <1>1, <1>2

LEMMA PumpReadsTyped ==
  ASSUME DialTypes, StreamTypes, PumpTypes, NEW d \in Directions, NEW n \in Nat, PumpReads(d, n)
  PROVE  DialTypes' /\ StreamTypes' /\ PumpTypes'
<1>1. tunIn \in Streams /\ Len(tunIn[d]) \in Nat
  BY DEF StreamTypes, Streams
<1>2. Chunk(tunIn[d], n) \in Seq(UnitSet) /\ Rest(tunIn[d], n) \in Seq(UnitSet)
  BY <1>1, StreamParts DEF PumpReads
<1>3. StreamTypes'
  BY <1>1, <1>2 DEF PumpReads, StreamTypes, Streams
<1>4. PumpTypes'
  BY TunnelAssumption DEF PumpReads, PumpTypes
<1> QED
  BY <1>3, <1>4, DialTypesKept DEF PumpReads

LEMMA PumpStopsTyped ==
  ASSUME DialTypes, StreamTypes, PumpTypes, NEW d \in Directions,
         PumpEof(d) \/ PumpFails(d) \/ ReadExpires(d) \/ WriteExpires(d) \/ Shutdown(d)
  PROVE  DialTypes' /\ StreamTypes' /\ PumpTypes'
<1>1. UNCHANGED tunDial /\ UNCHANGED tunStreams
  BY DEF PumpEof, PumpFails, ReadExpires, WriteExpires, Shutdown
<1>2. ASSUME PumpEof(d) \/ PumpFails(d) \/ WriteExpires(d) \/ Shutdown(d) PROVE PumpTypes'
  BY <1>2 DEF PumpEof, PumpFails, WriteExpires, Shutdown, Stops, PumpTypes
<1>3. ASSUME ReadExpires(d) PROVE PumpTypes'
  <2>1. CASE tunAge >= TunnelIdle
    BY <1>3, <2>1 DEF ReadExpires, Stops, PumpTypes
  <2>2. CASE ~(tunAge >= TunnelIdle)
    <3>1. TunnelIdle - tunAge \in 0..TunnelIdle
      BY <2>2, TunnelAssumption DEF PumpTypes
    <3> QED
      BY <1>3, <2>2, <3>1 DEF ReadExpires, PumpTypes
  <2> QED
    BY <2>1, <2>2
<1> QED
  BY <1>1, <1>2, <1>3, DialTypesKept, TypesKept

LEMMA PumpWritesTyped ==
  ASSUME DialTypes, StreamTypes, PumpTypes, NEW d \in Directions, PumpWrites(d)
  PROVE  DialTypes' /\ StreamTypes' /\ PumpTypes'
<1>1. StreamTypes'
  BY PutTyped DEF PumpWrites, StreamTypes
<1>2. TunnelIdle \in Nat
  BY TunnelAssumption
<1>3. tunPump' \in [Directions -> {"off", "read", "write", "shut", "ended"}]
  BY DEF PumpWrites, PumpTypes
<1>4. tunArm' \in [Directions -> 0..TunnelIdle] /\ tunAge' \in 0..TunnelIdle /\ tunQuiet' \in 0..TunnelIdle
  BY <1>2 DEF PumpWrites, PumpTypes
<1>5. tunEnd' \in [Directions -> {"none", "eof", "error", "idle", "stuck"}]
  BY DEF PumpWrites, PumpTypes
<1>6. PumpTypes'
  BY <1>3, <1>4, <1>5 DEF PumpTypes
<1> QED
  BY <1>1, <1>6, DialTypesKept DEF PumpWrites

LEMMA TickTyped ==
  ASSUME DialTypes, StreamTypes, PumpTypes, TunnelTick
  PROVE  DialTypes' /\ StreamTypes' /\ PumpTypes'
<1>1. StreamTypes'
  BY TypesKept DEF TunnelTick
<1>2. CASE tunPhase \in TimedPhases /\ tunLeft > 0 /\ tunLeft' = tunLeft - 1
             /\ tunSpent' = tunSpent + 1 /\ UNCHANGED tunPumps
  BY <1>1, <1>2, TunnelAssumption, PumpTypesKept DEF TunnelTick, DialTypes
<1>3. CASE /\ \A d \in Directions : Waiting(d) => tunArm[d] > 0
           /\ tunArm' = [d \in Directions |-> IF Waiting(d) THEN tunArm[d] - 1 ELSE tunArm[d]]
           /\ tunAge' = Later(tunAge) /\ tunQuiet' = Later(tunQuiet)
           /\ UNCHANGED <<tunLeft, tunSpent, tunPump, tunEnd>>
  <2>1. tunArm' \in [Directions -> 0..TunnelIdle]
    BY <1>3, TunnelAssumption DEF PumpTypes
  <2>2. PumpTypes'
    BY <1>3, <2>1, TunnelAssumption DEF PumpTypes, Later
  <2> QED
    BY <1>1, <1>3, <2>2 DEF TunnelTick, DialTypes
<1> QED
  BY <1>2, <1>3 DEF TunnelTick

LEMMA PeersTyped ==
  ASSUME DialTypes, StreamTypes, PumpTypes, NEW d \in Directions,
         PeerSends(d) \/ PeerCloses(d) \/ PeerTakes(d)
  PROVE  DialTypes' /\ StreamTypes' /\ PumpTypes'
<1>1. UNCHANGED tunDial /\ UNCHANGED tunPumps
  BY DEF PeerSends, PeerCloses, PeerTakes
<1>2. ASSUME PeerCloses(d) PROVE StreamTypes'
  BY <1>2 DEF PeerCloses, StreamTypes
<1>3. ASSUME PeerTakes(d) PROVE StreamTypes'
  <2>1. Head(tunOut[d]) \in UnitSet /\ tunOut' \in Streams
    BY <1>3, StreamTail DEF PeerTakes, StreamTypes
  <2>2. tunGot' \in Streams
    BY <1>3, <2>1, StreamGrown DEF PeerTakes, StreamTypes
  <2> QED
    BY <1>3, <2>1, <2>2 DEF PeerTakes, StreamTypes
<1> QED
  BY <1>1, <1>2, <1>3, SourcesSend, DialTypesKept, PumpTypesKept

LEMMA TypeStep == TunnelTypeOK /\ [TunnelNext]_tunVars => TunnelTypeOK'
<1> SUFFICES ASSUME DialTypes, StreamTypes, PumpTypes, [TunnelNext]_tunVars
             PROVE  DialTypes' /\ StreamTypes' /\ PumpTypes'
  BY TypeParts, TypePartsNext
<1>1. CASE UNCHANGED tunVars
  BY <1>1, DialTypesKept, TypesKept, PumpTypesKept DEF tunVars
<1>2. CASE \E f \in TunnelForms, reads \in [Peers -> BOOLEAN] : Dial(f, reads)
  BY <1>2, DialTyped
<1>3. CASE TcpConnected \/ TcpFails \/ ConnectWritten \/ TlsDone \/ HyperDone \/ DialBreaks
             \/ DialExpires \/ WriteUpgrade \/ ClientUpgraded \/ ClientLeaves \/ RelayEnds
  BY <1>3, DialSteps
<1>4. CASE ReadConnect
  BY <1>4, ReadConnectTyped
<1>5. CASE WriteLeftover \/ StartRelay
  BY <1>5, LeftoverStepsTyped
<1>6. CASE TunnelTick
  BY <1>6, TickTyped
<1>7. ASSUME NEW n \in 1..(DownUnits + 2), ReadHead(n) PROVE DialTypes' /\ StreamTypes' /\ PumpTypes'
  <2>1. n \in Nat
    BY TunnelAssumption
  <2> QED
    BY <1>7, <2>1, ReadHeadTyped
<1>8. ASSUME NEW d \in Directions,
             PumpEof(d) \/ PumpFails(d) \/ ReadExpires(d) \/ WriteExpires(d) \/ Shutdown(d)
      PROVE  DialTypes' /\ StreamTypes' /\ PumpTypes'
  BY <1>8, PumpStopsTyped
<1>9. ASSUME NEW d \in Directions, PumpWrites(d) PROVE DialTypes' /\ StreamTypes' /\ PumpTypes'
  BY <1>9, PumpWritesTyped
<1>10. ASSUME NEW d \in Directions, NEW n \in 1..UnitsOf(d), PumpReads(d, n)
       PROVE  DialTypes' /\ StreamTypes' /\ PumpTypes'
  <2>1. n \in Nat
    BY TunnelAssumption DEF UnitsOf
  <2> QED
    BY <1>10, <2>1, PumpReadsTyped
<1>11. ASSUME NEW d \in Directions, PeerSends(d) \/ PeerCloses(d) \/ PeerTakes(d)
       PROVE  DialTypes' /\ StreamTypes' /\ PumpTypes'
  BY <1>11, PeersTyped
<1> QED
  BY <1>1, <1>2, <1>3, <1>4, <1>5, <1>6, <1>7, <1>8, <1>9, <1>10, <1>11 DEF TunnelNext, TunnelTask

(***************************************************************************)
(* The budget of a dial.                                                   *)
(***************************************************************************)
LEMMA ConnectedBudget ==
  ASSUME DialTypes, Budgeted, tunPhase \in DialPhases, tunSpent' = tunSpent, Secure \/ Connected
  PROVE  Budgeted'
<1>1. /\ tunSpent \in Nat /\ tunLeft \in Nat /\ DialTimeout \in Nat
      /\ tunSpent + tunLeft <= DialTimeout
  BY TunnelAssumption DEF DialTypes, Budgeted
<1>2. CASE Connected
  <2>1. CASE tunPhase' = "hyper" /\ tunLeft' = DialTimeout
    BY <1>1, <2>1 DEF Budgeted, DialPhases
  <2>2. CASE tunPhase' \in {"write", "client"}
    BY <2>2 DEF Budgeted, DialPhases
  <2> QED
    BY <1>2, <2>1, <2>2 DEF Connected, Enter
<1>3. CASE tunPhase' = "tls" /\ tunLeft' = tunLeft
  BY <1>1, <1>3 DEF Budgeted, DialPhases
<1> QED
  BY <1>2, <1>3 DEF Secure, Enter

LEMMA BudgetKept ==
  ASSUME Budgeted, UNCHANGED <<tunPhase, tunLeft, tunSpent>>
  PROVE  Budgeted'
BY DEF Budgeted

\* Past the dial there is no budget to keep.
LEMMA BudgetOver ==
  ASSUME tunPhase' \in {"write", "head", "client", "leftover", "relay", "done"}
  PROVE  Budgeted'
BY DEF Budgeted, DialPhases

LEMMA TickBudget ==
  ASSUME DialTypes, Budgeted, TunnelTick
  PROVE  Budgeted'
<1>1. CASE tunPhase \in TimedPhases /\ tunLeft > 0 /\ tunLeft' = tunLeft - 1
             /\ tunSpent' = tunSpent + 1
  <2>1. tunSpent' + tunLeft' = tunSpent + tunLeft /\ tunPhase' = tunPhase
    BY <1>1, TunnelAssumption DEF DialTypes, TunnelTick
  <2>2. tunPhase # "rest"
    BY <1>1 DEF TimedPhases, DialPhases
  <2> QED
    BY <2>1, <2>2 DEF Budgeted
<1>2. CASE UNCHANGED <<tunLeft, tunSpent>>
  BY <1>2, BudgetKept DEF TunnelTick
<1> QED
  BY <1>1, <1>2 DEF TunnelTick

LEMMA BudgetStep == TunnelTypeOK /\ Budgeted /\ [TunnelNext]_tunVars => Budgeted'
<1> SUFFICES ASSUME DialTypes, Budgeted, [TunnelNext]_tunVars PROVE Budgeted'
  BY TypeParts
<1>1. CASE UNCHANGED tunVars
  BY <1>1, BudgetKept DEF tunVars, tunDial
<1>2. ASSUME NEW f \in TunnelForms, NEW reads \in [Peers -> BOOLEAN], Dial(f, reads)
      PROVE  Budgeted'
  BY <1>2, TunnelAssumption DEF Dial, Enter, Budgeted, DialPhases
<1>3. ASSUME TcpConnected PROVE Budgeted'
  <2>1. CASE tunForm.via
    BY <1>3, <2>1 DEF TcpConnected, Enter, Budgeted, DialPhases
  <2>2. CASE ~tunForm.via
    BY <1>3, <2>2, ConnectedBudget DEF TcpConnected, DialPhases
  <2> QED
    BY <2>1, <2>2
<1>4. ASSUME ConnectWritten PROVE Budgeted'
  BY <1>4 DEF ConnectWritten, Enter, Budgeted, DialPhases
<1>5. ASSUME ReadConnect PROVE Budgeted'
  <2>1. CASE UNCHANGED <<tunPhase, tunLeft, tunResult>>
    BY <1>5, <2>1, BudgetKept DEF ReadConnect
  <2>2. CASE Secure
    BY <1>5, <2>2, ConnectedBudget DEF ReadConnect, DialPhases
  <2>3. CASE Finish("targetTls")
    BY <2>3, BudgetOver DEF Finish, Enter
  <2> QED
    BY <1>5, <2>1, <2>2, <2>3 DEF ReadConnect
<1>6. ASSUME TlsDone PROVE Budgeted'
  BY <1>6, ConnectedBudget DEF TlsDone, DialPhases
<1>7. ASSUME TcpFails \/ HyperDone \/ DialBreaks \/ DialExpires \/ ClientLeaves \/ RelayEnds
             \/ WriteUpgrade \/ ClientUpgraded \/ StartRelay
      PROVE  Budgeted'
  BY <1>7, BudgetOver DEF TcpFails, HyperDone, DialBreaks, DialExpires, ClientLeaves, RelayEnds,
     WriteUpgrade, ClientUpgraded, StartRelay, Finish, Enter
<1>8. ASSUME NEW n \in 1..(DownUnits + 2), ReadHead(n) PROVE Budgeted'
  BY <1>8, BudgetOver DEF ReadHead, UpgradeResponse, Finish, Enter
<1>9. ASSUME TunnelTick PROVE Budgeted'
  BY <1>9, TickBudget
<1>10. ASSUME WriteLeftover PROVE Budgeted'
  BY <1>10, BudgetKept DEF WriteLeftover, tunDial
<1>11. ASSUME NEW d \in Directions,
              PumpEof(d) \/ PumpFails(d) \/ ReadExpires(d) \/ WriteExpires(d) \/ Shutdown(d)
                \/ PumpWrites(d) \/ PeerSends(d) \/ PeerCloses(d) \/ PeerTakes(d)
       PROVE  Budgeted'
  BY <1>11, BudgetKept DEF PumpEof, PumpFails, ReadExpires, WriteExpires, Shutdown, PumpWrites,
     PeerSends, PeerCloses, PeerTakes, tunDial
<1>12. ASSUME NEW d \in Directions, NEW n \in 1..UnitsOf(d), PumpReads(d, n) PROVE Budgeted'
  BY <1>12, BudgetKept DEF PumpReads, tunDial
<1> QED
  BY <1>1, <1>2, <1>3, <1>4, <1>5, <1>6, <1>7, <1>8, <1>9, <1>10, <1>11, <1>12
     DEF TunnelNext, TunnelTask

(***************************************************************************)
(* The streams.                                                            *)
(***************************************************************************)
Placed == Dialled /\ Flowing /\ Pumping

LEMMA FormFacts ==
  ASSUME tunForm \in TunnelForms
  PROVE  tunForm.kind \in {"request", "upgrade", "blind"} /\ (tunForm.kind = "blind" => ~tunForm.tls)
BY TunnelAssumption

\* Nothing has happened in the up direction before the relay, and the pumps stand.
UpRests ==
  /\ Quiet("up") /\ tunSent["up"] = 0
  /\ \A d \in Directions : tunPump[d] = "off" /\ tunEnd[d] = "none"

DownEmpty == tunBuf["down"] = << >> /\ tunOut["down"] = << >> /\ tunGot["down"] = << >>

LEMMA RestsBefore ==
  ASSUME Placed, tunPhase \notin {"relay", "done"}
  PROVE  UpRests
BY DEF Placed, Dialled, Pumping, UpRests

LEMMA RestsKept ==
  ASSUME UpRests, UNCHANGED tunPumps, tunSent'["up"] = tunSent["up"], tunIn'["up"] = tunIn["up"],
         tunBuf'["up"] = tunBuf["up"], tunOut'["up"] = tunOut["up"], tunGot'["up"] = tunGot["up"]
  PROVE  UpRests'
BY DEF UpRests, Quiet, tunPumps

\* While the pumps stand, nothing is to be shown of them.
LEMMA RestsPump ==
  ASSUME UpRests, tunPhase # "relay"
  PROVE  Pumping
BY DEF UpRests, Pumping

LEMMA RestsPumpNext ==
  ASSUME UpRests', tunPhase' # "relay"
  PROVE  Pumping'
BY DEF UpRests, Pumping

LEMMA QuietFlows ==
  ASSUME UpRests'
  PROVE  Flows("up")'
<1>1. Run(0, << >>) /\ Len(<< >>) = 0
  BY RunEmpty
<1> QED
  BY <1>1 DEF UpRests, Quiet, Flows, Line, Counted

\* The stream stands at the start of what a tunnel carries.
Begun ==
  /\ DownEmpty /\ Run(0, tunIn["down"]) /\ Len(tunIn["down"]) = Counted(tunSent["down"])
  /\ tunSent["down"] >= 0 \/ (~Upgrades /\ tunSent["down"] = ConnectHead)

LEMMA BegunFlows ==
  ASSUME Begun'
  PROVE  Flows("down")'
<1>1. Run(0, << >>) /\ Len(<< >>) = 0 /\ Len(tunIn'["down"]) \in Nat
  BY RunEmpty DEF Begun, Run
<1> QED
  BY <1>1 DEF Begun, DownEmpty, Flows, Line

\* Where a dial goes on once its stream is there.
LEMMA ConnectedPlaced ==
  ASSUME tunForm \in TunnelForms, tunForm' = tunForm, UpRests', DownEmpty',
         Upgrades => tunIn'["down"] = << >> /\ tunSent'["down"] = ConnectHead,
         tunForm.kind = "blind" => Begun',
         Secure \/ (Connected /\ (tunForm.kind = "blind" => ~tunForm.tls))
  PROVE  Placed'
<1>1. CASE tunPhase' = "tls" /\ tunForm.tls
  BY <1>1, RestsPumpNext DEF Placed, Dialled, Flowing, RelayPhases, UpRests, DownEmpty, Upgrades
<1>2. CASE tunPhase' = "hyper" /\ tunForm.kind = "request"
  BY <1>2, RestsPumpNext DEF Placed, Dialled, Flowing, RelayPhases, UpRests, DownEmpty, Upgrades
<1>3. CASE tunPhase' = "write" /\ tunForm.kind = "upgrade"
  BY <1>3, RestsPumpNext DEF Placed, Dialled, Flowing, RelayPhases, UpRests, DownEmpty, Upgrades
<1>4. CASE tunPhase' = "client" /\ tunForm.kind = "blind"
  <2>1. Flows("up")' /\ Flows("down")'
    BY <1>4, QuietFlows, BegunFlows
  <2>2. Flowing'
    BY <1>4, <2>1 DEF Flowing, RelayPhases, Begun, UpRests, Directions, Upgrades
  <2>3. Dialled'
    BY <1>4 DEF Dialled, UpRests
  <2> QED
    BY <1>4, <2>2, <2>3, RestsPumpNext DEF Placed
<1> QED
  BY <1>1, <1>2, <1>3, <1>4, FormFacts DEF Secure, Connected, Enter

\* A dial or a tunnel that is over moves nothing any more.
LEMMA FinishPlaced ==
  ASSUME Placed, tunForm' = tunForm, tunPhase # "rest", tunPhase' = "done", UNCHANGED tunStreams, UNCHANGED tunPumps,
         tunPhase # "relay" \/ \A d \in Directions : tunPump[d] = "ended"
  PROVE  Placed'
<1>1. Dialled'
  BY DEF Placed, Dialled
<1>2. Flowing'
  BY DEF Flowing, RelayPhases
<1>3. Pumping'
  BY DEF Placed, Pumping, tunStreams, tunPumps
<1> QED
  BY <1>1, <1>2, <1>3 DEF Placed

LEMMA Finishes ==
  ASSUME Placed,
         TcpFails \/ HyperDone \/ DialBreaks \/ DialExpires \/ ClientLeaves \/ RelayEnds
  PROVE  Placed'
<1>1. /\ tunForm' = tunForm /\ tunPhase' = "done" /\ UNCHANGED tunStreams /\ UNCHANGED tunPumps
      /\ tunPhase # "rest"
  BY DEF TcpFails, HyperDone, DialBreaks, DialExpires, ClientLeaves, RelayEnds, Finish, Enter,
         TimedPhases, DialPhases
<1>2. tunPhase # "relay" \/ \A d \in Directions : tunPump[d] = "ended"
  BY DEF TcpFails, HyperDone, DialBreaks, DialExpires, ClientLeaves, RelayEnds, TimedPhases, DialPhases
<1> QED
  BY <1>1, <1>2, FinishPlaced

LEMMA DialPlaced ==
  ASSUME StreamTypes, Placed, NEW f \in TunnelForms, NEW reads, Dial(f, reads)
  PROVE  Placed'
<1>1. UpRests
  BY RestsBefore DEF Dial
<1>2. UpRests'
  BY <1>1, RestsKept DEF Dial, StreamTypes, Directions
<1>3. Quiet("down")' /\ tunSent'["down"] = Before(f) /\ tunForm' = f /\ tunPhase' = "tcp"
  BY DEF Dial, Enter, Placed, Dialled, Quiet, StreamTypes, Directions
<1>4. Dialled'
  BY <1>2, <1>3 DEF Dialled, UpRests
<1>5. Flowing'
  BY <1>3 DEF Flowing, RelayPhases
<1> QED
  BY <1>2, <1>3, <1>4, <1>5, RestsPumpNext DEF Placed

LEMMA DownKept ==
  ASSUME DownEmpty, UNCHANGED <<tunBuf, tunOut, tunGot>>
  PROVE  DownEmpty'
BY DEF DownEmpty

LEMMA AllRestsKept ==
  ASSUME UpRests, UNCHANGED tunStreams, UNCHANGED tunPumps
  PROVE  UpRests'
BY DEF UpRests, Quiet, tunStreams, tunPumps

LEMMA TcpPlaced ==
  ASSUME Placed, tunForm \in TunnelForms, TcpConnected
  PROVE  Placed'
<1>1. UpRests'
  BY RestsBefore, AllRestsKept DEF TcpConnected
<1>2. Quiet("down") /\ tunSent["down"] = Before(tunForm)
  BY DEF TcpConnected, Placed, Dialled
<1>3. UNCHANGED <<tunIn, tunBuf, tunOut, tunGot, tunSent, tunForm>>
  BY DEF TcpConnected, tunStreams
<1>4. CASE tunForm.via
  <2>1. Quiet("down")' /\ tunSent'["down"] = Before(tunForm) /\ tunPhase' = "connectWrite"
    BY <1>2, <1>3, <1>4 DEF Quiet, TcpConnected, Enter
  <2>2. Dialled'
    BY <1>1, <1>3, <1>4, <2>1 DEF Dialled, UpRests
  <2>3. Flowing'
    BY <2>1 DEF Flowing, RelayPhases
  <2> QED
    BY <1>1, <2>1, <2>2, <2>3, RestsPumpNext DEF Placed
<1>5. CASE ~tunForm.via
  <2>1. DownEmpty'
    BY <1>2, <1>3 DEF Quiet, DownEmpty
  <2>2. Upgrades => tunIn'["down"] = << >> /\ tunSent'["down"] = ConnectHead
    BY <1>2, <1>3, <1>5 DEF Upgrades, Before, Quiet, ConnectHead
  <2>3. tunForm.kind = "blind" => Begun'
    <3>1. tunForm.kind = "blind" => tunSent'["down"] = 0 /\ tunIn'["down"] = << >>
      BY <1>2, <1>3, <1>5 DEF Before, Quiet
    <3> QED
      BY <2>1, <3>1, RunEmpty DEF Begun, Counted
  <2>4. Secure
    BY <1>5 DEF TcpConnected
  <2> QED
    BY <1>1, <1>3, <2>1, <2>2, <2>3, <2>4, ConnectedPlaced
<1> QED
  BY <1>4, <1>5

LEMMA TlsPlaced ==
  ASSUME Placed, tunForm \in TunnelForms, TlsDone
  PROVE  Placed'
<1>1. UpRests'
  BY RestsBefore, AllRestsKept DEF TlsDone
<1>2. UNCHANGED <<tunIn, tunBuf, tunOut, tunGot, tunSent, tunForm>>
  BY DEF TlsDone, tunStreams
<1>3. DownEmpty /\ tunForm.tls /\ (Upgrades => tunIn["down"] = << >> /\ tunSent["down"] = ConnectHead)
  BY DEF TlsDone, Placed, Dialled, DownEmpty
<1>4. tunForm.kind # "blind"
  BY <1>3, FormFacts
<1>5. DownEmpty' /\ (Upgrades => tunIn'["down"] = << >> /\ tunSent'["down"] = ConnectHead)
  BY <1>2, <1>3, DownKept
<1> QED
  BY <1>1, <1>2, <1>4, <1>5, ConnectedPlaced DEF TlsDone

\* The proxy upstream is asked: nothing of its answer is there yet.
LEMMA AskedPlaced ==
  ASSUME Placed, tunForm \in TunnelForms, ConnectWritten
  PROVE  Placed'
<1>1. UpRests'
  BY RestsBefore, AllRestsKept DEF ConnectWritten
<1>2. UNCHANGED <<tunIn, tunBuf, tunOut, tunGot, tunSent, tunForm>> /\ tunPhase' = "connectRead"
  BY DEF ConnectWritten, tunStreams, Enter
<1>3. Quiet("down") /\ tunSent["down"] = -4 /\ tunForm.via
  BY DEF ConnectWritten, Placed, Dialled, Before
<1>4. Proxied'
  <2>1. tunIn'["down"] = << >> /\ tunSent'["down"] = -4 /\ tunForm'.via
    BY <1>2, <1>3 DEF Quiet
  <2>2. Len(tunIn'["down"]) = 0
    BY <2>1
  <2> QED
    BY <2>1, <2>2 DEF Proxied, Rank, ConnectHead, Upgrades
<1>5. Dialled'
  BY <1>1, <1>2, <1>3, <1>4 DEF Dialled, UpRests, Quiet
<1>6. Flowing'
  BY <1>2 DEF Flowing, RelayPhases
<1> QED
  BY <1>1, <1>2, <1>5, <1>6, RestsPumpNext DEF Placed

LEMMA WriteUpgradePlaced ==
  ASSUME Placed, tunForm \in TunnelForms, WriteUpgrade
  PROVE  Placed'
<1>1. UpRests'
  BY RestsBefore, AllRestsKept DEF WriteUpgrade
<1>2. UNCHANGED <<tunIn, tunBuf, tunOut, tunGot, tunSent, tunForm>> /\ tunPhase' = "head"
  BY DEF WriteUpgrade, tunStreams, Enter
<1>3. DownEmpty /\ Upgrades /\ tunIn["down"] = << >> /\ tunSent["down"] = -2
  BY DEF WriteUpgrade, Placed, Dialled, DownEmpty, ConnectHead
<1>4. Heading'
  <2>1. tunIn'["down"] = << >> /\ tunSent'["down"] = -2 /\ tunForm'.kind = "upgrade"
    BY <1>2, <1>3 DEF Upgrades
  <2>2. Len(tunIn'["down"]) = 0
    BY <2>1
  <2> QED
    BY <2>1, <2>2, RunEmpty DEF Heading, Upgrades
<1>5. Dialled'
  BY <1>1, <1>2, <1>3, <1>4 DEF Dialled, UpRests, DownEmpty
<1>6. Flowing'
  BY <1>2 DEF Flowing, RelayPhases
<1> QED
  BY <1>1, <1>2, <1>5, <1>6, RestsPumpNext DEF Placed

LEMMA FlowingKept ==
  ASSUME Flowing, tunPhase \in RelayPhases, UNCHANGED tunStreams, tunForm' = tunForm
  PROVE  Flowing'
BY DEF Flowing, Flows, tunStreams, Upgrades

LEMMA ClientPlaced ==
  ASSUME Placed, tunForm \in TunnelForms, ClientUpgraded
  PROVE  Placed'
<1>1. UpRests'
  BY RestsBefore, AllRestsKept DEF ClientUpgraded
<1>2. tunForm' = tunForm /\ UNCHANGED tunStreams /\ tunPhase' = "leftover"
  BY DEF ClientUpgraded, Enter
<1>3. Flowing'
  BY <1>2, FlowingKept DEF Placed, RelayPhases, ClientUpgraded
<1>4. Dialled'
  BY <1>1, <1>2 DEF Dialled, UpRests
<1> QED
  BY <1>1, <1>2, <1>3, <1>4, RestsPumpNext DEF Placed

\* Where the last unit of the answer stands, and the first of the tunnel.
LEMMA HeadRead ==
  ASSUME NEW sent \in Int, NEW rank \in Int, NEW n \in Nat \ {0}, NEW lo, lo = rank - n
  PROVE  /\ rank = sent /\ lo = -3 /\ sent <= -2 => n - 1 = 0 /\ sent = -2
         /\ (rank = IF sent >= 0 THEN sent ELSE sent + 2) /\ lo = -1 /\ sent \notin {-1, 0} =>
              n - 1 = Counted(sent) /\ (sent >= 0 \/ sent = -2)
BY DEF Counted

LEMMA ReadConnectPlaced ==
  ASSUME StreamTypes, Placed, tunForm \in TunnelForms, ReadConnect
  PROVE  Placed'
<1> DEFINE q == tunIn["down"]
           sent == tunSent["down"]
           lo == Rank(sent) - Len(q)
<1>0. "down" \in Directions /\ "up" \in Directions /\ "up" # "down"
  BY DEF Directions
<1>1. UpRests'
  BY <1>0, RestsBefore, RestsKept DEF ReadConnect, StreamTypes, Streams
<1>2. DownEmpty /\ Proxied
  BY DEF ReadConnect, Placed, Dialled, DownEmpty
<1>3. q \in Seq(Int) /\ sent \in Int /\ q # << >>
  <2>1. q \in Seq(UnitSet) /\ UnitSet \subseteq Int
    BY <1>0, TunnelAssumption DEF StreamTypes, Streams, UnitSet, ConnectHead
  <2>2. q \in Seq(Int)
    BY <2>1, SeqMonotonic
  <2> QED
    BY <1>0, <2>2, TunnelAssumption DEF StreamTypes, ReadConnect, ConnectHead
<1>4. /\ tunIn'["down"] = Tail(q) /\ tunSent'["down"] = sent /\ DownEmpty' /\ tunForm' = tunForm
      /\ tunForm'.via
  BY <1>0, <1>2, DownKept DEF ReadConnect, StreamTypes, Streams, Proxied
<1>5. Len(q) \in Nat \ {0} /\ Len(Tail(q)) = Len(q) - 1 /\ Head(q) = q[1] /\ Tail(q) \in Seq(Int)
  BY <1>3, EmptySeq, HeadTailProperties
<1>6. \A i \in 1..(Len(q) - 1) : Tail(q)[i] = q[i + 1]
  BY <1>3, <1>5, HeadTailProperties
<1>7. Head(q) = Answer(lo + 1)
  BY <1>2, <1>5 DEF Proxied
<1>8. CASE Head(q) # ConnectHead
  <2>1. tunPhase' = "connectRead"
    BY <1>8 DEF ReadConnect
  <2>2. Rank(sent) \in Int /\ Rank(sent) - Len(Tail(q)) = lo + 1
    BY <1>3, <1>5 DEF Rank
  <2>3. \A i \in 1..Len(Tail(q)) : Tail(q)[i] = Answer((lo + 1) + i)
    <3> SUFFICES ASSUME NEW i \in 1..(Len(q) - 1) PROVE Tail(q)[i] = Answer((lo + 1) + i)
      BY <1>5
    <3>1. i + 1 \in 1..Len(q) /\ lo + (i + 1) = (lo + 1) + i
      BY <1>5, <2>2
    <3>2. q[i + 1] = Answer(lo + (i + 1))
      BY <1>2, <3>1 DEF Proxied
    <3> QED
      BY <1>6, <3>1, <3>2
  <2>4. Upgrades => lo + 1 \in {-4, -3} /\ sent <= ConnectHead
    BY <1>2, <1>7, <1>8 DEF Proxied, Answer, ConnectHead
  <2>5. ~Upgrades => lo + 1 \in {-2, -1} /\ sent \notin {-1, 0}
    BY <1>2, <1>7, <1>8 DEF Proxied, Answer, ConnectHead
  <2>6. Proxied'
    BY <1>4, <2>2, <2>3, <2>4, <2>5 DEF Proxied, Rank, Answer, Upgrades
  <2>7. Dialled'
    BY <1>1, <1>4, <2>1, <2>6 DEF Dialled, UpRests, DownEmpty
  <2>8. Flowing'
    BY <2>1 DEF Flowing, RelayPhases
  <2> QED
    BY <1>1, <2>1, <2>7, <2>8, RestsPumpNext DEF Placed
<1>9. CASE Head(q) = ConnectHead
  <2>1. CASE Secure
    <3>1. Upgrades => lo = -3 /\ sent <= -2 /\ Rank(sent) = sent
      BY <1>2, <1>7, <1>9 DEF Proxied, Answer, ConnectHead, Rank
    <3>2. Upgrades => Len(Tail(q)) = 0 /\ sent = ConnectHead
      <4>1. Rank(sent) \in Int
        BY <1>3 DEF Rank
      <4>2. (Rank(sent) = sent /\ lo = -3 /\ sent <= -2) => Len(q) - 1 = 0 /\ sent = -2
        BY <1>3, <1>5, <4>1, HeadRead
      <4> QED
        BY <1>5, <3>1, <4>2 DEF ConnectHead
    <3>3. Upgrades => Tail(q) = << >>
      BY <1>5, <3>2, EmptySeq
    <3>4. ~Upgrades => lo = -1 /\ sent \notin {-1, 0}
      BY <1>2, <1>7, <1>9 DEF Proxied, Answer, ConnectHead
    <3>5. ASSUME ~Upgrades PROVE Begun'
      <4>1. Rank(sent) \in Int /\ Rank(sent) = (IF sent >= 0 THEN sent ELSE sent + 2)
        BY <1>3, <3>5 DEF Rank
      <4>2. Len(Tail(q)) = Counted(sent) /\ (sent >= 0 \/ sent = -2)
        <5>1. ((Rank(sent) = IF sent >= 0 THEN sent ELSE sent + 2) /\ lo = -1 /\ sent \notin {-1, 0})
                => Len(q) - 1 = Counted(sent) /\ (sent >= 0 \/ sent = -2)
          BY <1>3, <1>5, <4>1, HeadRead
        <5> QED
          BY <1>5, <3>4, <3>5, <4>1, <5>1
      <4>3. ASSUME NEW i \in 1..(Len(q) - 1) PROVE Tail(q)[i] = 0 + i
        <5>1. i + 1 \in 1..Len(q) /\ lo + (i + 1) = i /\ i > 0
          BY <1>5, <3>4, <3>5, <4>3
        <5>2. q[i + 1] = Answer(lo + (i + 1))
          BY <1>2, <5>1 DEF Proxied
        <5>3. Tail(q)[i] = q[i + 1] /\ 0 + i = i
          BY <1>6, <4>3
        <5> QED
          BY <3>5, <5>1, <5>2, <5>3 DEF Answer
      <4>4. Run(0, Tail(q))
        BY <1>5, <4>3 DEF Run
      <4> QED
        BY <1>4, <3>5, <4>2, <4>4 DEF Begun, Upgrades, ConnectHead
    <3>6. tunForm.kind = "blind" => ~Upgrades
      BY DEF Upgrades
    <3> QED
      BY <1>1, <1>4, <2>1, <3>2, <3>3, <3>5, <3>6, ConnectedPlaced
  <2>2. CASE Finish("targetTls")
    <3>1. tunPhase' = "done"
      BY <2>2 DEF Finish, Enter
    <3>2. Dialled' /\ Flowing'
      BY <1>4, <3>1 DEF Dialled, Flowing, RelayPhases
    <3> QED
      BY <1>1, <3>1, <3>2, RestsPumpNext DEF Placed
  <2> QED
    BY <1>9, <2>1, <2>2 DEF ReadConnect
<1> QED
  BY <1>8, <1>9

\* What came along with the head is what follows it.
LEMMA LeftoverRun ==
  ASSUME NEW lo \in {-2, -1}, NEW q, Run(lo, q), UpgradeHead \in Units(q)
  PROVE  Run(0, Leftover(q)) /\ Len(Leftover(q)) = lo + Len(q)
<1>1. q \in Seq(Int) /\ Len(q) \in Nat /\ lo \in Int
  BY DEF Run
<1>2. PICK k \in DOMAIN q : k = CHOOSE i \in DOMAIN q : q[i] = UpgradeHead
  BY DEF Units
<1>3. q[k] = 0
  BY <1>2 DEF Units, UpgradeHead
<1>4. k \in 1..Len(q) /\ lo + k = 0
  BY <1>1, <1>3 DEF Run
<1>5. k \in 0..Len(q)
  BY <1>1, <1>4
<1>6. Run(lo + k, Rest(q, k)) /\ Len(Rest(q, k)) = Len(q) - k
  BY <1>1, <1>5, RunParts
<1>7. Leftover(q) = Rest(q, k)
  BY <1>2 DEF Leftover
<1> QED
  BY <1>1, <1>4, <1>6, <1>7

\* As long as the end of the head has not come, what was read stops short of it.
LEMMA HeadNotRead ==
  ASSUME NEW lo \in {-2, -1}, NEW q, Run(lo, q), UpgradeHead \notin Units(q)
  PROVE  lo + Len(q) \in {-2, -1}
<1>1. q \in Seq(Int) /\ Len(q) \in Nat /\ lo \in Int
  BY DEF Run
<1>2. ASSUME lo + Len(q) >= 0 PROVE FALSE
  <2>1. -lo \in 1..Len(q)
    BY <1>1, <1>2
  <2>2. q[-lo] = lo + (-lo)
    BY <2>1 DEF Run
  <2>3. q[-lo] = UpgradeHead
    BY <1>1, <2>2 DEF UpgradeHead
  <2> QED
    BY <2>1, <2>3 DEF Units
<1> QED
  BY <1>1, <1>2

LEMMA WhatIsLeft ==
  ASSUME NEW s \in Int, NEW l \in Nat, NEW n \in 0..l, NEW k \in Nat, k = (s - l) + n
  PROVE  ((s - l) + n) + (l - n) = s /\ s >= 0
OBVIOUS

LEMMA ReadHeadPlaced ==
  ASSUME StreamTypes, Placed, tunForm \in TunnelForms, NEW n \in Nat, ReadHead(n)
  PROVE  Placed'
<1> DEFINE q == tunIn["down"]
           sent == tunSent["down"]
           lo == sent - Len(q)
           chunk == Chunk(q, n)
<1>0. "down" \in Directions /\ "up" \in Directions /\ "up" # "down"
  BY DEF Directions
<1>1. UpRests'
  <2>1. UpRests /\ UNCHANGED tunPumps /\ tunSent' = tunSent /\ tunOut' = tunOut /\ tunGot' = tunGot
    BY RestsBefore DEF ReadHead
  <2>2. tunIn'["up"] = tunIn["up"]
    BY <1>0 DEF ReadHead, StreamTypes, Streams
  <2>3. tunBuf'["up"] = tunBuf["up"]
    BY <1>0 DEF ReadHead, UpgradeResponse, StreamTypes, Streams
  <2> QED
    BY <2>1, <2>2, <2>3, RestsKept
<1>2. DownEmpty /\ Heading /\ lo \in {-2, -1} /\ Run(lo, q) /\ Upgrades
  BY DEF ReadHead, Placed, Dialled, DownEmpty, Heading
<1>3. q \in Seq(Int) /\ Len(q) \in Nat /\ sent \in Int /\ n \in 0..Len(q)
  <2>1. Len(q) \in Nat /\ n \in 0..Len(q)
    BY <1>2 DEF ReadHead, Run
  <2> QED
    BY <1>0, <1>2, <2>1, TunnelAssumption DEF StreamTypes, Run, ConnectHead
<1>4. /\ Run(lo, chunk) /\ Len(chunk) = n
      /\ Run(lo + n, Rest(q, n)) /\ Len(Rest(q, n)) = Len(q) - n
  BY <1>2, <1>3, RunParts
<1>5. /\ tunIn'["down"] = Rest(q, n) /\ tunSent'["down"] = sent /\ tunForm' = tunForm
      /\ tunOut'["down"] = << >> /\ tunGot'["down"] = << >>
  BY <1>0, <1>2 DEF ReadHead, StreamTypes, Streams, DownEmpty
<1>6. CASE UpgradeHead \notin Units(chunk)
  <2>1. tunPhase' = "head" /\ tunBuf'["down"] = << >>
    BY <1>2, <1>6 DEF ReadHead, Enter, DownEmpty
  <2>2. lo + n \in {-2, -1}
    BY <1>2, <1>4, <1>6, HeadNotRead
  <2>3. sent - Len(Rest(q, n)) = lo + n
    BY <1>3, <1>4
  <2>4. Heading'
    BY <1>2, <1>4, <1>5, <2>2, <2>3 DEF Heading, Upgrades
  <2>5. Dialled'
    BY <1>1, <1>5, <2>1, <2>4 DEF Dialled, UpRests
  <2>6. Flowing'
    BY <2>1 DEF Flowing, RelayPhases
  <2> QED
    BY <1>1, <2>1, <2>5, <2>6, RestsPumpNext DEF Placed
<1>7. CASE UpgradeHead \in Units(chunk) /\ tunPhase' = "client"
             /\ tunBuf' = [tunBuf EXCEPT !["down"] = Leftover(chunk)]
  <2>1. Run(0, Leftover(chunk)) /\ Len(Leftover(chunk)) = lo + n
    BY <1>2, <1>4, <1>7, LeftoverRun
  <2>2. tunBuf'["down"] = Leftover(chunk)
    BY <1>0, <1>7 DEF StreamTypes, Streams
  <2>3. Len(Leftover(chunk)) \in Nat
    BY <2>1 DEF Run
  <2>4. (lo + n) + Len(Rest(q, n)) = sent /\ sent >= 0
    <3>1. ((sent - Len(q)) + n) + (Len(q) - n) = sent /\ sent >= 0
      BY <1>3, <2>1, <2>3, WhatIsLeft
    <3> QED
      BY <1>4, <3>1
  <2>5. Flows("down")'
    <3>1. Run(0, << >>) /\ Len(<< >>) = 0
      BY RunEmpty
    <3>2. Len(tunGot'["down"]) = 0 /\ Len(tunOut'["down"]) = 0 /\ Len(tunBuf'["down"]) = lo + n
          /\ 0 + 0 + (lo + n) = lo + n
      BY <1>3, <1>5, <2>1, <2>2, <2>3, <3>1
    <3>3. Counted(tunSent'["down"]) = sent
      BY <1>3, <1>5, <2>4 DEF Counted
    <3> HIDE DEF lo, sent, q
    <3> QED
      BY <1>4, <1>5, <2>1, <2>2, <2>3, <2>4, <3>1, <3>2, <3>3 DEF Flows, Line
  <2>6. Flowing'
    BY <1>0, <1>1, <1>2, <1>5, <1>7, <2>4, <2>5, QuietFlows DEF Flowing, RelayPhases, Upgrades, UpRests, Directions
  <2>7. Dialled'
    BY <1>1, <1>5, <1>7 DEF Dialled, UpRests
  <2> QED
    BY <1>1, <1>7, <2>6, <2>7, RestsPumpNext DEF Placed
<1>8. CASE tunPhase' = "done"
  <2>1. Dialled' /\ Flowing'
    BY <1>5, <1>8 DEF Dialled, Flowing, RelayPhases
  <2> QED
    BY <1>1, <1>8, <2>1, RestsPumpNext DEF Placed
<1> QED
  BY <1>6, <1>7, <1>8 DEF ReadHead, UpgradeResponse, Finish, Enter

(***************************************************************************)
(* One unit, or some, move on in the line of a direction.                  *)
(***************************************************************************)
LEMMA LineLengths ==
  ASSUME NEW got, NEW out, NEW buf, NEW new, NEW count, Line(got, out, buf, new, count)
  PROVE  /\ Len(got) \in Nat /\ Len(out) \in Nat /\ Len(buf) \in Nat /\ Len(new) \in Nat
         /\ Len(got) + Len(out) + Len(buf) + Len(new) = count
BY DEF Line, Run

LEMMA RunFollows ==
  ASSUME NEW p, NEW q, NEW n, Run(0, p), n = Len(p), Run(n, q)
  PROVE  Run(0, p \o q) /\ Len(p \o q) = n + Len(q)
<1>1. 0 + Len(p) = n
  BY DEF Run
<1> QED
  BY <1>1, RunJoin

LEMMA LineIsRun ==
  ASSUME NEW got, NEW out, NEW buf, NEW new, NEW count, Line(got, out, buf, new, count)
  PROVE  Run(0, got \o out \o buf \o new)
<1> DEFINE g == Len(got)
           o == g + Len(out)
           b == o + Len(buf)
<1>1. Run(0, got) /\ Run(g, out) /\ Run(o, buf) /\ Run(b, new)
  BY DEF Line
<1>2. Run(0, got \o out) /\ Len(got \o out) = o
  BY <1>1, RunFollows
<1>3. Run(0, got \o out \o buf) /\ Len(got \o out \o buf) = b
  <2> HIDE DEF o
  <2> QED
    BY <1>1, <1>2, RunFollows
<1> HIDE DEF b
<1> QED
  BY <1>1, <1>3, RunFollows

LEMMA LineLength ==
  ASSUME NEW got, NEW out, NEW buf, NEW new, NEW count, Line(got, out, buf, new, count)
  PROVE  Len(got \o out \o buf \o new) = count
<1> DEFINE g == Len(got)
           o == g + Len(out)
           b == o + Len(buf)
<1>1. Run(0, got) /\ Run(g, out) /\ Run(o, buf) /\ Run(b, new) /\ b + Len(new) = count
  BY DEF Line
<1>2. Run(0, got \o out) /\ Len(got \o out) = o
  BY <1>1, RunFollows
<1>3. Run(0, got \o out \o buf) /\ Len(got \o out \o buf) = b
  <2> HIDE DEF o
  <2> QED
    BY <1>1, <1>2, RunFollows
<1> HIDE DEF b
<1>4. Len(got \o out \o buf \o new) = b + Len(new)
  BY <1>1, <1>3, RunFollows
<1> QED
  BY <1>1, <1>4

LEMMA LineSent ==
  ASSUME NEW got, NEW out, NEW buf, NEW new, NEW count, Line(got, out, buf, new, count)
  PROVE  Line(got, out, buf, Append(new, count + 1), count + 1)
<1> DEFINE b == (Len(got) + Len(out)) + Len(buf)
<1>1. Run(b, new) /\ b \in Int /\ Len(new) \in Nat /\ b + Len(new) = count
  BY LineLengths DEF Line
<1>2. Run(b, Append(new, count + 1)) /\ Len(Append(new, count + 1)) = Len(new) + 1
  BY <1>1, RunAppend
<1>3. b + Len(Append(new, count + 1)) = count + 1
  BY <1>1, <1>2
<1> QED
  BY <1>2, <1>3 DEF Line

LEMMA LineRead ==
  ASSUME NEW got, NEW out, NEW new, NEW count, Line(got, out, << >>, new, count),
         NEW n \in 0..Len(new)
  PROVE  Line(got, out, Chunk(new, n), Rest(new, n), count)
<1> DEFINE o == Len(got) + Len(out)
<1>1. o \in Int /\ Len(new) \in Nat /\ Len(<< >>) = 0 /\ Run(o, new) /\ o + Len(new) = count
  <2>1. o \in Int /\ Len(new) \in Nat /\ Len(<< >>) = 0 /\ o + 0 = o
    BY LineLengths
  <2> QED
    BY <2>1 DEF Line
<1>2. /\ Run(o, Chunk(new, n)) /\ Len(Chunk(new, n)) = n
      /\ Run(o + n, Rest(new, n)) /\ Len(Rest(new, n)) = Len(new) - n
  BY <1>1, RunParts
<1>3. (o + n) + Len(Rest(new, n)) = count
  BY <1>1, <1>2
<1> QED
  BY <1>2, <1>3 DEF Line

LEMMA LinePut ==
  ASSUME NEW got, NEW out, NEW buf, NEW new, NEW count, Line(got, out, buf, new, count), buf # << >>
  PROVE  /\ Line(got, Append(out, Head(buf)), Tail(buf), new, count)
         /\ Len(Append(out, Head(buf))) = Len(out) + 1
<1> DEFINE g == Len(got)
           o == g + Len(out)
<1>1. /\ g \in Int /\ o \in Int /\ Len(out) \in Nat /\ Len(buf) \in Nat /\ Len(new) \in Nat
      /\ Run(g, out) /\ Run(o, buf) /\ Run(o + Len(buf), new) /\ o + Len(buf) + Len(new) = count
  BY LineLengths DEF Line
<1>2. Head(buf) = o + 1 /\ Run(o + 1, Tail(buf)) /\ Len(Tail(buf)) = Len(buf) - 1
  BY <1>1, RunHead
<1>3. Run(g, Append(out, Head(buf))) /\ Len(Append(out, Head(buf))) = Len(out) + 1
  BY <1>1, <1>2, RunAppend
<1>4. g + Len(Append(out, Head(buf))) = o + 1 /\ (o + 1) + Len(Tail(buf)) = o + Len(buf)
  BY <1>1, <1>2, <1>3
<1>5. Run(0, got)
  BY DEF Line
<1> QED
  BY <1>1, <1>2, <1>3, <1>4, <1>5 DEF Line

LEMMA LineTaken ==
  ASSUME NEW got, NEW out, NEW buf, NEW new, NEW count, Line(got, out, buf, new, count), out # << >>
  PROVE  /\ Line(Append(got, Head(out)), Tail(out), buf, new, count)
         /\ Len(Append(got, Head(out))) + Len(Tail(out)) = Len(got) + Len(out)
<1> DEFINE g == Len(got)
           o == g + Len(out)
<1>1. /\ g \in Int /\ o \in Int /\ Len(out) \in Nat /\ Run(0, got) /\ Run(g, out) /\ Run(o, buf)
      /\ Run(o + Len(buf), new) /\ o + Len(buf) + Len(new) = count
  BY LineLengths DEF Line
<1>2. Head(out) = g + 1 /\ Run(g + 1, Tail(out)) /\ Len(Tail(out)) = Len(out) - 1
  BY <1>1, RunHead
<1>3. Run(0, Append(got, Head(out))) /\ Len(Append(got, Head(out))) = g + 1
  BY <1>1, <1>2, RunAppend
<1>4. (g + 1) + Len(Tail(out)) = o
  BY <1>1, <1>2
<1> QED
  BY <1>1, <1>2, <1>3, <1>4 DEF Line

\* What happens in one direction leaves the other as it is.
LEMMA OneFlows ==
  ASSUME Placed, tunPhase \in RelayPhases, tunForm' = tunForm, NEW d \in Directions, Flows(d)',
         tunSent'["up"] >= 0,
         tunSent'["down"] >= 0 \/ (~Upgrades /\ tunSent'["down"] = ConnectHead),
         \A e \in Directions \ {d} :
           /\ tunSent'[e] = tunSent[e] /\ tunIn'[e] = tunIn[e] /\ tunBuf'[e] = tunBuf[e]
           /\ tunOut'[e] = tunOut[e] /\ tunGot'[e] = tunGot[e]
  PROVE  Flowing'
<1>1. \A e \in Directions \ {d} : Flows(e)
  BY DEF Placed, Flowing
<1>2. \A e \in Directions \ {d} : Flows(e)'
  BY <1>1 DEF Flows
<1>3. \A e \in Directions : Flows(e)'
  BY <1>2
<1>4. tunForm'.kind \in {"upgrade", "blind"}
  BY DEF Placed, Flowing
<1> QED
  BY <1>3, <1>4 DEF Flowing, Upgrades

LEMMA RelayFacts ==
  ASSUME StreamTypes, Placed, tunPhase \in RelayPhases, NEW d \in Directions
  PROVE  /\ Flows(d) /\ tunSent["up"] >= 0 /\ tunSent[d] \in Int
         /\ tunSent["down"] >= 0 \/ (~Upgrades /\ tunSent["down"] = ConnectHead)
         /\ tunForm.kind \in {"upgrade", "blind"}
BY TunnelAssumption DEF Placed, Flowing, StreamTypes, ConnectHead

(***************************************************************************)
(* The steps of the relay.                                                 *)
(***************************************************************************)
LEMMA PutFlows ==
  ASSUME StreamTypes, Placed, tunPhase \in RelayPhases, tunForm' = tunForm, NEW d \in Directions,
         PutOne(d), UNCHANGED <<tunSent, tunIn, tunGot>>
  PROVE  /\ Flowing' /\ Len(tunOut'[d]) = Len(tunOut[d]) + 1
         /\ \A e \in Directions \ {d} : tunBuf'[e] = tunBuf[e] /\ tunOut'[e] = tunOut[e]
<1>1. /\ tunOut'[d] = Append(tunOut[d], Head(tunBuf[d])) /\ tunBuf'[d] = Tail(tunBuf[d])
      /\ \A e \in Directions \ {d} : tunBuf'[e] = tunBuf[e] /\ tunOut'[e] = tunOut[e]
  BY DEF PutOne, StreamTypes, Streams
<1>2. Flows(d) /\ tunBuf[d] # << >>
  BY RelayFacts DEF PutOne
<1>3. Flows(d)' /\ Len(tunOut'[d]) = Len(tunOut[d]) + 1
  BY <1>1, <1>2, LinePut DEF Flows
<1>4. /\ tunSent'["up"] >= 0
      /\ tunSent'["down"] >= 0 \/ (~Upgrades /\ tunSent'["down"] = ConnectHead)
  BY RelayFacts
<1> QED
  BY <1>1, <1>3, <1>4, OneFlows

LEMMA WriteLeftoverPlaced ==
  ASSUME StreamTypes, Placed, tunForm \in TunnelForms, WriteLeftover
  PROVE  Placed'
<1>1. "down" \in Directions /\ "up" \in Directions \ {"down"}
  BY DEF Directions
<1>2. tunPhase = "leftover" /\ tunPhase' = "leftover" /\ tunForm' = tunForm
  BY DEF WriteLeftover, tunDial
<1>3. /\ Flowing' /\ tunBuf'["up"] = tunBuf["up"] /\ tunOut'["up"] = tunOut["up"]
  BY <1>1, <1>2, PutFlows DEF WriteLeftover, RelayPhases
<1>4. UpRests'
  BY <1>2, <1>3, RestsBefore, RestsKept DEF WriteLeftover
<1>5. Dialled'
  BY <1>2, <1>4 DEF Dialled, UpRests
<1> QED
  BY <1>2, <1>3, <1>4, <1>5, RestsPumpNext DEF Placed

LEMMA StartRelayPlaced ==
  ASSUME StreamTypes, Placed, tunForm \in TunnelForms, StartRelay
  PROVE  Placed'
<1>1. /\ tunPhase' = "relay" /\ tunForm' = tunForm /\ UNCHANGED tunStreams /\ UNCHANGED tunEnd
      /\ tunPump' = [d \in Directions |-> "read"]
  BY DEF StartRelay, Enter
<1>2. Flowing'
  BY <1>1, FlowingKept DEF StartRelay, Placed, RelayPhases
<1>3. UpRests /\ tunBuf["down"] = << >>
  BY RestsBefore DEF StartRelay
<1>4. \A d \in Directions : tunBuf'[d] = << >> /\ tunEnd'[d] = "none"
  BY <1>1, <1>3 DEF UpRests, Quiet, Directions, tunStreams
<1>5. Pumping'
  BY <1>1, <1>4 DEF Pumping
<1>6. Dialled'
  BY <1>1 DEF Dialled
<1> QED
  BY <1>2, <1>5, <1>6 DEF Placed

\* A running pump is one of the relay, and the dial is over.
LEMMA PumpRuns ==
  ASSUME Placed, NEW d \in Directions, tunPump[d] \in {"read", "write", "shut"}
  PROVE  tunPhase = "relay" /\ tunPhase \in RelayPhases
BY DEF Placed, Pumping, RelayPhases

LEMMA RelayDialled ==
  ASSUME tunPhase' = "relay", tunForm' \in TunnelForms
  PROVE  Dialled'
BY DEF Dialled

LEMMA PumpReadsPlaced ==
  ASSUME StreamTypes, PumpTypes, Placed, tunForm \in TunnelForms, NEW d \in Directions,
         NEW n \in Nat, PumpReads(d, n)
  PROVE  Placed'
<1>1. tunPhase = "relay" /\ tunPhase \in RelayPhases /\ tunBuf[d] = << >>
  BY PumpRuns DEF PumpReads, Placed, Pumping
<1>2. tunPhase' = "relay" /\ tunForm' = tunForm
  BY <1>1 DEF PumpReads, tunDial
<1>3. Flows(d) /\ Len(tunIn[d]) \in Nat
  BY <1>1, RelayFacts, LineLengths DEF Flows
<1>4. n \in 0..Len(tunIn[d])
  BY <1>3 DEF PumpReads
<1>5. /\ tunBuf'[d] = Chunk(tunIn[d], n) /\ tunIn'[d] = Rest(tunIn[d], n)
      /\ \A e \in Directions \ {d} : tunBuf'[e] = tunBuf[e] /\ tunIn'[e] = tunIn[e]
  BY DEF PumpReads, StreamTypes, Streams
<1>6. Flows(d)'
  BY <1>1, <1>3, <1>4, <1>5, LineRead DEF Flows, PumpReads
<1>7. Flowing'
  BY <1>1, <1>2, <1>5, <1>6, RelayFacts, OneFlows DEF PumpReads
<1>8. Pumping'
  BY <1>1, <1>2, <1>5 DEF Pumping, Placed, PumpReads, PumpTypes
<1> QED
  BY <1>2, <1>7, <1>8, RelayDialled DEF Placed

\* A direction that stops, or goes on waiting, moves nothing.
LEMMA StandingPlaced ==
  ASSUME Placed, tunForm \in TunnelForms, tunPhase = "relay", UNCHANGED <<tunForm, tunPhase>>,
         UNCHANGED tunStreams, Pumping'
  PROVE  Placed'
BY FlowingKept, RelayDialled DEF Placed, RelayPhases

LEMMA AllHandedOn ==
  ASSUME NEW s \in Int, NEW a \in Nat, NEW b \in Nat, a + b + 0 + 0 = Counted(s)
  PROVE  s <= a + b
BY DEF Counted

LEMMA PumpStopsPlaced ==
  ASSUME StreamTypes, PumpTypes, Placed, tunForm \in TunnelForms, NEW d \in Directions,
         PumpEof(d) \/ PumpFails(d) \/ ReadExpires(d) \/ WriteExpires(d) \/ Shutdown(d)
  PROVE  Placed'
<1>1. tunPump[d] \in {"read", "write", "shut"}
  BY DEF PumpEof, PumpFails, ReadExpires, WriteExpires, Shutdown
<1>2. tunPhase = "relay" /\ tunPhase \in RelayPhases
  BY <1>1, PumpRuns
<1>3. UNCHANGED tunStreams /\ UNCHANGED <<tunForm, tunPhase>>
  BY DEF PumpEof, PumpFails, ReadExpires, WriteExpires, Shutdown, tunDial
<1>4. Pumping
  BY DEF Placed
<1>5. ASSUME PumpEof(d) PROVE Pumping'
  <2>1. Flows(d) /\ tunBuf[d] = << >> /\ tunIn[d] = << >> /\ tunSource[d] = "closed"
    BY <1>2, <1>4, <1>5, RelayFacts DEF PumpEof, Pumping
  <2>2. tunSent[d] <= Len(tunGot[d]) + Len(tunOut[d])
    <3>1. /\ Len(tunGot[d]) \in Nat /\ Len(tunOut[d]) \in Nat /\ tunSent[d] \in Int
          /\ Len(tunBuf[d]) = 0 /\ Len(tunIn[d]) = 0
          /\ Len(tunGot[d]) + Len(tunOut[d]) + Len(tunBuf[d]) + Len(tunIn[d]) = Counted(tunSent[d])
      BY <1>2, <2>1, LineLengths, RelayFacts DEF Flows
    <3> QED
      BY <3>1, AllHandedOn
  <2>3. Stops(d, "eof")
    BY <1>5 DEF PumpEof
  <2> QED
    BY <1>2, <1>3, <1>4, <2>1, <2>2, <2>3 DEF Pumping, Stops, PumpTypes, tunStreams
<1>6. ASSUME Shutdown(d) PROVE Pumping'
  BY <1>2, <1>3, <1>4, <1>6 DEF Pumping, Shutdown, PumpTypes, tunStreams
<1>7. ASSUME PumpFails(d) \/ ReadExpires(d) \/ WriteExpires(d) PROVE Pumping'
  <2>1. CASE UNCHANGED <<tunPump, tunEnd>>
    BY <1>2, <1>3, <1>4, <2>1 DEF Pumping, tunStreams
  <2>2. CASE ~UNCHANGED <<tunPump, tunEnd>>
    <3>1. Stops(d, "error") \/ Stops(d, "idle") \/ Stops(d, "stuck")
      BY <1>7, <2>2 DEF PumpFails, ReadExpires, WriteExpires
    <3> QED
      BY <1>2, <1>3, <1>4, <3>1 DEF Pumping, Stops, PumpTypes, tunStreams
  <2> QED
    BY <2>1, <2>2
<1> QED
  BY <1>2, <1>3, <1>5, <1>6, <1>7, StandingPlaced

LEMMA PumpWritesPlaced ==
  ASSUME StreamTypes, PumpTypes, Placed, tunForm \in TunnelForms, NEW d \in Directions, PumpWrites(d)
  PROVE  Placed'
<1>1. tunPhase = "relay" /\ tunPhase \in RelayPhases
  BY PumpRuns DEF PumpWrites
<1>2. tunPhase' = "relay" /\ tunForm' = tunForm /\ UNCHANGED <<tunSent, tunSource, tunIn, tunGot, tunEnd>>
  BY <1>1 DEF PumpWrites, tunDial
<1>3. /\ Flowing' /\ Len(tunOut'[d]) = Len(tunOut[d]) + 1
      /\ \A e \in Directions \ {d} : tunBuf'[e] = tunBuf[e] /\ tunOut'[e] = tunOut[e]
  BY <1>1, <1>2, PutFlows DEF PumpWrites
<1>4. Pumping
  BY DEF Placed
<1>5. Pumping'
  <2>1. \A e \in Directions \ {d} : tunPump'[e] = tunPump[e]
    BY DEF PumpWrites, PumpTypes
  <2>2. tunPump[d] = "write" /\ tunEnd[d] # "eof"
    BY <1>4 DEF PumpWrites, Pumping
  <2>3. tunPump'[d] \in {"read", "write"} /\ (tunPump'[d] = "read" => tunBuf'[d] = << >>)
    BY <2>2 DEF PumpWrites, PumpTypes
  <2> QED
    BY <1>1, <1>2, <1>3, <1>4, <2>1, <2>2, <2>3 DEF Pumping
<1> QED
  BY <1>2, <1>3, <1>5, RelayDialled DEF Placed

\* Time moves no byte.
LEMMA PlacedKept ==
  ASSUME Placed, UNCHANGED <<tunForm, tunPhase, tunPump, tunEnd>>, UNCHANGED tunStreams
  PROVE  Placed'
<1>1. Dialled'
  BY DEF Placed, Dialled, Quiet, Proxied, Heading, Rank, Answer, Upgrades, tunStreams
<1>2. Flowing'
  BY DEF Placed, Flowing, Flows, Upgrades, tunStreams
<1>3. Pumping'
  BY DEF Placed, Pumping, tunStreams
<1> QED
  BY <1>1, <1>2, <1>3 DEF Placed

LEMMA TickPlaced ==
  ASSUME Placed, TunnelTick
  PROVE  Placed'
BY PlacedKept DEF TunnelTick, tunPumps

(***************************************************************************)
(* What the peers do.                                                      *)
(***************************************************************************)
\* One more unit of the answer of the upstream proxy.
LEMMA AnswerGrows ==
  ASSUME StreamTypes, Placed, tunPhase = "connectRead", PeerSends("down")
  PROVE  Proxied'
<1> DEFINE q == tunIn["down"]
           sent == tunSent["down"]
           u == NextUnit("down")
           lo == Rank(sent) - Len(q)
<1>1. Proxied /\ sent \in Int /\ "down" \in Directions
  BY TunnelAssumption DEF Placed, Dialled, StreamTypes, Directions, ConnectHead
<1>2. q \in Seq(Int)
  <2>1. q \in Seq(UnitSet) /\ UnitSet \subseteq Int
    BY <1>1, TunnelAssumption DEF StreamTypes, Streams, UnitSet, ConnectHead
  <2> QED
    BY <2>1, SeqMonotonic
<1>3. /\ tunIn'["down"] = Append(q, u) /\ tunSent'["down"] = u /\ tunForm' = tunForm
  BY <1>1 DEF PeerSends, StreamTypes, Streams, tunDial
<1>4. /\ u \in Int /\ Rank(u) = Rank(sent) + 1 /\ u = Answer(Rank(u))
      /\ (Upgrades => u <= ConnectHead) /\ (~Upgrades => u \notin {-1, 0})
  <2>1. CASE Upgrades
    <3>1. sent < -2
      BY <1>1, <2>1 DEF PeerSends, MaySend, Upgrades, Proxied, ConnectHead
    <3> QED
      BY <1>1, <2>1, <3>1 DEF NextUnit, Rank, Answer, Upgrades, ConnectHead
  <2>2. CASE ~Upgrades
    <3>1. sent \notin {-1, 0}
      BY <1>1, <2>2 DEF Proxied
    <3>2. CASE sent = -2
      BY <1>1, <2>2, <3>2 DEF NextUnit, Rank, Answer, Upgrades, ConnectHead
    <3>3. CASE sent # -2
      BY <1>1, <2>2, <3>1, <3>3 DEF NextUnit, Rank, Answer, Upgrades, ConnectHead
    <3> QED
      BY <3>2, <3>3
  <2> QED
    BY <2>1, <2>2
<1>5. /\ Len(q) \in Nat /\ Rank(sent) \in Int /\ Len(Append(q, u)) = Len(q) + 1
      /\ \A i \in 1..Len(q) : Append(q, u)[i] = q[i]
      /\ Append(q, u)[Len(q) + 1] = u
  BY <1>1, <1>2, <1>4 DEF Rank
<1>6. Rank(u) - Len(Append(q, u)) = lo
  BY <1>4, <1>5
<1>7. ASSUME NEW i \in 1..(Len(q) + 1) PROVE Append(q, u)[i] = Answer(lo + i)
  <2>1. CASE i = Len(q) + 1
    <3>1. lo + i = Rank(u)
      BY <1>4, <1>5, <2>1
    <3> QED
      BY <1>4, <1>5, <2>1, <3>1
  <2>2. CASE i \in 1..Len(q)
    BY <1>1, <1>5, <2>2 DEF Proxied
  <2> QED
    BY <1>5, <1>7, <2>1, <2>2
<1>8. /\ tunForm'.via /\ \A i \in 1..Len(tunIn'["down"]) : tunIn'["down"][i] = Answer(lo + i)
  BY <1>1, <1>3, <1>5, <1>7 DEF Proxied
<1>9. /\ Upgrades => lo \in {-4, -3}
      /\ ~Upgrades => lo \in {-2, -1}
  BY <1>1 DEF Proxied
<1> HIDE DEF lo, q, u, sent
<1> QED
  BY <1>3, <1>4, <1>6, <1>8, <1>9 DEF Proxied, Rank, Answer, Upgrades

LEMMA HeadGrows ==
  ASSUME StreamTypes, Placed, tunPhase = "head", PeerSends("down")
  PROVE  Heading'
<1> DEFINE q == tunIn["down"]
           sent == tunSent["down"]
           lo == sent - Len(q)
<1>1. /\ Upgrades /\ lo \in {-2, -1} /\ Run(lo, q) /\ sent \in Int /\ "down" \in Directions
      /\ Len(q) \in Nat
  BY TunnelAssumption DEF Placed, Dialled, Heading, StreamTypes, Directions, ConnectHead, Run
<1>2. NextUnit("down") = sent + 1
  BY <1>1 DEF NextUnit, Upgrades
<1>3. /\ tunIn'["down"] = Append(q, sent + 1) /\ tunSent'["down"] = sent + 1 /\ tunForm' = tunForm
  BY <1>1, <1>2 DEF PeerSends, StreamTypes, Streams, tunDial
<1>4. Run(lo, Append(q, sent + 1)) /\ Len(Append(q, sent + 1)) = Len(q) + 1
  BY <1>1, RunAppend
<1>5. (sent + 1) - Len(Append(q, sent + 1)) = lo
  BY <1>1, <1>4
<1> QED
  BY <1>1, <1>3, <1>4, <1>5 DEF Heading, Upgrades

\* In the relay phases the next unit is the number of those sent.
LEMMA NextCounts ==
  ASSUME StreamTypes, Placed, tunPhase \in RelayPhases, NEW d \in Directions
  PROVE  /\ NextUnit(d) = Counted(tunSent[d]) + 1 /\ Counted(NextUnit(d)) = NextUnit(d)
         /\ NextUnit(d) >= 0
<1>1. /\ tunSent["up"] >= 0 /\ tunSent[d] \in Int
      /\ tunSent["down"] >= 0 \/ (~Upgrades /\ tunSent["down"] = ConnectHead)
  BY RelayFacts
<1>2. CASE d = "up"
  BY <1>1, <1>2 DEF NextUnit, Counted
<1>3. CASE d = "down" /\ tunSent["down"] >= 0
  BY <1>1, <1>3 DEF NextUnit, Counted, ConnectHead
<1>4. CASE d = "down" /\ ~Upgrades /\ tunSent["down"] = ConnectHead
  BY <1>1, <1>4 DEF NextUnit, Counted, ConnectHead, Upgrades
<1> QED
  BY <1>1, <1>2, <1>3, <1>4 DEF Directions

LEMMA SentFlows ==
  ASSUME StreamTypes, Placed, tunPhase \in RelayPhases, NEW d \in Directions, PeerSends(d)
  PROVE  Flowing'
<1>1. /\ tunSent'[d] = NextUnit(d) /\ tunIn'[d] = Append(tunIn[d], NextUnit(d))
      /\ \A e \in Directions \ {d} : tunSent'[e] = tunSent[e] /\ tunIn'[e] = tunIn[e]
      /\ UNCHANGED <<tunForm, tunBuf, tunOut, tunGot>>
  BY DEF PeerSends, StreamTypes, Streams, tunDial
<1>2. /\ NextUnit(d) = Counted(tunSent[d]) + 1 /\ Counted(NextUnit(d)) = NextUnit(d)
      /\ NextUnit(d) >= 0
  BY NextCounts
<1>3. Flows(d)'
  BY <1>1, <1>2, RelayFacts, LineSent DEF Flows
<1>4. /\ tunSent'["up"] >= 0
      /\ tunSent'["down"] >= 0 \/ (~Upgrades /\ tunSent'["down"] = ConnectHead)
  BY <1>1, <1>2, RelayFacts DEF Directions
<1> QED
  BY <1>1, <1>3, <1>4, OneFlows

LEMMA SendsPlaced ==
  ASSUME StreamTypes, Placed, tunForm \in TunnelForms, NEW d \in Directions, PeerSends(d)
  PROVE  Placed'
<1>1. UNCHANGED <<tunForm, tunPhase, tunBuf, tunOut, tunGot, tunSource, tunPump, tunEnd>>
      /\ UNCHANGED tunPumps
  BY DEF PeerSends, tunDial, tunPumps
<1>2. /\ tunSource[d] = "open" /\ \A e \in Directions \ {d} : tunSent'[e] = tunSent[e] /\ tunIn'[e] = tunIn[e]
  BY DEF PeerSends, StreamTypes, Streams
<1>3. Pumping'
  <2>1. \A e \in Directions : tunEnd[e] = "eof" => tunSent'[e] = tunSent[e]
    BY <1>2 DEF Placed, Pumping
  <2> QED
    BY <1>1, <2>1 DEF Placed, Pumping
<1>4. CASE tunPhase = "relay"
  BY <1>1, <1>3, <1>4, SentFlows, RelayDialled DEF Placed, RelayPhases
<1>5. CASE tunPhase # "relay"
  <2>1. d = "down"
    BY <1>5 DEF PeerSends, MaySend, Directions
  <2>2. tunPhase \in {"connectRead", "head", "client", "leftover"}
    BY <1>5, <2>1 DEF PeerSends, MaySend
  <2>3. UpRests /\ UpRests'
    BY <1>1, <1>2, <2>1, <2>2, RestsBefore, RestsKept DEF Directions
  <2>4. CASE tunPhase \in {"client", "leftover"}
    <3>1. Dialled'
      BY <1>1, <2>3, <2>4 DEF Dialled, UpRests
    <3> QED
      BY <1>3, <2>4, <3>1, SentFlows DEF Placed, RelayPhases
  <2>5. CASE tunPhase = "connectRead"
    <3>1. Proxied' /\ DownEmpty'
      BY <1>1, <2>1, <2>5, AnswerGrows DEF Placed, Dialled, DownEmpty
    <3>2. Dialled' /\ Flowing'
      BY <1>1, <2>3, <2>5, <3>1 DEF Dialled, UpRests, DownEmpty, Flowing, RelayPhases
    <3> QED
      BY <1>3, <3>2 DEF Placed
  <2>6. CASE tunPhase = "head"
    <3>1. Heading' /\ DownEmpty'
      BY <1>1, <2>1, <2>6, HeadGrows DEF Placed, Dialled, DownEmpty
    <3>2. Dialled' /\ Flowing'
      BY <1>1, <2>3, <2>6, <3>1 DEF Dialled, UpRests, DownEmpty, Flowing, RelayPhases
    <3> QED
      BY <1>3, <3>2 DEF Placed
  <2> QED
    BY <2>2, <2>4, <2>5, <2>6
<1> QED
  BY <1>4, <1>5

LEMMA ClosesPlaced ==
  ASSUME StreamTypes, Placed, tunForm \in TunnelForms, NEW d \in Directions, PeerCloses(d)
  PROVE  Placed'
<1>1. /\ UNCHANGED <<tunForm, tunPhase, tunSent, tunIn, tunBuf, tunOut, tunGot, tunPump, tunEnd>>
      /\ tunPhase = "relay" /\ tunSource'[d] # "open"
      /\ \A e \in Directions \ {d} : tunSource'[e] = tunSource[e]
  BY DEF PeerCloses, StreamTypes, tunDial, tunPumps
<1>2. Pumping'
  BY <1>1 DEF Placed, Pumping
<1>3. Flowing'
  BY <1>1 DEF Placed, Flowing, Flows, Upgrades
<1> QED
  BY <1>1, <1>2, <1>3, RelayDialled DEF Placed

LEMMA TakesPlaced ==
  ASSUME StreamTypes, Placed, tunForm \in TunnelForms, NEW d \in Directions, PeerTakes(d)
  PROVE  Placed'
<1>1. /\ UNCHANGED <<tunForm, tunPhase, tunSent, tunSource, tunIn, tunBuf, tunPump, tunEnd>>
      /\ UNCHANGED tunPumps /\ tunPhase \in {"leftover", "relay"} /\ tunOut[d] # << >>
  BY DEF PeerTakes, tunDial, tunPumps
<1>2. /\ tunGot'[d] = Append(tunGot[d], Head(tunOut[d])) /\ tunOut'[d] = Tail(tunOut[d])
      /\ \A e \in Directions \ {d} : tunGot'[e] = tunGot[e] /\ tunOut'[e] = tunOut[e]
  BY DEF PeerTakes, StreamTypes, Streams
<1>3. Flows(d) /\ tunPhase \in RelayPhases
  BY <1>1, RelayFacts DEF RelayPhases
<1>4. Flows(d)' /\ Len(tunGot'[d]) + Len(tunOut'[d]) = Len(tunGot[d]) + Len(tunOut[d])
  BY <1>1, <1>2, <1>3, LineTaken DEF Flows
<1>5. Flowing'
  BY <1>1, <1>2, <1>3, <1>4, RelayFacts, OneFlows
<1>6. Pumping'
  BY <1>1, <1>2, <1>4 DEF Placed, Pumping
<1>7. CASE tunPhase = "relay"
  BY <1>1, <1>5, <1>6, <1>7, RelayDialled DEF Placed
<1>8. CASE tunPhase = "leftover"
  <2>1. UpRests
    BY <1>8, RestsBefore
  <2>2. d # "up"
    BY <1>1, <2>1 DEF UpRests, Quiet
  <2>3. UpRests'
    BY <1>1, <1>2, <2>1, <2>2, RestsKept DEF Directions
  <2>4. Dialled'
    BY <1>1, <1>8, <2>3 DEF Dialled, UpRests
  <2> QED
    BY <1>5, <1>6, <2>4 DEF Placed
<1> QED
  BY <1>1, <1>7, <1>8

-----------------------------------------------------------------------------
LEMMA PlacedStep == TunnelTypeOK /\ Placed /\ [TunnelNext]_tunVars => Placed'
<1> SUFFICES ASSUME StreamTypes, PumpTypes, Placed, [TunnelNext]_tunVars PROVE Placed'
  BY TypeParts
<1>1. CASE UNCHANGED tunVars
  BY <1>1, PlacedKept DEF tunVars, tunDial, tunPumps
<1>2. CASE \E f \in TunnelForms, reads \in [Peers -> BOOLEAN] : Dial(f, reads)
  BY <1>2, DialPlaced
<1>3. CASE TcpFails \/ HyperDone \/ DialBreaks \/ DialExpires \/ ClientLeaves \/ RelayEnds
  BY <1>3, Finishes
<1>4. CASE TunnelTick
  BY <1>4, TickPlaced
<1>5. ASSUME NEW d \in Directions, PeerSends(d), tunPhase = "rest" PROVE FALSE
  BY <1>5 DEF Placed, Dialled, PeerSends, MaySend, Unformed, ConnectHead, Directions
<1>6. ASSUME tunForm \in TunnelForms, TunnelNext PROVE Placed'
  <2>1. CASE TcpConnected \/ ConnectWritten \/ TlsDone \/ WriteUpgrade \/ ClientUpgraded
    BY <1>6, <2>1, TcpPlaced, AskedPlaced, TlsPlaced, WriteUpgradePlaced, ClientPlaced
  <2>2. CASE ReadConnect \/ WriteLeftover \/ StartRelay
    BY <1>6, <2>2, ReadConnectPlaced, WriteLeftoverPlaced, StartRelayPlaced
  <2>3. ASSUME NEW n \in 1..(DownUnits + 2), ReadHead(n) PROVE Placed'
    <3>1. n \in Nat
      BY TunnelAssumption
    <3> QED
      BY <1>6, <2>3, <3>1, ReadHeadPlaced
  <2>4. ASSUME NEW d \in Directions, NEW n \in 1..UnitsOf(d), PumpReads(d, n) PROVE Placed'
    <3>1. n \in Nat
      BY TunnelAssumption DEF UnitsOf
    <3> QED
      BY <1>6, <2>4, <3>1, PumpReadsPlaced
  <2>5. ASSUME NEW d \in Directions,
               PumpEof(d) \/ PumpFails(d) \/ ReadExpires(d) \/ WriteExpires(d) \/ Shutdown(d)
        PROVE  Placed'
    BY <1>6, <2>5, PumpStopsPlaced
  <2>6. ASSUME NEW d \in Directions, PumpWrites(d) PROVE Placed'
    BY <1>6, <2>6, PumpWritesPlaced
  <2>7. ASSUME NEW d \in Directions, PeerSends(d) \/ PeerCloses(d) \/ PeerTakes(d) PROVE Placed'
    BY <1>6, <2>7, SendsPlaced, ClosesPlaced, TakesPlaced
  <2> QED
    BY <1>2, <1>3, <1>4, <1>6, <2>1, <2>2, <2>3, <2>4, <2>5, <2>6, <2>7 DEF TunnelNext, TunnelTask
<1>7. ASSUME tunPhase = "rest", TunnelNext PROVE Placed'
  <2>1. \A d \in Directions : tunPump[d] = "off" /\ tunOut[d] = << >>
    BY <1>7 DEF Placed, Pumping, Dialled, Quiet, Directions
  <2> QED
    BY <1>2, <1>5, <1>7, <2>1 DEF TunnelNext, TunnelTask, TcpConnected, TcpFails, ConnectWritten,
       TlsDone, HyperDone, DialBreaks, WriteUpgrade, ClientUpgraded, ClientLeaves, PeerCloses,
       PeerTakes
<1>8. tunPhase = "rest" \/ tunForm \in TunnelForms
  BY DEF Placed, Dialled
<1> QED
  BY <1>1, <1>6, <1>7, <1>8

LEMMA LineHolds ==
  ASSUME NEW got, NEW out, NEW buf, NEW new, NEW count, Line(got, out, buf, new, count)
  PROVE  Units(buf) \subseteq 1..count
<1>1. PICK g : g = Len(got)
  OBVIOUS
<1>2. PICK o : o = g + Len(out)
  OBVIOUS
<1>3. PICK n : n = Len(buf)
  OBVIOUS
<1>4. PICK m : m = Len(new)
  OBVIOUS
<1>5. g \in Nat /\ o \in Nat /\ n \in Nat /\ m \in Nat /\ o + n + m = count
  BY <1>1, <1>2, <1>3, <1>4, LineLengths
<1>6. Run(o, buf)
  BY <1>1, <1>2 DEF Line
<1>7. \A i \in 1..n : buf[i] = o + i
  BY <1>3, <1>6 DEF Run
<1>8. \A i \in 1..n : o + i \in 1..count
  BY <1>5
<1> QED
  BY <1>3, <1>7, <1>8 DEF Units

LEMMA CountGrows ==
  ASSUME NEW a, NEW b, a \in Int /\ b \in Int, a <= b
  PROVE  1..Counted(a) \subseteq 1..Counted(b)
BY DEF Counted

LEMMA CopiedStep == TInv /\ [TunnelNext]_tunVars => Copied'
<1> SUFFICES ASSUME TInv, [TunnelNext]_tunVars PROVE Copied'
  OBVIOUS
<1>1. StreamTypes /\ Copied /\ Placed /\ Flowing'
  BY TypeParts, PlacedStep DEF TInv, Placed
<1>2. ASSUME UNCHANGED tunShown,
             tunPhase' \in RelayPhases => tunPhase \notin RelayPhases \/ tunSent'["down"] = tunSent["down"],
             tunPhase = "done" => tunPhase' = "done",
             tunPhase \in RelayPhases => tunPhase' \in RelayPhases \cup {"done"}
      PROVE  Copied'
  BY <1>1, <1>2 DEF Copied
<1>3. ASSUME NEW d \in Directions, PeerSends(d) PROVE Copied'
  <2>1. tunShown' = tunShown /\ tunPhase' = tunPhase
    BY <1>3 DEF PeerSends, tunDial
  <2>2. CASE tunPhase \in RelayPhases
    <3>1. tunSent["down"] \in Int /\ tunSent[d] \in Int
      BY <1>1, TunnelAssumption DEF StreamTypes, Directions, ConnectHead
    <3>2. NextUnit(d) \in Int /\ NextUnit(d) >= tunSent[d]
      BY <3>1 DEF NextUnit, ConnectHead
    <3>3. tunSent'["down"] = IF d = "down" THEN NextUnit(d) ELSE tunSent["down"]
      BY <1>1, <1>3 DEF PeerSends, StreamTypes, Directions
    <3>4. tunSent'["down"] \in Int /\ tunSent["down"] <= tunSent'["down"]
      BY <3>1, <3>2, <3>3
    <3>5. 1..Counted(tunSent["down"]) \subseteq 1..Counted(tunSent'["down"])
      BY <3>1, <3>4, CountGrows
    <3> QED
      BY <1>1, <2>1, <2>2, <3>5 DEF Copied, RelayPhases
  <2> QED
    BY <1>1, <2>1, <2>2 DEF Copied
<1>4. ASSUME NEW n, ReadHead(n) PROVE Copied'
  <2>1. tunShown = {}
    BY <1>1, <1>4 DEF ReadHead, Copied, RelayPhases
  <2>2. CASE tunPhase' = "head"
    BY <1>4, <2>1, <2>2 DEF ReadHead, UpgradeResponse, Enter, Finish, Copied, RelayPhases
  <2>3. CASE tunPhase' = "done"
    BY <2>3 DEF Copied, RelayPhases
  <2>4. CASE tunPhase' = "client"
    <3>1. PICK left : tunBuf' = [tunBuf EXCEPT !["down"] = left] /\ tunShown' \subseteq Units(left)
      BY <1>4, <2>4 DEF ReadHead, UpgradeResponse, Enter, Finish
    <3>2. tunBuf'["down"] = left
      BY <1>1, <3>1 DEF StreamTypes, Streams, Directions
    <3>3. Flows("down")'
      BY <1>1, <2>4 DEF Flowing, RelayPhases, Directions
    <3>4. Units(left) \subseteq 1..Counted(tunSent'["down"])
      BY <3>2, <3>3, LineHolds DEF Flows
    <3> QED
      BY <2>4, <3>1, <3>4 DEF Copied, RelayPhases
  <2> QED
    BY <1>4, <2>2, <2>3, <2>4 DEF ReadHead, UpgradeResponse, Enter, Finish
<1>5. ASSUME NEW f, NEW reads, Dial(f, reads) PROVE Copied'
  BY <1>1, <1>5 DEF Dial, Enter, Copied, RelayPhases
<1>6. CASE TcpConnected \/ TcpFails \/ ConnectWritten \/ TlsDone \/ HyperDone \/ DialBreaks \/ DialExpires
  BY <1>2, <1>6 DEF TcpConnected, TcpFails, ConnectWritten, TlsDone, HyperDone, DialBreaks, DialExpires,
     Secure, Connected, Enter, Finish, RelayPhases, TimedPhases, DialPhases, tunStreams
<1>7. CASE ReadConnect
  BY <1>2, <1>7 DEF ReadConnect, Secure, Connected, Enter, Finish, RelayPhases
<1>8. CASE WriteUpgrade \/ ClientUpgraded \/ ClientLeaves \/ WriteLeftover \/ StartRelay \/ RelayEnds
  BY <1>2, <1>8 DEF WriteUpgrade, ClientUpgraded, ClientLeaves, WriteLeftover, StartRelay, RelayEnds,
     Enter, Finish, RelayPhases, tunStreams, tunDial
<1>9. CASE TunnelTick
  BY <1>2, <1>9 DEF TunnelTick, RelayPhases, tunStreams
<1>10. ASSUME NEW d \in Directions,
              \/ PumpEof(d) \/ PumpFails(d) \/ ReadExpires(d) \/ PumpWrites(d) \/ WriteExpires(d) \/ Shutdown(d)
              \/ PeerCloses(d) \/ PeerTakes(d)
       PROVE  Copied'
  BY <1>2, <1>10 DEF PumpEof, PumpFails, ReadExpires, PumpWrites, WriteExpires, Shutdown, PeerCloses, PeerTakes,
     tunStreams, tunDial
<1>11. ASSUME NEW d, NEW n, PumpReads(d, n) PROVE Copied'
  BY <1>2, <1>11 DEF PumpReads, tunDial
<1>12. CASE UNCHANGED tunVars
  BY <1>2, <1>12 DEF tunVars, tunStreams, tunDial
<1> QED
  BY <1>3, <1>4, <1>5, <1>6, <1>7, <1>8, <1>9, <1>10, <1>11, <1>12 DEF TunnelNext, TunnelTask

LEMMA TunnelStart == TunnelInit => TInv
<1> SUFFICES ASSUME TunnelInit PROVE TInv
  OBVIOUS
<1>1. TunnelTypeOK
  <2>1. << >> \in Seq(UnitSet)
    OBVIOUS
  <2> QED
    BY <2>1, TunnelAssumption
       DEF TunnelInit, TypeParts, TunnelTypeOK, TimedPhases, DialPhases, ConnectHead
<1>2. Dialled /\ Flowing /\ Pumping
  BY DEF TunnelInit, Dialled, Flowing, Pumping, Quiet, RelayPhases, Directions
<1>3. Budgeted
  BY DEF TunnelInit, Budgeted, DialPhases
<1>4. Copied
  BY DEF TunnelInit, Copied, RelayPhases
<1> QED
  BY <1>1, <1>2, <1>3, <1>4 DEF TInv

LEMMA TunnelStep == TInv /\ [TunnelNext]_tunVars => TInv'
BY TypeStep, BudgetStep, PlacedStep, CopiedStep DEF TInv, Placed

LEMMA FaithfulInside == TInv => RelayIsFaithful
<1> SUFFICES ASSUME TInv PROVE RelayIsFaithful
  OBVIOUS
<1>1. DialTypes /\ StreamTypes /\ TunnelTypeOK
  BY TypeParts DEF TInv
<1>2. StreamsIntact
  <2> SUFFICES ASSUME NEW d \in Directions, tunPhase \in RelayPhases
               PROVE  Travelling(d) = [i \in 1..Len(Travelling(d)) |-> i]
    BY DEF StreamsIntact, RelayPhases
  <2>1. Flows(d)
    BY DEF TInv, Flowing
  <2>2. Run(0, tunGot[d] \o tunOut[d] \o tunBuf[d] \o tunIn[d])
    BY <2>1, LineIsRun DEF Flows
  <2>3. Travelling(d) = tunGot[d] \o tunOut[d] \o tunBuf[d] \o tunIn[d]
    BY DEF Travelling
  <2> QED
    BY <2>2, <2>3, RunIsCount
<1>l. LeakIsACopy
  <2>1. SUFFICES ASSUME tunPhase \in RelayPhases PROVE tunShown \subseteq 1..Len(Travelling("down"))
    BY DEF LeakIsACopy, RelayPhases
  <2>2. tunShown \subseteq 1..Counted(tunSent["down"]) /\ Flows("down")
    BY <2>1 DEF TInv, Copied, Flowing, Directions
  <2>3. Len(tunGot["down"] \o tunOut["down"] \o tunBuf["down"] \o tunIn["down"]) = Counted(tunSent["down"])
    BY <2>2, LineLength DEF Flows
  <2>4. Travelling("down") = tunGot["down"] \o tunOut["down"] \o tunBuf["down"] \o tunIn["down"]
    BY DEF Travelling, Directions
  <2> QED
    BY <2>2, <2>3, <2>4
<1>3. EofLosesNothing
  <2> SUFFICES ASSUME NEW d \in Directions, tunEnd[d] = "eof"
               PROVE  Len(tunGot[d]) + Len(tunOut[d]) >= tunSent[d]
    BY DEF EofLosesNothing
  <2>1. tunSent[d] <= Len(tunGot[d]) + Len(tunOut[d])
    BY DEF TInv, Pumping
  <2>2. tunSent[d] \in Int /\ Len(tunGot[d]) \in Nat /\ Len(tunOut[d]) \in Nat
    BY <1>1, TunnelAssumption DEF StreamTypes, Streams, ConnectHead
  <2> QED
    BY <2>1, <2>2
<1>4. DialInBudget
  <2>1. tunSpent \in Nat /\ tunLeft \in Nat /\ DialTimeout \in Nat
    BY <1>1, TunnelAssumption DEF DialTypes
  <2> QED
    BY <2>1 DEF TInv, Budgeted, DialInBudget
<1> QED
  BY <1>1, <1>2, <1>l, <1>3, <1>4 DEF RelayIsFaithful

\* Whatever is dialled, through a proxy or not, and however the chunks fall: once there is a tunnel
\* its bytes arrive as they were sent, none of a head among them, a source that closes has everything
\* it sent handed on, and no dial outlives its budget (forward/mod.rs: connect, split_leftover,
\* pump). Its bytes may stand in the head of the client's answer, but only as copies.
THEOREM RelayKeepsFaith == TunnelSpec => []RelayIsFaithful
<1>1. TunnelSpec => []TInv
  BY TunnelStart, TunnelStep, PTL DEF TunnelSpec
<1> QED
  BY <1>1, FaithfulInside, PTL

(***************************************************************************)
(* ProxyHost.                                                              *)
(***************************************************************************)
HostPcs == {"rest", "env", "ca", "resolver", "sink", "start", "key", "listen", "loop", "dead"}
HostGains == {"ca", "resolver", "sink", "keys"}
Armed == {"ca", "resolver", "sink"}
CallSteps == {"idle", "validate", "library", "upstream", "guard", "bind", "spawn", "done"}
CallResults == {Absent, "ok", "InvalidEndpoint", "InferenceInit", "InvalidUpstreamProxy",
                "AlreadyInitialized", "ForwardingBind"}
\* The upstream proxies of what was asked for.
HttpOf(ask) == Chosen(ask.http, ask.httpUpper)
HttpsOf(ask) == Chosen(ask.https, ask.httpsUpper)
ViasOf(ask) == <<HttpOf(ask), HttpsOf(ask)>>
Usable(v) == v = Absent \/ v.out.ok
Vias == {<< >>} \cup {ViasOf(a) : a \in HostAsks}
Calls == [at : CallSteps, ask : HostAsks \cup {Absent}, vias : Vias, result : CallResults]
Serves == [by : HostCallers, http : {HttpOf(a) : a \in HostAsks},
           https : {HttpsOf(a) : a \in HostAsks}, has : SUBSET HostGains]
CaJobs == [at : {"registry", "certs", "config"}, c : Containers, good : BOOLEAN]
Fresh == [at |-> "idle"]
Told == [at : {"idle"}, status : {"ok", "error"}]
Jobs == {Fresh} \cup Told \cup CaJobs \cup [at : {"remove"}, c : Containers]
          \cup [at : {"key"}, blank : BOOLEAN]
UpstreamProbes == {[text |-> x, of |-> "upstream", out |-> ParseUpstream(x)] : x \in UpstreamTexts}
KeyProbes == {[text |-> x, of |-> "keys", out |-> ParseApiKey(x)] : x \in KeyTexts}

StartTypes ==
  /\ hostPc \in HostPcs /\ hostEnv \in HostEnvs \cup {Absent} /\ hostHas \subseteq HostGains
  /\ hostProbe \in UpstreamProbes \cup KeyProbes \cup {Absent}
InitTypes ==
  /\ hostCalls \in [HostCallers -> Calls]
  /\ hostGuard \in BOOLEAN /\ hostTries \in Nat /\ hostServes \in Seq(Serves)
TableTypes ==
  /\ hostCas \subseteq Containers /\ hostCerts \subseteq hostCas
  /\ hostConfigs \in [Containers -> Nat \cup {Absent}]
  /\ hostJobs \in [Receivers -> Jobs] /\ hostSent \in 0..HostMessages

\* What the start has put in place at each of its steps.
Staged ==
  /\ hostPc \in {"resolver", "sink", "start"} => "ca" \in hostHas
  /\ hostPc \in {"sink", "start"} => "resolver" \in hostHas
  /\ hostPc = "start" => "sink" \in hostHas
  /\ hostCalls["main"].at # "idle" => Armed \subseteq hostHas
  /\ hostPc \in {"key", "listen", "loop"} => hostLibrary # Absent
  /\ hostPc # "rest" => hostEnv \in HostEnvs

\* What each call of proxy_init has behind it.
Called(w) ==
  LET call == hostCalls[w] IN
    /\ call.at # "idle" => call.ask \in HostAsks
    /\ call.at \in {"upstream", "guard", "bind", "spawn"} => hostLibrary # Absent
    /\ call.at \in {"guard", "bind", "spawn"} =>
         call.vias = ViasOf(call.ask) /\ Usable(HttpOf(call.ask)) /\ Usable(HttpsOf(call.ask))
    /\ call.result = "ok" => call.at = "done" /\ hostLibrary # Absent

Binders == {w \in HostCallers : hostCalls[w].at = "bind"}
OneAttempt == IsFiniteSet(Binders) /\ GuardIsOneAttempt

\* A task that serves was started by a call that is over for good.
ServedBy(s) ==
  LET call == hostCalls[s.by] IN
    /\ call.at = "done" /\ call.result = "ok"
    /\ s.http = HttpOf(call.ask) /\ s.https = HttpsOf(call.ask)
    /\ Usable(s.http) /\ Usable(s.https)
    /\ s.by = "main" => Armed \subseteq s.has
Served(k) == ServedBy(hostServes[k])

GoodCa == hostEnv # Absent /\ hostEnv.ca = "good"

\* What each message of the controller has behind it.
Handled(t) ==
  LET job == hostJobs[t] IN
    /\ job.at = "certs" => job.c \in hostCas
    /\ job.at = "config" /\ GoodCa => job.c \in hostCerts
    /\ job.at # "idle" => hostLibrary # Absent /\ hostPc # "rest"

Configured ==
  /\ GoodCa => \A c \in Containers : hostConfigs[c] # Absent => c \in hostCerts
  /\ hostPc = "rest" => \A c \in Containers : hostConfigs[c] = Absent

HostTypes == StartTypes /\ InitTypes /\ TableTypes
CallsSound == Staged /\ (\A w \in HostCallers : Called(w)) /\ OneAttempt
              /\ \A k \in DOMAIN hostServes : Served(k)
TablesSound == (\A t \in Receivers : Handled(t)) /\ Configured
HInv == HostTypes /\ CallsSound /\ TablesSound

LEMMA HostStart == HostInit => HInv
<1> SUFFICES ASSUME HostInit PROVE HInv
  OBVIOUS
<1>1. HostTypes
  <2>1. << >> \in Seq(Serves)
    OBVIOUS
  <2>2. [at |-> "idle", ask |-> Absent, vias |-> << >>, result |-> Absent] \in Calls
    BY DEF Calls, CallSteps, Vias, CallResults
  <2>3. InitTypes
    BY <2>1, <2>2 DEF HostInit, InitTypes
  <2>4. TableTypes
    BY HostAssumption DEF HostInit, TableTypes, Jobs, Fresh
  <2>5. StartTypes
    BY DEF HostInit, StartTypes, HostPcs
  <2> QED
    BY <2>3, <2>4, <2>5 DEF HostTypes
<1>2. Staged /\ \A w \in HostCallers : Called(w)
  BY HostAssumption DEF HostInit, Staged, Called, HostCallers
<1>3. OneAttempt
  <2>1. Binders = {}
    BY DEF HostInit, Binders
  <2>2. IsFiniteSet(Binders) /\ Cardinality(Binders) = 0
    BY <2>1, FS_EmptySet
  <2>3. GuardIsOneAttempt
    BY <2>2 DEF HostInit, GuardIsOneAttempt, Binders
  <2> QED
    BY <2>2, <2>3 DEF OneAttempt
<1>4. \A k \in DOMAIN hostServes : Served(k)
  BY DEF HostInit
<1>5. TablesSound
  BY DEF HostInit, TablesSound, Handled, Configured, GoodCa
<1> QED
  BY <1>1, <1>2, <1>3, <1>4, <1>5 DEF HInv, CallsSound

-----------------------------------------------------------------------------
(* The main thread.                                                        *)

LEMMA CallsRest ==
  ASSUME CallsSound, Staged', UNCHANGED <<hostCalls, hostGuard, hostTries, hostServes, hostLibrary>>
  PROVE  CallsSound'
<1>1. \A w \in HostCallers : Called(w)'
  BY DEF CallsSound, Called
<1>2. OneAttempt'
  <2>1. Binders' = Binders
    BY DEF Binders
  <2>2. GuardIsOneAttempt'
    BY DEF CallsSound, OneAttempt, GuardIsOneAttempt
  <2> QED
    BY <2>1, <2>2 DEF CallsSound, OneAttempt
<1>3. \A k \in DOMAIN hostServes' : Served(k)'
  BY DEF CallsSound, Served, ServedBy
<1> QED
  BY <1>1, <1>2, <1>3 DEF CallsSound

LEMMA LaunchStep == HInv /\ (HostLaunch \/ HostProbe) => HInv'
<1> SUFFICES ASSUME HInv, HostLaunch \/ HostProbe PROVE HInv'
  OBVIOUS
<1> USE DEF hostStart, hostInit, hostTables
<1>1. HostTypes'
  <2>1. InitTypes' /\ TableTypes'
    BY DEF HInv, HostTypes, HostLaunch, HostProbe, InitTypes, TableTypes
  <2>2. StartTypes'
    BY DEF HInv, HostTypes, HostLaunch, HostProbe, StartTypes, HostPcs, UpstreamProbes, KeyProbes
  <2> QED
    BY <2>1, <2>2 DEF HostTypes
<1>2. CallsSound'
  <2>1. Staged'
    BY DEF HInv, CallsSound, Staged, HostLaunch, HostProbe
  <2> QED
    BY <2>1, CallsRest DEF HInv, HostLaunch, HostProbe
<1>3. TablesSound'
  <2>1. CASE HostLaunch
    <3>1. \A t \in Receivers : Handled(t)'
      BY <2>1 DEF HInv, TablesSound, Handled, HostLaunch
    <3>2. Configured'
      BY <2>1 DEF HInv, TablesSound, Configured, HostLaunch
    <3> QED
      BY <3>1, <3>2 DEF TablesSound
  <2>2. CASE HostProbe
    BY <2>2 DEF HInv, TablesSound, Handled, Configured, GoodCa, HostProbe
  <2> QED
    BY <2>1, <2>2
<1> QED
  BY <1>1, <1>2, <1>3 DEF HInv

\* A step of the start changes nothing but what the start has put in place.
LEMMA StartKeeps ==
  ASSUME HInv, NEW from \in HostPcs \ {"rest"}, NEW good, NEW to \in HostPcs \ {"rest"},
         NEW gains \in SUBSET HostGains, HostStep(from, good, to, gains),
         Staged'
  PROVE  HInv'
<1> USE DEF hostStart, hostInit, hostTables
<1>1. HostTypes'
  <2>1. InitTypes' /\ TableTypes'
    BY DEF HInv, HostTypes, HostStep, InitTypes, TableTypes
  <2>2. StartTypes'
    BY DEF HInv, HostTypes, HostStep, StartTypes, HostPcs
  <2> QED
    BY <2>1, <2>2 DEF HostTypes
<1>2. CallsSound'
  BY CallsRest DEF HInv, HostStep
<1>3. TablesSound'
  <2>1. hostPc' # "rest"
    BY DEF HostStep
  <2>2. \A t \in Receivers : Handled(t)'
    BY <2>1 DEF HInv, TablesSound, Handled, GoodCa, HostStep
  <2>3. Configured'
    BY <2>1 DEF HInv, TablesSound, Configured, GoodCa, HostStep
  <2> QED
    BY <2>2, <2>3 DEF TablesSound
<1> QED
  BY <1>1, <1>2, <1>3 DEF HInv

LEMMA StartSteps ==
  ASSUME HInv, \/ FromEnv \/ LoadCa \/ RegisterEbpfResolver \/ SetupLogSink \/ StartProxyEnds
               \/ ApplyStartupApiKey \/ StartConfigReceiver
  PROVE  HInv'
<1> USE DEF HostPcs, HostGains
<1> DEFINE keys == IF hostEnv.keys # Absent /\ hostEnv.remote = "unset" /\ hostLibrary # Absent
                   THEN {"keys"} ELSE {}
<1>1. Staged
  BY DEF HInv, CallsSound
<1>2. CASE FromEnv
  <2>1. Staged'
    BY <1>1, <1>2 DEF FromEnv, HostStep, Staged, hostInit
  <2> QED
    BY <1>2, <2>1, StartKeeps DEF FromEnv
<1>3. CASE LoadCa
  <2>1. Staged'
    BY <1>1, <1>3 DEF LoadCa, HostStep, Staged, hostInit
  <2> QED
    BY <1>3, <2>1, StartKeeps DEF LoadCa
<1>4. CASE RegisterEbpfResolver
  <2>1. Staged'
    BY <1>1, <1>4 DEF RegisterEbpfResolver, HostStep, Staged, hostInit
  <2> QED
    BY <1>4, <2>1, StartKeeps DEF RegisterEbpfResolver
<1>5. CASE SetupLogSink
  <2>1. Staged'
    BY <1>1, <1>5 DEF SetupLogSink, HostStep, Staged, hostInit
  <2> QED
    BY <1>5, <2>1, StartKeeps DEF SetupLogSink
<1>6. CASE StartProxyEnds
  <2>1. hostCalls["main"].result = "ok" => hostLibrary # Absent
    BY DEF HInv, CallsSound, Called, HostCallers
  <2>2. Staged'
    BY <1>1, <1>6, <2>1 DEF StartProxyEnds, HostStep, Staged, hostInit
  <2> QED
    BY <1>6, <2>2, StartKeeps DEF StartProxyEnds
<1>7. CASE ApplyStartupApiKey
  <2>1. HostStep("key", TRUE, "listen", keys) /\ keys \in SUBSET HostGains
    BY <1>7 DEF ApplyStartupApiKey
  <2> HIDE DEF keys
  <2>2. Staged'
    BY <1>1, <2>1 DEF HostStep, Staged, hostInit
  <2> QED
    BY <2>1, <2>2, StartKeeps
<1>8. CASE StartConfigReceiver
  <2>1. Staged'
    BY <1>1, <1>8 DEF StartConfigReceiver, HostStep, Staged, hostInit
  <2> QED
    BY <1>8, <2>1, StartKeeps DEF StartConfigReceiver
<1> QED
  BY <1>2, <1>3, <1>4, <1>5, <1>6, <1>7, <1>8

-----------------------------------------------------------------------------
(* The calls of proxy_init.                                                *)

\* One call changes: what the step leaves of the others.
Changes(w, call) ==
  /\ call \in Calls /\ hostCalls[w].result # "ok"
  /\ hostCalls' = [hostCalls EXCEPT ![w] = call]
  /\ hostStart' = hostStart /\ hostTables' = hostTables /\ hostProbe' = hostProbe

LEMMA CallsChange ==
  ASSUME HInv, NEW w \in HostCallers, NEW call \in Calls, Changes(w, call)
  PROVE  /\ hostCalls' \in [HostCallers -> Calls] /\ hostCalls'[w] = call
         /\ \A v \in HostCallers \ {w} : hostCalls'[v] = hostCalls[v]
BY DEF HInv, HostTypes, InitTypes, Changes

\* The types after a step that changes one call.
LEMMA ChangeTyped ==
  ASSUME HInv, NEW w \in HostCallers, NEW call \in Calls, Changes(w, call),
         hostGuard' \in BOOLEAN, hostTries' \in Nat, hostServes' \in Seq(Serves)
  PROVE  HostTypes'
<1>1. InitTypes'
  BY CallsChange DEF InitTypes
<1>2. StartTypes' /\ TableTypes'
  BY DEF HInv, HostTypes, StartTypes, TableTypes, Changes, hostStart, hostTables
<1> QED
  BY <1>1, <1>2 DEF HostTypes

\* The tables after a step that changes one call: the library, once initialised, stays so.
LEMMA ChangeTables ==
  ASSUME HInv, NEW w, NEW call, Changes(w, call), hostLibrary # Absent => hostLibrary' # Absent
  PROVE  TablesSound'
<1>1. \A t \in Receivers : Handled(t)'
  BY DEF HInv, TablesSound, Handled, GoodCa, Changes, hostStart, hostTables
<1>2. Configured'
  BY DEF HInv, TablesSound, Configured, GoodCa, Changes, hostStart, hostTables
<1> QED
  BY <1>1, <1>2 DEF TablesSound

\* The other calls and the tasks that serve.
LEMMA OthersKept ==
  ASSUME HInv, NEW w \in HostCallers, NEW call \in Calls, Changes(w, call),
         hostLibrary # Absent => hostLibrary' # Absent
  PROVE  /\ \A v \in HostCallers \ {w} : Called(v)'
         /\ \A s \in Serves : ServedBy(s) => ServedBy(s)'
         /\ UNCHANGED hostServes => \A k \in DOMAIN hostServes' : Served(k)'
<1>1. \A v \in HostCallers : Called(v)
  BY DEF HInv, CallsSound
<1>2. ASSUME NEW v \in HostCallers \ {w}
      PROVE  Called(v)'
  BY <1>1, CallsChange DEF Called
<1>3. ASSUME NEW s \in Serves, ServedBy(s)
      PROVE  ServedBy(s)'
  <2>1. s.by \in HostCallers
    BY DEF Serves
  <2>2. s.by # w
    BY <1>3 DEF ServedBy, Changes
  <2>3. hostCalls'[s.by] = hostCalls[s.by]
    BY <2>1, <2>2, CallsChange
  <2> QED
    BY <1>3, <2>3 DEF ServedBy
<1>4. ASSUME UNCHANGED hostServes, NEW k \in DOMAIN hostServes
      PROVE  Served(k)'
  <2>1. hostServes \in Seq(Serves) /\ Served(k)
    BY DEF HInv, HostTypes, InitTypes, CallsSound
  <2>2. hostServes[k] \in Serves
    BY <2>1
  <2>3. PICK s \in Serves : s = hostServes[k]
    BY <2>2
  <2>4. ServedBy(s)'
    BY <1>3, <2>1, <2>3 DEF Served
  <2> QED
    BY <1>4, <2>3, <2>4 DEF Served, ServedBy
<1> QED
  BY <1>2, <1>3, <1>4

\* Who binds, when the call neither was binding nor is.
LEMMA BindersKept ==
  ASSUME HInv, NEW w \in HostCallers, NEW call \in Calls, Changes(w, call),
         hostCalls[w].at # "bind", call.at # "bind", UNCHANGED <<hostGuard, hostTries>>
  PROVE  OneAttempt'
<1>1. Binders' = Binders
  BY CallsChange DEF Binders
<1> QED
  BY <1>1 DEF HInv, CallsSound, OneAttempt, GuardIsOneAttempt, Binders

\* A call that goes on or ends, away from the guard.
LEMMA PlainChange ==
  ASSUME HInv, NEW w \in HostCallers, NEW call \in Calls, Changes(w, call),
         hostCalls[w].at # "bind", call.at # "bind",
         UNCHANGED <<hostGuard, hostTries, hostServes>>,
         hostLibrary # Absent => hostLibrary' # Absent,
         Called(w)', w = "main" => hostCalls["main"].at # "idle" \/ Armed \subseteq hostHas
  PROVE  HInv'
<1>1. HostTypes' /\ TablesSound'
  BY ChangeTyped, ChangeTables DEF HInv, HostTypes, InitTypes
<1>2. OneAttempt'
  BY BindersKept
<1>3. Staged'
  BY CallsChange DEF HInv, CallsSound, Staged, Changes, hostStart, HostCallers
<1>4. CallsSound'
  BY <1>2, <1>3, OthersKept DEF CallsSound
<1> QED
  BY <1>1, <1>4 DEF HInv

\* What a call becomes.
Moved(w, step) == [hostCalls[w] EXCEPT !.at = step]
Ended(w, r) == [hostCalls[w] EXCEPT !.at = "done", !.result = r]

LEMMA NextCalls ==
  ASSUME HInv, NEW w \in HostCallers, NEW step \in CallSteps, NEW r \in CallResults
  PROVE  /\ Moved(w, step) \in Calls /\ Moved(w, step).at = step
         /\ Moved(w, step).ask = hostCalls[w].ask /\ Moved(w, step).vias = hostCalls[w].vias
         /\ Moved(w, step).result = hostCalls[w].result
         /\ Ended(w, r) \in Calls /\ Ended(w, r).at = "done"
         /\ Ended(w, r).ask = hostCalls[w].ask /\ Ended(w, r).vias = hostCalls[w].vias
         /\ Ended(w, r).result = r
<1>1. hostCalls[w] \in Calls
  BY DEF HInv, HostTypes, InitTypes
<1> QED
  BY <1>1 DEF Moved, Ended, Calls, CallSteps

LEMMA CallsBecome ==
  ASSUME HInv, NEW w \in HostCallers, NEW step, NEW r
  PROVE  /\ Becomes(w, step) => hostCalls' = [hostCalls EXCEPT ![w] = Moved(w, step)]
         /\ Returns(w, r) => hostCalls' = [hostCalls EXCEPT ![w] = Ended(w, r)]
BY DEF HInv, HostTypes, InitTypes, Becomes, Returns, Moved, Ended

LEMMA CallOf ==
  ASSUME HInv, NEW w \in HostCallers
  PROVE  /\ Called(w) /\ hostCalls[w] \in Calls
         /\ hostCalls[w].result = "ok" => hostCalls[w].at = "done"
BY DEF HInv, CallsSound, HostTypes, InitTypes, Called

LEMMA BeginSteps ==
  ASSUME HInv, NEW w \in HostCallers, StartProxy \/ (w # "main" /\ (OtherCalls(w) \/ CallsAgain(w)))
  PROVE  HInv'
<1> USE DEF CallSteps, CallResults
<1>1. CASE w # "main" /\ OtherCalls(w)
  <2>1. PICK s \in HostSettings : hostCalls' = [hostCalls EXCEPT ![w].at = "validate", ![w].ask = s]
    BY <1>1 DEF OtherCalls
  <2> DEFINE call == [hostCalls[w] EXCEPT !.at = "validate", !.ask = s]
  <2>2. call \in Calls /\ call.at = "validate" /\ call.ask = s /\ call.result = hostCalls[w].result
    BY CallOf DEF Calls, HostAsks
  <2>3. hostCalls' = [hostCalls EXCEPT ![w] = call]
    BY <2>1 DEF HInv, HostTypes, InitTypes
  <2>4. hostCalls[w].at = "idle" /\ hostCalls[w].result # "ok"
    BY <1>1, CallOf DEF OtherCalls
  <2>5. Changes(w, call)
    BY <1>1, <2>2, <2>3, <2>4 DEF Changes, OtherCalls
  <2> HIDE DEF call
  <2>6. hostCalls'[w] = call
    BY <2>2, <2>5, CallsChange
  <2>7. Called(w)'
    BY <2>2, <2>4, <2>6 DEF Called, HostAsks
  <2> QED
    BY <1>1, <2>2, <2>4, <2>5, <2>7, PlainChange DEF OtherCalls
<1>2. CASE w # "main" /\ CallsAgain(w)
  <2> DEFINE call == Moved(w, "idle")
  <2>1. call \in Calls /\ call.at = "idle" /\ call.result = hostCalls[w].result
    BY NextCalls
  <2>2. hostCalls' = [hostCalls EXCEPT ![w] = call]
    BY <1>2 DEF CallsAgain, Moved, HInv, HostTypes, InitTypes
  <2> HIDE DEF call
  <2>3. Changes(w, call)
    BY <1>2, <2>1, <2>2 DEF Changes, CallsAgain
  <2>4. hostCalls'[w] = call
    BY <2>1, <2>3, CallsChange
  <2>5. Called(w)'
    BY <1>2, <2>1, <2>4 DEF Called, CallsAgain
  <2>6. hostCalls[w].at # "bind" /\ UNCHANGED <<hostGuard, hostTries, hostServes, hostLibrary>>
    BY <1>2 DEF CallsAgain
  <2> QED
    BY <1>2, <2>1, <2>3, <2>5, <2>6, PlainChange
<1>3. CASE StartProxy
  <2>1. hostEnv.init \in HostAsks /\ Armed \subseteq hostHas
    BY <1>3 DEF StartProxy, HInv, CallsSound, Staged, HostAsks, Armed
  <2>2. ASSUME hostEnv.ip = "loopback" PROVE HInv'
    <3> DEFINE call == [hostCalls["main"] EXCEPT !.at = "validate", !.ask = hostEnv.init]
    <3>0. "main" \in HostCallers
      BY DEF HostCallers
    <3>1. hostCalls' = [hostCalls EXCEPT !["main"].at = "validate", !["main"].ask = hostEnv.init]
          /\ hostPc' = hostPc /\ hostCalls["main"].at = "idle"
      BY <1>3, <2>2 DEF StartProxy
    <3>2. call \in Calls /\ call.at = "validate" /\ call.ask = hostEnv.init
          /\ call.result = hostCalls["main"].result
      BY <2>1, <3>0, CallOf DEF Calls
    <3>3. hostCalls' = [hostCalls EXCEPT !["main"] = call]
      BY <3>0, <3>1 DEF HInv, HostTypes, InitTypes
    <3>4. hostCalls["main"].result # "ok"
      BY <3>0, <3>1, CallOf
    <3> HIDE DEF call
    <3>5. Changes("main", call)
      BY <1>3, <3>1, <3>2, <3>3, <3>4 DEF Changes, StartProxy, hostStart
    <3>6. hostCalls'["main"] = call
      BY <3>0, <3>2, <3>5, CallsChange
    <3>7. Called("main")'
      BY <2>1, <3>2, <3>4, <3>6 DEF Called
    <3>8. UNCHANGED <<hostGuard, hostTries, hostServes, hostLibrary>>
      BY <1>3 DEF StartProxy
    <3> QED
      BY <2>1, <3>0, <3>1, <3>2, <3>5, <3>7, <3>8, PlainChange
  <2>3. ASSUME hostEnv.ip # "loopback" PROVE HInv'
    <3>1. HostStep("start", FALSE, "key", {})
      BY <1>3, <2>3 DEF StartProxy, HostStep, hostInit
    <3>2. Staged'
      BY <3>1 DEF HostStep, HInv, CallsSound, Staged, hostInit
    <3>3. "start" \in HostPcs \ {"rest"} /\ "key" \in HostPcs \ {"rest"} /\ {} \in SUBSET HostGains
      BY DEF HostPcs
    <3> QED
      BY <3>1, <3>2, <3>3, StartKeeps
  <2> QED
    BY <2>2, <2>3
<1> QED
  BY <1>1, <1>2, <1>3

\* A step that goes on to another, or ends with an error, away from the guard.
LEMMA GoesOn ==
  ASSUME HInv, NEW w \in HostCallers, NEW call \in Calls, Changes(w, call),
         hostCalls[w].at # "idle", hostCalls[w].at # "bind", call.at # "bind",
         UNCHANGED <<hostGuard, hostTries, hostServes>>,
         hostLibrary # Absent => hostLibrary' # Absent,
         Called(w)'
  PROVE  HInv'
BY PlainChange

LEMMA EndsCalled ==
  ASSUME HInv, NEW w \in HostCallers, NEW r \in CallResults \ {"ok"},
         Changes(w, Ended(w, r)), hostCalls[w].at # "idle"
  PROVE  Called(w)'
<1>1. hostCalls'[w] = Ended(w, r)
  BY CallsChange DEF Changes
<1>2. Ended(w, r).at = "done" /\ Ended(w, r).ask = hostCalls[w].ask /\ Ended(w, r).result = r
  BY NextCalls DEF CallSteps
<1>3. hostCalls[w].ask \in HostAsks
  BY CallOf DEF Called
<1> QED
  BY <1>1, <1>2, <1>3 DEF Called

\* A call that ends with an error, away from the guard.
LEMMA EndsStep ==
  ASSUME HInv, NEW w \in HostCallers, NEW r \in CallResults \ {"ok"}, Returns(w, r),
         hostCalls[w].at \notin {"idle", "bind", "done"},
         UNCHANGED <<hostStart, hostLibrary, hostGuard, hostTries, hostServes, hostTables, hostProbe>>
  PROVE  HInv'
<1>1. Ended(w, r) \in Calls /\ Ended(w, r).at = "done"
  BY NextCalls DEF CallSteps
<1>2. Changes(w, Ended(w, r))
  BY <1>1, CallsBecome, CallOf DEF Changes
<1>3. Called(w)'
  BY <1>2, EndsCalled
<1> QED
  BY <1>1, <1>2, <1>3, GoesOn

LEMMA MovedChanges ==
  ASSUME HInv, NEW w \in HostCallers, NEW step \in CallSteps, Becomes(w, step),
         hostCalls[w].at # "done", UNCHANGED <<hostStart, hostTables, hostProbe>>
  PROVE  /\ Moved(w, step) \in Calls /\ Changes(w, Moved(w, step))
         /\ hostCalls'[w] = Moved(w, step) /\ Moved(w, step).at = step
         /\ Moved(w, step).ask = hostCalls[w].ask /\ Moved(w, step).vias = hostCalls[w].vias
         /\ Moved(w, step).result = hostCalls[w].result /\ hostCalls[w].result # "ok"
<1>1. CallResults # {}
  BY DEF CallResults
<1>2. /\ Moved(w, step) \in Calls /\ Moved(w, step).at = step
      /\ Moved(w, step).ask = hostCalls[w].ask /\ Moved(w, step).vias = hostCalls[w].vias
      /\ Moved(w, step).result = hostCalls[w].result
  BY <1>1, NextCalls
<1>3. hostCalls[w].result # "ok"
  BY CallOf
<1>4. Changes(w, Moved(w, step))
  BY <1>2, <1>3, CallsBecome DEF Changes
<1> QED
  BY <1>2, <1>3, <1>4, CallsChange

LEMMA ValidateStep ==
  ASSUME HInv, NEW w \in HostCallers, ValidateEndpoint(w)
  PROVE  HInv'
<1>1. CASE Becomes(w, "library")
  <2>1. Called(w)'
    BY <1>1, MovedChanges, CallOf DEF ValidateEndpoint, Called, CallSteps
  <2> QED
    BY <1>1, <2>1, MovedChanges, GoesOn DEF ValidateEndpoint, CallSteps
<1>2. CASE Returns(w, "InvalidEndpoint")
  BY <1>2, EndsStep, HostAssumption DEF ValidateEndpoint, CallResults
<1> QED
  BY <1>1, <1>2 DEF ValidateEndpoint

LEMMA LibraryStep ==
  ASSUME HInv, NEW w \in HostCallers, InitInferenceRouter(w)
  PROVE  HInv'
<1>1. CASE Becomes(w, "upstream") /\ hostLibrary' = hostCalls[w].ask.dir
  <2>1. hostCalls[w].ask \in HostAsks
    BY CallOf DEF InitInferenceRouter, Called
  <2>2. hostLibrary' # Absent
    BY <1>1, <2>1, HostAssumption
  <2>3. Called(w)'
    BY <1>1, <2>1, <2>2, MovedChanges DEF InitInferenceRouter, Called, CallSteps
  <2> QED
    BY <1>1, <2>2, <2>3, MovedChanges, GoesOn DEF InitInferenceRouter, CallSteps
<1>2. CASE Returns(w, "InferenceInit") /\ UNCHANGED hostLibrary
  BY <1>2, EndsStep DEF InitInferenceRouter, CallResults
<1> QED
  BY <1>1, <1>2 DEF InitInferenceRouter

LEMMA UpstreamsStep ==
  ASSUME HInv, NEW w \in HostCallers, ReadUpstreams(w)
  PROVE  HInv'
<1> DEFINE ask == hostCalls[w].ask
           http == ReadUpstreamEnv(ask.http, ask.httpUpper)
           https == ReadUpstreamEnv(ask.https, ask.httpsUpper)
           call == [hostCalls[w] EXCEPT !.at = "guard", !.vias = <<http.via, https.via>>]
<1>1. ask \in HostAsks /\ hostLibrary # Absent /\ hostCalls[w].result # "ok" /\ hostCalls[w].at = "upstream"
  BY CallOf DEF ReadUpstreams, Called
<1>2. CASE http.ok /\ https.ok
  <2>1. <<http.via, https.via>> = ViasOf(ask) /\ Usable(HttpOf(ask)) /\ Usable(HttpsOf(ask))
    BY <1>2 DEF ReadUpstreamEnv, ViasOf, HttpOf, HttpsOf, Usable
  <2>2. ViasOf(ask) \in Vias
    BY <1>1 DEF Vias
  <2>3. call \in Calls /\ call.at = "guard" /\ call.ask = ask /\ call.vias = ViasOf(ask)
        /\ call.result = hostCalls[w].result
    BY <2>1, <2>2, CallOf DEF Calls, CallSteps
  <2>4. hostCalls' = [hostCalls EXCEPT ![w].at = "guard", ![w].vias = <<http.via, https.via>>]
        /\ UNCHANGED <<hostStart, hostLibrary, hostGuard, hostTries, hostServes, hostTables, hostProbe>>
    BY <1>2 DEF ReadUpstreams
  <2>5. hostCalls' = [hostCalls EXCEPT ![w] = call]
    BY <2>4 DEF HInv, HostTypes, InitTypes
  <2> HIDE DEF call
  <2>6. Changes(w, call)
    BY <1>1, <2>3, <2>4, <2>5 DEF Changes
  <2>7. hostCalls'[w] = call
    BY <2>3, <2>6, CallsChange
  <2>8. Called(w)'
    BY <1>1, <2>1, <2>3, <2>4, <2>7 DEF Called
  <2> QED
    BY <1>1, <2>3, <2>4, <2>6, <2>8, GoesOn
<1>3. CASE ~(http.ok /\ https.ok)
  <2>1. Returns(w, "InvalidUpstreamProxy")
        /\ UNCHANGED <<hostStart, hostLibrary, hostGuard, hostTries, hostServes, hostTables, hostProbe>>
    BY <1>3 DEF ReadUpstreams
  <2> QED
    BY <1>1, <2>1, EndsStep DEF CallResults
<1> QED
  BY <1>2, <1>3

\* Who is in the way of a step that binds: a caller comes in, or goes out.
LEMMA BindersCount ==
  ASSUME HInv
  PROVE  /\ IsFiniteSet(Binders) /\ Cardinality(Binders) \in Nat
         /\ hostTries + Cardinality(Binders) = IF hostGuard THEN 1 ELSE 0
         /\ \A w : w \notin Binders => IsFiniteSet(Binders \cup {w})
                   /\ Cardinality(Binders \cup {w}) = Cardinality(Binders) + 1
         /\ \A w \in Binders : IsFiniteSet(Binders \ {w})
                   /\ Cardinality(Binders \ {w}) = Cardinality(Binders) - 1
<1>1. IsFiniteSet(Binders)
  BY DEF HInv, CallsSound, OneAttempt
<1>2. hostTries + Cardinality(Binders) = IF hostGuard THEN 1 ELSE 0
  BY DEF HInv, CallsSound, OneAttempt, GuardIsOneAttempt, Binders
<1> HIDE DEF Binders
<1> QED
  BY <1>1, <1>2, FS_CardinalityType, FS_AddElement, FS_RemoveElement

LEMMA GuardStep ==
  ASSUME HInv, NEW w \in HostCallers, TakeGuard(w)
  PROVE  HInv'
<1>1. CASE hostGuard
  <2>1. Returns(w, "AlreadyInitialized") /\ hostGuard' = hostGuard
    BY <1>1 DEF TakeGuard, HInv, HostTypes, InitTypes
  <2> QED
    BY <2>1, EndsStep DEF TakeGuard, CallResults
<1>2. CASE ~hostGuard
  <2>1. Becomes(w, "bind") /\ UNCHANGED <<hostStart, hostTables, hostProbe>>
        /\ UNCHANGED <<hostLibrary, hostTries, hostServes>> /\ hostGuard' = TRUE
        /\ hostCalls[w].at = "guard"
    BY <1>2 DEF TakeGuard
  <2> DEFINE call == Moved(w, "bind")
  <2>2. /\ call \in Calls /\ Changes(w, call) /\ hostCalls'[w] = call /\ call.at = "bind"
        /\ call.ask = hostCalls[w].ask /\ call.vias = hostCalls[w].vias
        /\ call.result = hostCalls[w].result /\ hostCalls[w].result # "ok"
    BY <2>1, MovedChanges DEF CallSteps
  <2> HIDE DEF call
  <2>3. HostTypes' /\ TablesSound'
    BY <2>1, <2>2, ChangeTyped, ChangeTables DEF HInv, HostTypes, InitTypes
  <2>4. Called(w)'
    BY <2>1, <2>2, CallOf DEF Called
  <2>5. Staged'
    BY <2>1, <2>2, CallsChange DEF HInv, CallsSound, Staged, hostStart, HostCallers
  <2>6. Binders' = Binders \cup {w} /\ w \notin Binders
    BY <2>1, <2>2, CallsChange DEF Binders
  <2>7. OneAttempt'
    <3>1. IsFiniteSet(Binders') /\ Cardinality(Binders') = Cardinality(Binders) + 1
      BY <2>6, BindersCount
    <3>2. hostTries + Cardinality(Binders) = 0 /\ hostTries \in Nat /\ Cardinality(Binders) \in Nat
      BY <1>2, BindersCount DEF HInv, HostTypes, InitTypes
    <3>3. hostTries' + Cardinality(Binders') = 1
      BY <2>1, <3>1, <3>2
    <3> QED
      BY <2>1, <3>1, <3>3 DEF OneAttempt, GuardIsOneAttempt, Binders
  <2> QED
    BY <2>1, <2>2, <2>3, <2>4, <2>5, <2>7, OthersKept DEF HInv, CallsSound
<1> QED
  BY <1>1, <1>2

\* A call leaves the step that binds, whatever it finds.
LEMMA BindStep ==
  ASSUME HInv, NEW w \in HostCallers, BindForwarding(w)
  PROVE  HInv'
<1>1. hostCalls[w].at = "bind" /\ hostTries' = hostTries + 1
      /\ UNCHANGED <<hostStart, hostLibrary, hostGuard, hostServes, hostTables, hostProbe>>
  BY DEF BindForwarding
<1>2. \E call \in Calls : /\ Changes(w, call) /\ call.at # "bind" /\ call.at # "idle" /\ Called(w)'
  <2>1. CASE Becomes(w, "spawn")
    <3>1. Called(w)'
      BY <1>1, <2>1, MovedChanges, CallOf DEF Called, CallSteps
    <3> QED
      BY <1>1, <2>1, <3>1, MovedChanges DEF CallSteps
  <2>2. CASE Returns(w, "ForwardingBind")
    <3>1. Ended(w, "ForwardingBind") \in Calls /\ Ended(w, "ForwardingBind").at = "done"
      BY NextCalls DEF CallSteps, CallResults
    <3>2. Changes(w, Ended(w, "ForwardingBind"))
      BY <1>1, <2>2, <3>1, CallsBecome, CallOf DEF Changes
    <3>3. Called(w)'
      BY <1>1, <3>2, EndsCalled DEF CallResults
    <3> QED
      BY <3>1, <3>2, <3>3
  <2> QED
    BY <2>1, <2>2 DEF BindForwarding
<1>3. PICK call \in Calls : Changes(w, call) /\ call.at # "bind" /\ call.at # "idle" /\ Called(w)'
  BY <1>2
<1>4. HostTypes' /\ TablesSound'
  <2>1. hostTries' \in Nat
    BY <1>1 DEF HInv, HostTypes, InitTypes
  <2> QED
    BY <1>1, <1>3, <2>1, ChangeTyped, ChangeTables DEF HInv, HostTypes, InitTypes
<1>5. Staged'
  BY <1>1, <1>3, CallsChange DEF HInv, CallsSound, Staged, hostStart, HostCallers
<1>6. Binders' = Binders \ {w} /\ w \in Binders
  BY <1>1, <1>3, CallsChange DEF Binders
<1>7. OneAttempt'
  <2>1. IsFiniteSet(Binders') /\ Cardinality(Binders') = Cardinality(Binders) - 1
    BY <1>6, BindersCount
  <2>2. hostTries \in Nat /\ Cardinality(Binders) \in Nat
        /\ hostTries + Cardinality(Binders) = IF hostGuard THEN 1 ELSE 0
    BY BindersCount DEF HInv, HostTypes, InitTypes
  <2>3. hostTries' + Cardinality(Binders') = hostTries + Cardinality(Binders)
    BY <1>1, <2>1, <2>2
  <2> QED
    BY <1>1, <2>1, <2>2, <2>3 DEF OneAttempt, GuardIsOneAttempt, Binders
<1> QED
  BY <1>1, <1>3, <1>4, <1>5, <1>7, OthersKept DEF HInv, CallsSound

LEMMA SpawnStep ==
  ASSUME HInv, NEW w \in HostCallers, SpawnServe(w)
  PROVE  HInv'
<1> DEFINE call == Ended(w, "ok")
           task == [by |-> w, http |-> hostCalls[w].vias[1], https |-> hostCalls[w].vias[2],
                    has |-> hostHas]
<1>1. /\ hostCalls[w].at = "spawn" /\ hostServes' = Append(hostServes, task) /\ Returns(w, "ok")
      /\ UNCHANGED <<hostStart, hostLibrary, hostGuard, hostTries, hostTables, hostProbe>>
  BY DEF SpawnServe
<1>2. /\ hostCalls[w].ask \in HostAsks /\ hostLibrary # Absent /\ hostCalls[w].result # "ok"
      /\ hostCalls[w].vias = ViasOf(hostCalls[w].ask)
      /\ Usable(HttpOf(hostCalls[w].ask)) /\ Usable(HttpsOf(hostCalls[w].ask))
  BY <1>1, CallOf DEF Called
<1>3. task.http = HttpOf(hostCalls[w].ask) /\ task.https = HttpsOf(hostCalls[w].ask)
      /\ task.by = w /\ task.has = hostHas
  BY <1>2 DEF ViasOf
<1>4. task \in Serves
  BY <1>2, <1>3 DEF Serves, HInv, HostTypes, StartTypes
<1>5. call \in Calls /\ call.at = "done" /\ call.result = "ok" /\ call.ask = hostCalls[w].ask
  BY NextCalls DEF CallSteps, CallResults
<1> HIDE DEF call, task
<1>6. Changes(w, call)
  BY <1>1, <1>2, <1>5, CallsBecome DEF Changes, call
<1>7. hostCalls'[w] = call
  BY <1>5, <1>6, CallsChange
<1>8. hostServes \in Seq(Serves) /\ hostServes' \in Seq(Serves)
  BY <1>1, <1>4 DEF HInv, HostTypes, InitTypes
<1>9. HostTypes' /\ TablesSound'
  BY <1>1, <1>5, <1>6, <1>8, ChangeTyped, ChangeTables DEF HInv, HostTypes, InitTypes
<1>10. Staged' /\ OneAttempt' /\ Called(w)'
  <2>1. Staged'
    BY <1>1, <1>5, <1>6, <1>7, CallsChange DEF HInv, CallsSound, Staged, hostStart, HostCallers
  <2>2. OneAttempt'
    BY <1>1, <1>5, <1>6, BindersKept
  <2>3. Called(w)'
    BY <1>1, <1>2, <1>5, <1>7 DEF Called
  <2> QED
    BY <2>1, <2>2, <2>3
<1>11. PICK s \in Serves : s = task
  BY <1>4
<1>13. ServedBy(s)'
  <2>1. w = "main" => Armed \subseteq hostHas
    BY <1>1 DEF HInv, CallsSound, Staged
  <2> QED
    BY <1>2, <1>3, <1>5, <1>7, <1>11, <2>1 DEF ServedBy, Usable
<1>14. ASSUME NEW k \in DOMAIN hostServes' PROVE Served(k)'
  <2>1. CASE k \in DOMAIN hostServes
    <3>1. PICK x \in Serves : x = hostServes[k]
      BY <1>8, <2>1
    <3>2. ServedBy(x)
      BY <2>1, <3>1 DEF HInv, CallsSound, Served
    <3>3. ServedBy(x)'
      BY <1>1, <1>5, <1>6, <3>2, OthersKept
    <3>4. hostServes'[k] = x
      BY <1>1, <1>8, <2>1, <3>1
    <3> QED
      BY <3>3, <3>4 DEF Served, ServedBy
  <2>2. CASE k \notin DOMAIN hostServes
    <3>1. hostServes'[k] = task
      BY <1>1, <1>8, <2>2
    <3> QED
      BY <1>11, <1>13, <3>1 DEF Served, ServedBy
  <2> QED
    BY <2>1, <2>2
<1> QED
  BY <1>1, <1>5, <1>6, <1>9, <1>10, <1>14, OthersKept DEF HInv, CallsSound

-----------------------------------------------------------------------------
(* The messages of the controller.                                         *)

LEMMA JobOf ==
  ASSUME HInv, NEW t \in Receivers
  PROVE  /\ hostJobs[t] \in Jobs /\ Handled(t)
         /\ hostJobs[t].at \in {"registry", "certs", "config"} => hostJobs[t] \in CaJobs
         /\ hostJobs[t].at = "remove" => hostJobs[t] \in [at : {"remove"}, c : Containers]
         /\ hostJobs[t].at = "key" => hostJobs[t] \in [at : {"key"}, blank : BOOLEAN]
<1>1. hostJobs[t] \in Jobs /\ Handled(t)
  BY DEF HInv, HostTypes, TableTypes, TablesSound
<1>2. \A j \in Jobs : /\ j.at \in {"registry", "certs", "config"} => j \in CaJobs
                      /\ j.at = "remove" => j \in [at : {"remove"}, c : Containers]
                      /\ j.at = "key" => j \in [at : {"key"}, blank : BOOLEAN]
  BY DEF Jobs, Fresh, Told, CaJobs
<1> QED
  BY <1>1, <1>2

\* One message moves on; the start and the calls rest.
LEMMA JobStep ==
  ASSUME HInv, NEW t \in Receivers, NEW job \in Jobs, Job(t, job),
         UNCHANGED <<hostStart, hostInit, hostProbe>>,
         hostCas' \subseteq Containers, hostCas \subseteq hostCas',
         hostCerts' \subseteq hostCas', hostCerts \subseteq hostCerts',
         hostConfigs' \in [Containers -> Nat \cup {Absent}], hostSent' \in 0..HostMessages,
         job.at = "certs" => job.c \in hostCas',
         job.at = "config" /\ GoodCa => job.c \in hostCerts',
         job.at # "idle" => hostLibrary # Absent,
         hostPc # "rest",
         GoodCa => \A c \in Containers : hostConfigs'[c] # Absent => c \in hostCerts'
  PROVE  HInv'
<1> USE DEF hostStart, hostInit
<1>1. hostJobs' \in [Receivers -> Jobs] /\ hostJobs'[t] = job
      /\ \A u \in Receivers \ {t} : hostJobs'[u] = hostJobs[u]
  BY DEF Job, HInv, HostTypes, TableTypes
<1>2. HostTypes'
  <2>1. TableTypes'
    BY <1>1 DEF TableTypes
  <2> QED
    BY <2>1 DEF HInv, HostTypes, StartTypes, InitTypes
<1>3. CallsSound'
  <2>1. Staged'
    BY DEF HInv, CallsSound, Staged
  <2> QED
    BY <2>1, CallsRest DEF HInv
<1>4. \A u \in Receivers : Handled(u)'
  <2>1. ASSUME NEW u \in Receivers \ {t} PROVE Handled(u)'
    BY <1>1, <2>1, JobOf DEF Handled, GoodCa
  <2>2. Handled(t)'
    BY <1>1 DEF Handled, GoodCa
  <2> QED
    BY <2>1, <2>2
<1>5. Configured'
  BY DEF Configured, GoodCa
<1> QED
  BY <1>2, <1>3, <1>4, <1>5 DEF HInv, TablesSound

LEMMA ReceiveStep ==
  ASSUME HInv, NEW t \in Receivers, Receive(t)
  PROVE  HInv'
<1>1. /\ hostPc = "loop" /\ hostSent < HostMessages /\ hostSent' = hostSent + 1
      /\ UNCHANGED <<hostStart, hostInit, hostCas, hostCerts, hostConfigs, hostProbe>>
  BY DEF Receive
<1>2. hostLibrary # Absent
  BY <1>1 DEF HInv, CallsSound, Staged
<1>3. hostSent' \in 0..HostMessages
  BY <1>1, HostAssumption DEF HInv, HostTypes, TableTypes
<1>4. \E job \in Jobs : Job(t, job) /\ job.at \notin {"certs", "config"}
  <2>1. ASSUME NEW c \in Containers, NEW good \in BOOLEAN
        PROVE  [at |-> "registry", c |-> c, good |-> good] \in Jobs
    BY DEF Jobs, CaJobs
  <2>2. ASSUME NEW c \in Containers PROVE [at |-> "remove", c |-> c] \in Jobs
    BY DEF Jobs
  <2>3. ASSUME NEW blank \in BOOLEAN PROVE [at |-> "key", blank |-> blank] \in Jobs
    BY DEF Jobs
  <2>4. [at |-> "idle", status |-> "error"] \in Jobs
    BY DEF Jobs, Told
  <2>5. CASE \E c \in Containers, good \in BOOLEAN : Job(t, [at |-> "registry", c |-> c, good |-> good])
    BY <2>1, <2>5
  <2>6. CASE \E c \in Containers : Job(t, [at |-> "remove", c |-> c])
    BY <2>2, <2>6
  <2>7. CASE \E blank \in BOOLEAN : Job(t, [at |-> "key", blank |-> blank])
    BY <2>3, <2>7
  <2>8. CASE Answers(t, "error")
    BY <2>4, <2>8 DEF Answers
  <2> QED
    BY <2>5, <2>6, <2>7, <2>8 DEF Receive
<1>5. PICK job \in Jobs : Job(t, job) /\ job.at \notin {"certs", "config"}
  BY <1>4
<1>6. hostCas \subseteq Containers /\ hostCerts \subseteq hostCas
      /\ hostConfigs \in [Containers -> Nat \cup {Absent}]
      /\ (GoodCa => \A c \in Containers : hostConfigs[c] # Absent => c \in hostCerts)
  BY DEF HInv, HostTypes, TableTypes, TablesSound, Configured
<1> QED
  BY <1>1, <1>2, <1>3, <1>5, <1>6, JobStep

LEMMA HandleStep ==
  ASSUME HInv, NEW t \in Receivers, Handle(t)
  PROVE  HInv'
<1>1. /\ hostCas \subseteq Containers /\ hostCerts \subseteq hostCas
      /\ hostConfigs \in [Containers -> Nat \cup {Absent}] /\ hostSent \in 0..HostMessages
      /\ hostSent \in Nat
      /\ (GoodCa => \A c \in Containers : hostConfigs[c] # Absent => c \in hostCerts)
  BY HostAssumption DEF HInv, HostTypes, TableTypes, TablesSound, Configured
<1>2. Handled(t)
  BY JobOf
<1>3. Alive /\ hostPc # "rest"
  BY DEF Handle, RefreshRegistry, RefreshCerts, RefreshConfig, RemoveContainer, SetApiKey, Alive
<1>4. \A status \in {"ok", "error"} : [at |-> "idle", status |-> status] \in Jobs
  BY DEF Jobs, Told
<1>5. CASE RefreshRegistry(t)
  <2> DEFINE job == [hostJobs[t] EXCEPT !.at = "certs"]
  <2>1. hostJobs[t] \in CaJobs
    BY <1>5, JobOf DEF RefreshRegistry
  <2>2. job \in Jobs /\ job.at = "certs" /\ job.c = hostJobs[t].c /\ hostJobs[t].c \in Containers
    BY <2>1 DEF Jobs, CaJobs
  <2>3. hostCas' = hostCas \cup {hostJobs[t].c} /\ Job(t, job) /\ hostLibrary # Absent
        /\ UNCHANGED <<hostStart, hostInit, hostCerts, hostConfigs, hostSent, hostProbe>>
    BY <1>2, <1>5 DEF RefreshRegistry, Handled
  <2> HIDE DEF job
  <2> QED
    BY <1>1, <1>3, <2>2, <2>3, JobStep
<1>6. CASE RefreshCerts(t)
  <2> DEFINE job == [hostJobs[t] EXCEPT !.at = "config"]
  <2>1. hostJobs[t] \in CaJobs
    BY <1>6, JobOf DEF RefreshCerts
  <2>2. job \in Jobs /\ job.at = "config" /\ job.c = hostJobs[t].c
    BY <2>1 DEF Jobs, CaJobs
  <2>3. /\ hostCerts' = hostCerts \cup (IF hostEnv.ca = "good" THEN {hostJobs[t].c} ELSE {})
        /\ Job(t, job) /\ hostLibrary # Absent /\ hostJobs[t].c \in hostCas
        /\ UNCHANGED <<hostStart, hostInit, hostCas, hostConfigs, hostSent, hostProbe>>
    BY <1>2, <1>6 DEF RefreshCerts, Handled
  <2>4. GoodCa => job.c \in hostCerts'
    BY <2>2, <2>3 DEF GoodCa
  <2>5. hostCerts' \subseteq hostCas /\ hostCerts \subseteq hostCerts'
    BY <1>1, <2>3
  <2> HIDE DEF job
  <2> QED
    BY <1>1, <1>3, <2>2, <2>3, <2>4, <2>5, JobStep
<1>7. CASE RefreshConfig(t)
  <2>1. hostJobs[t] \in CaJobs /\ hostJobs[t].c \in Containers
    BY <1>7, JobOf DEF RefreshConfig, CaJobs
  <2>2. GoodCa => hostJobs[t].c \in hostCerts
    BY <1>2, <1>7 DEF RefreshConfig, Handled
  <2>3. UNCHANGED <<hostStart, hostInit, hostCas, hostCerts, hostSent, hostProbe>>
    BY <1>7 DEF RefreshConfig
  <2>4. \E status \in {"ok", "error"} : Job(t, [at |-> "idle", status |-> status])
    BY <1>7 DEF RefreshConfig, Answers
  <2>5. hostConfigs' = hostConfigs \/ hostConfigs' = [hostConfigs EXCEPT ![hostJobs[t].c] = hostSent]
    BY <1>7 DEF RefreshConfig
  <2>6. hostConfigs' \in [Containers -> Nat \cup {Absent}]
        /\ (GoodCa => \A c \in Containers : hostConfigs'[c] # Absent => c \in hostCerts)
    BY <1>1, <2>1, <2>2, <2>5
  <2> QED
    BY <1>1, <1>3, <1>4, <2>3, <2>4, <2>6, JobStep
<1>8. CASE RemoveContainer(t)
  <2>1. hostJobs[t].c \in Containers
    BY <1>8, JobOf DEF RemoveContainer
  <2>2. UNCHANGED <<hostStart, hostInit, hostCas, hostCerts, hostSent, hostProbe>>
        /\ hostConfigs' = [hostConfigs EXCEPT ![hostJobs[t].c] = Absent]
        /\ Job(t, [at |-> "idle", status |-> "ok"])
    BY <1>8 DEF RemoveContainer, Answers
  <2>3. hostConfigs' \in [Containers -> Nat \cup {Absent}]
        /\ (GoodCa => \A c \in Containers : hostConfigs'[c] # Absent => c \in hostCerts)
    BY <1>1, <2>1, <2>2
  <2> QED
    BY <1>1, <1>3, <1>4, <2>2, <2>3, JobStep
<1>9. CASE SetApiKey(t)
  <2>1. hostLibrary # Absent
    BY <1>2, <1>9 DEF SetApiKey, Handled
  <2>2. \E status \in {"ok", "error"} : Job(t, [at |-> "idle", status |-> status])
    BY <1>9, <2>1 DEF SetApiKey, Answers
  <2>3. UNCHANGED <<hostStart, hostInit, hostCas, hostCerts, hostConfigs, hostSent, hostProbe>>
    BY <1>9 DEF SetApiKey
  <2> QED
    BY <1>1, <1>3, <1>4, <2>2, <2>3, JobStep
<1> QED
  BY <1>5, <1>6, <1>7, <1>8, <1>9 DEF Handle

LEMMA HostStutter == HInv /\ UNCHANGED hostVars => HInv'
<1> SUFFICES ASSUME HInv, UNCHANGED hostVars PROVE HInv'
  OBVIOUS
<1> USE DEF hostVars, hostStart, hostInit, hostTables
<1>1. HostTypes'
  BY DEF HInv, HostTypes, StartTypes, InitTypes, TableTypes
<1>2. Staged'
  BY DEF HInv, CallsSound, Staged
<1>3. CallsSound'
  BY <1>2, CallsRest DEF HInv
<1>4. TablesSound'
  BY DEF HInv, TablesSound, Handled, Configured, GoodCa
<1> QED
  BY <1>1, <1>3, <1>4 DEF HInv

LEMMA HostKept == HInv /\ [HostNext]_hostVars => HInv'
<1> SUFFICES ASSUME HInv, [HostNext]_hostVars PROVE HInv'
  OBVIOUS
<1>1. CASE UNCHANGED hostVars
  BY <1>1, HostStutter
<1>2. CASE HostLaunch \/ HostProbe
  BY <1>2, LaunchStep
<1>3. CASE HostMain
  <2>1. CASE StartProxy
    BY <2>1, BeginSteps DEF HostCallers
  <2> QED
    BY <1>3, <2>1, StartSteps DEF HostMain
<1>4. ASSUME NEW w \in HostCallers, ProxyInit(w) PROVE HInv'
  BY <1>4, ValidateStep, LibraryStep, UpstreamsStep, GuardStep, BindStep, SpawnStep DEF ProxyInit
<1>5. ASSUME NEW w \in OtherCallers, OtherCalls(w) \/ CallsAgain(w) PROVE HInv'
  <2>1. w \in HostCallers /\ w # "main"
    BY HostAssumption DEF HostCallers
  <2> QED
    BY <1>5, <2>1, BeginSteps
<1>6. ASSUME NEW t \in Receivers, Receive(t) \/ Handle(t) PROVE HInv'
  BY <1>6, ReceiveStep, HandleStep
<1> QED
  BY <1>1, <1>2, <1>3, <1>4, <1>5, <1>6 DEF HostNext

-----------------------------------------------------------------------------
(* The address of an upstream proxy.                                       *)

\* A set of positions that is not empty has a first and a last one.
LEMMA Ends ==
  ASSUME NEW n \in Nat, NEW T \in SUBSET (1..n), T # {}
  PROVE  /\ \E x \in T : \A y \in T : x <= y
         /\ \E x \in T : \A y \in T : y <= x
<1>1. ASSUME NEW U \in SUBSET Nat, U # {} PROVE \E x \in U : \A y \in U : x <= y
  <2>1. PICK x \in U : \A y \in U : ~(<<y, x>> \in OpToRel(<, Nat))
    BY <1>1, NatLessThanWellFounded, WFMin
  <2>2. \A y \in U : ~(y < x)
    BY <2>1 DEF OpToRel
  <2> QED
    BY <2>2
<1>2. T \in SUBSET Nat
  OBVIOUS
<1> DEFINE U == {n - x : x \in T}
<1>3. U \in SUBSET Nat /\ U # {}
  <2>1. \A x \in T : n - x \in Nat
    OBVIOUS
  <2> QED
    BY <2>1
<1>4. PICK u \in U : \A y \in U : u <= y
  <2> HIDE DEF U
  <2> QED
    BY <1>1, <1>3
<1>5. PICK x \in T : u = n - x
  OBVIOUS
<1>6. \A y \in T : y <= x
  <2> SUFFICES ASSUME NEW y \in T PROVE y <= x
    OBVIOUS
  <2>1. n - x <= n - y
    BY <1>4, <1>5
  <2> QED
    BY <2>1
<1> QED
  BY <1>1, <1>2, <1>6

\* A sequence from one position on, cut in front of another and behind it.
LEMMA Cut ==
  ASSUME NEW S, NEW s \in Seq(S), NEW k \in 1..Len(s), NEW m \in 1..k
  PROVE  SubSeq(s, m, Len(s)) = SubSeq(s, m, k - 1) \o <<s[k]>> \o SubSeq(s, k + 1, Len(s))
<1>1. PICK n \in Nat : n = Len(s)
  BY LenProperties
<1> DEFINE a == SubSeq(s, m, k - 1)
           b == SubSeq(s, k + 1, n)
<1>2. m \in 1..(n + 1) /\ k - 1 \in (m - 1)..n /\ n \in (k - 1)..n /\ n \in k..n /\ k - 1 + 1 = k
  BY <1>1
<1>3. a \o SubSeq(s, k, n) = SubSeq(s, m, n)
  BY <1>1, <1>2, ConcatAdjacentSubSeq
<1>4. SubSeq(s, k, n) = <<s[k]>> \o b
  BY <1>1, <1>2, SubSeqRecursiveFirst
<1>5. a \in Seq(S) /\ <<s[k]>> \in Seq(S) /\ b \in Seq(S)
  BY <1>1
<1> HIDE DEF a, b
<1>6. a \o (<<s[k]>> \o b) = (a \o <<s[k]>>) \o b
  BY <1>5, ConcatAssociative
<1> QED
  BY <1>1, <1>3, <1>4, <1>6 DEF a, b

Joined(p, q) == p \o q

LEMMA Joins ==
  ASSUME NEW S
  PROVE  /\ \A p \in Seq(S), q \in Seq(S) : Joined(p, q) \in Seq(S)
         /\ \A p \in Seq(S), q \in Seq(S), r \in Seq(S) : Joined(Joined(p, q), r) = Joined(p, Joined(q, r))
<1>1. ASSUME NEW p \in Seq(S), NEW q \in Seq(S) PROVE Joined(p, q) \in Seq(S)
  BY DEF Joined
<1>2. ASSUME NEW p \in Seq(S), NEW q \in Seq(S), NEW r \in Seq(S)
      PROVE  Joined(Joined(p, q), r) = Joined(p, Joined(q, r))
  BY ConcatAssociative DEF Joined
<1> QED
  BY <1>1, <1>2

LEMMA JoinsGroup ==
  ASSUME NEW S, NEW x \in Seq(S), NEW y \in Seq(S), NEW z \in Seq(S), NEW a \in Seq(S), NEW b \in Seq(S)
  PROVE  Joined(x, Joined(Joined(a, y), Joined(z, b))) = Joined(Joined(Joined(x, a), Joined(y, z)), b)
BY Joins

LEMMA PairJoined ==
  ASSUME NEW S, NEW y \in S, NEW z \in S
  PROVE  Joined(<<y>>, <<z>>) = <<y, z>>
<1> DEFINE p == Joined(<<y>>, <<z>>)
           q == <<y, z>>
<1>1. p \in Seq(S) /\ Len(p) = 2 /\ p[1] = y /\ p[2] = z
  BY DEF Joined
<1>2. q \in Seq(S) /\ Len(q) = 2 /\ q[1] = y /\ q[2] = z
  OBVIOUS
<1> HIDE DEF p, q
<1>3. \A i \in 1..Len(p) : p[i] = q[i]
  BY <1>1, <1>2
<1>4. p = q
  BY <1>1, <1>2, <1>3, SeqEqual
<1> QED
  BY <1>4 DEF p, q

LEMMA Rearranged ==
  ASSUME NEW S, NEW x \in S, NEW y \in S, NEW z \in S, NEW a \in Seq(S), NEW b \in Seq(S)
  PROVE  <<x>> \o ((a \o <<y>>) \o (<<z>> \o b)) = <<x>> \o a \o <<y, z>> \o b
<1>1. PICK p \in Seq(S) : p = <<x>>
  <2>1. <<x>> \in Seq(S)
    OBVIOUS
  <2> QED
    BY <2>1
<1>2. PICK q \in Seq(S) : q = <<y>>
  <2>1. <<y>> \in Seq(S)
    OBVIOUS
  <2> QED
    BY <2>1
<1>3. PICK r \in Seq(S) : r = <<z>>
  <2>1. <<z>> \in Seq(S)
    OBVIOUS
  <2> QED
    BY <2>1
<1>4. Joined(p, Joined(Joined(a, q), Joined(r, b))) = Joined(Joined(Joined(p, a), Joined(q, r)), b)
  BY JoinsGroup
<1>5. Joined(q, r) = <<y, z>>
  BY <1>2, <1>3, PairJoined
<1> QED
  BY <1>1, <1>2, <1>3, <1>4, <1>5, Zenon DEF Joined

\* ... and cut behind its first element and around two others.
LEMMA CutBox ==
  ASSUME NEW S, NEW s \in Seq(S), NEW k \in 2..(Len(s) - 1)
  PROVE  s = <<s[1]>> \o SubSeq(s, 2, k - 1) \o <<s[k], s[k + 1]>> \o SubSeq(s, k + 2, Len(s))
<1>1. PICK n \in Nat : n = Len(s)
  BY LenProperties
<1>2. /\ k \in 1..n /\ 2 \in 1..k /\ k + 1 \in 1..n /\ 1 \in 1..n /\ n \in 1..n
      /\ n \in (k + 1)..n /\ k + 1 + 1 = k + 2
  BY <1>1
<1>3. s = <<s[1]>> \o SubSeq(s, 2, n)
  <2>1. SubSeq(s, 1, n) = <<s[1]>> \o SubSeq(s, 1 + 1, n)
    BY <1>1, <1>2, SubSeqRecursiveFirst
  <2>2. SubSeq(s, 1, n) = s
    BY <1>1, SubSeqFull
  <2> QED
    BY <2>1, <2>2
<1>4. SubSeq(s, 2, n) = SubSeq(s, 2, k - 1) \o <<s[k]>> \o SubSeq(s, k + 1, n)
  BY <1>1, <1>2, Cut
<1>5. SubSeq(s, k + 1, n) = <<s[k + 1]>> \o SubSeq(s, k + 2, n)
  <2>1. SubSeq(s, k + 1, n) = <<s[k + 1]>> \o SubSeq(s, k + 1 + 1, n)
    BY <1>1, <1>2, SubSeqRecursiveFirst
  <2> QED
    BY <1>2, <2>1
<1>6. s[1] \in S /\ s[k] \in S /\ s[k + 1] \in S
  BY <1>1, <1>2
<1>7. SubSeq(s, 2, k - 1) \in Seq(S) /\ SubSeq(s, k + 2, n) \in Seq(S)
  BY <1>1, <1>2
<1>8. <<s[1]>> \o ((SubSeq(s, 2, k - 1) \o <<s[k]>>) \o (<<s[k + 1]>> \o SubSeq(s, k + 2, n)))
        = <<s[1]>> \o SubSeq(s, 2, k - 1) \o <<s[k], s[k + 1]>> \o SubSeq(s, k + 2, n)
  BY <1>6, <1>7, Rearranged
<1> QED
  BY <1>1, <1>3, <1>4, <1>5, <1>8

LEMMA CutHttp ==
  ASSUME NEW S, NEW s \in Seq(S), IsPrefix(Http, s)
  PROVE  s = Http \o SubSeq(s, 4, Len(s)) /\ SubSeq(s, 4, Len(s)) \in Seq(S)
<1> DEFINE b == SubSeq(s, 4, Len(s))
<1>1. Len(s) >= 3 /\ Http = SubSeq(s, 1, 3)
  BY DEF IsPrefix, Http
<1>2. s[1] = "http" /\ s[2] = ":" /\ s[3] = "//"
  BY <1>1 DEF Http
<1>3. b \in Seq(S) /\ Len(b) = Len(s) - 3 /\ \A i \in 1..(Len(s) - 3) : b[i] = s[3 + i]
  BY <1>1
<1> HIDE DEF b
<1>4. s = Http \o b
  BY <1>1, <1>2, <1>3 DEF Http
<1> QED
  BY <1>3, <1>4 DEF b

LEMMA ColonFound ==
  ASSUME NEW S, NEW s \in Seq(S), Contains(s, ":")
  PROVE  LastColon(s) \in 1..Len(s) /\ s[LastColon(s)] = ":"
<1> DEFINE T == {k \in DOMAIN s : s[k] = ":"}
<1>1. T \in SUBSET (1..Len(s)) /\ T # {} /\ Len(s) \in Nat
  BY DEF Contains
<1>2. \E k \in T : \A j \in T : j <= k
  <2> HIDE DEF T
  <2> QED
    BY <1>1, Ends
<1>3. LastColon(s) \in T
  BY <1>2 DEF LastColon
<1> QED
  BY <1>3

LEMMA BracketFound ==
  ASSUME NEW S, NEW s \in Seq(S), NEW k, k = SelectInSeq(s, LAMBDA x : x = "]"), k > 0
  PROVE  k \in 1..Len(s) /\ s[k] = "]"
<1> DEFINE T == {i \in 1..Len(s) : s[i] = "]"}
<1>1. T \in SUBSET (1..Len(s)) /\ Len(s) \in Nat
  OBVIOUS
<1>2. T # {} /\ k = Min(T)
  BY DEF SelectInSeq
<1>3. \E i \in T : \A j \in T : i <= j
  <2> HIDE DEF T
  <2> QED
    BY <1>1, <1>2, Ends
<1>4. k \in T
  BY <1>2, <1>3 DEF Min
<1> QED
  BY <1>4

\* What ends a text.
IsEnd(p, s) == \E k \in DOMAIN s : p = SubSeq(s, k, Len(s))

LEMMA EndOf ==
  ASSUME NEW S, NEW s \in Seq(S), NEW k \in 1..(Len(s) + 1), SubSeq(s, k, Len(s)) # << >>
  PROVE  IsEnd(SubSeq(s, k, Len(s)), s)
<1>1. PICK n \in Nat : n = Len(s)
  BY LenProperties
<1>2. k # n + 1
  BY <1>1
<1>3. k \in DOMAIN s
  BY <1>1, <1>2
<1> QED
  BY <1>3 DEF IsEnd

\* What ends the rest of a text behind its third element ends the text.
LEMMA EndOfRest ==
  ASSUME NEW S, NEW s \in Seq(S), NEW t, t = SubSeq(s, 4, Len(s)), Len(s) >= 3, NEW p, IsEnd(p, t)
  PROVE  IsEnd(p, s)
<1>1. PICK n \in Nat : n = Len(s)
  BY LenProperties
<1>2. Len(t) = n - 3
  <2>1. 4 \in Int /\ n \in Int /\ \A i \in 4..n : s[i] \in S
    BY <1>1
  <2>2. Len(SubSeq(s, 4, n)) = IF 4 <= n THEN n - 4 + 1 ELSE 0
    BY <2>1, SubSeqProperties
  <2>3. n >= 3
    BY <1>1
  <2> QED
    BY <1>1, <2>2, <2>3
<1>3. PICK k \in 1..(n - 3) : p = SubSeq(t, k, n - 3)
  <2>1. t \in Seq(S)
    BY <1>1, <1>2, SubSeqProperties
  <2>2. PICK m \in Nat : m = Len(t)
    BY <1>1, <1>2
  <2>3. DOMAIN t = 1..m
    BY <2>1, <2>2, LenProperties
  <2>4. m = n - 3
    BY <1>2, <2>2
  <2> QED
    BY <2>2, <2>3, <2>4 DEF IsEnd
<1>4. /\ 4 \in 1..Len(s) /\ n \in 1..Len(s)
      /\ k \in 1..(n - 4 + 1) /\ n - 3 \in 1..(n - 4 + 1)
      /\ 4 + k - 1 = 3 + k /\ 4 + (n - 3) - 1 = n /\ 3 + k \in 1..n
  BY <1>1, <1>3
<1>5. SubSeq(SubSeq(s, 4, n), k, n - 3) = SubSeq(s, 4 + k - 1, 4 + (n - 3) - 1)
  BY <1>4, SubSeqOfSubSeq
<1>6. p = SubSeq(s, 3 + k, n)
  BY <1>1, <1>3, <1>4, <1>5
<1>7. 3 + k \in DOMAIN s
  BY <1>1, <1>4
<1> QED
  BY <1>1, <1>6, <1>7 DEF IsEnd

\* What is split at a port reads back.
LEMMA SplitReadsBack ==
  ASSUME NEW S, NEW s \in Seq(S), HostAndPort(s).ok
  PROVE  LET o == HostAndPort(s)
         IN s \in {o.host \o <<":">> \o o.port, <<"[">> \o o.host \o <<"]", ":">> \o o.port}
<1>1. CASE s # << >> /\ s[1] = "["
  <2> DEFINE k == SelectInSeq(s, LAMBDA x : x = "]")
  <2>1. /\ k > 0 /\ k < Len(s) /\ s[k + 1] = ":"
        /\ HostAndPort(s).host = SubSeq(s, 2, k - 1) /\ HostAndPort(s).port = SubSeq(s, k + 2, Len(s))
    BY <1>1 DEF HostAndPort, Refused
  <2>2. k \in 1..Len(s) /\ s[k] = "]"
    BY <2>1, BracketFound
  <2> HIDE DEF k
  <2>3. k # 1
    BY <1>1, <2>2
  <2>4. k \in 2..(Len(s) - 1)
    BY <2>1, <2>2, <2>3
  <2>5. s = <<"[">> \o SubSeq(s, 2, k - 1) \o <<"]", ":">> \o SubSeq(s, k + 2, Len(s))
    BY <1>1, <2>1, <2>2, <2>4, CutBox
  <2> QED
    BY <2>1, <2>5
<1>2. CASE ~(s # << >> /\ s[1] = "[")
  <2>1. /\ Contains(s, ":") /\ HostAndPort(s).host = SubSeq(s, 1, LastColon(s) - 1)
        /\ HostAndPort(s).port = SubSeq(s, LastColon(s) + 1, Len(s))
    BY <1>2 DEF HostAndPort, Refused
  <2>2. LastColon(s) \in 1..Len(s) /\ s[LastColon(s)] = ":"
    BY <2>1, ColonFound
  <2>3. 1 \in 1..LastColon(s)
    BY <2>2
  <2>4. SubSeq(s, 1, Len(s)) = SubSeq(s, 1, LastColon(s) - 1) \o <<":">> \o SubSeq(s, LastColon(s) + 1, Len(s))
    BY <2>2, <2>3, Cut
  <2>5. SubSeq(s, 1, Len(s)) = s
    BY SubSeqFull
  <2> QED
    BY <2>1, <2>4, <2>5
<1> QED
  BY <1>1, <1>2

\* Its port ends it.
LEMMA PortCut ==
  ASSUME NEW S, NEW s \in Seq(S), HostAndPort(s).ok
  PROVE  \E k \in 1..(Len(s) + 1) : HostAndPort(s).port = SubSeq(s, k, Len(s))
<1>1. PICK n \in Nat : n = Len(s)
  BY LenProperties
<1>2. CASE s # << >> /\ s[1] = "["
  <2> DEFINE c == SelectInSeq(s, LAMBDA x : x = "]")
  <2>1. c > 0 /\ c < Len(s) /\ HostAndPort(s).port = SubSeq(s, c + 2, Len(s))
    BY <1>2 DEF HostAndPort, Refused
  <2>2. c \in 1..Len(s)
    BY <2>1, BracketFound
  <2> HIDE DEF c
  <2>3. c + 2 \in 1..(n + 1)
    BY <1>1, <2>1, <2>2
  <2> QED
    BY <1>1, <2>1, <2>3
<1>3. CASE ~(s # << >> /\ s[1] = "[")
  <2>1. Contains(s, ":") /\ HostAndPort(s).port = SubSeq(s, LastColon(s) + 1, Len(s))
    BY <1>3 DEF HostAndPort, Refused
  <2>2. LastColon(s) \in 1..Len(s)
    BY <2>1, ColonFound
  <2>3. LastColon(s) + 1 \in 1..(n + 1)
    BY <1>1, <2>2
  <2> QED
    BY <1>1, <2>1, <2>3
<1> QED
  BY <1>2, <1>3

\* The rest of a text after its scheme, and an address in it.
Unschemed(s) == IF IsPrefix(Http, s) THEN SubSeq(s, 4, Len(s)) ELSE s
Written(s, host, port) ==
  s \in {host \o <<":">> \o port, <<"[">> \o host \o <<"]", ":">> \o port,
         Http \o (host \o <<":">> \o port), Http \o (<<"[">> \o host \o <<"]", ":">> \o port)}

\* An accepted address is the text with the scheme, if it has one, and the brackets taken off,
\* and its port the number written at the end.
LEMMA ParsedReadsBack ==
  ASSUME NEW S, NEW s \in Seq(S), ParseUpstream(s).ok
  PROVE  \E port \in {SubSeq(s, k, Len(s)) : k \in DOMAIN s} :
           LET host == ParseUpstream(s).host
               bare == host \o <<":">> \o port
               boxed == <<"[">> \o host \o <<"]", ":">> \o port
           IN /\ s \in {bare, boxed, Http \o bare, Http \o boxed}
              /\ host # << >> /\ IsPort(port) /\ ParseUpstream(s).port = PortNumber(port)
<1> DEFINE rest == Unschemed(s)
           port == HostAndPort(rest).port
           host == HostAndPort(rest).host
<1>1. HostAndPort(rest).ok /\ host # << >> /\ IsPort(port)
      /\ ParseUpstream(s) = [HostAndPort(rest) EXCEPT !.port = PortNumber(@)]
  BY DEF ParseUpstream, Refused, Unschemed
<1>2. HostAndPort(rest) = [ok |-> TRUE, host |-> host, port |-> port]
  BY <1>1 DEF HostAndPort, Refused
<1>3. ParseUpstream(s).host = host /\ ParseUpstream(s).port = PortNumber(port)
  BY <1>1, <1>2
<1>4. rest \in Seq(S) /\ (s = rest \/ s = Http \o rest)
  BY CutHttp DEF Unschemed
<1>5. Written(s, host, port)
  <2> HIDE DEF rest
  <2> QED
    BY <1>1, <1>4, SplitReadsBack DEF Written
<1>6. IsEnd(port, s)
  <2>1. port # << >>
    <3>1. IsPort(port)
      BY <1>1
    <3> HIDE DEF port
    <3>2. ASSUME port = << >> PROVE PortDigits(port) = port
      BY <3>2 DEF PortDigits
    <3> QED
      BY <3>1, <3>2 DEF IsPort
  <2>2. IsEnd(port, rest)
    <3> HIDE DEF rest
    <3>1. PICK k \in 1..(Len(rest) + 1) : port = SubSeq(rest, k, Len(rest))
      BY <1>1, <1>4, PortCut
    <3> QED
      BY <1>4, <2>1, <3>1, EndOf
  <2>3. CASE IsPrefix(Http, s)
    <3>1. rest = SubSeq(s, 4, Len(s))
      BY <2>3 DEF Unschemed
    <3> HIDE DEF rest, port
    <3>2. Len(s) >= 3
      BY <2>3 DEF IsPrefix, Http
    <3> QED
      BY <2>2, <3>1, <3>2, EndOfRest
  <2>4. CASE ~IsPrefix(Http, s)
    BY <2>2, <2>4 DEF Unschemed
  <2> QED
    BY <2>3, <2>4
<1> HIDE DEF host, port
<1> QED
  BY <1>1, <1>3, <1>5, <1>6 DEF Written, IsEnd

(***************************************************************************)
(* ProxyHost.  Texts in pieces, and the list of keys.                      *)
(***************************************************************************)
\* A set of numbers that is not empty has a least one.
LEMMA LeastOf ==
  ASSUME NEW T \in SUBSET Nat, T # {}
  PROVE  \E x \in T : \A y \in T : x <= y
<1>1. PICK x \in T : \A y \in T : ~(<<y, x>> \in OpToRel(<, Nat))
  BY NatLessThanWellFounded, WFMin
<1>2. \A y \in T : ~(y < x)
  BY <1>1 DEF OpToRel
<1> QED
  BY <1>2

\* Min is among them, and the least.
LEMMA MinOf ==
  ASSUME NEW T \in SUBSET Nat, T # {}
  PROVE  Min(T) \in T /\ \A y \in T : Min(T) <= y
<1>1. \E x \in T : \A y \in T : x <= y
  BY LeastOf
<1> QED
  BY <1>1 DEF Min

\* One with an upper bound has a greatest one.
LEMMA GreatestOf ==
  ASSUME NEW n \in Nat, NEW T \in SUBSET (1..n), T # {}
  PROVE  \E x \in T : \A y \in T : y <= x
<1> DEFINE U == {m \in Nat : \A y \in T : y <= m}
<1>1. n \in U
  OBVIOUS
<1>2. PICK m \in U : \A j \in U : m <= j
  <2>1. U \in SUBSET Nat
    OBVIOUS
  <2> HIDE DEF U
  <2> QED
    BY <1>1, <2>1, LeastOf
<1>3. m \in Nat /\ \A y \in T : y <= m
  OBVIOUS
<1>4. m \in T
  <2> SUFFICES ASSUME m \notin T PROVE FALSE
    OBVIOUS
  <2>1. \A y \in T : y \in 1..n /\ y <= m /\ y # m
    BY <1>3
  <2>2. PICK y \in T : TRUE
    OBVIOUS
  <2>3. m - 1 \in Nat /\ ~(m <= m - 1)
    BY <1>3, <2>1, <2>2
  <2>4. \A z \in T : z <= m - 1
    BY <1>3, <2>1
  <2> QED
    BY <1>2, <2>3, <2>4
<1> QED
  BY <1>3, <1>4

Flattening(q, n, f) == f = [i \in 1..n |-> IF i = 1 THEN q[i] ELSE f[i - 1] \o q[i]]

\* The function FlattenSeq builds exists, whatever the list.
LEMMA Flattens ==
  ASSUME NEW q, NEW n \in Nat
  PROVE  \E f : Flattening(q, n, f)
<1> DEFINE T == {m \in Nat : ~ \E f : Flattening(q, m, f)}
<1>1. SUFFICES ASSUME T # {} PROVE FALSE
  OBVIOUS
<1>2. PICK m \in T : \A j \in T : m <= j
  BY <1>1, LeastOf
<1>3. CASE m = 0
  <2> DEFINE e == [i \in 1..0 |-> <<>>]
  <2>1. Flattening(q, 0, e)
    BY DEF Flattening
  <2> QED
    BY <1>2, <1>3, <2>1
<1>4. CASE m # 0
  <2>1. PICK l : l = m - 1
    OBVIOUS
  <2>2. l \in Nat /\ l < m /\ m = l + 1 /\ m \in Nat
    BY <1>2, <1>4, <2>1
  <2>3. PICK f : Flattening(q, l, f)
    BY <1>2, <2>2
  <2> DEFINE F(h, i) == IF i = 1 THEN q[i] ELSE h[i - 1] \o q[i]
             g == [i \in 1..m |-> IF i = m THEN F(f, m) ELSE f[i]]
  <2>4. ASSUME NEW i \in 1..m PROVE g[i] = F(g, i)
    <3>1. CASE i = m
      <4>1. CASE m = 1
        BY <3>1, <4>1
      <4>2. CASE m # 1
        <5>1. m - 1 \in 1..m /\ m - 1 # m
          BY <2>2, <4>2
        <5>2. g[m - 1] = f[m - 1]
          BY <5>1
        <5>3. g[m] = F(f, m)
          BY <2>2
        <5> HIDE DEF g
        <5> QED
          BY <3>1, <5>2, <5>3
      <4> QED
        BY <4>1, <4>2
    <3>2. CASE i # m
      <4>1. i \in 1..l
        BY <3>2, <2>2
      <4>2. g[i] = f[i]
        BY <3>2
      <4>3. f[i] = F(f, i)
        BY <4>1, <2>3 DEF Flattening
      <4>4. CASE i = 1
        BY <4>2, <4>3, <4>4
      <4>5. CASE i # 1
        <5>1. i - 1 \in 1..m /\ i - 1 # m
          BY <4>1, <4>5, <2>2
        <5>2. g[i - 1] = f[i - 1]
          BY <5>1
        <5> HIDE DEF g
        <5> QED
          BY <4>2, <4>3, <5>2
      <4> QED
        BY <4>4, <4>5
    <3> QED
      BY <3>1, <3>2
  <2>5. g = [i \in 1..m |-> F(g, i)]
    BY <2>4
  <2>6. Flattening(q, m, g)
    BY <2>5 DEF Flattening
  <2> QED
    BY <1>2, <2>6
<1> QED
  BY <1>3, <1>4

\* No pieces, no text.
LEMMA FlattenEmpty == FlattenSeq(<<>>) = <<>>
<1>1. Len(<<>>) = 0
  BY EmptySeq
<1> QED
  BY <1>1 DEF FlattenSeq

\* What FlattenSeq returns is the last value of that function.
LEMMA FlattenEnds ==
  ASSUME NEW S, NEW q \in Seq(S), NEW n \in Nat, n = Len(q), n # 0
  PROVE  \E f : Flattening(q, n, f) /\ FlattenSeq(q) = f[n]
<1>1. PICK f : f = CHOOSE g : Flattening(q, n, g)
  OBVIOUS
<1>2. Flattening(q, n, f)
  BY <1>1, Flattens
<1>3. FlattenSeq(q) = f[n]
  BY <1>1 DEF FlattenSeq, Flattening
<1> QED
  BY <1>2, <1>3

\* One more piece.
LEMMA FlattenAppend ==
  ASSUME NEW S, NEW q \in Seq(Seq(S)), NEW x \in Seq(S)
  PROVE  FlattenSeq(Append(q, x)) = FlattenSeq(q) \o x
<1>1. PICK p, n : p = Append(q, x) /\ n = Len(q)
  OBVIOUS
<1>2. n \in Nat /\ p \in Seq(Seq(S)) /\ Len(p) = n + 1 /\ p[n + 1] = x /\ \A i \in 1..n : p[i] = q[i]
  BY <1>1, AppendProperties
<1>3. PICK m : m = n + 1
  OBVIOUS
<1>4. m \in Nat /\ m # 0 /\ m = Len(p) /\ m - 1 = n /\ m \in 1..m /\ p[m] = x
  BY <1>2, <1>3
<1>5. PICK g : Flattening(p, m, g) /\ FlattenSeq(p) = g[m]
  BY <1>2, <1>4, FlattenEnds
<1>6. g[m] = IF m = 1 THEN x ELSE g[n] \o x
  BY <1>4, <1>5 DEF Flattening
<1>7. CASE n = 0
  <2>1. q = <<>>
    BY <1>1, <1>7, EmptySeq, SeqEqual
  <2>2. FlattenSeq(q) = <<>>
    BY <2>1, FlattenEmpty
  <2>3. m = 1
    BY <1>3, <1>7
  <2>4. g[m] = x
    BY <1>6, <2>3
  <2>5. <<>> \o x = x
    BY ConcatEmptySeq
  <2> QED
    BY <1>1, <1>5, <2>2, <2>4, <2>5
<1>8. CASE n # 0
  <2>1. PICK f : Flattening(q, n, f) /\ FlattenSeq(q) = f[n]
    BY <1>1, <1>2, <1>8, FlattenEnds
  <2> DEFINE T == {i \in 1..n : g[i] # f[i]}
  <2>2. ASSUME NEW i \in T, \A j \in T : i <= j PROVE FALSE
    <3>1. i \in 1..n /\ g[i] # f[i] /\ i \in 1..m
      BY <1>2, <1>3
    <3>2. f[i] = IF i = 1 THEN q[i] ELSE f[i - 1] \o q[i]
      BY <2>1, <3>1 DEF Flattening
    <3>3. g[i] = IF i = 1 THEN q[i] ELSE g[i - 1] \o q[i]
      BY <1>2, <1>5, <3>1 DEF Flattening
    <3>4. i # 1
      BY <3>1, <3>2, <3>3
    <3>5. PICK l : l = i - 1
      OBVIOUS
    <3>6. l \in 1..n /\ ~(i <= l)
      <4> HIDE DEF T
      <4> QED
        BY <1>2, <3>1, <3>4, <3>5
    <3>7. l \notin T
      <4> HIDE DEF T
      <4> QED
        BY <2>2, <3>6
    <3>8. g[l] = f[l]
      BY <3>6, <3>7
    <3> QED
      BY <3>1, <3>2, <3>3, <3>4, <3>5, <3>8
  <2>3. T = {}
    <3>1. T \in SUBSET Nat
      OBVIOUS
    <3> HIDE DEF T
    <3> QED
      BY <2>2, <3>1, LeastOf
  <2>4. n \in 1..n
    BY <1>2, <1>8
  <2>5. g[n] = f[n]
    BY <2>3, <2>4
  <2>6. m # 1
    BY <1>2, <1>3, <1>8
  <2>7. g[m] = g[n] \o x
    BY <1>6, <2>6
  <2> QED
    BY <1>1, <1>5, <2>1, <2>5, <2>7
<1> QED
  BY <1>7, <1>8

\* Pieces that are texts make a text.
LEMMA FlatIsText ==
  ASSUME NEW S, NEW q \in Seq(Seq(S))
  PROVE  FlattenSeq(q) \in Seq(S)
<1> DEFINE T == {n \in Nat : \E p \in Seq(Seq(S)) : Len(p) = n /\ FlattenSeq(p) \notin Seq(S)}
<1>1. ASSUME NEW n \in T, \A j \in T : n <= j PROVE FALSE
  <2>1. PICK p \in Seq(Seq(S)) : Len(p) = n /\ FlattenSeq(p) \notin Seq(S)
    OBVIOUS
  <2>2. n \in Nat
    BY <2>1
  <2>3. p # <<>>
    BY <2>1, FlattenEmpty, EmptySeq
  <2>4. PICK b \in Seq(Seq(S)), x \in Seq(S) : p = Append(b, x)
    BY <2>3, SequenceEmptyOrAppend
  <2>5. Len(b) \in Nat /\ n = Len(b) + 1
    BY <2>1, <2>4, AppendProperties
  <2>5a. Len(b) = n - 1
    BY <2>5
  <2>6. n - 1 \in Nat /\ ~(n <= n - 1)
    BY <2>2, <2>5
  <2>7. n - 1 \notin T
    <3> HIDE DEF T
    <3> QED
      BY <1>1, <2>6
  <2>8. FlattenSeq(b) \in Seq(S)
    BY <2>5a, <2>6, <2>7
  <2>9. FlattenSeq(p) \in Seq(S)
    BY <2>4, <2>8, FlattenAppend, ConcatProperties
  <2> QED
    BY <2>1, <2>9
<1>2. T = {}
  <2>1. T \in SUBSET Nat
    OBVIOUS
  <2> HIDE DEF T
  <2> QED
    BY <1>1, <2>1, LeastOf
<1>3. Len(q) \in Nat
  OBVIOUS
<1> QED
  BY <1>2, <1>3

\* A text without some of its symbols.
KeptOf(x, set) == IF x \in set THEN <<>> ELSE <<x>>
Kept(s, set) == [k \in DOMAIN s |-> IF s[k] \in set THEN <<>> ELSE <<s[k]>>]

LEMMA KeptTyped ==
  ASSUME NEW S, NEW s \in Seq(S), NEW set, NEW n, n = Len(s)
  PROVE  Kept(s, set) \in Seq(Seq(S)) /\ Len(Kept(s, set)) = n /\ n \in Nat
         /\ \A k \in 1..n : Kept(s, set)[k] = IF s[k] \in set THEN <<>> ELSE <<s[k]>>
<1>1. n \in Nat /\ DOMAIN s = 1..n /\ \A k \in 1..n : s[k] \in S
  BY LenProperties
<1>2. ASSUME NEW k \in 1..n PROVE (IF s[k] \in set THEN <<>> ELSE <<s[k]>>) \in Seq(S)
  BY <1>1
<1>3. Kept(s, set) = [k \in 1..n |-> IF s[k] \in set THEN <<>> ELSE <<s[k]>>]
  BY <1>1 DEF Kept
<1>4. Kept(s, set) \in [1..n -> Seq(S)]
  BY <1>2, <1>3
<1>5. \A k \in 1..n : Kept(s, set)[k] = IF s[k] \in set THEN <<>> ELSE <<s[k]>>
  BY <1>3
<1> QED
  BY <1>1, <1>4, <1>5

\* What is left of a text is a text.
LEMMA WithoutTyped ==
  ASSUME NEW S, NEW s \in Seq(S), NEW set
  PROVE  Without(s, set) \in Seq(S)
<1>1. PICK n : n = Len(s)
  OBVIOUS
<1>2. Kept(s, set) \in Seq(Seq(S))
  BY <1>1, KeptTyped
<1>3. Without(s, set) = FlattenSeq(Kept(s, set))
  BY DEF Without, Kept
<1> QED
  BY <1>2, <1>3, FlatIsText

\* Nothing is left of nothing.
LEMMA WithoutEmpty ==
  ASSUME NEW set
  PROVE  Without(<<>>, set) = <<>>
<1>1. PICK e : e = Kept(<<>>, set)
  OBVIOUS
<1>2. <<>> \in Seq(STRING) /\ Len(<<>>) = 0
  BY EmptySeq
<1>3. e \in Seq(Seq(STRING)) /\ Len(e) = 0
  <2>1. PICK s, n : s = <<>> /\ n = 0
    OBVIOUS
  <2>2. e = Kept(s, set) /\ s \in Seq(STRING) /\ n = Len(s)
    BY <1>1, <1>2, <2>1
  <2>3. Kept(s, set) \in Seq(Seq(STRING)) /\ Len(Kept(s, set)) = n
    BY <2>2, KeptTyped
  <2> QED
    BY <2>1, <2>2, <2>3
<1>4. e = <<>>
  BY <1>3, EmptySeq
<1>5. Without(<<>>, set) = FlattenSeq(e)
  BY <1>1 DEF Without, Kept
<1> QED
  BY <1>4, <1>5, FlattenEmpty

\* One more symbol: it is left, or it goes.
LEMMA WithoutOneMore ==
  ASSUME NEW S, NEW s \in Seq(S), NEW x \in S, NEW set
  PROVE  Without(Append(s, x), set) = Without(s, set) \o KeptOf(x, set)
<1>1. PICK n, t, p : n = Len(s) /\ t = Append(s, x) /\ p = KeptOf(x, set)
  OBVIOUS
<1>2. PICK m : m = n + 1
  OBVIOUS
<1>3. n \in Nat /\ t \in Seq(S) /\ m = Len(t) /\ t[m] = x /\ \A k \in 1..n : t[k] = s[k]
  BY <1>1, <1>2, AppendProperties
<1>4. PICK a, b : a = Kept(s, set) /\ b = Kept(t, set)
  OBVIOUS
<1>5. a \in Seq(Seq(S)) /\ Len(a) = n /\ \A k \in 1..n : a[k] = IF s[k] \in set THEN <<>> ELSE <<s[k]>>
  BY <1>1, <1>4, KeptTyped
<1>6. b \in Seq(Seq(S)) /\ Len(b) = m /\ \A k \in 1..m : b[k] = IF t[k] \in set THEN <<>> ELSE <<t[k]>>
  BY <1>3, <1>4, KeptTyped
<1>7. p = (IF x \in set THEN <<>> ELSE <<x>>) /\ p \in Seq(S)
  BY <1>1 DEF KeptOf
<1>8. PICK c : c = Append(a, p)
  OBVIOUS
<1>9. c \in Seq(Seq(S)) /\ Len(c) = m /\ c[m] = p /\ \A k \in 1..n : c[k] = a[k]
  BY <1>2, <1>5, <1>7, <1>8, AppendProperties
<1>10. ASSUME NEW k \in 1..m PROVE b[k] = c[k]
  <2>1. CASE k = m
    BY <1>3, <1>6, <1>7, <1>9, <2>1
  <2>2. CASE k # m
    <3>1. k \in 1..n
      BY <1>2, <1>3, <2>2
    <3> QED
      BY <1>3, <1>5, <1>6, <1>9, <3>1
  <2> QED
    BY <2>1, <2>2
<1>11. b = c
  BY <1>6, <1>9, <1>10, SeqEqual
<1>12. FlattenSeq(b) = FlattenSeq(a) \o p
  BY <1>5, <1>7, <1>8, <1>11, FlattenAppend
<1> QED
  BY <1>1, <1>4, <1>12 DEF Without, Kept

\* The same, for a text that has a name.
LEMMA WithoutAppend ==
  ASSUME NEW S, NEW s \in Seq(S), NEW x \in S, NEW set, NEW t, t = Append(s, x)
  PROVE  Without(t, set) = Without(s, set) \o KeptOf(x, set)
BY WithoutOneMore

\* Text by text.
LEMMA WithoutCat ==
  ASSUME NEW S, NEW a \in Seq(S), NEW b \in Seq(S), NEW set
  PROVE  Without(a \o b, set) = Without(a, set) \o Without(b, set)
<1> DEFINE Holds(c) == Without(a \o c, set) = Without(a, set) \o Without(c, set)
           T == {n \in Nat : \E c \in Seq(S) : Len(c) = n /\ ~Holds(c)}
<1>1. ASSUME NEW n \in T, \A j \in T : n <= j PROVE FALSE
  <2>1. PICK c \in Seq(S) : Len(c) = n /\ ~Holds(c)
    OBVIOUS
  <2>0. n \in Nat
    OBVIOUS
  <2> HIDE DEF T, Holds
  <2>2. c # <<>>
    <3>1. CASE c = <<>>
      BY <2>1, <3>1, WithoutEmpty, WithoutTyped, ConcatEmptySeq DEF Holds
    <3> QED
      BY <3>1
  <2>3. PICK d \in Seq(S), x \in S : c = Append(d, x)
    BY <2>2, SequenceEmptyOrAppend
  <2>4. Len(d) \in Nat /\ n = Len(d) + 1
    BY <2>1, <2>3, AppendProperties
  <2>5. PICK l : l = Len(d)
    OBVIOUS
  <2>6. l \in Nat /\ ~(n <= l)
    BY <2>4, <2>5
  <2>7. l \notin T
    BY <1>1, <2>6
  <2>8. Holds(d)
    BY <2>5, <2>6, <2>7 DEF T
  <2>9. a \o c = Append(a \o d, x)
    <3>1. PICK e, f : e = a \o d /\ f = a \o c
      OBVIOUS
    <3>2. e \in Seq(S) /\ Append(e, x) = e \o <<x>>
      BY <3>1, ConcatProperties, AppendIsConcat
    <3>3. c = d \o <<x>> /\ <<x>> \in Seq(S)
      BY <2>3, AppendIsConcat
    <3>4. e \o <<x>> = a \o (d \o <<x>>)
      BY <3>1, <3>3, ConcatAssociative
    <3> QED
      BY <3>1, <3>2, <3>3, <3>4
  <2>10. PICK p : p = KeptOf(x, set)
    OBVIOUS
  <2>11. p \in Seq(S)
    BY <2>10 DEF KeptOf
  <2>12. a \o d \in Seq(S)
    BY ConcatProperties
  <2>13. Without(a \o c, set) = Without(a \o d, set) \o p
    <3>1. PICK e, f : e = a \o d /\ f = a \o c
      OBVIOUS
    <3>2. e \in Seq(S) /\ f = Append(e, x)
      BY <2>9, <2>12, <3>1
    <3>3. Without(f, set) = Without(e, set) \o KeptOf(x, set)
      BY <3>2, WithoutAppend
    <3> QED
      BY <2>10, <3>1, <3>3
  <2>14. Without(c, set) = Without(d, set) \o p
    BY <2>3, <2>10, WithoutAppend
  <2>15. Without(a, set) \in Seq(S) /\ Without(d, set) \in Seq(S)
    BY WithoutTyped
  <2>16. (Without(a, set) \o Without(d, set)) \o p = Without(a, set) \o (Without(d, set) \o p)
    <3>1. PICK u, v : u = Without(a, set) /\ v = Without(d, set)
      OBVIOUS
    <3>2. u \in Seq(S) /\ v \in Seq(S) /\ p \in Seq(S)
      BY <2>11, <2>15, <3>1
    <3>3. (u \o v) \o p = u \o (v \o p)
      BY <3>2, ConcatAssociative
    <3> QED
      BY <3>1, <3>3
  <2> QED
    BY <2>1, <2>8, <2>13, <2>14, <2>16 DEF Holds
<1>2. T = {}
  <2>1. T \in SUBSET Nat
    OBVIOUS
  <2> HIDE DEF T
  <2> QED
    BY <1>1, <2>1, LeastOf
<1>3. Len(b) \in Nat
  OBVIOUS
<1>4. Holds(b)
  BY <1>2, <1>3
<1> QED
  BY <1>4

Cat(a, b) == a \o b

\* The same, for a concatenation that has a name.
LEMMA WithoutJoin ==
  ASSUME NEW S, NEW a \in Seq(S), NEW b \in Seq(S), NEW set
  PROVE  Without(Cat(a, b), set) = Cat(Without(a, set), Without(b, set))
BY WithoutCat DEF Cat

\* Nothing is left of symbols that all go.
LEMMA WithoutAll ==
  ASSUME NEW S, NEW s \in Seq(S), NEW set, \A k \in 1..Len(s) : s[k] \in set
  PROVE  Without(s, set) = <<>>
<1> DEFINE Goes(c) == \A k \in 1..Len(c) : c[k] \in set
           T == {n \in Nat : \E c \in Seq(S) : Len(c) = n /\ Goes(c) /\ Without(c, set) # <<>>}
<1>1. ASSUME NEW n \in T, \A j \in T : n <= j PROVE FALSE
  <2>1. PICK c \in Seq(S) : Len(c) = n /\ Goes(c) /\ Without(c, set) # <<>>
    OBVIOUS
  <2>0. n \in Nat
    OBVIOUS
  <2> HIDE DEF T, Goes
  <2>2. c # <<>>
    BY <2>1, WithoutEmpty
  <2>3. PICK d \in Seq(S), x \in S : c = Append(d, x)
    BY <2>2, SequenceEmptyOrAppend
  <2>4. PICK l : l = Len(d)
    OBVIOUS
  <2>5. l \in Nat /\ n = l + 1 /\ c[n] = x /\ \A k \in 1..l : c[k] = d[k]
    BY <2>1, <2>3, <2>4, AppendProperties
  <2>6. ~(n <= l) /\ n \in 1..n /\ \A k \in 1..l : k \in 1..n
    BY <2>5
  <2>7. l \notin T
    BY <1>1, <2>6
  <2>8. x \in set
    BY <2>1, <2>5, <2>6 DEF Goes
  <2>9. Goes(d)
    BY <2>1, <2>4, <2>5, <2>6 DEF Goes
  <2>10. Without(d, set) = <<>>
    BY <2>4, <2>5, <2>7, <2>9 DEF T
  <2>11. Without(c, set) = <<>> \o <<>>
    <3>1. PICK p : p = <<>>
      OBVIOUS
    <3>2. p = KeptOf(x, set)
      BY <2>8, <3>1 DEF KeptOf
    <3>3. Without(c, set) = Without(d, set) \o p
      BY <2>3, <3>2, WithoutAppend
    <3> QED
      BY <2>10, <3>1, <3>3
  <2>12. <<>> \o <<>> = <<>>
    BY EmptySeq, ConcatEmptySeq
  <2> QED
    BY <2>1, <2>11, <2>12
<1>2. T = {}
  <2>1. T \in SUBSET Nat
    OBVIOUS
  <2> HIDE DEF T
  <2> QED
    BY <1>1, <2>1, LeastOf
<1>3. Len(s) \in Nat
  OBVIOUS
<1> QED
  BY <1>2, <1>3

\* Two sets that agree on the symbols of a text leave the same.
LEMMA WithoutSame ==
  ASSUME NEW S, NEW s \in Seq(S), NEW set, NEW other,
         \A k \in 1..Len(s) : s[k] \in set <=> s[k] \in other
  PROVE  Without(s, set) = Without(s, other)
<1>1. DOMAIN s = 1..Len(s)
  BY LenProperties
<1>2. Kept(s, set) = Kept(s, other)
  BY <1>1 DEF Kept
<1> QED
  BY <1>2 DEF Without, Kept

\* A slice of a text: its length and its symbols.
LEMMA SliceTyped ==
  ASSUME NEW S, NEW s \in Seq(S), NEW n, n = Len(s), NEW a \in 1..(n + 1), NEW b \in (a - 1)..n
  PROVE  /\ SubSeq(s, a, b) \in Seq(S) /\ Len(SubSeq(s, a, b)) = b - a + 1
         /\ \A i \in 1..(b - a + 1) : SubSeq(s, a, b)[i] = s[a + i - 1]
<1>1. n \in Nat /\ \A i \in 1..n : s[i] \in S
  OBVIOUS
<1>2. a \in Int /\ b \in Int /\ \A i \in a..b : s[i] \in S
  BY <1>1
<1>3. /\ SubSeq(s, a, b) \in Seq(S)
      /\ Len(SubSeq(s, a, b)) = IF a <= b THEN b - a + 1 ELSE 0
      /\ \A i \in 1..(b - a + 1) : SubSeq(s, a, b)[i] = s[a + i - 1]
  BY <1>2, SubSeqProperties
<1>4. a <= b \/ b - a + 1 = 0
  BY <1>1
<1> QED
  BY <1>3, <1>4

\* What goes at both ends may as well not be there.
LEMMA WithoutEnds ==
  ASSUME NEW S, NEW s \in Seq(S), NEW set, NEW n, n = Len(s), NEW a \in 1..n, NEW b \in a..n,
         \A k \in 1..n : k < a \/ k > b => s[k] \in set
  PROVE  Without(SubSeq(s, a, b), set) = Without(s, set)
<1>0. n \in Nat
  OBVIOUS
<1>1. PICK x, y, z : x = SubSeq(s, 1, a - 1) /\ y = SubSeq(s, a, b) /\ z = SubSeq(s, b + 1, n)
  OBVIOUS
<1>2. x \in Seq(S) /\ Len(x) = a - 1 /\ \A i \in 1..(a - 1) : x[i] = s[i]
  <2>1. 1 \in 1..(n + 1) /\ a - 1 \in (1 - 1)..n
    BY <1>0
  <2>2. x \in Seq(S) /\ Len(x) = (a - 1) - 1 + 1 /\ \A i \in 1..((a - 1) - 1 + 1) : x[i] = s[1 + i - 1]
    BY <1>1, <2>1, SliceTyped
  <2>3. (a - 1) - 1 + 1 = a - 1 /\ \A i \in 1..(a - 1) : 1 + i - 1 = i
    BY <1>0
  <2> QED
    BY <2>2, <2>3
<1>3. y \in Seq(S)
  <2>1. a \in 1..(n + 1) /\ b \in (a - 1)..n
    BY <1>0
  <2> QED
    BY <1>1, <2>1, SliceTyped
<1>4. z \in Seq(S) /\ Len(z) = n - b /\ \A i \in 1..(n - b) : z[i] = s[b + i]
  <2>1. b + 1 \in 1..(n + 1) /\ n \in ((b + 1) - 1)..n
    BY <1>0
  <2>2. z \in Seq(S) /\ Len(z) = n - (b + 1) + 1 /\ \A i \in 1..(n - (b + 1) + 1) : z[i] = s[(b + 1) + i - 1]
    BY <1>1, <2>1, SliceTyped
  <2>3. n - (b + 1) + 1 = n - b /\ \A i \in 1..(n - b) : (b + 1) + i - 1 = b + i
    BY <1>0
  <2> QED
    BY <2>2, <2>3
<1>5. x \o y = SubSeq(s, 1, b)
  <2>1. 1 \in 1..(n + 1) /\ a - 1 \in (1 - 1)..n /\ b \in (a - 1)..n /\ (a - 1) + 1 = a
    BY <1>0
  <2> QED
    BY <1>1, <2>1, ConcatAdjacentSubSeq
<1>6. (x \o y) \o z = s
  <2>1. 1 \in 1..(n + 1) /\ b \in (1 - 1)..n /\ n \in b..n
    BY <1>0
  <2>2. SubSeq(s, 1, b) \o SubSeq(s, b + 1, n) = SubSeq(s, 1, n)
    BY <2>1, ConcatAdjacentSubSeq
  <2> QED
    BY <1>1, <1>5, <2>2, SubSeqFull
<1>7. Without(x, set) = <<>>
  <2>1. \A i \in 1..Len(x) : x[i] \in set
    <3> SUFFICES ASSUME NEW i \in 1..Len(x) PROVE x[i] \in set
      OBVIOUS
    <3>1. i \in 1..(a - 1) /\ i \in 1..n /\ i < a
      BY <1>0, <1>2
    <3> QED
      BY <1>2, <3>1
  <2> QED
    BY <1>2, <2>1, WithoutAll
<1>8. Without(z, set) = <<>>
  <2>1. \A i \in 1..Len(z) : z[i] \in set
    <3> SUFFICES ASSUME NEW i \in 1..Len(z) PROVE z[i] \in set
      OBVIOUS
    <3>1. i \in 1..(n - b) /\ b + i \in 1..n /\ b + i > b
      BY <1>0, <1>4
    <3> QED
      BY <1>4, <3>1
  <2> QED
    BY <1>4, <2>1, WithoutAll
<1>9. PICK w : w = Without(y, set)
  OBVIOUS
<1>10. w \in Seq(S)
  BY <1>3, <1>9, WithoutTyped
<1>11. PICK v : v = Cat(x, y)
  OBVIOUS
<1>12. v \in Seq(S) /\ s = Cat(v, z)
  BY <1>2, <1>3, <1>6, <1>11, ConcatProperties DEF Cat
<1>13. Without(s, set) = Cat(Without(v, set), Without(z, set))
  BY <1>4, <1>12, WithoutJoin
<1>14. Without(v, set) = Cat(Without(x, set), Without(y, set))
  BY <1>2, <1>3, <1>11, WithoutJoin
<1>15. Cat(<<>>, w) = w /\ Cat(w, <<>>) = w
  BY <1>10, ConcatEmptySeq DEF Cat
<1>16. Without(v, set) = w
  BY <1>7, <1>9, <1>14, <1>15
<1>17. Without(s, set) = w
  BY <1>8, <1>13, <1>15, <1>16
<1> QED
  BY <1>1, <1>9, <1>17

\* A text trimmed of its blanks: one of its slices, and nothing else is lost.
LEMMA TrimReads ==
  ASSUME NEW S, NEW s \in Seq(S)
  PROVE  /\ Trim(s) \in Seq(S)
         /\ Without(Trim(s), {" "}) = Without(s, {" "})
         /\ \A i \in 1..Len(Trim(s)) : \E k \in 1..Len(s) : Trim(s)[i] = s[k]
<1>1. PICK n : n = Len(s)
  OBVIOUS
<1>2. n \in Nat /\ DOMAIN s = 1..n
  BY <1>1, LenProperties
<1> DEFINE solid == {k \in 1..n : s[k] # " "}
<1>3. CASE solid = {}
  <2>1. Trim(s) = <<>>
    BY <1>2, <1>3 DEF Trim
  <2>2. \A k \in 1..Len(s) : s[k] \in {" "}
    BY <1>1, <1>3
  <2>3. Without(s, {" "}) = <<>>
    BY <2>2, WithoutAll
  <2>4. <<>> \in Seq(S) /\ Len(<<>>) = 0
    BY EmptySeq
  <2>5. \A i \in 1..0 : FALSE
    OBVIOUS
  <2> QED
    BY <2>1, <2>3, <2>4, <2>5, WithoutEmpty
<1>4. CASE solid # {}
  <2>0. solid \in SUBSET (1..n)
    OBVIOUS
  <2>1. PICK a : a = CHOOSE k \in solid : \A j \in solid : k <= j
    OBVIOUS
  <2>2. PICK b : b = CHOOSE k \in solid : \A j \in solid : j <= k
    OBVIOUS
  <2>3. Trim(s) = SubSeq(s, a, b)
    BY <1>2, <1>4, <2>1, <2>2 DEF Trim
  <2>3a. \A k \in 1..n : k \notin solid => s[k] \in {" "}
    OBVIOUS
  <2> HIDE DEF solid
  <2>4. \E k \in solid : \A j \in solid : k <= j
    <3>1. solid \in SUBSET Nat
      BY <1>2, <2>0
    <3> QED
      BY <1>4, <3>1, LeastOf
  <2>5. \E k \in solid : \A j \in solid : j <= k
    BY <1>2, <1>4, <2>0, GreatestOf
  <2>6. a \in solid /\ \A j \in solid : a <= j
    BY <2>1, <2>4
  <2>7. b \in solid /\ \A j \in solid : j <= b
    BY <2>2, <2>5
  <2>8. a \in 1..n /\ b \in a..n
    BY <1>2, <2>0, <2>6, <2>7
  <2>9. \A k \in 1..n : k < a \/ k > b => s[k] \in {" "}
    <3> SUFFICES ASSUME NEW k \in 1..n, k < a \/ k > b PROVE s[k] \in {" "}
      OBVIOUS
    <3>1. ~(a <= k) \/ ~(k <= b)
      BY <1>2, <2>8
    <3>2. k \notin solid
      BY <2>6, <2>7, <3>1
    <3> QED
      BY <2>3a, <3>2
  <2>10. Without(SubSeq(s, a, b), {" "}) = Without(s, {" "})
    BY <1>1, <2>8, <2>9, WithoutEnds
  <2>11. a \in 1..(n + 1) /\ b \in (a - 1)..n
    BY <1>2, <2>8
  <2>12. /\ SubSeq(s, a, b) \in Seq(S) /\ Len(SubSeq(s, a, b)) = b - a + 1
         /\ \A i \in 1..(b - a + 1) : SubSeq(s, a, b)[i] = s[a + i - 1]
    BY <1>1, <2>11, SliceTyped
  <2>13. \A i \in 1..(b - a + 1) : a + i - 1 \in 1..n
    BY <1>2, <2>8
  <2> QED
    BY <1>1, <2>3, <2>10, <2>12, <2>13
<1> QED
  BY <1>3, <1>4

Blank == {" "}
Rejoined(o) == Without(o.id \o <<":">> \o o.key, {" "})

\* A pair that has a colon: what was split off, the colon and the rest are the pair.
LEMMA SplitReads ==
  ASSUME NEW S, NEW s \in Seq(S), Contains(s, ":")
  PROVE  ~Contains(SplitOnce(s).id, ":") /\ Rejoined(SplitOnce(s)) = Without(s, Blank)
<1>0a. PICK o : o = SplitOnce(s)
  OBVIOUS
<1>0. PICK n : n = Len(s)
  OBVIOUS
<1>1. n \in Nat
  BY <1>0
<1> DEFINE I == {i \in 1..Len(s) : s[i] = ":"}
<1>2. PICK at : at = SelectInSeq(s, LAMBDA x : x = ":")
  OBVIOUS
<1>3. I # {}
  BY DEF Contains
<1>4. at = Min(I)
  BY <1>2, <1>3 DEF SelectInSeq
<1>5. I \in SUBSET Nat
  OBVIOUS
<1>6. at \in I /\ \A y \in I : at <= y
  <2> HIDE DEF I
  <2> QED
    BY <1>3, <1>4, <1>5, MinOf
<1>7. at \in 1..n /\ s[at] = ":" /\ \A k \in 1..(at - 1) : s[k] # ":"
  <2>1. at \in 1..n /\ s[at] = ":"
    BY <1>0, <1>6
  <2>2. ASSUME NEW k \in 1..(at - 1), s[k] = ":" PROVE FALSE
    <3>1. k \in 1..n /\ ~(at <= k)
      BY <1>1, <2>1
    <3>2. k \in I
      BY <1>0, <2>2, <3>1
    <3> HIDE DEF I
    <3> QED
      BY <1>6, <3>1, <3>2
  <2> QED
    BY <2>1, <2>2
<1> HIDE DEF I
<1>8. PICK x, y, z : x = SubSeq(s, 1, at - 1) /\ y = <<":">> /\ z = SubSeq(s, at + 1, n)
  OBVIOUS
<1>9. o.id = Trim(x) /\ o.key = Trim(z)
  BY <1>0, <1>0a, <1>2, <1>8 DEF SplitOnce
<1>10. x \in Seq(S) /\ Len(x) = at - 1 /\ \A i \in 1..(at - 1) : x[i] = s[i]
  <2>1. 1 \in 1..(n + 1) /\ at - 1 \in (1 - 1)..n
    BY <1>1, <1>7
  <2>2. x \in Seq(S) /\ Len(x) = (at - 1) - 1 + 1 /\ \A i \in 1..((at - 1) - 1 + 1) : x[i] = s[1 + i - 1]
    BY <1>0, <1>8, <2>1, SliceTyped
  <2>3. (at - 1) - 1 + 1 = at - 1 /\ \A i \in 1..(at - 1) : 1 + i - 1 = i
    BY <1>7
  <2> QED
    BY <2>2, <2>3
<1>11. z \in Seq(S)
  <2>1. at + 1 \in 1..(n + 1) /\ n \in ((at + 1) - 1)..n
    BY <1>1, <1>7
  <2> QED
    BY <1>0, <1>8, <2>1, SliceTyped
<1>12. y \in Seq(S)
  <2>1. s[at] \in S
    BY <1>0, <1>7
  <2> QED
    BY <1>7, <1>8, <2>1
<1>13. x \o y = SubSeq(s, 1, at)
  <2>1. SubSeq(s, 1, at) = SubSeq(s, 1, at - 1) \o <<s[at]>>
    <3>1. 1 \in 1..Len(s) /\ at \in 1..Len(s)
      BY <1>0, <1>7
    <3> QED
      BY <3>1, SubSeqRecursiveSecond
  <2> QED
    BY <1>7, <1>8, <2>1
<1>14. PICK v : v = Cat(x, y)
  OBVIOUS
<1>15. v \in Seq(S) /\ s = Cat(v, z)
  <2>1. v \in Seq(S)
    BY <1>10, <1>12, <1>14, ConcatProperties DEF Cat
  <2>2. 1 \in 1..(n + 1) /\ at \in (1 - 1)..n /\ n \in at..n
    BY <1>1, <1>7
  <2>3. SubSeq(s, 1, at) \o SubSeq(s, at + 1, n) = SubSeq(s, 1, n)
    BY <1>0, <2>2, ConcatAdjacentSubSeq
  <2> QED
    BY <1>0, <1>8, <1>13, <1>14, <2>1, <2>3, SubSeqFull DEF Cat
<1>16. PICK i, k : i = o.id /\ k = o.key
  OBVIOUS
<1>16a. PICK B : B = {" "}
  OBVIOUS
<1>17. i \in Seq(S) /\ Without(i, B) = Without(x, B)
       /\ \A j \in 1..Len(i) : \E l \in 1..Len(x) : i[j] = x[l]
  <2>1. i = Trim(x) /\ x \in Seq(S)
    BY <1>9, <1>10, <1>16
  <2> QED
    BY <1>16a, <2>1, TrimReads
<1>18. k \in Seq(S) /\ Without(k, B) = Without(z, B)
  BY <1>9, <1>11, <1>16, <1>16a, TrimReads
<1>19. ~Contains(i, ":")
  BY <1>7, <1>10, <1>17 DEF Contains
<1>20. PICK u, w : u = Cat(i, y) /\ w = Cat(u, k)
  OBVIOUS
<1>21. u \in Seq(S)
  BY <1>12, <1>17, <1>20, ConcatProperties DEF Cat
<1>22. Without(w, B) = Cat(Without(u, B), Without(k, B))
  BY <1>18, <1>20, <1>21, WithoutJoin
<1>23. Without(u, B) = Cat(Without(i, B), Without(y, B))
  BY <1>12, <1>17, <1>20, WithoutJoin
<1>24. Without(s, B) = Cat(Without(v, B), Without(z, B))
  BY <1>11, <1>15, WithoutJoin
<1>25. Without(v, B) = Cat(Without(x, B), Without(y, B))
  BY <1>10, <1>12, <1>14, WithoutJoin
<1>26. Without(w, B) = Without(s, B)
  BY <1>17, <1>18, <1>22, <1>23, <1>24, <1>25
<1>27. w = o.id \o <<":">> \o o.key
  BY <1>8, <1>16, <1>20 DEF Cat
<1> QED
  BY <1>0a, <1>16, <1>16a, <1>19, <1>26, <1>27 DEF Rejoined, Blank

\* What the texts of a list leave, one after the other.
Leavings(q, set) == [k \in DOMAIN q |-> Without(q[k], set)]

LEMMA LeavingsTyped ==
  ASSUME NEW S, NEW q \in Seq(Seq(S)), NEW set, NEW n, n = Len(q)
  PROVE  Leavings(q, set) \in Seq(Seq(S)) /\ Len(Leavings(q, set)) = n /\ n \in Nat
         /\ \A k \in 1..n : Leavings(q, set)[k] = Without(q[k], set)
<1>1. n \in Nat /\ DOMAIN q = 1..n /\ \A k \in 1..n : q[k] \in Seq(S)
  BY LenProperties
<1>2. \A k \in 1..n : Without(q[k], set) \in Seq(S)
  BY <1>1, WithoutTyped
<1>3. Leavings(q, set) = [k \in 1..n |-> Without(q[k], set)]
  BY <1>1 DEF Leavings
<1>4. \A k \in 1..n : Leavings(q, set)[k] = Without(q[k], set)
  BY <1>3
<1>5. PICK f : f = Leavings(q, set)
  OBVIOUS
<1>6. PICK T : T = Seq(S)
  OBVIOUS
<1>6a. f \in [1..n -> T]
  BY <1>2, <1>3, <1>5, <1>6
<1>6b. f \in Seq(T) /\ Len(f) = n
  BY <1>1, <1>6a
<1>7. f \in Seq(Seq(S)) /\ Len(f) = n
  BY <1>6, <1>6b
<1> QED
  BY <1>1, <1>4, <1>5, <1>7

\* One more text of a list.
LEMMA LeavingsAppend ==
  ASSUME NEW S, NEW q \in Seq(Seq(S)), NEW x \in Seq(S), NEW set
  PROVE  FlattenSeq(Leavings(Append(q, x), set)) = FlattenSeq(Leavings(q, set)) \o Without(x, set)
<1>1. PICK n, t, p : n = Len(q) /\ t = Append(q, x) /\ p = Without(x, set)
  OBVIOUS
<1>2. PICK m : m = n + 1
  OBVIOUS
<1>3. n \in Nat /\ t \in Seq(Seq(S)) /\ m = Len(t) /\ t[m] = x /\ \A k \in 1..n : t[k] = q[k]
  BY <1>1, <1>2, AppendProperties
<1>4. PICK a, b : a = Leavings(q, set) /\ b = Leavings(t, set)
  OBVIOUS
<1>5. a \in Seq(Seq(S)) /\ Len(a) = n /\ \A k \in 1..n : a[k] = Without(q[k], set)
  BY <1>1, <1>4, LeavingsTyped
<1>6. b \in Seq(Seq(S)) /\ Len(b) = m /\ \A k \in 1..m : b[k] = Without(t[k], set)
  BY <1>3, <1>4, LeavingsTyped
<1>7. p \in Seq(S)
  BY <1>1, WithoutTyped
<1>8. PICK c : c = Append(a, p)
  OBVIOUS
<1>9. c \in Seq(Seq(S)) /\ Len(c) = m /\ c[m] = p /\ \A k \in 1..n : c[k] = a[k]
  BY <1>2, <1>5, <1>7, <1>8, AppendProperties
<1>10. ASSUME NEW k \in 1..m PROVE b[k] = c[k]
  <2>1. CASE k = m
    BY <1>1, <1>3, <1>6, <1>9, <2>1
  <2>2. CASE k # m
    <3>1. k \in 1..n
      BY <1>2, <1>3, <2>2
    <3> QED
      BY <1>3, <1>5, <1>6, <1>9, <3>1
  <2> QED
    BY <2>1, <2>2
<1>11. b = c
  BY <1>6, <1>9, <1>10, SeqEqual
<1>12. FlattenSeq(b) = FlattenSeq(a) \o p
  BY <1>5, <1>7, <1>8, <1>11, FlattenAppend
<1> QED
  BY <1>1, <1>4, <1>12

\* The comma before a place of a text, or none.
CommaBefore(s, i) == Max({0} \cup {k \in DOMAIN s : k < i /\ s[k] = ","})
PieceAt(s, i) == IF (i > Len(s) \/ s[i] = ",") /\ PairBefore(s, i) # <<>> THEN <<PairBefore(s, i)>> ELSE <<>>
Pieces(s) == [i \in 1..(Len(s) + 1) |-> PieceAt(s, i)]
IsComma(s, i) == s[i] = ","
IsLen(s, n) == n = Len(s)
SliceBefore(s, i) == SubSeq(s, CommaBefore(s, i) + 1, i - 1)
Gone == {" ", ","}
Left(q) == FlattenSeq(Leavings(q, Blank))

\* There is no comma between that one and the place.
LEMMA BeforeIs ==
  ASSUME NEW S, NEW s \in Seq(S), NEW n \in Nat, IsLen(s, n), NEW i \in 1..(n + 1)
  PROVE  /\ CommaBefore(s, i) \in 0..(i - 1)
         /\ \A k \in (CommaBefore(s, i) + 1)..(i - 1) : s[k] # ","
<1> DEFINE T == {0} \cup {k \in DOMAIN s : k < i /\ s[k] = ","}
<1>1. DOMAIN s = 1..n /\ n \in Nat
  BY LenProperties DEF IsLen
<1>2. T \subseteq 0..n /\ T # {}
  <2>1. ASSUME NEW y \in T PROVE y \in 0..n
    <3>1. y = 0 \/ y \in 1..n
      BY <1>1, <2>1
    <3> HIDE DEF T
    <3> QED
      BY <1>1, <3>1
  <2>2. 0 \in T
    OBVIOUS
  <2> QED
    BY <2>1, <2>2
<1>3. \E x \in T : \A y \in T : y <= x
  <2> DEFINE U == {k \in 1..n : k \in T}
  <2>1. CASE U = {}
    <3>1. ASSUME NEW y \in T PROVE y <= 0
      <4>1. y \notin U /\ y \in 0..n
        BY <1>2, <2>1
      <4>2. y \notin 1..n
        BY <4>1
      <4>3. y \in 0..n
        BY <4>1
      <4> HIDE DEF T, U
      <4> QED
        BY <1>1, <4>3, <4>2
    <3>2. 0 \in T
      OBVIOUS
    <3> QED
      BY <3>1, <3>2
  <2>2. CASE U # {}
    <3>1. U \in SUBSET (1..n)
      OBVIOUS
    <3>2. \A y \in T : y \in U \/ y = 0
      BY <1>1
    <3>3. U \subseteq T
      OBVIOUS
    <3>4. PICK x \in U : \A y \in U : y <= x
      <4> HIDE DEF U
      <4> QED
        BY <1>1, <2>2, <3>1, GreatestOf
    <3>5. x \in 1..n
      OBVIOUS
    <3> HIDE DEF T, U
    <3> QED
      BY <3>2, <3>3, <3>4, <3>5
  <2> QED
    BY <2>1, <2>2
<1>4. PICK m : m = CommaBefore(s, i)
  OBVIOUS
<1>5. m = CHOOSE x \in T : \A y \in T : x >= y
  BY <1>4 DEF CommaBefore, Max
<1>6. m \in T /\ \A y \in T : y <= m
  <2>1. \E x \in T : \A y \in T : x >= y
    <3> HIDE DEF T
    <3> QED
      BY <1>1, <1>2, <1>3
  <2> HIDE DEF T
  <2>2. m \in T /\ \A y \in T : m >= y
    BY <1>5, <2>1
  <2> QED
    BY <1>1, <1>2, <2>2
<1>7. m \in 0..(i - 1)
  <2>1. m = 0 \/ (m \in 1..n /\ m < i)
    BY <1>1, <1>6
  <2> QED
    BY <1>1, <2>1
<1>8. ASSUME NEW k \in (m + 1)..(i - 1), s[k] = "," PROVE FALSE
  <2>1. k \in 1..n /\ k < i /\ ~(k <= m)
    BY <1>1, <1>7
  <2>2. k \in T
    BY <1>1, <1>8, <2>1
  <2> HIDE DEF T
  <2> QED
    BY <1>6, <2>1, <2>2
<1> QED
  BY <1>4, <1>7, <1>8

\* One place further, it is the comma at this place or the same as before.
LEMMA BeforeNext ==
  ASSUME NEW S, NEW s \in Seq(S), NEW n \in Nat, IsLen(s, n), NEW i \in 1..n, NEW j, j = i + 1
  PROVE  CommaBefore(s, j) = IF s[i] = "," THEN i ELSE CommaBefore(s, i)
<1>1. DOMAIN s = 1..n /\ n \in Nat
  BY LenProperties DEF IsLen
<1>2. CASE s[i] = ","
  <2>1. j \in 1..(n + 1)
    BY <1>1
  <2>2. PICK m : m = CommaBefore(s, j)
    OBVIOUS
  <2>3. m \in 0..(j - 1) /\ \A k \in (m + 1)..(j - 1) : s[k] # ","
    BY <2>1, <2>2, BeforeIs
  <2>4. m = i
    <3>1. i \notin (m + 1)..(j - 1)
      BY <1>2, <2>3
    <3>2. m \in 0..(j - 1)
      BY <2>3
    <3> QED
      BY <3>1, <3>2
  <2> QED
    BY <1>2, <2>2, <2>4
<1>3. CASE s[i] # ","
  <2>1. \A k \in DOMAIN s : (k < j /\ s[k] = ",") <=> (k < i /\ s[k] = ",")
    <3>1. ASSUME NEW k \in 1..n, k # i PROVE k < j <=> k < i
      BY <3>1
    <3>2. ASSUME NEW k \in 1..n, s[k] = "," PROVE k < j <=> k < i
      <4>1. k # i
        BY <1>3, <3>2
      <4> QED
        BY <3>1, <4>1
    <3>3. \A k \in 1..n : (k < j /\ s[k] = ",") <=> (k < i /\ s[k] = ",")
      BY <3>2
    <3> QED
      BY <1>1, <3>3
  <2>2. {k \in DOMAIN s : k < j /\ s[k] = ","} = {k \in DOMAIN s : k < i /\ s[k] = ","}
    BY <2>1
  <2> QED
    BY <1>3, <2>2 DEF CommaBefore
<1> QED
  BY <1>2, <1>3

\* The slice before an end, without commas: what its pair leaves is what it leaves.
LEMMA PairReads ==
  ASSUME NEW S, NEW s \in Seq(S), NEW n \in Nat, IsLen(s, n), NEW i \in 1..(n + 1)
  PROVE  /\ PairBefore(s, i) \in Seq(S)
         /\ Without(PairBefore(s, i), Blank) = Without(SliceBefore(s, i), Gone)
<1>1. PICK m : m = CommaBefore(s, i)
  OBVIOUS
<1>2. m \in 0..(i - 1) /\ \A k \in (m + 1)..(i - 1) : s[k] # ","
  BY <1>1, BeforeIs
<1>3. PICK a, b : a = m + 1 /\ b = i - 1
  OBVIOUS
<1>4. PICK y : y = SubSeq(s, a, b)
  OBVIOUS
<1>4a. m \in 0..(i - 1)
  BY <1>2
<1>5. a \in 1..(n + 1) /\ b \in (a - 1)..n
  BY <1>3, <1>4a
<1>6. y \in Seq(S) /\ Len(y) = b - a + 1 /\ \A k \in 1..(b - a + 1) : y[k] = s[a + k - 1]
  BY <1>4, <1>5, SliceTyped DEF IsLen
<1>6a. PICK x : x = PairBefore(s, i)
  OBVIOUS
<1>7. x = Trim(y)
  BY <1>1, <1>3, <1>4, <1>6a DEF PairBefore, CommaBefore
<1>8. \A k \in 1..Len(y) : y[k] # ","
  <2> SUFFICES ASSUME NEW k \in 1..Len(y) PROVE y[k] # ","
    OBVIOUS
  <2>1. k \in 1..(b - a + 1)
    BY <1>6
  <2>2. a + k - 1 \in (m + 1)..(i - 1)
    BY <1>3, <1>4a, <2>1
  <2> QED
    BY <1>2, <1>6, <2>1, <2>2
<1>9. x \in Seq(S) /\ Without(x, Blank) = Without(y, Blank)
  BY <1>6, <1>7, TrimReads DEF Blank
<1>10. \A k \in 1..Len(y) : y[k] \in Blank <=> y[k] \in Gone
  BY <1>8 DEF Blank, Gone
<1>11. Without(y, Blank) = Without(y, Gone)
  BY <1>6, <1>10, WithoutSame
<1> QED
  BY <1>1, <1>3, <1>4, <1>6a, <1>9, <1>11 DEF SliceBefore

\* An end adds to the list what the slice before it leaves.
LEMMA PieceReads ==
  ASSUME NEW S, NEW s \in Seq(S), NEW n \in Nat, IsLen(s, n), NEW i \in 1..(n + 1),
         i = n + 1 \/ IsComma(s, i), NEW q \in Seq(Seq(S))
  PROVE  Left(Cat(q, PieceAt(s, i))) = Cat(Left(q), Without(SliceBefore(s, i), Gone))
<1>1. PICK x : x = PairBefore(s, i)
  OBVIOUS
<1>2. PICK w : w = Without(SliceBefore(s, i), Gone)
  OBVIOUS
<1>3. x \in Seq(S) /\ Without(x, Blank) = w
  BY <1>1, <1>2, PairReads
<1>4. i > Len(s) \/ s[i] = ","
  <2>1. PICK l : l = Len(s)
    OBVIOUS
  <2>2. n = l
    BY <2>1 DEF IsLen
  <2>3. i > l \/ IsComma(s, i)
    BY <2>2
  <2> QED
    BY <2>1, <2>3 DEF IsComma
<1>5. Left(q) \in Seq(S)
  BY LeavingsTyped, FlatIsText DEF Left
<1>6. CASE x = <<>>
  <2>1. PieceAt(s, i) = <<>>
    BY <1>1, <1>6 DEF PieceAt
  <2>2. w = <<>>
    BY <1>3, <1>6, WithoutEmpty
  <2>3. Cat(q, <<>>) = q
    BY ConcatEmptySeq DEF Cat
  <2>4. Cat(Left(q), <<>>) = Left(q)
    BY <1>5, ConcatEmptySeq DEF Cat
  <2> QED
    BY <1>2, <2>1, <2>2, <2>3, <2>4
<1>7. CASE x # <<>>
  <2>1. PieceAt(s, i) = <<x>>
    BY <1>1, <1>4, <1>7 DEF PieceAt
  <2>2. Cat(q, <<x>>) = Append(q, x)
    BY <1>3, AppendIsConcat DEF Cat
  <2>3. Left(Append(q, x)) = Cat(Left(q), Without(x, Blank))
    BY <1>3, LeavingsAppend DEF Left, Cat
  <2> QED
    BY <1>2, <1>3, <2>1, <2>2, <2>3
<1> QED
  BY <1>6, <1>7

\* A text up to a comma, or to its end: what is before the last comma before it, then the slice.
LEMMA SlicesReads ==
  ASSUME NEW S, NEW s \in Seq(S), NEW n \in Nat, IsLen(s, n), NEW i \in 1..(n + 1)
  PROVE  /\ SubSeq(s, 1, i - 1) \in Seq(S)
         /\ Without(SubSeq(s, 1, i - 1), Gone)
              = Cat(Without(SubSeq(s, 1, CommaBefore(s, i)), Gone), Without(SliceBefore(s, i), Gone))
<1>1. PICK m, b : m = CommaBefore(s, i) /\ b = i - 1
  OBVIOUS
<1>2. m \in 0..(i - 1)
  BY <1>1, BeforeIs
<1>3. PICK x, y, z : x = SubSeq(s, 1, m) /\ y = SubSeq(s, m + 1, b) /\ z = SubSeq(s, 1, b)
  OBVIOUS
<1>4. /\ 1 \in 1..(n + 1) /\ m \in (1 - 1)..n /\ b \in (1 - 1)..n
      /\ m + 1 \in 1..(n + 1) /\ b \in ((m + 1) - 1)..n /\ b \in m..n
  BY <1>1, <1>2
<1>5. x \in Seq(S) /\ y \in Seq(S) /\ z \in Seq(S)
  <2>1. \A k \in Nat : k = Len(s) => (\A a \in 1..(k + 1) : \A c \in (a - 1)..k : SubSeq(s, a, c) \in Seq(S))
    BY SliceTyped
  <2>2. \A a \in 1..(n + 1) : \A c \in (a - 1)..n : SubSeq(s, a, c) \in Seq(S)
    BY <2>1 DEF IsLen
  <2> QED
    BY <1>3, <1>4, <2>2
<1>6. z = Cat(x, y)
  <2>1. \A k \in Nat : k = Len(s) => (\A c \in 0..k : \A d \in c..k : SubSeq(s, 1, c) \o SubSeq(s, c + 1, d) = SubSeq(s, 1, d))
    <3> SUFFICES ASSUME NEW k \in Nat, k = Len(s), NEW c \in 0..k, NEW d \in c..k
                 PROVE  SubSeq(s, 1, c) \o SubSeq(s, c + 1, d) = SubSeq(s, 1, d)
      OBVIOUS
    <3>1. 1 \in 1..(Len(s) + 1) /\ c \in (1 - 1)..Len(s) /\ d \in c..Len(s)
      OBVIOUS
    <3> QED
      BY <3>1, ConcatAdjacentSubSeq
  <2>2. \A c \in 0..n : \A d \in c..n : SubSeq(s, 1, c) \o SubSeq(s, c + 1, d) = SubSeq(s, 1, d)
    BY <2>1 DEF IsLen
  <2>3. m \in 0..n /\ b \in m..n
    BY <1>4
  <2> QED
    BY <1>3, <2>2, <2>3 DEF Cat
<1>7. Without(z, Gone) = Cat(Without(x, Gone), Without(y, Gone))
  BY <1>5, <1>6, WithoutJoin
<1> QED
  BY <1>1, <1>3, <1>5, <1>7 DEF SliceBefore

\* The same up to a comma, which goes as well.
LEMMA HeadReads ==
  ASSUME NEW S, NEW s \in Seq(S), NEW n \in Nat, IsLen(s, n), NEW i \in 1..n, IsComma(s, i)
  PROVE  Without(SubSeq(s, 1, i), Gone)
           = Cat(Without(SubSeq(s, 1, CommaBefore(s, i)), Gone), Without(SliceBefore(s, i), Gone))
<1>1. PICK y, z, c : y = SubSeq(s, 1, i - 1) /\ z = SubSeq(s, 1, i) /\ c = <<s[i]>>
  OBVIOUS
<1>2. i \in 1..(n + 1)
  OBVIOUS
<1>3. y \in Seq(S)
       /\ Without(y, Gone) = Cat(Without(SubSeq(s, 1, CommaBefore(s, i)), Gone), Without(SliceBefore(s, i), Gone))
  BY <1>1, <1>2, SlicesReads
<1>4. DOMAIN s = 1..n
  BY LenProperties DEF IsLen
<1>5. s[i] \in S /\ i \in 1..Len(s) /\ 1 \in 1..Len(s)
  <2>1. i \in 1..n /\ 1 \in 1..n
    OBVIOUS
  <2> QED
    BY <2>1 DEF IsLen
<1>6. c \in Seq(S)
  BY <1>1, <1>5
<1>7. z = Cat(y, c)
  BY <1>1, <1>5, SubSeqRecursiveSecond DEF Cat
<1>8. Without(z, Gone) = Cat(Without(y, Gone), Without(c, Gone))
  BY <1>3, <1>6, <1>7, WithoutJoin
<1>9. Without(c, Gone) = <<>>
  <2>1. \A k \in 1..Len(c) : c[k] \in Gone
    <3>1. PICK g : g = ","
      OBVIOUS
    <3>2. c = <<g>>
      BY <1>1, <3>1 DEF IsComma
    <3>3. \A k \in 1..Len(c) : c[k] = g
      BY <3>2
    <3> QED
      BY <3>1, <3>3 DEF Gone
  <2> QED
    BY <1>6, <2>1, WithoutAll
<1>10. Without(y, Gone) \in Seq(S)
  BY <1>3, WithoutTyped
<1>11. Cat(Without(y, Gone), <<>>) = Without(y, Gone)
  BY <1>10, ConcatEmptySeq DEF Cat
<1> QED
  BY <1>1, <1>3, <1>8, <1>9, <1>11

\* The pieces up to one of them.
Upto(p, i) == FlattenSeq(SubSeq(p, 1, i))

\* One piece more.
LEMMA UptoNext ==
  ASSUME NEW S, NEW p \in Seq(Seq(S)), NEW i \in 1..Len(p)
  PROVE  Upto(p, i) = Cat(Upto(p, i - 1), p[i])
<1>1. PICK a, b, x : a = SubSeq(p, 1, i - 1) /\ b = SubSeq(p, 1, i) /\ x = p[i]
  OBVIOUS
<1>2. b = a \o <<x>>
  <2>1. 1 \in 1..Len(p) /\ i \in 1..Len(p)
    OBVIOUS
  <2> QED
    BY <1>1, <2>1, SubSeqRecursiveSecond
<1>3. a \in Seq(Seq(S)) /\ x \in Seq(S)
  <2>1. x \in Seq(S)
    BY <1>1
  <2>2. \A k \in 1..(i - 1) : p[k] \in Seq(S)
    <3>1. \A k \in 1..(i - 1) : k \in 1..Len(p)
      OBVIOUS
    <3> QED
      BY <3>1
  <2>3. 1 \in Int /\ i - 1 \in Int
    OBVIOUS
  <2> QED
    BY <1>1, <2>1, <2>2, <2>3, SubSeqProperties
<1>4. b = Append(a, x)
  BY <1>2, <1>3, AppendIsConcat
<1>5. FlattenSeq(b) = FlattenSeq(a) \o x
  BY <1>3, <1>4, FlattenAppend
<1> QED
  BY <1>1, <1>5 DEF Upto, Cat

\* The pieces up to one of them make a list.
LEMMA UptoTyped ==
  ASSUME NEW S, NEW p \in Seq(Seq(S)), NEW i \in 0..Len(p)
  PROVE  Upto(p, i) \in Seq(S)
<1>1. \A k \in 1..i : p[k] \in Seq(S)
  <2>1. \A k \in 1..i : k \in 1..Len(p)
    OBVIOUS
  <2> QED
    BY <2>1
<1>2. 1 \in Int /\ i \in Int
  OBVIOUS
<1>3. SubSeq(p, 1, i) \in Seq(Seq(S))
  BY <1>1, <1>2, SubSeqProperties
<1> QED
  BY <1>3, FlatIsText DEF Upto

\* The pieces of a text, end by end.
LEMMA PiecesTyped ==
  ASSUME NEW S, NEW s \in Seq(S), NEW n \in Nat, IsLen(s, n)
  PROVE  /\ Pieces(s) \in Seq(Seq(Seq(S))) /\ Len(Pieces(s)) = n + 1
         /\ \A i \in 1..(n + 1) : Pieces(s)[i] = PieceAt(s, i)
<1>1. ASSUME NEW i \in 1..(n + 1) PROVE PieceAt(s, i) \in Seq(Seq(S))
  <2>1. PICK x : x = PairBefore(s, i)
    OBVIOUS
  <2>2. x \in Seq(S)
    BY <2>1, PairReads
  <2>3. PieceAt(s, i) = <<>> \/ PieceAt(s, i) = <<x>>
    BY <2>1 DEF PieceAt
  <2> QED
    <3>1. <<>> \in Seq(Seq(S)) /\ <<x>> \in Seq(Seq(S))
      BY <2>2
    <3> QED
      BY <2>3, <3>1
<1>2. PICK m : m = n + 1
  OBVIOUS
<1>3. m \in Nat
  BY <1>2
<1>4. Pieces(s) = [i \in 1..m |-> PieceAt(s, i)]
  BY <1>2 DEF Pieces, IsLen
<1>5. PICK f, T : f = Pieces(s) /\ T = Seq(Seq(S))
  OBVIOUS
<1>6. f \in [1..m -> T]
  BY <1>1, <1>2, <1>4, <1>5
<1>7. f \in Seq(T) /\ Len(f) = m
  BY <1>3, <1>6
<1>8. \A i \in 1..m : f[i] = PieceAt(s, i)
  BY <1>4, <1>5
<1> QED
  BY <1>2, <1>5, <1>7, <1>8

\* The pairs before an end leave what the text before it leaves.
LEMMA PairsSoFar ==
  ASSUME NEW S, NEW s \in Seq(S), NEW n \in Nat, IsLen(s, n), NEW p, p = Pieces(s)
  PROVE  \A i \in 0..n : Left(Upto(p, i)) = Without(SubSeq(s, 1, CommaBefore(s, i + 1)), Gone)
<1>1. p \in Seq(Seq(Seq(S))) /\ Len(p) = n + 1 /\ \A i \in 1..(n + 1) : p[i] = PieceAt(s, i)
  BY PiecesTyped
<1> DEFINE T == {i \in 0..n : Left(Upto(p, i)) # Without(SubSeq(s, 1, CommaBefore(s, i + 1)), Gone)}
<1>2. ASSUME NEW i \in T, \A j \in T : i <= j PROVE FALSE
  <2>1. i \in 0..n /\ Left(Upto(p, i)) # Without(SubSeq(s, 1, CommaBefore(s, i + 1)), Gone)
    OBVIOUS
  <2>2. \A j \in 0..n : j \notin T => Left(Upto(p, j)) = Without(SubSeq(s, 1, CommaBefore(s, j + 1)), Gone)
    OBVIOUS
  <2> HIDE DEF T
  <2>3. CASE i = 0
    <3>1. SubSeq(p, 1, 0) = <<>> /\ SubSeq(s, 1, 0) = <<>>
      BY SubSeqEmpty
    <3>2. Leavings(<<>>, Blank) = <<>>
      <4>1. PICK q, e, k : q = <<>> /\ e = Leavings(q, Blank) /\ k = 0
        OBVIOUS
      <4>2. q \in Seq(Seq(S)) /\ k = Len(q)
        BY <4>1, EmptySeq
      <4>3. e \in Seq(Seq(S)) /\ Len(e) = k
        BY <4>1, <4>2, LeavingsTyped
      <4>4. e = <<>>
        BY <4>1, <4>3, EmptySeq
      <4> QED
        BY <4>1, <4>4
    <3>3. Left(Upto(p, 0)) = <<>>
      BY <3>1, <3>2, FlattenEmpty DEF Left, Upto
    <3>4. CommaBefore(s, 1) = 0
      <4>1. 1 \in 1..(n + 1)
        OBVIOUS
      <4>2. CommaBefore(s, 1) \in 0..(1 - 1)
        BY <4>1, BeforeIs
      <4> QED
        BY <4>2
    <3>5. Without(SubSeq(s, 1, 0), Gone) = <<>>
      BY <3>1, WithoutEmpty
    <3>6. i + 1 = 1
      BY <2>3
    <3> QED
      BY <2>1, <2>3, <3>3, <3>4, <3>5, <3>6
  <2>4. CASE i # 0
    <3>1. PICK h, j : h = i - 1 /\ j = i + 1
      OBVIOUS
    <3>2. h \in 0..n /\ i \in 1..n /\ i \in 1..(n + 1) /\ h + 1 = i /\ ~(i <= h)
      BY <2>1, <2>4, <3>1
    <3>3. h \notin T
      BY <1>2, <3>2
    <3>4. Left(Upto(p, h)) = Without(SubSeq(s, 1, CommaBefore(s, i)), Gone)
      BY <2>2, <3>2, <3>3
    <3>5. Upto(p, i) = Cat(Upto(p, h), PieceAt(s, i))
      <4>1. i \in 1..Len(p)
        BY <1>1, <3>2
      <4>2. Upto(p, i) = Cat(Upto(p, i - 1), p[i])
        BY <1>1, <4>1, UptoNext
      <4> QED
        BY <1>1, <3>1, <3>2, <4>2
    <3>6. CommaBefore(s, j) = IF s[i] = "," THEN i ELSE CommaBefore(s, i)
      BY <3>1, <3>2, BeforeNext
    <3>7. Upto(p, h) \in Seq(Seq(S))
      <4>1. h \in 0..Len(p)
        BY <1>1, <3>2
      <4> QED
        BY <1>1, <4>1, UptoTyped
    <3>8. CASE s[i] # ","
      <4>1. ~(i > Len(s))
        <5>1. PICK l : l = Len(s)
          OBVIOUS
        <5>2. l = n
          BY <5>1 DEF IsLen
        <5>3. ~(i > l)
          BY <3>2, <5>2
        <5> QED
          BY <5>1, <5>3
      <4>2. PieceAt(s, i) = <<>>
        BY <3>8, <4>1 DEF PieceAt
      <4>3. Upto(p, i) = Upto(p, h)
        BY <3>5, <3>7, <4>2, ConcatEmptySeq DEF Cat
      <4> QED
        BY <2>1, <3>1, <3>4, <3>6, <3>8, <4>3
    <3>9. CASE s[i] = ","
      <4>0. IsComma(s, i)
        BY <3>9 DEF IsComma
      <4>1. PICK q : q = Upto(p, h)
        OBVIOUS
      <4>2. Left(Cat(q, PieceAt(s, i))) = Cat(Left(q), Without(SliceBefore(s, i), Gone))
        BY <3>2, <3>7, <4>0, <4>1, PieceReads
      <4>3. Without(SubSeq(s, 1, i), Gone) = Cat(Without(SubSeq(s, 1, CommaBefore(s, i)), Gone), Without(SliceBefore(s, i), Gone))
        BY <3>2, <4>0, HeadReads
      <4> QED
        BY <2>1, <3>1, <3>4, <3>5, <3>6, <3>9, <4>1, <4>2, <4>3
    <3> QED
      BY <3>8, <3>9
  <2> QED
    BY <2>3, <2>4
<1>3. T = {}
  <2>1. T \in SUBSET Nat
    OBVIOUS
  <2> HIDE DEF T
  <2> QED
    BY <1>2, <2>1, LeastOf
<1> QED
  BY <1>3

\* All the pairs leave what the text leaves.
LEMMA PairsRead ==
  ASSUME NEW S, NEW s \in Seq(S)
  PROVE  Pairs(s) \in Seq(Seq(S)) /\ Left(Pairs(s)) = Without(s, Gone)
<1>1. PICK n, p : n = Len(s) /\ p = Pieces(s)
  OBVIOUS
<1>2. n \in Nat /\ IsLen(s, n)
  BY <1>1 DEF IsLen
<1>3. p \in Seq(Seq(Seq(S))) /\ Len(p) = n + 1 /\ \A i \in 1..(n + 1) : p[i] = PieceAt(s, i)
  BY <1>1, <1>2, PiecesTyped
<1>4. PICK m : m = n + 1
  OBVIOUS
<1>5. m \in 1..(n + 1) /\ m \in 1..m /\ m - 1 = n /\ n \in 0..n /\ n \in 0..m /\ m \in 0..m
  BY <1>2, <1>4
<1>6. Pairs(s) = Upto(p, m)
  <2>1. Pairs(s) = FlattenSeq(p)
    BY <1>1 DEF Pairs, Pieces, PieceAt
  <2>2. SubSeq(p, 1, Len(p)) = p
    BY <1>3, SubSeqFull
  <2> QED
    BY <1>3, <1>4, <2>1, <2>2 DEF Upto
<1>7. Len(p) = m
  BY <1>3, <1>4
<1>8. Upto(p, m) \in Seq(Seq(S)) /\ Upto(p, n) \in Seq(Seq(S))
  BY <1>3, <1>5, <1>7, UptoTyped
<1>9. Upto(p, m) = Cat(Upto(p, n), PieceAt(s, m))
  <2>1. Upto(p, m) = Cat(Upto(p, m - 1), p[m])
    BY <1>3, <1>5, <1>7, UptoNext
  <2> QED
    BY <1>3, <1>5, <2>1
<1>10. Left(Upto(p, n)) = Without(SubSeq(s, 1, CommaBefore(s, m)), Gone)
  <2>1. \A i \in 0..n : Left(Upto(p, i)) = Without(SubSeq(s, 1, CommaBefore(s, i + 1)), Gone)
    BY <1>1, <1>2, PairsSoFar
  <2> QED
    BY <1>4, <1>5, <2>1
<1>11. PICK q : q = Upto(p, n)
  OBVIOUS
<1>12. Left(Cat(q, PieceAt(s, m))) = Cat(Left(q), Without(SliceBefore(s, m), Gone))
  BY <1>2, <1>4, <1>5, <1>8, <1>11, PieceReads
<1>13. Without(SubSeq(s, 1, m - 1), Gone)
         = Cat(Without(SubSeq(s, 1, CommaBefore(s, m)), Gone), Without(SliceBefore(s, m), Gone))
  BY <1>2, <1>5, SlicesReads
<1>14. SubSeq(s, 1, m - 1) = s
  BY <1>1, <1>5, SubSeqFull
<1> QED
  BY <1>6, <1>8, <1>9, <1>10, <1>11, <1>12, <1>13, <1>14

\* A list of keys that is accepted gives back its text, blanks and commas apart.
LEMMA ParsedKeysReadBack ==
  ASSUME NEW s \in Seq(STRING), ParseApiKey(s).ok
  PROVE  LET items == ParseApiKey(s).items
             back == FlattenSeq([k \in DOMAIN items |-> Without(items[k].id \o <<":">> \o items[k].key, {" "})])
         IN back = Without(s, {" ", ","}) /\ \A k \in DOMAIN items : ~Contains(items[k].id, ":")
<1>1. PICK q : q = Pairs(s)
  OBVIOUS
<1>2. q \in Seq(Seq(STRING)) /\ Left(q) = Without(s, Gone)
  BY <1>1, PairsRead
<1>3. PICK items : items = [k \in DOMAIN q |-> SplitOnce(q[k])]
  OBVIOUS
<1>4. \A k \in DOMAIN q : Contains(q[k], ":")
  BY <1>1 DEF ParseApiKey, Refused
<1>5. ParseApiKey(s).items = items
  BY <1>1, <1>3 DEF ParseApiKey, Refused
<1>6. DOMAIN items = DOMAIN q
  BY <1>3
<1>7. ASSUME NEW k \in DOMAIN q
      PROVE  /\ ~Contains(items[k].id, ":")
             /\ Without(items[k].id \o <<":">> \o items[k].key, {" "}) = Without(q[k], {" "})
  <2>1. PICK o, x : o = items[k] /\ x = q[k]
    OBVIOUS
  <2>2. o = SplitOnce(x)
    BY <1>3, <2>1
  <2>3. x \in Seq(STRING)
    BY <1>2, <2>1
  <2>4. Contains(x, ":")
    BY <1>4, <2>1
  <2>5. ~Contains(o.id, ":") /\ Rejoined(o) = Without(x, Blank)
    BY <2>2, <2>3, <2>4, SplitReads
  <2> QED
    BY <2>1, <2>5 DEF Rejoined, Blank
<1>8. [k \in DOMAIN items |-> Without(items[k].id \o <<":">> \o items[k].key, {" "})] = Leavings(q, Blank)
  BY <1>6, <1>7 DEF Leavings, Blank
<1>9. FlattenSeq(Leavings(q, Blank)) = Without(s, {" ", ","})
  BY <1>2 DEF Left, Gone
<1> QED
  BY <1>5, <1>6, <1>7, <1>8, <1>9

-----------------------------------------------------------------------------
LEMMA ArmedInside == HInv => HostIsArmed
<1> SUFFICES ASSUME HInv PROVE HostIsArmed
  OBVIOUS
<1>1. HostTypeOK
  <2>1. \A w \in HostCallers : hostCalls[w].at \in CallSteps /\ hostCalls[w].result \in CallResults
    BY CallOf DEF Calls
  <2>2. \A t \in Receivers : hostJobs[t].at \in {"idle", "registry", "certs", "config", "remove", "key"}
    BY JobOf DEF Jobs, Fresh, Told, CaJobs
  <2> QED
    BY <2>1, <2>2 DEF HInv, HostTypes, StartTypes, InitTypes, TableTypes, HostTypeOK, HostPcs,
       HostGains, CallSteps, CallResults
<1>2. GuardIsOneAttempt
  BY DEF HInv, CallsSound, OneAttempt
<1>3. ServesArmed
  BY DEF HInv, CallsSound, Served, ServedBy, ServesArmed, Armed
<1>4. ConfiguredHasCa
  BY DEF HInv, TablesSound, Configured, GoodCa, ConfiguredHasCa
<1>5. KeysFindTheLibrary
  <2> SUFFICES ASSUME NEW t \in Receivers, hostJobs[t] = [at |-> "idle", status |-> "uninitialized"]
               PROVE  FALSE
    BY DEF KeysFindTheLibrary
  <2>1. hostJobs[t] \in {Fresh} \cup Told
    BY JobOf DEF Jobs, CaJobs
  <2>2. DOMAIN hostJobs[t] = {"at", "status"} /\ DOMAIN Fresh = {"at"}
    BY DEF Fresh
  <2>3. hostJobs[t] \in Told
    BY <2>1, <2>2
  <2> QED
    BY <2>3 DEF Told
<1>6. DirectOnlyIfUnnamed
  <2> SUFFICES ASSUME NEW k \in DOMAIN hostServes, NEW ask, ask = hostCalls[hostServes[k].by].ask
               PROVE  /\ Via(hostServes[k].http, ask.http, ask.httpUpper)
                      /\ Via(hostServes[k].https, ask.https, ask.httpsUpper)
    BY DEF DirectOnlyIfUnnamed
  <2>1. /\ hostServes[k].http = Chosen(ask.http, ask.httpUpper)
        /\ hostServes[k].https = Chosen(ask.https, ask.httpsUpper)
        /\ Usable(hostServes[k].http) /\ Usable(hostServes[k].https)
    BY DEF HInv, CallsSound, Served, ServedBy, HttpOf, HttpsOf
  <2>2. ASSUME NEW lower, NEW upper, NEW via, via = Chosen(lower, upper), Usable(via)
        PROVE  Via(via, lower, upper)
    BY <2>2 DEF Via, Chosen, Named, Usable
  <2> QED
    BY <2>1, <2>2
<1>7. UpstreamReadsBack
  <2> SUFFICES ASSUME hostProbe # Absent, hostProbe.of = "upstream", hostProbe.out.ok
               PROVE  UpstreamReadsBack
    BY DEF UpstreamReadsBack
  <2>1. PICK x \in UpstreamTexts : hostProbe.text = x /\ hostProbe.out = ParseUpstream(x)
    BY DEF HInv, HostTypes, StartTypes, UpstreamProbes, KeyProbes
  <2>2. x \in Seq(STRING)
    BY <2>1, HostAssumption
  <2> QED
    BY <2>1, <2>2, ParsedReadsBack DEF UpstreamReadsBack
<1>8. KeysAreSplitOnce
  <2> SUFFICES ASSUME hostProbe # Absent, hostProbe.of = "keys", hostProbe.out.ok
               PROVE  KeysAreSplitOnce
    BY DEF KeysAreSplitOnce
  <2>1. PICK x \in KeyTexts : hostProbe.text = x /\ hostProbe.out = ParseApiKey(x)
    BY DEF HInv, HostTypes, StartTypes, UpstreamProbes, KeyProbes
  <2>2. x \in Seq(STRING)
    BY <2>1, HostAssumption
  <2> QED
    BY <2>1, <2>2, ParsedKeysReadBack DEF KeysAreSplitOnce
<1> QED
  BY <1>1, <1>2, <1>3, <1>4, <1>5, <1>6, <1>7, <1>8 DEF HostIsArmed

\* Whatever the environment of the process, whoever races for its one start and whatever the
\* controller sends: one attempt to bind, an armed proxy that serves, the proxies that were asked
\* for, and a CA for every configured container (main.rs, config_receiver.rs, facade/mod.rs).
THEOREM HostStaysArmed == HostSpec => []HostIsArmed
<1>1. HostSpec => []HInv
  BY HostStart, HostKept, PTL DEF HostSpec
<1> QED
  BY <1>1, ArmedInside, PTL
(***************************************************************************)
(* ProxyFilter.  A stable sort puts each item at one place, in order.      *)
(***************************************************************************)
Placing(key, pi, n) ==
  /\ pi \in [1..n -> 1..n]
  /\ \A i \in 1..n : \E k \in 1..n : pi[k] = i
  /\ \A k, l \in 1..n : k < l => Precedes(key, pi[k], pi[l]) /\ pi[k] # pi[l]

Arrangement(s, pi, n) == [k \in 1..n |-> s[pi[k]]]

LEMMA SortIsPlacing ==
  ASSUME NEW n \in Nat, NEW V, NEW s \in [1..n -> V], NEW key \in [1..n -> Int]
  PROVE  \E pi : Placing(key, pi, n) /\ Sorted(s, key) = Arrangement(s, pi, n)
<1> DEFINE Below(i) == {j \in 1..n : Precedes(key, j, i)}
<1>1. IsFiniteSet(1..n) /\ Cardinality(1..n) = n
  BY FS_Interval
<1>2. \A i \in 1..n : Place(key, i) = Cardinality(Below(i))
  BY DEF Place
<1>3. ASSUME NEW i \in 1..n PROVE Place(key, i) \in 1..n
  <2>1. PICK B : B = Below(i)
    OBVIOUS
  <2>2. B \in SUBSET (1..n) /\ i \in B
    BY <2>1 DEF Precedes
  <2>3. IsFiniteSet(B) /\ Cardinality(B) <= n
    BY <1>1, <2>2, FS_Subset
  <2>4. Cardinality(B) \in Nat /\ Cardinality(B) # 0
    BY <2>2, <2>3, FS_CardinalityType, FS_EmptySet
  <2> QED
    BY <1>2, <2>1, <2>3, <2>4
<1>4. ASSUME NEW i \in 1..n, NEW j \in 1..n, i # j, Precedes(key, i, j)
      PROVE  Place(key, i) < Place(key, j)
  <2>1. PICK B : B = Below(i)
    OBVIOUS
  <2>2. PICK C : C = Below(j)
    OBVIOUS
  <2>3. key[i] \in Int /\ key[j] \in Int
    OBVIOUS
  <2>4. B \subseteq C
    <3>1. ASSUME NEW x \in B PROVE x \in C
      <4>1. x \in 1..n /\ key[x] \in Int /\ Precedes(key, x, i)
        BY <2>1
      <4>2. Precedes(key, x, j)
        BY <4>1, <2>3, <1>4 DEF Precedes
      <4> QED
        BY <4>1, <4>2, <2>2
    <3> QED
      BY <3>1
  <2>5. j \in C /\ j \notin B
    BY <2>1, <2>2, <2>3, <1>4 DEF Precedes
  <2>6. C \in SUBSET (1..n)
    BY <2>2
  <2>7. IsFiniteSet(C)
    BY <1>1, <2>6, FS_Subset
  <2>8. IsFiniteSet(B) /\ Cardinality(B) <= Cardinality(C) /\ Cardinality(B) # Cardinality(C)
    BY <2>4, <2>5, <2>7, FS_Subset
  <2>9. Cardinality(B) \in Nat /\ Cardinality(C) \in Nat
    BY <2>7, <2>8, FS_CardinalityType
  <2>10. Cardinality(B) < Cardinality(C)
    BY <2>8, <2>9
  <2> QED
    BY <1>2, <2>1, <2>2, <2>10
<1>5. ASSUME NEW i \in 1..n, NEW j \in 1..n PROVE Precedes(key, i, j) \/ Precedes(key, j, i)
  <2>1. key[i] \in Int /\ key[j] \in Int
    OBVIOUS
  <2> QED
    BY <2>1 DEF Precedes
<1>6. ASSUME NEW i \in 1..n, NEW j \in 1..n, Place(key, i) = Place(key, j) PROVE i = j
  <2>1. Place(key, i) \in 1..n
    BY <1>3
  <2> QED
    BY <2>1, <1>4, <1>5, <1>6
<1>7. ASSUME NEW k \in 1..n PROVE \E i \in 1..n : Place(key, i) = k
  <2>1. SUFFICES ASSUME \A i \in 1..n : Place(key, i) # k PROVE FALSE
    OBVIOUS
  <2> DEFINE f == [i \in 1..n |-> Place(key, i)]
  <2> DEFINE S == 1..n
  <2> DEFINE T == (1..n) \ {k}
  <2>2. f \in [S -> T]
    BY <2>1, <1>3
  <2>3. IsFiniteSet(T) /\ Cardinality(T) = n - 1
    BY <1>1, FS_RemoveElement
  <2>4. IsFiniteSet(S) /\ IsFiniteSet(T) /\ Cardinality(T) < Cardinality(S)
    BY <1>1, <2>3
  <2>5. \A i, j \in S : f[i] = f[j] => i = j
    BY <1>6
  <2> HIDE DEF f, S, T
  <2>6. \E i, j \in S : i # j /\ f[i] = f[j]
    BY <2>2, <2>4, FS_PigeonHole
  <2> QED
    BY <2>5, <2>6
<1> DEFINE pi == [k \in 1..n |-> CHOOSE i \in 1..n : Place(key, i) = k]
<1>8. ASSUME NEW k \in 1..n PROVE pi[k] \in 1..n /\ Place(key, pi[k]) = k
  BY <1>7
<1>9. Sorted(s, key) = Arrangement(s, pi, n)
  BY DEF Sorted, Arrangement
<1> HIDE DEF pi
<1>10. pi \in [1..n -> 1..n]
  BY <1>8 DEF pi
<1>11. ASSUME NEW i \in 1..n PROVE \E k \in 1..n : pi[k] = i
  <2>1. PICK k \in 1..n : k = Place(key, i)
    BY <1>3
  <2>2. pi[k] = i
    BY <2>1, <1>6, <1>8
  <2> QED
    BY <2>2
<1>12. ASSUME NEW k \in 1..n, NEW l \in 1..n, k < l PROVE Precedes(key, pi[k], pi[l]) /\ pi[k] # pi[l]
  <2>1. pi[k] # pi[l]
    BY <1>8, <1>12
  <2>2. Precedes(key, pi[k], pi[l])
    <3>1. CASE ~Precedes(key, pi[k], pi[l])
      <4>1. pi[k] \in 1..n /\ pi[l] \in 1..n /\ Place(key, pi[k]) = k /\ Place(key, pi[l]) = l
        BY <1>8
      <4>2. Precedes(key, pi[l], pi[k])
        BY <4>1, <3>1, <1>5
      <4>3. Place(key, pi[l]) < Place(key, pi[k])
        BY <4>1, <4>2, <2>1, <1>4
      <4> QED
        BY <4>1, <4>3, <1>12
    <3> QED
      BY <3>1
  <2> QED
    BY <2>1, <2>2
<1>13. Placing(key, pi, n)
  BY <1>10, <1>11, <1>12 DEF Placing
<1> QED
  BY <1>9, <1>13

\* The items of t are those of s, from where pi says.
Repicked(t, s, pi) == \A k \in 1..Len(s) : t[k] = s[pi[k]]

\* What sorting leaves: the same items, each once, in the order of their keys.
LEMMA SortedIs ==
  ASSUME NEW R, NEW s \in Seq(R), NEW key \in [1..Len(s) -> Int]
  PROVE  /\ Sorted(s, key) \in Seq(R) /\ Len(Sorted(s, key)) = Len(s)
         /\ \E pi : Placing(key, pi, Len(s)) /\ Repicked(Sorted(s, key), s, pi)
<1>1. PICK n : n = Len(s)
  OBVIOUS
<1>2. n \in Nat /\ s \in [1..n -> R] /\ key \in [1..n -> Int]
  BY <1>1, LenProperties
<1>3. PICK pi : Placing(key, pi, n) /\ Sorted(s, key) = Arrangement(s, pi, n)
  BY <1>1, <1>2, SortIsPlacing
<1>4. \A k \in 1..n : pi[k] \in 1..n
  BY <1>3 DEF Placing
<1>5. PICK t : t = Sorted(s, key)
  OBVIOUS
<1>6. t \in [1..n -> R] /\ \A k \in 1..n : t[k] = s[pi[k]]
  BY <1>2, <1>3, <1>4, <1>5 DEF Arrangement
<1>7. t \in Seq(R)
  BY <1>2, <1>6, IsASeq
<1>8. DOMAIN t = 1..Len(t) /\ Len(t) \in Nat
  BY <1>7, LenProperties
<1>9. Len(t) = n
  BY <1>2, <1>6, <1>8
<1>10. Repicked(t, s, pi)
  BY <1>1, <1>6 DEF Repicked
<1> QED
  BY <1>1, <1>3, <1>5, <1>7, <1>9, <1>10

(***************************************************************************)
(* Of rules in order the first that is in H is as strict as any.           *)
(***************************************************************************)
\* The places of t that H has.
PlacesOf(t, H) == {k \in DOMAIN t : t[k] \in H}
ActionsOf(rules, H) == {rules[i].action : i \in {j \in DOMAIN rules : rules[j] \in H}}

LEMMA StrictestIs ==
  ASSUME NEW A \in SUBSET RuleActions, NEW a \in A, \A b \in A : ActionRank(a) <= ActionRank(b)
  PROVE  Strictest(A) = a
<1>1. Strictest(A) \in A /\ \A b \in A : ActionRank(Strictest(A)) <= ActionRank(b)
  BY DEF Strictest
<1>2. PICK c : c = Strictest(A)
  OBVIOUS
<1>3. c \in RuleActions /\ a \in RuleActions /\ ActionRank(c) <= ActionRank(a) /\ ActionRank(a) <= ActionRank(c)
  BY <1>1, <1>2
<1>4. c = a
  BY <1>3 DEF ActionRank, RuleActions
<1> QED
  BY <1>2, <1>4

LEMMA RanksTyped ==
  ASSUME NEW R, NEW rules \in Seq(R), \A r \in R : r.action \in RuleActions
  PROVE  Ranks(rules) \in [1..Len(rules) -> Int]
<1>1. DOMAIN rules = 1..Len(rules) /\ \A k \in 1..Len(rules) : rules[k] \in R
  BY LenProperties
<1>2. \A k \in 1..Len(rules) : ActionRank(rules[k].action) \in Int
  BY <1>1 DEF ActionRank, RuleActions
<1> QED
  BY <1>1, <1>2 DEF Ranks

LEMMA FirstIsStrictest ==
  ASSUME NEW R, NEW rules \in Seq(R), \A r \in R : r.action \in RuleActions,
         NEW H, NEW t, t = Sorted(rules, Ranks(rules)),
         NEW S, S = PlacesOf(t, H)
  PROVE  /\ S = {} <=> ActionsOf(rules, H) = {}
         /\ S # {} => /\ Min(S) \in S /\ t[Min(S)] \in R
                      /\ t[Min(S)].action = Strictest(ActionsOf(rules, H))
<1>1. PICK n : n = Len(rules)
  OBVIOUS
<1>2. n \in Nat /\ DOMAIN rules = 1..n /\ \A k \in 1..n : rules[k] \in R
  BY <1>1, LenProperties
<1>3. PICK key : key = Ranks(rules)
  OBVIOUS
<1>4. key \in [1..n -> Int] /\ \A k \in 1..n : key[k] = ActionRank(rules[k].action)
  BY <1>1, <1>2, <1>3, RanksTyped DEF Ranks
<1>5. t \in Seq(R) /\ Len(t) = n
  BY <1>1, <1>3, <1>4, SortedIs
<1>6. PICK pi : Placing(key, pi, n) /\ \A k \in 1..n : t[k] = rules[pi[k]]
  <2>1. \E pi : Placing(key, pi, n) /\ Repicked(t, rules, pi)
    BY <1>1, <1>3, <1>4, SortedIs
  <2> QED
    BY <2>1, <1>1 DEF Repicked
<1>7. /\ \A k \in 1..n : pi[k] \in 1..n
      /\ \A i \in 1..n : \E k \in 1..n : pi[k] = i
      /\ \A k, l \in 1..n : k < l => key[pi[k]] <= key[pi[l]]
  <2>1. \A k \in 1..n : pi[k] \in 1..n
    BY <1>6 DEF Placing
  <2>2. \A i \in 1..n : \E k \in 1..n : pi[k] = i
    BY <1>6 DEF Placing
  <2>3. ASSUME NEW k \in 1..n, NEW l \in 1..n, k < l PROVE key[pi[k]] <= key[pi[l]]
    <3>1. Precedes(key, pi[k], pi[l])
      BY <2>3, <1>6 DEF Placing
    <3>2. key[pi[k]] \in Int /\ key[pi[l]] \in Int
      BY <2>1, <1>4
    <3> QED
      BY <3>1, <3>2 DEF Precedes
  <2> QED
    BY <2>1, <2>2, <2>3
<1>8. DOMAIN t = 1..n /\ S \subseteq 1..n /\ \A k \in 1..n : k \in S <=> t[k] \in H
  BY <1>5, LenProperties DEF PlacesOf
<1>9. PICK A : A = ActionsOf(rules, H)
  OBVIOUS
<1>10. A \subseteq RuleActions
  BY <1>2, <1>9 DEF ActionsOf
<1>11. ASSUME NEW k \in S PROVE t[k] \in R /\ t[k].action \in A
  BY <1>2, <1>6, <1>7, <1>8, <1>9 DEF ActionsOf
<1>12. ASSUME NEW a \in A PROVE \E k \in S : t[k].action = a
  <2>1. PICK i : i \in DOMAIN rules /\ rules[i] \in H /\ rules[i].action = a
    BY <1>9 DEF ActionsOf
  <2>2. PICK k : k \in 1..n /\ pi[k] = i
    BY <2>1, <1>2, <1>7
  <2> QED
    BY <2>1, <2>2, <1>6, <1>8
<1>13. S = {} <=> A = {}
  BY <1>11, <1>12
<1>14. ASSUME S # {} PROVE Min(S) \in S /\ t[Min(S)] \in R /\ t[Min(S)].action = Strictest(A)
  <2>1. S \in SUBSET Nat
    BY <1>2, <1>8
  <2>2. PICK m : m = Min(S)
    OBVIOUS
  <2>3. m \in S /\ \A k \in S : m <= k
    BY <2>1, <2>2, <1>14, MinOf
  <2>4. t[m] \in R /\ t[m].action \in A
    BY <2>3, <1>11
  <2>5. ASSUME NEW a \in A PROVE ActionRank(t[m].action) <= ActionRank(a)
    <3>1. PICK k : k \in S /\ t[k].action = a
      BY <1>12
    <3>2. k \in 1..n /\ m \in 1..n /\ m <= k /\ m \in Nat /\ k \in Nat
      BY <3>1, <2>1, <2>3, <1>8
    <3>3. key[pi[m]] <= key[pi[k]]
      <4>1. CASE m = k
        <5>1. key[pi[m]] \in Int
          BY <3>2, <1>4, <1>7
        <5> QED
          BY <4>1, <5>1
      <4>2. CASE m # k
        BY <3>2, <4>2, <1>7
      <4> QED
        BY <4>1, <4>2
    <3>4. key[pi[m]] = ActionRank(t[m].action) /\ key[pi[k]] = ActionRank(t[k].action)
      BY <3>2, <1>4, <1>6, <1>7
    <3> QED
      BY <3>1, <3>3, <3>4
  <2>6. Strictest(A) = t[m].action
    BY <2>4, <2>5, <1>10, StrictestIs
  <2> QED
    BY <2>2, <2>3, <2>4, <2>6
<1> QED
  BY <1>9, <1>13, <1>14

(***************************************************************************)
(* One rule set, put in order.                                             *)
(***************************************************************************)
LEMMA RuleSetParts ==
  ASSUME NEW rs \in RuleSets
  PROVE  /\ rs.name \in STRING /\ rs.host \in HostRules
         /\ rs.targets \in Seq(TargetRules) /\ rs.binaries \in Seq(BinaryRules)
         /\ rs.host.prio \in Nat
         /\ \A t \in TargetRules : t.action \in RuleActions
         /\ \A b \in BinaryRules : b.action \in RuleActions
BY DEF RuleSets, HostRules, TargetRules, BinaryRules

LEMMA OrderedParts ==
  ASSUME NEW rs \in RuleSets
  PROVE  /\ InOrder(rs) \in RuleSets
         /\ InOrder(rs).name = rs.name /\ InOrder(rs).host = rs.host
         /\ InOrder(rs).targets = Sorted(rs.targets, Ranks(rs.targets))
         /\ InOrder(rs).binaries = Sorted(rs.binaries, Ranks(rs.binaries))
         /\ InOrder(rs).binaries = <<>> <=> rs.binaries = <<>>
<1>1. PICK t : t = Sorted(rs.targets, Ranks(rs.targets))
  OBVIOUS
<1>2. PICK b : b = Sorted(rs.binaries, Ranks(rs.binaries))
  OBVIOUS
<1>3. t \in Seq(TargetRules)
  <2>1. Ranks(rs.targets) \in [1..Len(rs.targets) -> Int]
    BY RuleSetParts, RanksTyped
  <2> QED
    BY <2>1, <1>1, RuleSetParts, SortedIs
<1>4. b \in Seq(BinaryRules) /\ Len(b) = Len(rs.binaries)
  <2>1. Ranks(rs.binaries) \in [1..Len(rs.binaries) -> Int]
    BY RuleSetParts, RanksTyped
  <2> QED
    BY <2>1, <1>2, RuleSetParts, SortedIs
<1>5. PICK so : so = [rs EXCEPT !.targets = t, !.binaries = b]
  OBVIOUS
<1>6. InOrder(rs) = so
  BY <1>1, <1>2, <1>5 DEF InOrder
<1>7. so \in RuleSets /\ so.name = rs.name /\ so.host = rs.host /\ so.targets = t /\ so.binaries = b
  BY <1>3, <1>4, <1>5 DEF RuleSets
<1>8. b = <<>> <=> rs.binaries = <<>>
  BY <1>4, RuleSetParts, EmptySeq
<1> QED
  BY <1>1, <1>2, <1>6, <1>7, <1>8

\* A decision that follows an action.
Follows(d, a) == d.action = (IF a = "deny" THEN "deny" ELSE "allow") /\ d.alert = (a = "alert")

LEMMA VerdictIs ==
  ASSUME NEW a \in RuleActions, NEW why \in Reasons, NEW r \in STRING \cup {Unset}
  PROVE  /\ Verdict(a, why, r) \in Decisions /\ Verdict(a, why, r) # Unset
         /\ Verdict(a, why, r).reason = why /\ Follows(Verdict(a, why, r), a)
<1>1. Verdict(a, why, r) \in Decisions
  BY DEF Verdict, Decisions
<1>2. Verdict(a, why, r).reason = why /\ Follows(Verdict(a, why, r), a)
  BY DEF Verdict, Follows
<1> QED
  BY <1>1, <1>2, FilterAssumption DEF FilterAssumption

LEMMA RuleSetDecides ==
  ASSUME NEW rs \in RuleSets, NEW req
  PROVE  /\ InRuleSet(req, InOrder(rs)) = Unset <=> ActionsFor(req, rs) = {}
         /\ ActionsFor(req, rs) # {} =>
              /\ InRuleSet(req, InOrder(rs)) \in Decisions
              /\ Follows(InRuleSet(req, InOrder(rs)), Strictest(ActionsFor(req, rs)))
<1>1. PICK so : so = InOrder(rs)
  OBVIOUS
<1>2. PICK ts : ts = rs.targets
  OBVIOUS
<1>3. PICK bs : bs = rs.binaries
  OBVIOUS
<1>4. /\ ts \in Seq(TargetRules) /\ bs \in Seq(BinaryRules)
      /\ \A t \in TargetRules : t.action \in RuleActions
      /\ \A b \in BinaryRules : b.action \in RuleActions
  BY <1>2, <1>3, RuleSetParts
<1>5. so.targets = Sorted(ts, Ranks(ts)) /\ so.binaries = Sorted(bs, Ranks(bs)) /\ so.name \in STRING
  BY <1>1, <1>2, <1>3, OrderedParts, RuleSetParts
<1>6. PICK HB : HB = {b \in BinaryRules : b.action # "allow" /\ BinaryHits(req, b)}
  OBVIOUS
<1>7. PICK HT : HT = {t \in TargetRules : TargetHits(req, t)}
  OBVIOUS
<1>8. PICK B : B = BinaryRule(req, so)
  OBVIOUS
<1>9. PICK T : T = TargetRule(req, so)
  OBVIOUS
<1>10. B = PlacesOf(so.binaries, HB)
  <2>1. so.binaries \in Seq(BinaryRules)
    BY <1>1, OrderedParts, RuleSetParts
  <2>2. \A k \in DOMAIN so.binaries : so.binaries[k] \in BinaryRules
    BY <2>1
  <2> QED
    BY <2>2, <1>6, <1>8 DEF BinaryRule, PlacesOf
<1>11. T = PlacesOf(so.targets, HT)
  <2>1. so.targets \in Seq(TargetRules)
    BY <1>1, OrderedParts, RuleSetParts
  <2>2. \A k \in DOMAIN so.targets : so.targets[k] \in TargetRules
    BY <2>1
  <2> QED
    BY <2>2, <1>7, <1>9 DEF TargetRule, PlacesOf
<1>12. PICK AB : AB = ActionsOf(bs, HB)
  OBVIOUS
<1>13. PICK AT : AT = ActionsOf(ts, HT)
  OBVIOUS
<1>14. /\ B = {} <=> AB = {}
       /\ B # {} => so.binaries[Min(B)] \in BinaryRules /\ so.binaries[Min(B)].action = Strictest(AB)
  <2>1. PICK t : t = Sorted(bs, Ranks(bs))
    OBVIOUS
  <2>2. t = so.binaries /\ B = PlacesOf(t, HB)
    BY <2>1, <1>5, <1>10
  <2>3. /\ B = {} <=> ActionsOf(bs, HB) = {}
        /\ B # {} => t[Min(B)] \in BinaryRules /\ t[Min(B)].action = Strictest(ActionsOf(bs, HB))
    BY <2>1, <2>2, <1>4, FirstIsStrictest
  <2> QED
    BY <2>2, <2>3, <1>12
<1>15. /\ T = {} <=> AT = {}
       /\ T # {} => so.targets[Min(T)] \in TargetRules /\ so.targets[Min(T)].action = Strictest(AT)
  <2>1. PICK t : t = Sorted(ts, Ranks(ts))
    OBVIOUS
  <2>2. t = so.targets /\ T = PlacesOf(t, HT)
    BY <2>1, <1>5, <1>11
  <2>3. /\ T = {} <=> ActionsOf(ts, HT) = {}
        /\ T # {} => t[Min(T)] \in TargetRules /\ t[Min(T)].action = Strictest(ActionsOf(ts, HT))
    BY <2>1, <2>2, <1>4, FirstIsStrictest
  <2> QED
    BY <2>2, <2>3, <1>13
<1>16. ActionsFor(req, rs) = IF AB # {} THEN AB ELSE AT
  <2>1. AB = {b.action : b \in {r \in Range(bs) : BinaryHits(req, r)}} \ {"allow"}
    <3>1. \A k \in DOMAIN bs : bs[k] \in BinaryRules
      BY <1>4
    <3> QED
      BY <3>1, <1>6, <1>12 DEF ActionsOf, Range
  <2>2. AT = {t.action : t \in {r \in Range(ts) : TargetHits(req, r)}}
    <3>1. \A k \in DOMAIN ts : ts[k] \in TargetRules
      BY <1>4
    <3> QED
      BY <3>1, <1>7, <1>13 DEF ActionsOf, Range
  <2> QED
    BY <2>1, <2>2, <1>2, <1>3 DEF ActionsFor
<1>17. CASE B # {}
  <2>1. PICK a : a = so.binaries[Min(B)].action
    OBVIOUS
  <2>2. a \in RuleActions /\ a = Strictest(AB) /\ AB # {}
    BY <2>1, <1>4, <1>14, <1>17
  <2>3. InRuleSet(req, so) = Verdict(a, "blacklist", so.name)
    BY <2>1, <1>8, <1>17 DEF InRuleSet
  <2>4. "blacklist" \in Reasons /\ so.name \in STRING \cup {Unset}
    BY <1>5 DEF Reasons
  <2>5. InRuleSet(req, so) \in Decisions /\ InRuleSet(req, so) # Unset /\ Follows(InRuleSet(req, so), a)
    <3>1. PICK r : r = so.name
      OBVIOUS
    <3>2. PICK v : v = Verdict(a, "blacklist", r)
      OBVIOUS
    <3>3. v \in Decisions /\ v # Unset /\ Follows(v, a)
      BY <3>1, <3>2, <2>2, <2>4, VerdictIs
    <3> QED
      BY <3>1, <3>2, <3>3, <2>3
  <2> QED
    BY <2>2, <2>5, <1>1, <1>16
<1>18. CASE B = {} /\ T # {}
  <2>1. PICK a : a = so.targets[Min(T)].action
    OBVIOUS
  <2>2. a \in RuleActions /\ a = Strictest(AT) /\ AB = {} /\ AT # {}
    BY <2>1, <1>4, <1>14, <1>15, <1>18
  <2>3. PICK why : why = IF a = "allow" THEN "whitelist" ELSE "blacklist"
    OBVIOUS
  <2>4. InRuleSet(req, so) = Verdict(a, why, so.name)
    BY <2>1, <2>3, <1>8, <1>9, <1>18 DEF InRuleSet
  <2>5. why \in Reasons /\ so.name \in STRING \cup {Unset}
    BY <2>3, <1>5 DEF Reasons
  <2>6. InRuleSet(req, so) \in Decisions /\ InRuleSet(req, so) # Unset /\ Follows(InRuleSet(req, so), a)
    <3>1. PICK r : r = so.name
      OBVIOUS
    <3>2. PICK v : v = Verdict(a, why, r)
      OBVIOUS
    <3>3. v \in Decisions /\ v # Unset /\ Follows(v, a)
      BY <3>1, <3>2, <2>2, <2>5, VerdictIs
    <3> QED
      BY <3>1, <3>2, <3>3, <2>4
  <2> QED
    BY <2>2, <2>6, <1>1, <1>16
<1>19. CASE B = {} /\ T = {}
  <2>1. InRuleSet(req, so) = Unset
    BY <1>8, <1>9, <1>19 DEF InRuleSet
  <2> QED
    BY <2>1, <1>1, <1>14, <1>15, <1>16, <1>19
<1> QED
  BY <1>17, <1>18, <1>19

(***************************************************************************)
(* A configuration, put in order: pi says where each rule set was.         *)
(***************************************************************************)
Reordered(fc, st, pi) ==
  /\ st \in Configs /\ st.default = fc.default
  /\ DOMAIN st.rules = DOMAIN fc.rules
  /\ \A k \in DOMAIN st.rules : pi[k] \in DOMAIN fc.rules /\ st.rules[k] = InOrder(fc.rules[pi[k]])
  /\ \A i \in DOMAIN fc.rules : \E k \in DOMAIN st.rules : pi[k] = i
  /\ \A k, l \in DOMAIN st.rules : k < l => Precedes(Urgency(fc.rules), pi[k], pi[l])

LEMMA NormalizeReorders ==
  ASSUME NEW fc \in Configs
  PROVE  \E pi : Reordered(fc, NormalizeRuleOrder(fc), pi)
<1>1. PICK s : s = fc.rules
  OBVIOUS
<1>2. PICK n : n = Len(s)
  OBVIOUS
<1>3. s \in Seq(RuleSets) /\ n \in Nat /\ DOMAIN s = 1..n /\ \A k \in 1..n : s[k] \in RuleSets
  <2>1. s \in Seq(RuleSets)
    BY <1>1 DEF Configs
  <2> QED
    BY <2>1, <1>2, LenProperties
<1>4. PICK key : key = Urgency(s)
  OBVIOUS
<1>5. key \in [1..n -> Int]
  <2>1. \A k \in 1..n : -s[k].host.prio \in Int
    BY <1>3, RuleSetParts
  <2> QED
    BY <2>1, <1>3, <1>4 DEF Urgency
<1>6. PICK t : t = Sorted(s, key)
  OBVIOUS
<1>7. t \in Seq(RuleSets) /\ Len(t) = n
  BY <1>2, <1>3, <1>5, <1>6, SortedIs
<1>8. PICK pi : Placing(key, pi, n) /\ \A k \in 1..n : t[k] = s[pi[k]]
  <2>1. \E pi : Placing(key, pi, n) /\ Repicked(t, s, pi)
    BY <1>2, <1>3, <1>5, <1>6, SortedIs
  <2> QED
    BY <2>1, <1>2 DEF Repicked
<1>9. DOMAIN t = 1..n /\ \A k \in 1..n : t[k] \in RuleSets
  BY <1>7, LenProperties
<1>10. PICK u : u = [k \in DOMAIN t |-> InOrder(t[k])]
  OBVIOUS
<1>11. u \in Seq(RuleSets) /\ DOMAIN u = 1..n /\ \A k \in 1..n : u[k] = InOrder(t[k])
  <2>1. \A k \in 1..n : InOrder(t[k]) \in RuleSets
    BY <1>9, OrderedParts
  <2>2. u \in [1..n -> RuleSets]
    BY <2>1, <1>9, <1>10
  <2>3. u \in Seq(RuleSets)
    BY <2>2, <1>3, IsASeq
  <2> QED
    BY <2>2, <2>3, <1>9, <1>10
<1>12. PICK st : st = [fc EXCEPT !.rules = u]
  OBVIOUS
<1>13. NormalizeRuleOrder(fc) = st
  BY <1>1, <1>4, <1>6, <1>10, <1>12 DEF NormalizeRuleOrder
<1>14. st \in Configs /\ st.default = fc.default /\ st.rules = u
  BY <1>11, <1>12 DEF Configs
<1>15. \A k \in 1..n : pi[k] \in 1..n /\ u[k] = InOrder(s[pi[k]])
  BY <1>8, <1>11 DEF Placing
<1>16. /\ \A i \in 1..n : \E k \in 1..n : pi[k] = i
       /\ \A k, l \in 1..n : k < l => Precedes(key, pi[k], pi[l])
  BY <1>8 DEF Placing
<1>17. Reordered(fc, st, pi)
  BY <1>1, <1>3, <1>4, <1>11, <1>14, <1>15, <1>16 DEF Reordered
<1> QED
  BY <1>13, <1>17

\* The first rule set that decides is the one that is meant.
LEMMA EvaluateAsMeant ==
  ASSUME NEW fc \in Configs, NEW req, NEW st, st = NormalizeRuleOrder(fc)
  PROVE  Evaluate(req, st) \in Decisions /\ Follows(Evaluate(req, st), MeantBy(req, fc))
<1>1. PICK pi : Reordered(fc, st, pi)
  BY NormalizeReorders
<1>2. PICK s : s = fc.rules
  OBVIOUS
<1>3. PICK n : n = Len(s)
  OBVIOUS
<1>4. n \in Nat /\ DOMAIN s = 1..n /\ \A k \in 1..n : s[k] \in RuleSets
  <2>1. s \in Seq(RuleSets)
    BY <1>2 DEF Configs
  <2> QED
    BY <2>1, <1>3, LenProperties
<1>5. PICK u : u = st.rules
  OBVIOUS
<1>6. /\ DOMAIN u = 1..n /\ \A k \in 1..n : pi[k] \in 1..n /\ u[k] = InOrder(s[pi[k]])
      /\ \A i \in 1..n : \E k \in 1..n : pi[k] = i
      /\ \A k, l \in 1..n : k < l => Precedes(Urgency(s), pi[k], pi[l])
  BY <1>1, <1>2, <1>4, <1>5 DEF Reordered
<1>7. st.default = fc.default /\ fc.default \in RuleActions
  BY <1>1 DEF Reordered, Configs
<1>8. PICK D : D = {k \in DOMAIN u : RuleSetMatches(req, u[k]) /\ InRuleSet(req, u[k]) # Unset}
  OBVIOUS
<1>9. PICK M : M = {i \in DOMAIN s : RuleSetMatches(req, s[i]) /\ ActionsFor(req, s[i]) # {}}
  OBVIOUS
<1>10. D \subseteq 1..n /\ M \subseteq 1..n
  BY <1>4, <1>6, <1>8, <1>9
<1>11. ASSUME NEW k \in 1..n PROVE k \in D <=> pi[k] \in M
  <2>1. PICK rs : rs = s[pi[k]]
    OBVIOUS
  <2>2. rs \in RuleSets /\ u[k] = InOrder(rs) /\ pi[k] \in DOMAIN s /\ k \in DOMAIN u
    BY <2>1, <1>4, <1>6
  <2>3. InRuleSet(req, u[k]) = Unset <=> ActionsFor(req, rs) = {}
    BY <2>2, RuleSetDecides
  <2>4. RuleSetMatches(req, u[k]) <=> RuleSetMatches(req, rs)
    BY <2>2, OrderedParts DEF RuleSetMatches
  <2> QED
    BY <2>1, <2>2, <2>3, <2>4, <1>8, <1>9
<1>12. D = {} <=> M = {}
  BY <1>6, <1>10, <1>11
<1>13. CASE D = {}
  <2>1. Evaluate(req, st) = Verdict(st.default, "default", Unset)
    BY <1>5, <1>8, <1>13 DEF Evaluate
  <2>2. MeantBy(req, fc) = fc.default
    BY <1>2, <1>9, <1>12, <1>13 DEF MeantBy
  <2>3. "default" \in Reasons /\ Unset \in STRING \cup {Unset}
    BY DEF Reasons
  <2>4. PICK a : a = fc.default
    OBVIOUS
  <2>5. PICK v : v = Verdict(a, "default", Unset)
    OBVIOUS
  <2>6. v \in Decisions /\ Follows(v, a)
    BY <2>3, <2>4, <2>5, <1>7, VerdictIs
  <2> QED
    BY <2>1, <2>2, <2>4, <2>5, <2>6, <1>7
<1>14. CASE D # {}
  <2>1. PICK m : m = Min(D)
    OBVIOUS
  <2>2. D \in SUBSET Nat
    BY <1>4, <1>10
  <2>3. m \in D /\ \A k \in D : m <= k
    BY <2>1, <2>2, <1>14, MinOf
  <2>4. PICK i : i = pi[m]
    OBVIOUS
  <2>5. m \in 1..n /\ i \in M /\ i \in 1..n
    BY <2>3, <2>4, <1>10, <1>11
  <2> DEFINE Ahead(a, b) == s[a].host.prio > s[b].host.prio \/ (s[a].host.prio = s[b].host.prio /\ a <= b)
  <2>6. ASSUME NEW j \in M PROVE Ahead(i, j)
    <3>1. PICK k : k \in 1..n /\ pi[k] = j
      BY <1>6, <1>10
    <3>2. k \in D /\ m <= k
      BY <3>1, <2>3, <1>11
    <3>3. PICK x : x = s[i].host.prio
      OBVIOUS
    <3>4. PICK y : y = s[j].host.prio
      OBVIOUS
    <3>5. x \in Nat /\ y \in Nat /\ i \in Nat /\ j \in 1..n
      BY <3>3, <3>4, <2>5, <1>4, <1>10, RuleSetParts
    <3>6. CASE m = k
      BY <3>1, <3>5, <3>6, <2>4
    <3>7. CASE m # k
      <4>1. m < k
        BY <3>2, <3>7, <3>1, <2>5
      <4>2. Precedes(Urgency(s), i, j)
        BY <4>1, <3>1, <2>4, <2>5, <1>6
      <4>3. Urgency(s)[i] = -x /\ Urgency(s)[j] = -y
        BY <3>3, <3>4, <3>5, <2>5, <1>4 DEF Urgency
      <4>4. -x < -y \/ (-x = -y /\ i <= j)
        BY <4>2, <4>3 DEF Precedes
      <4>5. x > y \/ (x = y /\ i <= j)
        BY <4>4, <3>5
      <4> QED
        BY <4>5, <3>3, <3>4
    <3> QED
      BY <3>6, <3>7
  <2>7. ASSUME NEW b \in M, \A j \in M : Ahead(b, j) PROVE b = i
    <3>1. Ahead(b, i) /\ Ahead(i, b)
      BY <2>5, <2>6, <2>7
    <3>2. s[i].host.prio \in Nat /\ s[b].host.prio \in Nat /\ i \in Nat /\ b \in Nat
      BY <2>5, <1>4, <1>10, RuleSetParts
    <3> QED
      BY <3>1, <3>2
  <2>8. PICK best : best = CHOOSE b \in M : \A j \in M : Ahead(b, j)
    OBVIOUS
  <2>9. best \in M /\ \A j \in M : Ahead(best, j)
    BY <2>5, <2>6, <2>8
  <2>10. best = i
    BY <2>7, <2>9
  <2>11. MeantBy(req, fc) = Strictest(ActionsFor(req, s[i]))
    <3>1. MeantBy(req, fc) = Strictest(ActionsFor(req, s[best]))
      BY <2>8, <1>2, <1>9, <1>12, <1>14 DEF MeantBy
    <3> QED
      BY <3>1, <2>10
  <2>12. PICK rs : rs = s[i]
    OBVIOUS
  <2>13. rs \in RuleSets /\ u[m] = InOrder(rs) /\ ActionsFor(req, rs) # {}
    BY <2>4, <2>5, <2>12, <1>4, <1>6, <1>9
  <2>14. Evaluate(req, st) = InRuleSet(req, InOrder(rs))
    BY <2>1, <2>13, <1>5, <1>8, <1>14 DEF Evaluate
  <2> QED
    BY <2>11, <2>12, <2>13, <2>14, RuleSetDecides
<1> QED
  BY <1>13, <1>14

(***************************************************************************)
(* What a decision is, of a container with and without a configuration.    *)
(***************************************************************************)
Stored(fc, st) ==
  \/ fc = Unset /\ st = Unset
  \/ fc \in Configs /\ st = NormalizeRuleOrder(fc)

\* What a rule of fc needs of the request is known.
Known(req, fc) ==
  \A rs \in Range(fc.rules) : (rs.binaries # <<>> => req.binary # Unset) /\ (rs.host.type = "ip" => req.ips # {})

LEMMA DeniedIs ==
  ASSUME NEW why \in Reasons
  PROVE  Denied(why) \in Decisions /\ Denied(why).action = "deny" /\ Denied(why).reason = why
<1>1. Denied(why) \in Decisions
  BY DEF Denied, Decisions
<1> QED
  BY <1>1 DEF Denied

LEMMA KnownReordered ==
  ASSUME NEW fc \in Configs, NEW req, Known(req, NormalizeRuleOrder(fc))
  PROVE  Known(req, fc)
<1>1. PICK st : st = NormalizeRuleOrder(fc)
  OBVIOUS
<1>2. PICK pi : Reordered(fc, st, pi)
  BY <1>1, NormalizeReorders
<1>3. ASSUME NEW rs \in Range(fc.rules)
      PROVE  (rs.binaries # <<>> => req.binary # Unset) /\ (rs.host.type = "ip" => req.ips # {})
  <2>1. PICK i : i \in DOMAIN fc.rules /\ rs = fc.rules[i]
    BY DEF Range
  <2>2. PICK k : k \in DOMAIN st.rules /\ pi[k] = i
    BY <2>1, <1>2 DEF Reordered
  <2>3. st.rules[k] = InOrder(rs)
    BY <2>1, <2>2, <1>2 DEF Reordered
  <2>4. st.rules[k] \in Range(st.rules)
    BY <2>2 DEF Range
  <2>5. rs \in RuleSets
    BY <2>1 DEF Configs
  <2>6. InOrder(rs).host = rs.host /\ (InOrder(rs).binaries = <<>> <=> rs.binaries = <<>>)
    BY <2>5, OrderedParts
  <2> QED
    BY <2>3, <2>4, <2>6, <1>1 DEF Known
<1> QED
  BY <1>3 DEF Known

LEMMA DecideIs ==
  ASSUME NEW fc, NEW st, Stored(fc, st), NEW req, NEW d, d = Decide(req, st)
  PROVE  /\ d \in Decisions
         /\ d.reason \in {"blacklist", "whitelist", "default"} => fc # Unset /\ Follows(d, MeantBy(req, fc))
         /\ d.action = "allow" => fc # Unset /\ Known(req, fc)
<1>1. CASE fc = Unset
  <2>1. st = Unset
    BY <1>1, FilterAssumption DEF Stored, FilterAssumption
  <2>2. d = Denied("config_not_found")
    BY <2>1 DEF Decide
  <2>3. "config_not_found" \in Reasons
    BY DEF Reasons
  <2>4. d \in Decisions /\ d.action = "deny" /\ d.reason = "config_not_found"
    BY <2>2, <2>3, DeniedIs
  <2> QED
    BY <2>4
<1>2. CASE fc # Unset
  <2>1. fc \in Configs /\ st = NormalizeRuleOrder(fc)
    BY <1>2 DEF Stored
  <2>2. st # Unset
    <3>1. st \in Configs
      BY <2>1, NormalizeReorders DEF Reordered
    <3> QED
      BY <3>1, FilterAssumption DEF FilterAssumption
  <2> DEFINE NoBinary == req.binary = Unset /\ (\E rs \in Range(st.rules) : rs.binaries # <<>>)
             NoIps == req.ips = {} /\ (\E rs \in Range(st.rules) : rs.host.type = "ip")
  <2>3. CASE NoBinary
    <3>1. d = Denied("binary_not_found")
      BY <2>2, <2>3 DEF Decide
    <3>2. "binary_not_found" \in Reasons
      BY DEF Reasons
    <3>3. d \in Decisions /\ d.action = "deny" /\ d.reason = "binary_not_found"
      BY <3>1, <3>2, DeniedIs
    <3> QED
      BY <3>3
  <2>4. CASE ~NoBinary /\ NoIps
    <3>1. d = Denied("dns_resolve_error")
      BY <2>2, <2>4 DEF Decide
    <3>2. "dns_resolve_error" \in Reasons
      BY DEF Reasons
    <3>3. d \in Decisions /\ d.action = "deny" /\ d.reason = "dns_resolve_error"
      BY <3>1, <3>2, DeniedIs
    <3> QED
      BY <3>3
  <2>5. CASE ~NoBinary /\ ~NoIps
    <3>1. d = Evaluate(req, st)
      BY <2>2, <2>5 DEF Decide
    <3>2. Known(req, st)
      BY <2>5 DEF Known
    <3>3. Known(req, fc)
      BY <3>2, <2>1, KnownReordered
    <3> QED
      BY <3>1, <3>3, <2>1, <1>2, EvaluateAsMeant
  <2> QED
    BY <2>3, <2>4, <2>5
<1> QED
  BY <1>1, <1>2

(***************************************************************************)
(* ProxyFilter: the matchers are the one-star globs they stand for.        *)
(***************************************************************************)
LEMMA BeginningIs ==
  ASSUME NEW V, NEW s \in Seq(V), NEW p \in Seq(V)
  PROVE  StartsWith(s, p) <=> Len(p) <= Len(s) /\ \A k \in 1..Len(p) : s[k] = p[k]
<1>1. PICK n : n = Len(s)
  OBVIOUS
<1>2. PICK m : m = Len(p)
  OBVIOUS
<1>3. n \in Nat /\ m \in Nat /\ \A k \in 1..n : s[k] \in V
  BY <1>1, <1>2, LenProperties
<1>4. SUFFICES ASSUME m <= n PROVE SubSeq(s, 1, m) = p <=> \A k \in 1..m : s[k] = p[k]
  BY <1>1, <1>2 DEF StartsWith
<1>5. PICK t : t = SubSeq(s, 1, m)
  OBVIOUS
<1>6. t \in Seq(V) /\ Len(t) = m /\ \A k \in 1..m : t[k] = s[k]
  BY <1>1, <1>3, <1>4, <1>5, SubSeqProperties
<1>7. t = p <=> \A k \in 1..m : t[k] = p[k]
  BY <1>2, <1>6, SeqEqual
<1> QED
  BY <1>5, <1>6, <1>7

\* The characters of p are the last of s.
Closes(s, p) == Len(p) <= Len(s) /\ \A k \in 1..Len(p) : s[Len(s) - Len(p) + k] = p[k]

LEMMA EndIs ==
  ASSUME NEW V, NEW s \in Seq(V), NEW p \in Seq(V)
  PROVE  EndsWith(s, p) <=> Closes(s, p)
<1>1. PICK n : n = Len(s)
  OBVIOUS
<1>2. PICK m : m = Len(p)
  OBVIOUS
<1>3. n \in Nat /\ m \in Nat /\ \A k \in 1..n : s[k] \in V
  BY <1>1, <1>2, LenProperties
<1>4. SUFFICES ASSUME m <= n PROVE SubSeq(s, n - m + 1, n) = p <=> \A k \in 1..m : s[n - m + k] = p[k]
  BY <1>1, <1>2 DEF EndsWith, Closes
<1>5. PICK t : t = SubSeq(s, n - m + 1, n)
  OBVIOUS
<1>6. t \in Seq(V) /\ Len(t) = m /\ \A k \in 1..m : t[k] = s[n - m + k]
  <2>1. PICK a : a = n - m + 1
    OBVIOUS
  <2>2. a \in Int /\ n \in Int /\ a \in 1..n + 1 /\ n - a + 1 = m /\ \A k \in 1..m : a + k - 1 = n - m + k
    BY <2>1, <1>3, <1>4
  <2>3. \A i \in a..n : s[i] \in V
    BY <2>2, <1>3
  <2>4. /\ SubSeq(s, a, n) \in Seq(V) /\ Len(SubSeq(s, a, n)) = IF a <= n THEN n - a + 1 ELSE 0
        /\ \A k \in 1..n - a + 1 : SubSeq(s, a, n)[k] = s[a + k - 1]
    BY <2>2, <2>3, SubSeqProperties
  <2>5. (~(a <= n)) => m = 0
    BY <2>2, <1>3
  <2> QED
    BY <2>1, <2>2, <2>4, <2>5, <1>5
<1>7. t = p <=> \A k \in 1..m : t[k] = p[k]
  BY <1>2, <1>6, SeqEqual
<1> QED
  BY <1>5, <1>6, <1>7

LEMMA NothingEnds ==
  ASSUME NEW V, NEW s \in Seq(V), NEW e \in Seq(V), Len(e) = 0
  PROVE  StartsWith(s, e) /\ EndsWith(s, e)
<1>1. Len(s) \in Nat /\ 0 <= Len(s)
  BY LenProperties
<1>2. StartsWith(s, e) <=> Len(e) <= Len(s) /\ \A k \in 1..Len(e) : s[k] = e[k]
  BY BeginningIs
<1>3. EndsWith(s, e) <=> Closes(s, e)
  BY EndIs
<1>4. \A k \in 1..Len(e) : FALSE
  OBVIOUS
<1> QED
  BY <1>1, <1>2, <1>3, <1>4 DEF Closes

LEMMA TailIs ==
  ASSUME NEW V, NEW p \in Seq(V), p # <<>>
  PROVE  /\ Len(p) \in Nat \ {0} /\ Tail(p) \in Seq(V) /\ Len(Tail(p)) = Len(p) - 1
         /\ \A k \in 1..Len(p) - 1 : Tail(p)[k] = p[k + 1]
<1>1. Len(p) \in Nat \ {0}
  BY LenProperties, EmptySeq
<1>2. Tail(p) \in Seq(V) /\ Len(Tail(p)) = Len(p) - 1 /\ \A k \in 1..Len(Tail(p)) : Tail(p)[k] = p[k + 1]
  BY HeadTailProperties
<1> QED
  BY <1>1, <1>2

LEMMA FrontOf ==
  ASSUME NEW V, NEW p \in Seq(V), p # <<>>
  PROVE  /\ Front(p) \in Seq(V) /\ Len(Front(p)) = Len(p) - 1
         /\ \A k \in 1..Len(p) - 1 : Front(p)[k] = p[k]
<1>1. PICK n : n = Len(p)
  OBVIOUS
<1>2. n \in Nat \ {0} /\ \A k \in 1..n : p[k] \in V
  BY <1>1, LenProperties, EmptySeq
<1>3. PICK m : m = n - 1
  OBVIOUS
<1>4. m \in Nat /\ m \in Int /\ 1 \in Int /\ \A k \in 1..m : k \in 1..n
  BY <1>2, <1>3
<1>5. /\ SubSeq(p, 1, m) \in Seq(V) /\ Len(SubSeq(p, 1, m)) = IF 1 <= m THEN m - 1 + 1 ELSE 0
      /\ \A k \in 1..m - 1 + 1 : SubSeq(p, 1, m)[k] = p[1 + k - 1]
  BY <1>2, <1>4, SubSeqProperties
<1>6. m - 1 + 1 = m /\ (~ (1 <= m) => m = 0) /\ \A k \in 1..m : 1 + k - 1 = k
  BY <1>4
<1>7. Front(p) = SubSeq(p, 1, m)
  BY <1>1, <1>3 DEF Front
<1> QED
  BY <1>1, <1>3, <1>5, <1>6, <1>7

\* A star at the front: the rest of the pattern is what the text ends with.
LEMMA GlobFirst ==
  ASSUME NEW V, NEW p \in Seq(V), NEW s \in Seq(V), p # <<>>, p[1] = "*",
         \A i \in 1..Len(p) : p[i] = "*" => i = 1
  PROVE  Glob(p, s) <=> EndsWith(s, Tail(p))
<1>1. PICK n : n = Len(p)
  OBVIOUS
<1>2. PICK l : l = Len(s)
  OBVIOUS
<1>3. n \in Nat \ {0} /\ l \in Nat /\ 1 \in 1..n /\ DOMAIN p = 1..n
  BY <1>1, <1>2, LenProperties, EmptySeq
<1>4. PICK t : t = Tail(p)
  OBVIOUS
<1>5. t \in Seq(V) /\ Len(t) = n - 1 /\ \A k \in 1..n - 1 : t[k] = p[k + 1]
  BY <1>1, <1>4, TailIs
<1>6. EndsWith(s, t) <=> n - 1 <= l /\ \A k \in 1..n - 1 : s[l - (n - 1) + k] = t[k]
  <2>1. EndsWith(s, t) <=> Closes(s, t)
    BY <1>5, EndIs
  <2> QED
    BY <2>1, <1>2, <1>5 DEF Closes
<1>7. p = s => EndsWith(s, t)
  <2>1. SUFFICES ASSUME p = s PROVE n - 1 <= l /\ \A k \in 1..n - 1 : s[l - (n - 1) + k] = t[k]
    BY <1>6
  <2>2. l = n
    BY <2>1, <1>1, <1>2
  <2>3. \A k \in 1..n - 1 : l - (n - 1) + k = k + 1
    BY <2>2, <1>3
  <2> QED
    BY <2>1, <2>2, <2>3, <1>3, <1>5
<1>8. SubSeq(p, 1 + 1, n) = t
  BY <1>1, <1>4, TailIsSubSeq
<1>9. StartsWith(s, SubSeq(p, 1, 1 - 1))
  <2>1. SubSeq(p, 1, 1 - 1) = <<>>
    BY SubSeqEmpty
  <2>2. <<>> \in Seq(V) /\ Len(<<>>) = 0
    BY EmptySeq
  <2>3. StartsWith(s, <<>>)
    BY <2>2, NothingEnds
  <2> QED
    BY <2>1, <2>3
<1>10. Glob(p, s) <=> p = s \/ (l >= n - 1 /\ StartsWith(s, SubSeq(p, 1, 1 - 1)) /\ EndsWith(s, SubSeq(p, 1 + 1, n)))
  BY <1>1, <1>2, <1>3 DEF Glob
<1> QED
  BY <1>3, <1>4, <1>6, <1>7, <1>8, <1>9, <1>10

\* A star at the end: the rest of the pattern is what the text begins with.
LEMMA GlobLast ==
  ASSUME NEW V, NEW p \in Seq(V), NEW s \in Seq(V), p # <<>>, p[Len(p)] = "*",
         \A i \in 1..Len(p) : p[i] = "*" => i = Len(p)
  PROVE  Glob(p, s) <=> StartsWith(s, Front(p))
<1>1. PICK n : n = Len(p)
  OBVIOUS
<1>2. PICK l : l = Len(s)
  OBVIOUS
<1>3. n \in Nat \ {0} /\ l \in Nat /\ n \in 1..n /\ DOMAIN p = 1..n
  BY <1>1, <1>2, LenProperties, EmptySeq
<1>4. PICK t : t = Front(p)
  OBVIOUS
<1>5. t \in Seq(V) /\ Len(t) = n - 1 /\ \A k \in 1..n - 1 : t[k] = p[k]
  BY <1>1, <1>4, FrontOf
<1>6. StartsWith(s, t) <=> n - 1 <= l /\ \A k \in 1..n - 1 : s[k] = t[k]
  BY <1>2, <1>5, BeginningIs
<1>7. p = s => StartsWith(s, t)
  BY <1>1, <1>2, <1>3, <1>5, <1>6
<1>8. SubSeq(p, 1, n - 1) = t
  BY <1>1, <1>4 DEF Front
<1>9. EndsWith(s, SubSeq(p, n + 1, n))
  <2>1. SubSeq(p, n + 1, n) = <<>>
    BY <1>3, SubSeqEmpty
  <2>2. <<>> \in Seq(V) /\ Len(<<>>) = 0
    BY EmptySeq
  <2>3. EndsWith(s, <<>>)
    BY <2>2, NothingEnds
  <2> QED
    BY <2>1, <2>3
<1>10. Glob(p, s) <=> p = s \/ (l >= n - 1 /\ StartsWith(s, SubSeq(p, 1, n - 1)) /\ EndsWith(s, SubSeq(p, n + 1, n)))
  BY <1>1, <1>2, <1>3 DEF Glob
<1> QED
  BY <1>3, <1>4, <1>6, <1>7, <1>8, <1>9, <1>10

LEMMA GlobPlain ==
  ASSUME NEW p, NEW s, \A i \in DOMAIN p : p[i] # "*"
  PROVE  Glob(p, s) <=> p = s
BY DEF Glob

\* A valid pattern has one star at most.
LEMMA OneStar ==
  ASSUME NEW V, NEW p \in Seq(V), ValidGlob(p)
  PROVE  /\ \A i, j \in 1..Len(p) : p[i] = "*" /\ p[j] = "*" => i = j
         /\ Stars(p) > 0 <=> \E i \in 1..Len(p) : p[i] = "*"
<1>1. PICK n : n = Len(p)
  OBVIOUS
<1>2. n \in Nat /\ DOMAIN p = 1..n
  BY <1>1, LenProperties
<1>3. PICK S : S = {i \in DOMAIN p : p[i] = "*"}
  OBVIOUS
<1>4. S \in SUBSET (1..n)
  BY <1>2, <1>3
<1>5. IsFiniteSet(S)
  <2>1. IsFiniteSet(1..n)
    BY <1>2, FS_Interval
  <2> QED
    BY <2>1, <1>4, FS_Subset
<1>6. Cardinality(S) \in Nat /\ Cardinality(S) <= 1 /\ Stars(p) = Cardinality(S) /\ (Cardinality(S) = 0 <=> S = {})
  <2>1. Stars(p) = Cardinality(S)
    BY <1>3 DEF Stars
  <2>2. Cardinality(S) \in Nat /\ (Cardinality(S) = 0 <=> S = {})
    BY <1>5, FS_CardinalityType, FS_EmptySet
  <2> QED
    BY <2>1, <2>2 DEF ValidGlob
<1>7. ASSUME NEW i \in S, NEW j \in S PROVE i = j
  <2>1. PICK R : R = S \ {i}
    OBVIOUS
  <2>2. IsFiniteSet(R) /\ Cardinality(R) = Cardinality(S) - 1
    BY <2>1, <1>5, FS_RemoveElement
  <2>3. Cardinality(R) \in Nat
    BY <2>2, FS_CardinalityType
  <2>4. Cardinality(R) = 0
    BY <2>2, <2>3, <1>6
  <2>5. R = {}
    BY <2>2, <2>4, FS_EmptySet
  <2> QED
    BY <2>1, <2>5
<1>8. Stars(p) > 0 <=> S # {}
  BY <1>6
<1>9. \A i \in 1..n : i \in S <=> p[i] = "*"
  BY <1>2, <1>3
<1> QED
  BY <1>1, <1>4, <1>7, <1>8, <1>9

LEMMA FoldedIs ==
  ASSUME NEW V, NEW s \in Seq(V)
  PROVE  /\ Folded(s) \in Seq(V \cup {"a"}) /\ Len(Folded(s)) = Len(s)
         /\ \A k \in 1..Len(s) : Folded(s)[k] = Lower(s[k]) /\ (Folded(s)[k] = "*" <=> s[k] = "*")
<1>1. PICK n : n = Len(s)
  OBVIOUS
<1>2. n \in Nat /\ DOMAIN s = 1..n /\ \A k \in 1..n : s[k] \in V
  BY <1>1, LenProperties
<1>3. \A k \in 1..n : Lower(s[k]) \in V \cup {"a"} /\ (Lower(s[k]) = "*" <=> s[k] = "*")
  BY <1>2 DEF Lower
<1>4. Folded(s) = [k \in 1..n |-> Lower(s[k])]
  BY <1>2 DEF Folded
<1>5. Folded(s) \in Seq(V \cup {"a"}) /\ Len(Folded(s)) = n
  <2>1. Folded(s) \in [1..n -> V \cup {"a"}]
    BY <1>3, <1>4
  <2>2. Folded(s) \in Seq(V \cup {"a"})
    BY <2>1, <1>2, IsASeq
  <2>3. DOMAIN Folded(s) = 1..Len(Folded(s)) /\ Len(Folded(s)) \in Nat
    BY <2>2, LenProperties
  <2> QED
    BY <2>1, <2>2, <2>3, <1>2
<1> QED
  BY <1>1, <1>3, <1>4, <1>5

LEMMA FoldedTail ==
  ASSUME NEW V, NEW p \in Seq(V), p # <<>>
  PROVE  /\ Folded(p) # <<>>
         /\ Folded(Tail(p)) = Tail(Folded(p)) /\ Folded(Front(p)) = Front(Folded(p))
<1> DEFINE W == V \cup {"a"}
<1>1. PICK n : n = Len(p)
  OBVIOUS
<1>2. PICK f : f = Folded(p)
  OBVIOUS
<1>3. n \in Nat \ {0}
  BY <1>1, TailIs
<1>4. f \in Seq(W) /\ Len(f) = n /\ \A k \in 1..n : f[k] = Lower(p[k])
  BY <1>1, <1>2, FoldedIs
<1>5. f # <<>>
  BY <1>3, <1>4, EmptySeq
<1> HIDE DEF W
<1>6. Folded(Tail(p)) = Tail(f)
  <2>1. PICK t : t = Tail(p)
    OBVIOUS
  <2>2. t \in Seq(V) /\ Len(t) = n - 1 /\ \A k \in 1..n - 1 : t[k] = p[k + 1]
    BY <2>1, <1>1, TailIs
  <2>3. Folded(t) \in Seq(W) /\ Len(Folded(t)) = n - 1 /\ \A k \in 1..n - 1 : Folded(t)[k] = Lower(t[k])
    BY <2>2, FoldedIs DEF W
  <2>4. Tail(f) \in Seq(W) /\ Len(Tail(f)) = n - 1 /\ \A k \in 1..n - 1 : Tail(f)[k] = f[k + 1]
    BY <1>4, <1>5, TailIs
  <2>5. \A k \in 1..n - 1 : k + 1 \in 1..n
    BY <1>3
  <2>6. \A k \in 1..n - 1 : Folded(t)[k] = Tail(f)[k]
    BY <2>2, <2>3, <2>4, <2>5, <1>4
  <2>7. Folded(t) = Tail(f)
    BY <2>3, <2>4, <2>6, SeqEqual
  <2> QED
    BY <2>1, <2>7
<1>7. Folded(Front(p)) = Front(f)
  <2>1. PICK t : t = Front(p)
    OBVIOUS
  <2>2. t \in Seq(V) /\ Len(t) = n - 1 /\ \A k \in 1..n - 1 : t[k] = p[k]
    BY <2>1, <1>1, FrontOf
  <2>3. Folded(t) \in Seq(W) /\ Len(Folded(t)) = n - 1 /\ \A k \in 1..n - 1 : Folded(t)[k] = Lower(t[k])
    BY <2>2, FoldedIs DEF W
  <2>4. Front(f) \in Seq(W) /\ Len(Front(f)) = n - 1 /\ \A k \in 1..n - 1 : Front(f)[k] = f[k]
    BY <1>4, <1>5, FrontOf
  <2>5. \A k \in 1..n - 1 : k \in 1..n
    BY <1>3
  <2>6. \A k \in 1..n - 1 : Folded(t)[k] = Front(f)[k]
    BY <2>2, <2>3, <2>4, <2>5, <1>4
  <2>7. Folded(t) = Front(f)
    BY <2>3, <2>4, <2>6, SeqEqual
  <2> QED
    BY <2>1, <2>7
<1> QED
  BY <1>2, <1>5, <1>6, <1>7

LEMMA PathTyped ==
  ASSUME NEW V, NEW s \in Seq(V)
  PROVE  PathOf(s) \in Seq(V)
<1> DEFINE marks == {i \in DOMAIN s : s[i] = "?"}
<1>1. Len(s) \in Nat /\ DOMAIN s = 1..Len(s) /\ \A k \in 1..Len(s) : s[k] \in V
  BY LenProperties
<1>2. CASE marks = {}
  BY <1>2 DEF PathOf
<1>3. CASE marks # {}
  <2>1. marks \in SUBSET Nat /\ marks \subseteq 1..Len(s)
    BY <1>1
  <2>2. PICK m : m = Min(marks)
    OBVIOUS
  <2>3. m \in 1..Len(s)
    <3> HIDE DEF marks
    <3> QED
      BY <2>1, <2>2, <1>3, MinOf
  <2>4. PathOf(s) = SubSeq(s, 1, m - 1)
    BY <2>2, <1>3 DEF PathOf
  <2>5. 1 \in Int /\ m - 1 \in Int /\ \A k \in 1..m - 1 : s[k] \in V
    BY <2>3, <1>1
  <2>6. SubSeq(s, 1, m - 1) \in Seq(V)
    BY <2>5, SubSeqProperties
  <2> QED
    BY <2>4, <2>6
<1> QED
  BY <1>2, <1>3

\* The three matchers.
LEMMA MethodIsGlob ==
  ASSUME NEW V, NEW p \in Seq(V), NEW s \in Seq(V), ValidGlob(p)
  PROVE  MethodMatches(p, s) = Glob(p, s)
<1>1. p # <<>> /\ DOMAIN p = 1..Len(p) /\ Len(p) \in Nat \ {0}
  BY TailIs, LenProperties DEF ValidGlob
<1>2. CASE p = <<"*">>
  <2>1. p[1] = "*" /\ Len(p) = 1
    BY <1>2
  <2>2. Tail(p) \in Seq(V) /\ Len(Tail(p)) = 0
    BY <2>1, <1>1, TailIs
  <2>3. EndsWith(s, Tail(p))
    BY <2>2, NothingEnds
  <2>4. \A i \in 1..Len(p) : i = 1
    BY <2>1
  <2>5. Glob(p, s)
    BY <2>1, <2>3, <2>4, <1>1, GlobFirst
  <2> QED
    BY <2>5, <1>2 DEF MethodMatches, Glob
<1>3. CASE p # <<"*">> /\ Stars(p) > 0
  BY <1>3 DEF MethodMatches, Glob
<1>4. CASE p # <<"*">> /\ ~(Stars(p) > 0)
  <2>1. \A i \in DOMAIN p : p[i] # "*"
    BY <1>1, <1>4, OneStar
  <2>2. Glob(p, s) <=> p = s
    BY <2>1, GlobPlain
  <2> QED
    BY <2>2, <1>4 DEF MethodMatches, Glob
<1> QED
  BY <1>2, <1>3, <1>4

LEMMA UriIsGlob ==
  ASSUME NEW V, NEW p \in Seq(V), NEW s \in Seq(V), ValidGlob(p)
  PROVE  UriMatches(p, s) = Glob(p, PathOf(s))
<1>1. p # <<>> /\ DOMAIN p = 1..Len(p) /\ Len(p) \in Nat \ {0} /\ 1 \in 1..Len(p) /\ Len(p) \in 1..Len(p)
  BY TailIs, LenProperties DEF ValidGlob
<1>2. PICK t : t = PathOf(s)
  OBVIOUS
<1>3. t \in Seq(V)
  BY <1>2, PathTyped
<1>4. Head(p) = p[1] /\ Last(p) = p[Len(p)]
  BY <1>1, HeadTailProperties DEF Last
<1>5. \A i, j \in 1..Len(p) : p[i] = "*" /\ p[j] = "*" => i = j
  BY OneStar
<1>6. p[1] = "*" => (Glob(p, t) <=> EndsWith(t, Tail(p)))
  BY <1>1, <1>3, <1>5, GlobFirst
<1>7. p[Len(p)] = "*" => (Glob(p, t) <=> StartsWith(t, Front(p)))
  BY <1>1, <1>3, <1>5, GlobLast
<1>8. ~(Stars(p) > 0) => (Glob(p, t) <=> t = p)
  <2>1. SUFFICES ASSUME ~(Stars(p) > 0) PROVE Glob(p, t) <=> t = p
    OBVIOUS
  <2>2. \A i \in DOMAIN p : p[i] # "*"
    BY <2>1, <1>1, OneStar
  <2>3. Glob(p, t) <=> p = t
    BY <2>2, GlobPlain
  <2> QED
    BY <2>3
<1>9. p = <<"*">> => Glob(p, t)
  <2>1. SUFFICES ASSUME p = <<"*">> PROVE Glob(p, t)
    OBVIOUS
  <2>2. p[1] = "*" /\ Len(p) = 1
    BY <2>1
  <2>3. Tail(p) \in Seq(V) /\ Len(Tail(p)) = 0
    BY <2>2, <1>1, TailIs
  <2>4. EndsWith(t, Tail(p))
    BY <2>3, <1>3, NothingEnds
  <2> QED
    BY <2>2, <2>4, <1>6
<1>10. UriMatches(p, s) <=> Glob(p, t)
  BY <1>2, <1>4, <1>6, <1>7, <1>8, <1>9 DEF UriMatches
<1> QED
  BY <1>2, <1>10 DEF UriMatches, Glob

LEMMA DomainIsGlob ==
  ASSUME NEW V, NEW p \in Seq(V), NEW s \in Seq(V), ValidGlob(p)
  PROVE  DomainMatches(p, s) = Glob(Folded(p), Folded(s))
<1> DEFINE W == V \cup {"a"}
<1>1. p # <<>> /\ DOMAIN p = 1..Len(p) /\ Len(p) \in Nat \ {0} /\ 1 \in 1..Len(p) /\ Len(p) \in 1..Len(p)
  BY TailIs, LenProperties DEF ValidGlob
<1>2. PICK f : f = Folded(p)
  OBVIOUS
<1>3. PICK t : t = Folded(s)
  OBVIOUS
<1>4. t \in Seq(W) /\ f \in Seq(W) /\ Len(f) = Len(p) /\ \A k \in 1..Len(p) : f[k] = "*" <=> p[k] = "*"
  BY <1>2, <1>3, FoldedIs
<1> HIDE DEF W
<1>5. f # <<>> /\ Folded(Tail(p)) = Tail(f) /\ Folded(Front(p)) = Front(f)
  BY <1>1, <1>2, FoldedTail
<1>6. Head(p) = p[1] /\ Last(p) = p[Len(p)] /\ DOMAIN f = 1..Len(p)
  BY <1>1, <1>4, HeadTailProperties, LenProperties DEF Last
<1>7. \A i, j \in 1..Len(p) : f[i] = "*" /\ f[j] = "*" => i = j
  BY <1>4, OneStar
<1>8. p[1] = "*" => (Glob(f, t) <=> EndsWith(t, Tail(f)))
  <2>1. SUFFICES ASSUME p[1] = "*" PROVE Glob(f, t) <=> EndsWith(t, Tail(f))
    OBVIOUS
  <2>2. f[1] = "*" /\ \A i \in 1..Len(f) : f[i] = "*" => i = 1
    BY <2>1, <1>1, <1>4, <1>7
  <2> QED
    BY <2>2, <1>4, <1>5, GlobFirst
<1>9. p[Len(p)] = "*" => (Glob(f, t) <=> StartsWith(t, Front(f)))
  <2>1. SUFFICES ASSUME p[Len(p)] = "*" PROVE Glob(f, t) <=> StartsWith(t, Front(f))
    OBVIOUS
  <2>2. f[Len(f)] = "*" /\ \A i \in 1..Len(f) : f[i] = "*" => i = Len(f)
    BY <2>1, <1>1, <1>4, <1>7
  <2> QED
    BY <2>2, <1>4, <1>5, GlobLast
<1>10. ~(Stars(p) > 0) => (Glob(f, t) <=> t = f)
  <2>1. SUFFICES ASSUME ~(Stars(p) > 0) PROVE Glob(f, t) <=> t = f
    OBVIOUS
  <2>2. \A i \in DOMAIN f : f[i] # "*"
    BY <2>1, <1>4, <1>6, OneStar
  <2>3. Glob(f, t) <=> f = t
    BY <2>2, GlobPlain
  <2> QED
    BY <2>3
<1>11. p = <<"*">> => Glob(f, t)
  <2>1. SUFFICES ASSUME p = <<"*">> PROVE Glob(f, t)
    OBVIOUS
  <2>2. p[1] = "*" /\ Len(p) = 1
    BY <2>1
  <2>3. Tail(f) \in Seq(W) /\ Len(Tail(f)) = 0
    BY <2>2, <1>4, <1>5, TailIs
  <2>4. EndsWith(t, Tail(f))
    BY <2>3, <1>4, NothingEnds
  <2> QED
    BY <2>2, <2>4, <1>8
<1>12. DomainMatches(p, s) <=> Glob(f, t)
  BY <1>2, <1>3, <1>5, <1>6, <1>8, <1>9, <1>10, <1>11 DEF DomainMatches
<1> QED
  BY <1>2, <1>3, <1>12 DEF DomainMatches, Glob

(***************************************************************************)
(* ProxyFilter: quotients, and the powers of two.                          *)
(***************************************************************************)
LEMMA QuotientIs ==
  ASSUME NEW x \in Nat, NEW d \in Nat \ {0}
  PROVE  x \div d \in Nat /\ (x \div d) * d <= x /\ x < (x \div d) * d + d
OBVIOUS

LEMMA QuotientOnly ==
  ASSUME NEW x \in Nat, NEW d \in Nat \ {0}, NEW q \in Nat, q * d <= x, x < q * d + d
  PROVE  x \div d = q
OBVIOUS

LEMMA RemainderOnly ==
  ASSUME NEW x \in Nat, NEW d \in Nat \ {0}, NEW q \in Nat, NEW r \in Nat, r < d, x = q * d + r
  PROVE  x % d = r
OBVIOUS

LEMMA LastBit ==
  ASSUME NEW a \in Nat, NEW b \in Nat, a \div 2 = b \div 2, a % 2 = 1 <=> b % 2 = 1
  PROVE  a = b
OBVIOUS

LEMMA TimesMonotone ==
  ASSUME NEW a \in Nat, NEW b \in Nat, NEW c \in Nat, a <= b
  PROVE  a * c <= b * c
OBVIOUS

LEMMA TimesStrict ==
  ASSUME NEW a \in Nat, NEW b \in Nat, NEW c \in Nat \ {0}, a < b
  PROVE  a * c < b * c
<1>1. (a + 1) * c <= b * c
  BY TimesMonotone
<1>2. (a + 1) * c = a * c + c
  OBVIOUS
<1>3. a * c \in Nat /\ b * c \in Nat
  OBVIOUS
<1> QED
  BY <1>1, <1>2, <1>3

\* A quotient does not change when both numbers are multiplied.
LEMMA QuotientScaled ==
  ASSUME NEW a \in Nat, NEW d \in Nat \ {0}, NEW c \in Nat \ {0}
  PROVE  (a * c) \div (d * c) = a \div d
<1>1. PICK q : q = a \div d
  OBVIOUS
<1>2. q \in Nat /\ q * d <= a /\ a < q * d + d
  BY <1>1, QuotientIs
<1>3. q * d \in Nat /\ q * d + d \in Nat /\ a * c \in Nat /\ d * c \in Nat \ {0}
  BY <1>2
<1>4. (q * d) * c <= a * c /\ a * c < (q * d + d) * c
  BY <1>2, <1>3, TimesMonotone, TimesStrict
<1>5. (q * d) * c = q * (d * c) /\ (q * d + d) * c = q * (d * c) + d * c
  BY <1>2
<1>6. (a * c) \div (d * c) = q
  BY <1>2, <1>3, <1>4, <1>5, QuotientOnly
<1> QED
  BY <1>1, <1>6

\* TwoTo is defined: it reaches every exponent.
Doubling(f, n) == f = [k \in 0..n |-> IF k = 0 THEN 1 ELSE 2 * f[k - 1]]

LEMMA DoublingReaches ==
  ASSUME NEW n \in Nat
  PROVE  \E f \in [0..n -> Nat \ {0}] : Doubling(f, n)
<1> DEFINE Reached(m) == \E f \in [0..m -> Nat \ {0}] : f[0] = 1 /\ \A k \in 1..m : f[k] = 2 * f[k - 1]
           T == {m \in 0..n : ~Reached(m)}
<1>1. T = {}
  <2>1. SUFFICES ASSUME T # {} PROVE FALSE
    OBVIOUS
  <2>2. T \in SUBSET Nat
    OBVIOUS
  <2>3. PICK m \in T : \A j \in T : m <= j
    BY <2>1, <2>2, LeastOf
  <2>4. m # 0
    <3> DEFINE e == [k \in 0..0 |-> 1]
    <3>1. e \in [0..0 -> Nat \ {0}] /\ e[0] = 1 /\ \A k \in 1..0 : e[k] = 2 * e[k - 1]
      OBVIOUS
    <3>2. Reached(0)
      BY <3>1
    <3> QED
      BY <2>3, <3>2
  <2>5. PICK l : l = m - 1
    OBVIOUS
  <2>6. l \in 0..n /\ l < m /\ m = l + 1 /\ m \in 1..n /\ l \in Nat
    BY <2>3, <2>4, <2>5
  <2>7. l \notin T
    <3> HIDE DEF T
    <3> QED
      BY <2>3, <2>6
  <2>8. PICK f \in [0..l -> Nat \ {0}] : f[0] = 1 /\ \A k \in 1..l : f[k] = 2 * f[k - 1]
    BY <2>6, <2>7
  <2> DEFINE last == 2 * f[l]
             g == [k \in 0..m |-> IF k = m THEN last ELSE f[k]]
  <2>9. last \in Nat \ {0}
    <3>1. f[l] \in Nat \ {0}
      BY <2>6, <2>8
    <3> QED
      BY <3>1
  <2>10. g \in [0..m -> Nat \ {0}]
    BY <2>6, <2>8, <2>9
  <2>11. (\A k \in 0..l : g[k] = f[k]) /\ g[m] = last
    BY <2>6
  <2> HIDE DEF g
  <2>12. g[0] = 1
    BY <2>6, <2>8, <2>11
  <2>13. ASSUME NEW k \in 1..m PROVE g[k] = 2 * g[k - 1]
    <3>1. CASE k = m
      BY <3>1, <2>6, <2>11
    <3>2. CASE k # m
      <4>1. k \in 1..l /\ k \in 0..l /\ k - 1 \in 0..l
        BY <3>2, <2>6
      <4> QED
        BY <4>1, <2>8, <2>11
    <3> QED
      BY <3>1, <3>2
  <2>14. Reached(m)
    BY <2>10, <2>12, <2>13
  <2> QED
    BY <2>3, <2>14
<1>2. Reached(n)
  <2>1. n \notin T
    <3> HIDE DEF T
    <3> QED
      BY <1>1
  <2>2. n \in 0..n
    OBVIOUS
  <2> QED
    BY <2>1, <2>2
<1>3. PICK f \in [0..n -> Nat \ {0}] : f[0] = 1 /\ \A k \in 1..n : f[k] = 2 * f[k - 1]
  BY <1>2
<1>4. f = [k \in 0..n |-> f[k]]
  BY <1>3
<1>5. \A k \in 0..n : f[k] = IF k = 0 THEN 1 ELSE 2 * f[k - 1]
  BY <1>3
<1>6. Doubling(f, n)
  BY <1>4, <1>5 DEF Doubling
<1> QED
  BY <1>6

LEMMA Powers ==
  /\ TwoTo[0] = 1
  /\ \A k \in 0..AddressBits : TwoTo[k] \in Nat \ {0}
  /\ \A k \in 1..AddressBits : TwoTo[k] = 2 * TwoTo[k - 1]
<1>1. PICK n : n = AddressBits
  OBVIOUS
<1>2. n \in Nat
  BY <1>1, FilterAssumption DEF FilterAssumption
<1>3. PICK f : f \in [0..n -> Nat \ {0}] /\ Doubling(f, n)
  BY <1>2, DoublingReaches
<1>4. TwoTo = [k \in 0..n |-> IF k = 0 THEN 1 ELSE 2 * TwoTo[k - 1]]
  BY <1>1, <1>3 DEF TwoTo, Doubling
<1>5. \A k \in 0..n : TwoTo[k] = IF k = 0 THEN 1 ELSE 2 * TwoTo[k - 1]
  BY <1>4
<1>6. TwoTo[0] = 1 /\ \A k \in 1..n : TwoTo[k] = 2 * TwoTo[k - 1]
  BY <1>2, <1>5
<1> DEFINE T == {k \in 0..n : TwoTo[k] \notin Nat \ {0}}
<1>7. T = {}
  <2>1. SUFFICES ASSUME T # {} PROVE FALSE
    OBVIOUS
  <2>2. T \in SUBSET Nat
    OBVIOUS
  <2>3. PICK k \in T : \A j \in T : k <= j
    BY <2>1, <2>2, LeastOf
  <2>4. k \in 1..n /\ k - 1 \in 0..n
    BY <2>3, <1>2, <1>6
  <2>5. k - 1 \notin T
    <3> HIDE DEF T
    <3> QED
      BY <2>2, <2>3
  <2>6. TwoTo[k - 1] \in Nat \ {0}
    BY <2>4, <2>5
  <2>7. TwoTo[k] = 2 * TwoTo[k - 1]
    BY <2>4, <1>6
  <2>8. TwoTo[k] \in Nat \ {0}
    BY <2>6, <2>7
  <2> QED
    BY <2>3, <2>8
<1> QED
  BY <1>1, <1>6, <1>7

LEMMA PowersMultiply ==
  ASSUME NEW k \in Nat, NEW l \in Nat, k + l <= AddressBits
  PROVE  TwoTo[k + l] = TwoTo[k] * TwoTo[l]
<1>0. AddressBits \in Nat
  BY FilterAssumption DEF FilterAssumption
<1> DEFINE T == {j \in 0..l : TwoTo[k + j] # TwoTo[k] * TwoTo[j]}
<1>1. SUFFICES ASSUME T # {} PROVE FALSE
  OBVIOUS
<1>2. T \in SUBSET Nat
  OBVIOUS
<1>3. PICK j \in T : \A i \in T : j <= i
  BY <1>1, <1>2, LeastOf
<1>4. j \in 0..l /\ TwoTo[k + j] # TwoTo[k] * TwoTo[j]
  BY <1>3
<1>5. PICK a : a = TwoTo[k]
  OBVIOUS
<1>6. a \in Nat
  BY <1>0, <1>5, Powers
<1>7. j # 0
  BY <1>4, <1>5, <1>6, Powers
<1>8. PICK i : i = j - 1
  OBVIOUS
<1>9. i \in 0..l /\ j \in 1..AddressBits /\ k + j \in 1..AddressBits /\ k + i = (k + j) - 1 /\ i < j /\ i \in 0..AddressBits
  BY <1>0, <1>4, <1>7, <1>8
<1>10. i \notin T
  <2> HIDE DEF T
  <2> QED
    BY <1>2, <1>3, <1>9
<1>11. TwoTo[k + i] = a * TwoTo[i]
  BY <1>5, <1>9, <1>10
<1>12. PICK b : b = TwoTo[i]
  OBVIOUS
<1>13. b \in Nat
  BY <1>9, <1>12, Powers
<1>14. TwoTo[k + j] = 2 * (a * b)
  BY <1>9, <1>11, <1>12, Powers
<1>15. TwoTo[j] = 2 * b
  BY <1>8, <1>9, <1>12, Powers
<1>16. 2 * (a * b) = a * (2 * b)
  BY <1>6, <1>13
<1> QED
  BY <1>4, <1>5, <1>14, <1>15, <1>16

LEMMA HalfAgain ==
  ASSUME NEW x \in Nat, NEW k \in 0..AddressBits - 1
  PROVE  x \div TwoTo[k] \in Nat /\ x \div TwoTo[k + 1] = (x \div TwoTo[k]) \div 2
<1>0. AddressBits \in Nat
  BY FilterAssumption DEF FilterAssumption
<1>1. PICK c : c = TwoTo[k]
  OBVIOUS
<1>2. c \in Nat \ {0} /\ TwoTo[k + 1] = 2 * c
  <2>1. k \in 0..AddressBits /\ k + 1 \in 1..AddressBits /\ (k + 1) - 1 = k
    BY <1>0
  <2> QED
    BY <2>1, <1>1, Powers
<1>3. PICK z : z = x \div c
  OBVIOUS
<1>4. z \in Nat /\ z * c <= x /\ x < z * c + c
  BY <1>2, <1>3, QuotientIs
<1>5. PICK w : w = z \div 2
  OBVIOUS
<1>6. w \in Nat /\ 2 * w <= z /\ z + 1 <= 2 * w + 2
  BY <1>4, <1>5
<1>7. (2 * w) * c <= z * c /\ (z + 1) * c <= (2 * w + 2) * c
  <2>1. 2 * w \in Nat /\ z + 1 \in Nat /\ 2 * w + 2 \in Nat
    BY <1>4, <1>6
  <2> QED
    BY <2>1, <1>2, <1>4, <1>6, TimesMonotone
<1>8. (2 * w) * c = w * (2 * c) /\ (z + 1) * c = z * c + c /\ (2 * w + 2) * c = w * (2 * c) + 2 * c
  BY <1>2, <1>4, <1>6
<1>9. z * c \in Nat /\ w * (2 * c) \in Nat /\ 2 * c \in Nat \ {0}
  BY <1>2, <1>4, <1>6
<1>10. w * (2 * c) <= x /\ x < w * (2 * c) + 2 * c
  BY <1>2, <1>4, <1>7, <1>8, <1>9
<1>11. x \div (2 * c) = w
  BY <1>6, <1>9, <1>10, QuotientOnly
<1> QED
  BY <1>1, <1>2, <1>3, <1>4, <1>5, <1>11

\* Two words agree on the bits from m on exactly when their quotients agree.
LEMMA LeadingBits ==
  ASSUME NEW m \in 0..AddressBits, NEW x \in Nat, NEW y \in Nat, x < TwoTo[AddressBits], y < TwoTo[AddressBits]
  PROVE  (\A i \in m..AddressBits - 1 : i \in OneBits(x) <=> i \in OneBits(y))
           <=> x \div TwoTo[m] = y \div TwoTo[m]
<1> DEFINE Q(u, i) == u \div TwoTo[i]
<1>0. PICK n : n = AddressBits
  OBVIOUS
<1>1. n \in Nat /\ m \in 0..n
  BY <1>0, FilterAssumption DEF FilterAssumption
<1>2. \A u \in Nat, i \in 0..n - 1 : Q(u, i) \in Nat /\ Q(u, i + 1) = Q(u, i) \div 2
  BY <1>0, HalfAgain
<1>3. \A u \in Nat, i \in 0..n - 1 : i \in OneBits(u) <=> Q(u, i) % 2 = 1
  BY <1>0 DEF OneBits
<1>4. Q(x, n) = 0 /\ Q(y, n) = 0
  <2>1. PICK c : c = TwoTo[n]
    OBVIOUS
  <2>2. c \in Nat \ {0} /\ x < c /\ y < c
    BY <2>1, <1>0, <1>1, Powers
  <2>3. 0 * c = 0 /\ 0 + c = c
    BY <2>2
  <2>4. x \div c = 0 /\ y \div c = 0
    BY <2>2, <2>3, QuotientOnly
  <2> QED
    BY <2>1, <2>4
<1> HIDE DEF Q
<1>5. ASSUME \A i \in m..n - 1 : i \in OneBits(x) <=> i \in OneBits(y) PROVE Q(x, m) = Q(y, m)
  <2> DEFINE T == {j \in 0..n - m : Q(x, n - j) # Q(y, n - j)}
  <2>1. T = {}
    <3>1. SUFFICES ASSUME T # {} PROVE FALSE
      OBVIOUS
    <3>2. T \in SUBSET Nat
      OBVIOUS
    <3>3. PICK j \in T : \A i \in T : j <= i
      BY <3>1, <3>2, LeastOf
    <3>4. j \in 0..n - m /\ Q(x, n - j) # Q(y, n - j)
      BY <3>3
    <3>5. j # 0
      BY <3>4, <1>1, <1>4
    <3>6. PICK k : k = n - j
      OBVIOUS
    <3>7. k \in m..n - 1 /\ k \in 0..n - 1 /\ k + 1 = n - (j - 1) /\ j - 1 \in 0..n - m
      BY <3>4, <3>5, <3>6, <1>1
    <3>8. j - 1 \notin T
      <4> HIDE DEF T
      <4> QED
        BY <3>2, <3>3
    <3>9. Q(x, k + 1) = Q(y, k + 1)
      BY <3>7, <3>8
    <3>10. PICK a : a = Q(x, k)
      OBVIOUS
    <3>11. PICK b : b = Q(y, k)
      OBVIOUS
    <3>12. a \in Nat /\ b \in Nat /\ a \div 2 = b \div 2
      BY <3>7, <3>9, <3>10, <3>11, <1>2
    <3>13. a % 2 = 1 <=> b % 2 = 1
      BY <3>7, <3>10, <3>11, <1>3, <1>5
    <3>14. a = b
      BY <3>12, <3>13, LastBit
    <3> QED
      BY <3>4, <3>6, <3>10, <3>11, <3>14
  <2>2. n - m \in 0..n - m /\ n - (n - m) = m
    BY <1>1
  <2> QED
    BY <2>1, <2>2
<1>6. ASSUME Q(x, m) = Q(y, m) PROVE \A i \in m..n - 1 : i \in OneBits(x) <=> i \in OneBits(y)
  <2> DEFINE T == {i \in m..n - 1 : Q(x, i) # Q(y, i)}
  <2>1. T = {}
    <3>1. SUFFICES ASSUME T # {} PROVE FALSE
      OBVIOUS
    <3>2. T \in SUBSET Nat
      BY <1>1
    <3>3. PICK i \in T : \A j \in T : i <= j
      BY <3>1, <3>2, LeastOf
    <3>4. i \in m..n - 1 /\ Q(x, i) # Q(y, i)
      BY <3>3
    <3>5. i # m
      BY <3>4, <1>6
    <3>6. PICK l : l = i - 1
      OBVIOUS
    <3>7. l \in m..n - 1 /\ l \in 0..n - 1 /\ l + 1 = i /\ l < i
      BY <3>4, <3>5, <3>6, <1>1
    <3>8. l \notin T
      <4> HIDE DEF T
      <4> QED
        BY <3>2, <3>3, <3>7, <1>1
    <3>9. Q(x, l) = Q(y, l)
      BY <3>7, <3>8
    <3>10. Q(x, i) = Q(y, i)
      BY <3>7, <3>9, <1>2
    <3> QED
      BY <3>4, <3>10
  <2>2. ASSUME NEW i \in m..n - 1 PROVE i \in OneBits(x) <=> i \in OneBits(y)
    <3>1. i \in 0..n - 1 /\ Q(x, i) = Q(y, i)
      BY <2>1, <1>1
    <3> QED
      BY <3>1, <1>3
  <2> QED
    BY <2>2
<1> QED
  BY <1>0, <1>5, <1>6 DEF Q

\* The mask of a prefix has the bits that come first.
LEMMA MaskBits ==
  ASSUME NEW k \in 0..AddressBits
  PROVE  OneBits(Mask(k)) = (AddressBits - k)..(AddressBits - 1)
<1>0. PICK n : n = AddressBits
  OBVIOUS
<1>1. n \in Nat /\ k \in 0..n
  BY <1>0, FilterAssumption DEF FilterAssumption
<1>2. PICK m : m = n - k
  OBVIOUS
<1>3. m \in 0..n /\ m + k = n
  BY <1>1, <1>2
<1>4. CASE k = 0
  <2>1. ASSUME NEW i \in 0..n - 1 PROVE (0 \div TwoTo[i]) % 2 = 0
    <3>1. PICK c : c = TwoTo[i]
      OBVIOUS
    <3>2. c \in Nat \ {0}
      BY <3>1, <1>0, <1>1, Powers
    <3>3. 0 \div c = 0
      BY <3>2, QuotientOnly
    <3> QED
      BY <3>1, <3>3
  <2>2. OneBits(0) = {}
    BY <2>1, <1>0 DEF OneBits
  <2>3. (n - k)..(n - 1) = {}
    BY <1>4, <1>1
  <2> QED
    BY <2>2, <2>3, <1>0, <1>4 DEF Mask
<1>5. CASE k # 0
  <2>1. PICK c : c = TwoTo[n]
    OBVIOUS
  <2>2. PICK d : d = TwoTo[m]
    OBVIOUS
  <2>3. PICK e : e = TwoTo[k]
    OBVIOUS
  <2>4. c \in Nat \ {0} /\ d \in Nat \ {0} /\ e \in Nat \ {0} /\ c = d * e
    <3>1. c \in Nat \ {0} /\ d \in Nat \ {0} /\ e \in Nat \ {0}
      BY <2>1, <2>2, <2>3, <1>0, <1>1, <1>3, Powers
    <3>2. c = d * e
      BY <2>1, <2>2, <2>3, <1>0, <1>1, <1>3, PowersMultiply
    <3> QED
      BY <3>1, <3>2
  <2>5. e >= 2
    <3>1. k \in 1..n /\ k - 1 \in 0..n
      BY <1>1, <1>5
    <3>2. PICK h : h = TwoTo[k - 1]
      OBVIOUS
    <3>3. h \in Nat \ {0} /\ e = 2 * h
      BY <3>1, <3>2, <2>3, <1>0, Powers
    <3> QED
      BY <3>3
  <2>6. PICK w : w = Mask(k)
    OBVIOUS
  <2>7. d <= c /\ c - d \in Nat /\ c - d < c
    <3>1. 1 * d <= e * d
      BY <2>4, <2>5, TimesMonotone
    <3>2. 1 * d = d /\ e * d = d * e
      BY <2>4
    <3> QED
      BY <3>1, <3>2, <2>4
  <2>8. w = c - d
    <3>1. w = ((c - 1) * d) % c
      BY <2>1, <2>2, <2>6, <1>0, <1>2, <1>5 DEF Mask
    <3>2. (c - 1) * d = (d - 1) * c + (c - d)
      BY <2>4
    <3>3. (c - 1) * d \in Nat /\ d - 1 \in Nat
      BY <2>4
    <3> QED
      BY <3>1, <3>2, <3>3, <2>4, <2>7, RemainderOnly
  <2>9. ASSUME NEW i \in 0..m - 1 PROVE (w \div TwoTo[i]) % 2 = 0
    <3>1. PICK a : a = TwoTo[i]
      OBVIOUS
    <3>2. PICK j : j = m - i
      OBVIOUS
    <3>3. i \in Nat /\ j \in Nat /\ i + j = m /\ j \in 1..n /\ i \in 0..n /\ j - 1 \in 0..n
      BY <3>2, <1>1, <1>3
    <3>4. PICK h : h = TwoTo[j - 1]
      OBVIOUS
    <3>5. a \in Nat \ {0} /\ h \in Nat \ {0} /\ TwoTo[j] = 2 * h
      BY <3>1, <3>3, <3>4, <1>0, Powers
    <3>6. d = a * (2 * h)
      <4>1. TwoTo[i + j] = TwoTo[i] * TwoTo[j]
        BY <3>3, <1>0, <1>1, <1>3, PowersMultiply
      <4> QED
        BY <4>1, <3>1, <3>3, <3>5, <2>2
    <3>7. PICK q : q = 2 * (h * (e - 1))
      OBVIOUS
    <3>8. e - 1 \in Nat /\ h * (e - 1) \in Nat
      BY <3>5, <2>4
    <3>9. q \in Nat /\ q % 2 = 0
      <4>1. PICK r : r = h * (e - 1)
        OBVIOUS
      <4>2. r \in Nat /\ q = 2 * r
        BY <4>1, <3>7, <3>8
      <4> QED
        BY <4>2
    <3>10. w = q * a
      <4>1. w = d * (e - 1)
        BY <2>4, <2>8
      <4>2. d * (e - 1) = (2 * (h * (e - 1))) * a
        BY <3>5, <3>6, <2>4
      <4> QED
        BY <4>1, <4>2, <3>7
    <3>11. w \in Nat /\ q * a <= w /\ w < q * a + a
      BY <3>5, <3>9, <3>10, <2>7, <2>8
    <3>12. w \div a = q
      BY <3>5, <3>9, <3>11, QuotientOnly
    <3> QED
      BY <3>1, <3>9, <3>12
  <2>10. ASSUME NEW i \in m..n - 1 PROVE (w \div TwoTo[i]) % 2 = 1
    <3>1. PICK a : a = TwoTo[i]
      OBVIOUS
    <3>2. PICK j : j = n - i
      OBVIOUS
    <3>3. i \in Nat /\ j \in Nat /\ i + j = n /\ j \in 1..n /\ i \in 0..n /\ j - 1 \in 0..n
      BY <3>2, <1>1, <1>3
    <3>4. PICK h : h = TwoTo[j - 1]
      OBVIOUS
    <3>5. a \in Nat \ {0} /\ h \in Nat \ {0} /\ TwoTo[j] = 2 * h
      BY <3>1, <3>3, <3>4, <1>0, Powers
    <3>6. c = a * (2 * h)
      BY <3>1, <3>3, <3>5, <2>1, <1>0, <1>3, PowersMultiply
    <3>7. d <= a
      <4>1. PICK l : l = i - m
        OBVIOUS
      <4>2. l \in Nat /\ m + l = i /\ l \in 0..n /\ m \in Nat
        BY <4>1, <1>1, <1>3
      <4>3. PICK b : b = TwoTo[l]
        OBVIOUS
      <4>4. b \in Nat \ {0} /\ a = d * b
        <5>1. b \in Nat \ {0}
          BY <4>2, <4>3, <1>0, Powers
        <5>2. TwoTo[m + l] = TwoTo[m] * TwoTo[l]
          BY <4>2, <3>3, <1>0, PowersMultiply
        <5> QED
          BY <5>1, <5>2, <4>2, <4>3, <3>1, <2>2
      <4>5. 1 * d <= b * d
        BY <4>4, <2>4, TimesMonotone
      <4> QED
        BY <4>4, <4>5, <2>4
    <3>8. PICK q : q = 2 * h - 1
      OBVIOUS
    <3>9. q \in Nat /\ q % 2 = 1
      BY <3>5, <3>8
    <3>10. q * a = c - a
      BY <3>5, <3>6, <3>8
    <3>11. w \in Nat /\ q * a <= w /\ w < q * a + a
      BY <3>5, <3>7, <3>10, <2>4, <2>7, <2>8
    <3>12. w \div a = q
      BY <3>5, <3>9, <3>11, QuotientOnly
    <3> QED
      BY <3>1, <3>9, <3>12
  <2>11. \A i \in 0..n - 1 : (w \div TwoTo[i]) % 2 = 1 <=> i \in m..n - 1
    <3> SUFFICES ASSUME NEW i \in 0..n - 1 PROVE (w \div TwoTo[i]) % 2 = 1 <=> i \in m..n - 1
      OBVIOUS
    <3>1. CASE i \in m..n - 1
      BY <3>1, <2>10
    <3>2. CASE i \notin m..n - 1
      <4>1. i \in 0..m - 1
        BY <3>2, <1>1, <1>3
      <4> QED
        BY <4>1, <3>2, <2>9
    <3> QED
      BY <3>1, <3>2
  <2>12. m..n - 1 \subseteq 0..n - 1
    BY <1>1, <1>3
  <2>13. OneBits(w) = m..n - 1
    BY <2>11, <2>12, <1>0 DEF OneBits
  <2> QED
    BY <2>6, <2>13, <1>0, <1>2
<1> QED
  BY <1>4, <1>5

LEMMA NetworkIsPrefix ==
  ASSUME NEW net \in Networks, NEW ip \in Addresses, InFamily(net), InFamily(ip), ValidNetwork(net)
  PROVE  InNetwork(ip, net) <=>
           /\ ip.family = net.family
           /\ ip.addr \div TwoTo[Width(net.family) - net.prefix]
                = net.addr \div TwoTo[Width(net.family) - net.prefix]
<1>0. PICK n : n = AddressBits
  OBVIOUS
<1>1. PICK v : v = Width(net.family)
  OBVIOUS
<1>2. PICK k : k = net.prefix
  OBVIOUS
<1>3. n \in Nat /\ v \in 0..n /\ k \in 0..v
  BY <1>0, <1>1, <1>2, FilterAssumption DEF FilterAssumption, Networks, Width, ValidNetwork
<1>4. SUFFICES ASSUME ip.family = net.family
              PROVE  InNetwork(ip, net) <=> ip.addr \div TwoTo[v - k] = net.addr \div TwoTo[v - k]
  BY <1>1, <1>2 DEF InNetwork
<1>5. PICK a : a = ip.addr
  OBVIOUS
<1>6. PICK b : b = net.addr
  OBVIOUS
<1>7. PICK p : p = TwoTo[n - v]
  OBVIOUS
<1>8. PICK t : t = TwoTo[v]
  OBVIOUS
<1>9. PICK d : d = TwoTo[v - k]
  OBVIOUS
<1>10. n - v \in 0..n /\ v - k \in 0..n /\ n - k \in 0..n /\ (v - k) + (n - v) = n - k /\ v + (n - v) = n /\ v \in 0..n
  BY <1>3
<1>11. p \in Nat \ {0} /\ t \in Nat \ {0} /\ d \in Nat \ {0}
  BY <1>0, <1>7, <1>8, <1>9, <1>10, Powers
<1>12. TwoTo[n] = t * p /\ TwoTo[n - k] = d * p
  <2>1. v \in Nat /\ n - v \in Nat /\ v - k \in Nat
    BY <1>10
  <2>2. TwoTo[v + (n - v)] = t * p
    BY <2>1, <1>0, <1>7, <1>8, <1>10, PowersMultiply
  <2>3. TwoTo[(v - k) + (n - v)] = d * p
    BY <2>1, <1>0, <1>7, <1>9, <1>10, PowersMultiply
  <2> QED
    BY <2>2, <2>3, <1>10
<1>13. a \in Nat /\ b \in Nat /\ a < t /\ b < t
  BY <1>1, <1>4, <1>5, <1>6, <1>8, <1>0, <1>3, Powers DEF Networks, Addresses, InFamily
<1>14. Word(ip) = a * p /\ Word(net) = b * p
  BY <1>0, <1>1, <1>4, <1>5, <1>6, <1>7 DEF Word
<1>15. a * p \in Nat /\ b * p \in Nat /\ a * p < TwoTo[n] /\ b * p < TwoTo[n]
  BY <1>11, <1>12, <1>13, TimesStrict
<1>16. OneBits(Mask(k)) = (n - k)..(n - 1)
  BY <1>0, <1>3, MaskBits
<1>17. InNetwork(ip, net) <=> \A i \in (n - k)..(n - 1) : i \in OneBits(a * p) <=> i \in OneBits(b * p)
  BY <1>2, <1>4, <1>14, <1>16 DEF InNetwork
<1>18. (\A i \in (n - k)..(n - 1) : i \in OneBits(a * p) <=> i \in OneBits(b * p))
         <=> (a * p) \div (d * p) = (b * p) \div (d * p)
  BY <1>0, <1>10, <1>12, <1>15, LeadingBits
<1>19. (a * p) \div (d * p) = a \div d /\ (b * p) \div (d * p) = b \div d
  BY <1>11, <1>13, QuotientScaled
<1> QED
  BY <1>5, <1>6, <1>9, <1>17, <1>18, <1>19

(***************************************************************************)
(* ProxyFilter: what holds of the registry, the last decision, the probes. *)
(***************************************************************************)
FilTypes ==
  /\ filUpdates \in 0..FilterUpdates
  /\ Stored(filWritten, filStored)
  /\ filAsked \in FilterRequests \cup {Unset}

FilDecided ==
  filDecision # Unset => filAsked \in FilterRequests /\ filDecision = Decide(filAsked, filStored)

ProbedText(x) ==
  \E p \in Patterns, s \in Texts, m \in {"domain", "method", "uri"} :
    /\ ValidGlob(p)
    /\ x = [kind |-> m, pattern |-> p, text |-> s,
            hit |-> CASE m = "domain" -> DomainMatches(p, s)
                      [] m = "method" -> MethodMatches(p, s)
                      [] m = "uri" -> UriMatches(p, s)]
ProbedNetwork(x) ==
  \E net \in Networks, ip \in Addresses :
    /\ InFamily(net) /\ InFamily(ip) /\ ValidNetwork(net)
    /\ x = [kind |-> "net", net |-> net, ip |-> ip, hit |-> InNetwork(ip, net)]
FilProbed == filProbe # Unset => ProbedText(filProbe) \/ ProbedNetwork(filProbe)

FilInv == FilTypes /\ FilDecided /\ FilProbed

LEMMA FilterStart == FilterInit => FilInv
BY FilterAssumption DEF FilterAssumption, FilterInit, FilInv, FilTypes, FilDecided, FilProbed, Stored

LEMMA FilterStep == FilInv /\ [FilterNext]_filVars => FilInv'
<1> SUFFICES ASSUME FilInv, [FilterNext]_filVars PROVE FilInv'
  OBVIOUS
<1> USE DEF FilInv, FilTypes, FilDecided
<1>1. ASSUME NEW fc \in FilterConfigs \cup FilterRevisions, SetContainerConfig(fc) PROVE FilInv'
  <2>1. fc \in Configs
    BY FilterAssumption DEF FilterAssumption
  <2>2. filUpdates' \in 0..FilterUpdates
    BY <1>1, FilterAssumption DEF FilterAssumption, SetContainerConfig
  <2>3. Stored(filWritten', filStored')
    BY <1>1, <2>1 DEF SetContainerConfig, Stored
  <2>4. filAsked' = Unset /\ filDecision' = Unset /\ filProbe' = filProbe
    BY <1>1 DEF SetContainerConfig
  <2> QED
    BY <2>2, <2>3, <2>4 DEF FilProbed
<1>2. CASE RemoveContainerPolicy
  BY <1>2 DEF RemoveContainerPolicy, Stored, FilProbed
<1>3. ASSUME NEW req \in FilterRequests, Ask(req) PROVE FilInv'
  BY <1>3 DEF Ask, FilProbed
<1>4. CASE Probe
  <2>1. UNCHANGED <<filWritten, filStored, filUpdates, filAsked, filDecision>>
    BY <1>4 DEF Probe
  <2>2. ProbedText(filProbe') \/ ProbedNetwork(filProbe')
    BY <1>4 DEF Probe, ProbeText, ProbeNetwork, ProbedText, ProbedNetwork
  <2> QED
    BY <2>1, <2>2 DEF FilProbed
<1>5. CASE UNCHANGED filVars
  BY <1>5 DEF filVars, FilProbed
<1> QED
  BY <1>1, <1>2, <1>3, <1>4, <1>5 DEF FilterNext

LEMMA MatchersInside == FilInv => MatchersAreGlobs
<1> SUFFICES ASSUME FilInv, filProbe # Unset, filProbe.kind # "net" PROVE MatchersAreGlobs
  BY DEF MatchersAreGlobs
<1>1. ProbedText(filProbe)
  BY DEF FilInv, FilProbed, ProbedNetwork
<1>2. PICK p \in Patterns, s \in Texts, m \in {"domain", "method", "uri"} :
        /\ ValidGlob(p)
        /\ filProbe = [kind |-> m, pattern |-> p, text |-> s,
                       hit |-> CASE m = "domain" -> DomainMatches(p, s)
                                 [] m = "method" -> MethodMatches(p, s)
                                 [] m = "uri" -> UriMatches(p, s)]
  BY <1>1 DEF ProbedText
<1>3. p \in Seq(STRING) /\ s \in Seq(STRING)
  BY FilterAssumption DEF FilterAssumption
<1>4. /\ DomainMatches(p, s) = Glob(Folded(p), Folded(s))
      /\ MethodMatches(p, s) = Glob(p, s)
      /\ UriMatches(p, s) = Glob(p, PathOf(s))
  BY <1>2, <1>3, DomainIsGlob, MethodIsGlob, UriIsGlob
<1>5. filProbe.pattern = p /\ filProbe.text = s /\ filProbe.kind = m
  BY <1>2
<1>6. CASE m = "domain"
  BY <1>2, <1>4, <1>5, <1>6 DEF MatchersAreGlobs
<1>7. CASE m = "method"
  BY <1>2, <1>4, <1>5, <1>7 DEF MatchersAreGlobs
<1>8. CASE m = "uri"
  BY <1>2, <1>4, <1>5, <1>8 DEF MatchersAreGlobs
<1> QED
  BY <1>6, <1>7, <1>8

LEMMA NetworksInside == FilInv => NetworksArePrefixes
<1> SUFFICES ASSUME FilInv, filProbe # Unset, filProbe.kind = "net" PROVE NetworksArePrefixes
  BY DEF NetworksArePrefixes
<1>1. ProbedNetwork(filProbe)
  BY DEF FilInv, FilProbed, ProbedText
<1>2. PICK net \in Networks, ip \in Addresses :
        /\ InFamily(net) /\ InFamily(ip) /\ ValidNetwork(net)
        /\ filProbe = [kind |-> "net", net |-> net, ip |-> ip, hit |-> InNetwork(ip, net)]
  BY <1>1 DEF ProbedNetwork
<1>3. filProbe.net = net /\ filProbe.ip = ip /\ filProbe.hit = InNetwork(ip, net)
  BY <1>2
<1>4. InNetwork(ip, net) <=>
        /\ ip.family = net.family
        /\ ip.addr \div TwoTo[Width(net.family) - net.prefix]
             = net.addr \div TwoTo[Width(net.family) - net.prefix]
  BY <1>2, NetworkIsPrefix
<1> QED
  BY <1>3, <1>4 DEF NetworksArePrefixes, InNetwork

LEMMA PolicyInside == FilInv => PolicyIsRead
<1> SUFFICES ASSUME FilInv PROVE PolicyIsRead
  OBVIOUS
<1>1. Stored(filWritten, filStored)
  BY DEF FilInv, FilTypes
<1>2. filStored \in Configs \cup {Unset} /\ filWritten \in Configs \cup {Unset}
  BY <1>1, NormalizeReorders DEF Stored, Reordered
<1>3. ASSUME filDecision # Unset
      PROVE  /\ filDecision \in Decisions
             /\ filDecision.reason \in {"blacklist", "whitelist", "default"} =>
                  Follows(filDecision, MeantBy(filAsked, filWritten))
             /\ filDecision.action = "allow" => filWritten # Unset /\ Known(filAsked, filWritten)
  BY <1>1, <1>3, DecideIs DEF FilInv, FilDecided
<1>4. FilterTypeOK
  BY <1>2, <1>3 DEF FilterTypeOK, FilInv, FilTypes
<1>5. DecidesAsWritten
  BY <1>3 DEF DecidesAsWritten, Follows
<1>6. UnknownIsDenied
  BY <1>3 DEF UnknownIsDenied, Known
<1> QED
  BY <1>4, <1>5, <1>6, MatchersInside, NetworksInside DEF PolicyIsRead

\* Whatever rules a container is given, in whatever order, and whatever is asked: the filter decides
\* what they say, denies what it cannot know, and its matchers are the globs and the prefixes they
\* are called, for texts of any length and addresses of any width (filter/mod.rs, engine.rs,
\* matcher/mod.rs).
THEOREM PolicyStaysRead == FilterSpec => []PolicyIsRead
<1>1. FilterInit => FilInv
  BY FilterStart
<1>2. FilInv /\ [FilterNext]_filVars => FilInv'
  BY FilterStep
<1>3. FilInv => PolicyIsRead
  BY PolicyInside
<1> QED
  BY <1>1, <1>2, <1>3, PTL DEF FilterSpec
================================================================================
