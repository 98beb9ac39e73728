------------------------------ MODULE NameCache ------------------------------
(***************************************************************************)
(* The addresses of a name for the filter: resolve_target_ips of           *)
(* proxy/src/server/mod.rs.  Requests look a name up in a cache all share  *)
(* and ask the resolver when it is not there; several may do so at once.   *)
(* What a name stands for changes while the proxy runs.                    *)
(***************************************************************************)
EXTENDS Integers, FiniteSets

CONSTANTS
  Names, AddressSets,  \* names, and the sets of addresses a name may have
  Lookups,             \* the requests that look names up
  NameCacheCap,        \* CACHE_CAP
  NameChanges,         \* bound: changes of a name's addresses
  NoAddress            \* stands for no answer yet

ASSUME NameAssumption ==
  /\ NameCacheCap \in Nat \ {0} /\ NameChanges \in Nat
  /\ {} \in AddressSets /\ NoAddress \notin AddressSets

VARIABLES
  nameOf,      \* [name -> its addresses now; empty: it does not resolve]
  nameCache,   \* names and addresses that are cached
  nameAsk,     \* [request -> its step, its name, its addresses]
  nameSeen,    \* [request -> addresses its name had since it began]
  nameWas,     \* [request -> was its name cached when it began]
  nameChanges

nameVars == <<nameOf, nameCache, nameAsk, nameSeen, nameWas, nameChanges>>

Cached(n) == \E e \in nameCache : e.name = n
Entry(n) == CHOOSE e \in nameCache : e.name = n

NameInit ==
  /\ nameOf = [n \in Names |-> {}]
  /\ nameCache = {} /\ nameChanges = 0
  /\ nameAsk = [r \in Lookups |-> [at |-> "rest", name |-> NoAddress, ips |-> NoAddress]]
  /\ nameSeen = [r \in Lookups |-> {}]
  /\ nameWas = [r \in Lookups |-> FALSE]

At(r, step) == nameAsk[r].at = step

Hit(r, n) ==
  /\ Cached(n)
  /\ nameAsk' = [nameAsk EXCEPT ![r] = [at |-> "done", name |-> n, ips |-> Entry(n).ips]]
  /\ UNCHANGED nameCache

\* The lock is let go before the resolver is asked.
Miss(r, n) ==
  /\ ~Cached(n)
  /\ nameAsk' = [nameAsk EXCEPT ![r] = [at |-> "lookup", name |-> n, ips |-> NoAddress]]
  /\ UNCHANGED nameCache

Begin(r, n) ==
  /\ At(r, "rest")
  /\ Hit(r, n) \/ Miss(r, n)
  /\ nameSeen' = [nameSeen EXCEPT ![r] = {nameOf[n]}]
  /\ nameWas' = [nameWas EXCEPT ![r] = Cached(n)]
  /\ UNCHANGED <<nameOf, nameChanges>>

\* The resolver answers with what the name stands for then.
LookupAnswers(r) ==
  /\ At(r, "lookup")
  /\ nameAsk' = [nameAsk EXCEPT ![r].at = "answered", ![r].ips = nameOf[nameAsk[r].name]]
  /\ UNCHANGED <<nameOf, nameCache, nameSeen, nameWas, nameChanges>>

\* An error, or the deadline: the request is denied.
LookupFails(r) ==
  /\ At(r, "lookup")
  /\ nameAsk' = [nameAsk EXCEPT ![r].at = "failed"]
  /\ UNCHANGED <<nameOf, nameCache, nameSeen, nameWas, nameChanges>>

\* Mutant: nothing bounds the cache.
StoreBeyondCap(r) ==
  /\ At(r, "answered") /\ nameAsk[r].ips # {}
  /\ nameCache' = {e \in nameCache : e.name # nameAsk[r].name}
                  \cup {[name |-> nameAsk[r].name, ips |-> nameAsk[r].ips]}
  /\ nameAsk' = [nameAsk EXCEPT ![r].at = "done"]
  /\ UNCHANGED <<nameOf, nameSeen, nameWas, nameChanges>>

\* A full cache is emptied, then the answer is inserted, over another's for the same name.
Store(r) ==
  /\ At(r, "answered") /\ nameAsk[r].ips # {}
  /\ nameCache' = (IF Cardinality(nameCache) >= NameCacheCap THEN {}
                   ELSE {e \in nameCache : e.name # nameAsk[r].name})
                  \cup {[name |-> nameAsk[r].name, ips |-> nameAsk[r].ips]}
  /\ nameAsk' = [nameAsk EXCEPT ![r].at = "done"]
  /\ UNCHANGED <<nameOf, nameSeen, nameWas, nameChanges>>

EmptyAnswer(r) ==
  /\ At(r, "answered") /\ nameAsk[r].ips = {}
  /\ nameAsk' = [nameAsk EXCEPT ![r].at = "failed"]
  /\ UNCHANGED <<nameOf, nameCache, nameSeen, nameWas, nameChanges>>

\* Another request of the same kind comes along.
Again(r) ==
  /\ nameAsk[r].at \in {"done", "failed"}
  /\ nameAsk' = [nameAsk EXCEPT ![r] = [at |-> "rest", name |-> NoAddress, ips |-> NoAddress]]
  /\ nameSeen' = [nameSeen EXCEPT ![r] = {}]
  /\ nameWas' = [nameWas EXCEPT ![r] = FALSE]
  /\ UNCHANGED <<nameOf, nameCache, nameChanges>>

NameMoves(n) ==
  /\ nameChanges < NameChanges
  /\ \E ips \in AddressSets \ {nameOf[n]} : nameOf' = [nameOf EXCEPT ![n] = ips]
  /\ nameChanges' = nameChanges + 1
  /\ nameSeen' = [r \in Lookups |->
       IF nameAsk[r].at \in {"lookup", "answered"} /\ nameAsk[r].name = n
       THEN nameSeen[r] \cup {nameOf'[n]} ELSE nameSeen[r]]
  /\ UNCHANGED <<nameCache, nameAsk, nameWas>>

NameNext ==
  \/ \E r \in Lookups :
       \/ \E n \in Names : Begin(r, n)
       \/ LookupAnswers(r) \/ LookupFails(r) \/ Store(r) \/ EmptyAnswer(r) \/ Again(r)
  \/ \E n \in Names : NameMoves(n)

NameSpec == NameInit /\ [][NameNext]_nameVars

-----------------------------------------------------------------------------
\* However many requests miss at once, the cache is bounded, has one entry a name and no entry
\* without an address.
NameCacheSound ==
  /\ Cardinality(nameCache) <= NameCacheCap
  /\ \A e, f \in nameCache : e.name = f.name => e = f
  /\ \A e \in nameCache : e.ips # {}

\* A request is decided on addresses its name had while the request was looked up, never on none
\* and never on those of another name, unless its name was cached before: a cached name keeps
\* its addresses however long ago they were true.
DecidedOnTrueAddresses ==
  \A r \in Lookups :
    At(r, "done") =>
      /\ nameAsk[r].ips # {}
      /\ nameWas[r] \/ nameAsk[r].ips \in nameSeen[r]

\* The addresses a decision rests on were the name's, in every interleaving of look-ups with one
\* another and with changes of the name (server/mod.rs: resolve_target_ips).
NamesAreTrue == NameCacheSound /\ DecidedOnTrueAddresses
=============================================================================
