--------------------------- MODULE InferenceProofs ---------------------------
(***************************************************************************)
(* Proofs about the parts of the inference library, for any values of      *)
(* their constants: InferenceKeys, InferenceRoute, InferenceConfig,        *)
(* InferenceRemote and Masker.                                             *)
(***************************************************************************)
EXTENDS InferenceLibrary, InferenceKeys, FiniteSetTheorems, SequenceTheorems, WellFoundedInduction, TLAPS

(***************************************************************************)
(* Bodies, and the values calls carry.                                     *)
(***************************************************************************)
Texts == GivenKeys \cup {"none"}
\* What a file may hold once it is written, and what the encryption of a request may give.
Whole == {b \in [KeyModels -> Texts] : Theirs(b)}
Partial == {b \in UNION {[S -> Texts] : S \in SUBSET KeyModels} : Theirs(b)}

Persisting == {"read", "open", "write", "verify", "rename", "clear", "force", "cache"}
CallType ==
  [at : {"apply", "done"} \cup Persisting, ask : KeyRequests, state : Nat, sets : Partial,
   deletes : SUBSET (KeyModels \cup {""}), merged : {Blank} \cup Whole, fd : Nat, tries : Nat,
   error : {"none", "item"}, refused : BOOLEAN,
   result : {"none", "invalid", "uninitialized", "ok", "item", "storage"}]

\* What a call holds on to is there: the state, the file and what it means to write.
Holds(c) ==
  /\ c.at \in Persisting => c.state \in 1..Len(keyStates)
  /\ c.at \in Persisting \ {"read"} => c.merged \in Whole
  /\ c.at \in Persisting \ {"read", "open"} => c.fd \in 1..Len(keyBodies)
  /\ c.at \in Persisting =>
       /\ c.ask.action = "set" => c.sets = EncryptItem(c.ask.items)
       /\ c.ask.action = "delete" => /\ c.sets = Blank
                                     /\ c.deletes = {c.ask.items[k].model : k \in DOMAIN c.ask.items}

KType ==
  /\ keyBodies \in Seq({Blank, Spoilt} \cup Whole)
  /\ keyNames \in [{"api", "tmp"} -> 0..Len(keyBodies)]
  /\ keyStates \in Seq(Whole)
  /\ keyLoader = <<>> \/ \E b \in Whole : keyLoader = <<b>>
  /\ keyCalls \in [KeyCallers -> {KeyIdle} \cup CallType]
  /\ keyInits \in Nat /\ keyCount \in Nat /\ keyOverlap \in BOOLEAN

Calls == \A w \in KeyCallers : keyCalls[w].at # "idle" => Holds(keyCalls[w])

(***************************************************************************)
(* What holds while operations follow one another: where the only one that *)
(* is under way stands.                                                    *)
(***************************************************************************)
Agrees ==
  keyStates = <<>> \/ Stored = keyStates[Len(keyStates)] \/ (keyLost /\ Stored = NoKeys)
Stands(c) ==
  LET now == keyStates[Len(keyStates)]
  IN /\ c.at \in Persisting => c.state = Len(keyStates)
     /\ c.at \in Persisting \ {"read"} => c.merged = Merged(c.sets, c.deletes, now)
     /\ c.at = "write" => keyNames["tmp"] = c.fd /\ keyBodies[c.fd] = Blank
     /\ c.at \in {"verify", "rename", "clear", "force"} => keyNames["tmp"] = c.fd /\ keyBodies[c.fd] = c.merged
     /\ c.at = "cache" => Stored = c.merged
     /\ c.at # "cache" => Agrees

Alone ==
  ~keyOverlap =>
    /\ keyLoader # <<>> => Busy = {} /\ keyLoader = <<Stored>>
    /\ \A v, w \in Busy : v = w
    /\ keyNames["api"] # 0 => keyNames["api"] # keyNames["tmp"]
    /\ Stored \in Whole
    /\ Busy = {} => Agrees
    /\ \A w \in Busy : Stands(keyCalls[w])

\* The first call, and what is left of it.
Took(c) ==
  ~keyOverlap /\ c.at = "done" /\ ~c.refused /\ c.result \in {"ok", "item"}
    => TookEffect(c.ask, Stored)
First ==
  /\ keyCount = 0 => \A w \in KeyCallers : keyCalls[w] = KeyIdle
  /\ keyCount = 1 => /\ \A v, w \in KeyCallers :
                          keyCalls[v].at # "idle" /\ keyCalls[w].at # "idle" => v = w
                     /\ \A w \in KeyCallers : Took(keyCalls[w])

KInv == KType /\ Calls /\ Alone /\ First

-----------------------------------------------------------------------------
(* Sequences and numbers.                                                  *)

LEMMA SeqSet ==
  ASSUME NEW S, NEW s \in Seq(S), NEW k \in 1..Len(s), NEW e \in S
  PROVE  /\ [s EXCEPT ![k] = e] \in Seq(S) /\ Len([s EXCEPT ![k] = e]) = Len(s)
         /\ [s EXCEPT ![k] = e][k] = e
         /\ \A j \in 1..Len(s) : j # k => [s EXCEPT ![k] = e][j] = s[j]
BY ExceptSeq

LEMMA SeqGrown ==
  ASSUME NEW S, NEW s \in Seq(S), NEW e \in S
  PROVE  /\ Append(s, e) \in Seq(S) /\ Len(Append(s, e)) = Len(s) + 1
         /\ Append(s, e)[Len(s) + 1] = e
         /\ \A j \in 1..Len(s) : Append(s, e)[j] = s[j]
         /\ Len(s) \in Nat
BY AppendProperties, LenProperties

\* A set of numbers that is not empty has a least member.
LEMMA LeastNumber ==
  ASSUME NEW T \in SUBSET Nat, T # {}
  PROVE  \E x \in T : \A y \in T : x <= y
<1>1. PICK x \in T : \A y \in T : ~(<<y, x>> \in OpToRel(<, Nat))
  BY NatLessThanWellFounded, WFMin
<1>2. \A y \in T : ~(y < x)
  BY <1>1 DEF OpToRel
<1> QED
  BY <1>2

\* ... and a greatest one, if they are bounded.
LEMMA GreatestNumber ==
  ASSUME NEW n \in Nat, NEW T \in SUBSET (1..n), T # {}
  PROVE  \E x \in T : \A y \in T : y <= x
<1> DEFINE U == {n - x : x \in T}
<1>1. U \in SUBSET Nat /\ U # {}
  <2>1. \A x \in T : n - x \in Nat
    OBVIOUS
  <2> QED
    BY <2>1
<1>2. PICK u \in U : \A y \in U : u <= y
  <2> HIDE DEF U
  <2> QED
    BY <1>1, LeastNumber
<1>3. PICK x \in T : u = n - x
  OBVIOUS
<1>4. ASSUME NEW y \in T
      PROVE  y <= x
  <2>1. n - y \in U
    OBVIOUS
  <2>2. n - x <= n - y
    BY <1>2, <1>3, <2>1
  <2> QED
    BY <2>2
<1> QED
  BY <1>4

-----------------------------------------------------------------------------
(* What encryption and merging give.                                       *)

LEMMA RequestFacts ==
  ASSUME NEW r \in KeyRequests
  PROVE  /\ r.action \in {"set", "delete"}
         /\ r.items \in Seq([model : KeyModels \cup {""}, key : GivenKeys])
         /\ DOMAIN r.items = 1..Len(r.items) /\ Len(r.items) \in Nat
         /\ \A k \in DOMAIN r.items : /\ r.items[k].key \in GivenKeys
                                      /\ r.items[k].model \in KeyModels \cup {""}
<1>1. r \in [action : {"set", "delete"}, items : Seq([model : KeyModels \cup {""}, key : GivenKeys])]
  BY KeyRequestAssumption
<1> DEFINE Item == [model : KeyModels \cup {""}, key : GivenKeys]
<1>2. r.items \in Seq(Item)
  BY <1>1
<1>3. DOMAIN r.items = 1..Len(r.items) /\ Len(r.items) \in Nat
      /\ \A k \in 1..Len(r.items) : r.items[k] \in Item
  <2> HIDE DEF Item
  <2> QED
    BY <1>2, LenProperties, ElementOfSeq
<1> QED
  BY <1>1, <1>2, <1>3

\* Two items of one model do not both count, and one of a good item's model does.
LEMMA OneCounts ==
  ASSUME NEW r \in KeyRequests, NEW k \in Good(r.items)
  PROVE  \E j \in DOMAIN r.items : Counts(r.items, j) /\ r.items[j].model = r.items[k].model
<1> DEFINE T == {j \in Good(r.items) : r.items[j].model = r.items[k].model}
<1>1. T \in SUBSET (1..Len(r.items)) /\ T # {} /\ Len(r.items) \in Nat
  BY RequestFacts DEF Good
<1>2. PICK j \in T : \A i \in T : i <= j
  <2> HIDE DEF T
  <2> QED
    BY <1>1, GreatestNumber
<1>3. Counts(r.items, j)
  BY <1>2 DEF Counts
<1> QED
  BY <1>2, <1>3 DEF Good

LEMMA CountsOnce ==
  ASSUME NEW r \in KeyRequests, NEW j \in DOMAIN r.items, NEW k \in DOMAIN r.items,
         Counts(r.items, j), Counts(r.items, k), r.items[j].model = r.items[k].model
  PROVE  j = k
<1>0. DOMAIN r.items = 1..Len(r.items) /\ Len(r.items) \in Nat
  BY RequestFacts
<1>1. j \in Nat /\ k \in Nat
  BY <1>0
<1>2. j <= k /\ k <= j
  BY DEF Counts
<1> QED
  BY <1>1, <1>2

\* Each model of a good item gets the key of the last of them.
LEMMA Encrypted ==
  ASSUME NEW r \in KeyRequests
  PROVE  /\ DOMAIN EncryptItem(r.items) = {r.items[k].model : k \in Good(r.items)}
         /\ \A k \in DOMAIN r.items : Counts(r.items, k) =>
              /\ r.items[k].model \in DOMAIN EncryptItem(r.items)
              /\ EncryptItem(r.items)[r.items[k].model] = r.items[k].key
<1>1. ASSUME NEW k \in DOMAIN r.items, Counts(r.items, k)
      PROVE  /\ r.items[k].model \in DOMAIN EncryptItem(r.items)
             /\ EncryptItem(r.items)[r.items[k].model] = r.items[k].key
  <2>1. k \in Good(r.items)
    BY <1>1 DEF Counts
  <2> DEFINE m == r.items[k].model
             j == CHOOSE i \in DOMAIN r.items : Counts(r.items, i) /\ r.items[i].model = m
  <2>2. j \in DOMAIN r.items /\ Counts(r.items, j) /\ r.items[j].model = m
    BY <1>1
  <2>3. j = k
    <3> HIDE DEF j
    <3> QED
      BY <1>1, <2>2, CountsOnce
  <2>4. m \in {r.items[i].model : i \in Good(r.items)}
    BY <2>1
  <2>5. EncryptItem(r.items)[m] = r.items[j].key
    BY <2>4 DEF EncryptItem
  <2> QED
    BY <2>3, <2>4, <2>5 DEF EncryptItem
<1> QED
  BY <1>1 DEF EncryptItem

LEMMA GoodModels ==
  ASSUME NEW r \in KeyRequests, NEW k \in Good(r.items)
  PROVE  r.items[k].model \in KeyModels
BY KeyAssumption DEF Good, Fails

LEMMA EncryptTyped ==
  ASSUME NEW r \in KeyRequests, r.action = "set"
  PROVE  EncryptItem(r.items) \in Partial
<1> DEFINE e == EncryptItem(r.items)
           D == {r.items[k].model : k \in Good(r.items)}
<1>1. D \in SUBSET KeyModels
  BY GoodModels
<1>2. ASSUME NEW m \in D
      PROVE  e[m] \in Texts \cap Asked(m)
  <2>1. PICK k \in Good(r.items) : m = r.items[k].model
    OBVIOUS
  <2>2. PICK j \in DOMAIN r.items : Counts(r.items, j) /\ r.items[j].model = m
    BY <2>1, OneCounts
  <2>3. e[m] = r.items[j].key
    BY <2>2, Encrypted
  <2>4. r.items[j].key \in GivenKeys
    BY <2>2 DEF GivenKeys
  <2> HIDE DEF e
  <2>5. e[m] \in Asked(m)
    BY <2>2, <2>3 DEF Asked
  <2> QED
    BY <2>3, <2>4, <2>5 DEF Texts
<1>3. DOMAIN e = D /\ e = [m \in D |-> e[m]]
  BY DEF EncryptItem
<1> HIDE DEF e, D
<1>4. e \in [D -> Texts]
  BY <1>2, <1>3
<1>5. Theirs(e)
  BY <1>2, <1>3 DEF Theirs
<1>6. e \in UNION {[S -> Texts] : S \in SUBSET KeyModels}
  BY <1>1, <1>4
<1>7. e \in Partial
  BY <1>5, <1>6 DEF Partial
<1> QED
  BY <1>7 DEF e

LEMMA BlankFacts ==
  /\ Blank \in Partial /\ Theirs(Blank) /\ Theirs(Spoilt) /\ NoKeys \in Whole
  /\ DOMAIN Blank = {} /\ Spoilt \notin Whole
  /\ Blank # Spoilt
<1>1. Blank \in [{} -> Texts] /\ DOMAIN Blank = {}
  BY DEF Blank
<1>2. DOMAIN Spoilt = {"spoilt"}
  BY DEF Spoilt
<1>3. Theirs(Blank) /\ Theirs(Spoilt)
  BY <1>1, <1>2, KeyRequestAssumption DEF Theirs
<1>4. {} \in SUBSET KeyModels
  OBVIOUS
<1>5. Blank \in Partial
  BY <1>1, <1>3, <1>4 DEF Partial
<1>6. NoKeys \in Whole
  BY DEF NoKeys, Whole, Texts, Theirs, Asked
<1>7. Spoilt \notin Whole
  BY <1>2, KeyRequestAssumption DEF Whole
<1>8. Blank # Spoilt
  BY <1>1, <1>2
<1> QED
  BY <1>1, <1>3, <1>5, <1>6, <1>7, <1>8

LEMMA MergedTyped ==
  ASSUME NEW sets \in Partial, NEW deletes, NEW now \in Whole
  PROVE  Merged(sets, deletes, now) \in Whole
<1> DEFINE b == Merged(sets, deletes, now)
<1>1. ASSUME NEW m \in KeyModels
      PROVE  b[m] \in Texts \cap Asked(m)
  <2>1. b[m] = IF m \in DOMAIN sets THEN sets[m] ELSE IF m \in deletes THEN "none" ELSE now[m]
    BY DEF Merged
  <2>2. m \in DOMAIN sets => sets[m] \in Texts \cap Asked(m)
    BY DEF Partial, Theirs
  <2>3. now[m] \in Texts \cap Asked(m)
    BY DEF Whole, Theirs
  <2>4. "none" \in Texts \cap Asked(m)
    BY DEF Texts, Asked
  <2> QED
    BY <2>1, <2>2, <2>3, <2>4
<1>2. DOMAIN b = KeyModels /\ b = [m \in KeyModels |-> b[m]]
  BY DEF Merged
<1> HIDE DEF b
<1>3. b \in [KeyModels -> Texts] /\ Theirs(b)
  BY <1>1, <1>2 DEF Theirs
<1>4. b \in Whole
  BY <1>3 DEF Whole
<1> QED
  BY <1>4 DEF b

\* Once it is merged into any body, a request has taken effect.
LEMMA MergedTook ==
  ASSUME NEW r \in KeyRequests, NEW sets, NEW deletes, NEW now,
         r.action = "set" => sets = EncryptItem(r.items),
         r.action = "delete" => sets = Blank /\ deletes = {r.items[k].model : k \in DOMAIN r.items}
  PROVE  TookEffect(r, Merged(sets, deletes, now))
<1> SUFFICES ASSUME NEW k \in DOMAIN r.items, Counts(r.items, k)
             PROVE  Merged(sets, deletes, now)[r.items[k].model]
                      = (IF r.action = "set" THEN r.items[k].key ELSE "none")
  BY DEF TookEffect
<1>1. r.items[k].model \in KeyModels
  BY GoodModels DEF Counts
<1>2. CASE r.action = "set"
  BY <1>1, <1>2, Encrypted DEF Merged
<1>3. CASE r.action = "delete"
  BY <1>1, <1>3, BlankFacts DEF Merged
<1> QED
  BY <1>2, <1>3, RequestFacts

\* A request without a good item has taken effect in any body.
LEMMA NothingToTake ==
  ASSUME NEW r \in KeyRequests, NEW b,
         r.items = <<>> \/ (r.action = "set" /\ EncryptItem(r.items) = Blank)
  PROVE  TookEffect(r, b)
<1>1. CASE r.items = <<>>
  <2>1. DOMAIN r.items = {}
    BY <1>1
  <2> QED
    BY <2>1 DEF TookEffect
<1>2. CASE EncryptItem(r.items) = Blank
  BY <1>2, Encrypted, BlankFacts DEF TookEffect
<1> QED
  BY <1>1, <1>2

-----------------------------------------------------------------------------
(* A call that is under way takes a step.                                  *)

LEMMA CallFacts ==
  ASSUME KInv, NEW w \in KeyCallers, keyCalls[w].at # "idle"
  PROVE  keyCalls[w] \in CallType /\ Holds(keyCalls[w])
<1>1. keyCalls[w] \in {KeyIdle} \cup CallType
  BY DEF KInv, KType
<1>2. KeyIdle.at = "idle"
  BY DEF KeyIdle
<1> QED
  BY <1>1, <1>2 DEF KInv, Calls

LEMMA BusyFacts ==
  ASSUME KInv, NEW w \in Busy, ~keyOverlap
  PROVE  Busy = {w} /\ keyLoader = <<>> /\ Stands(keyCalls[w])
BY DEF KInv, Alone

LEMMA CallMoves ==
  ASSUME KInv, NEW w \in Busy, NEW c \in CallType, Step(w, c),
         UNCHANGED <<keyLoader, keyInits, keyCount, keyOverlap>>,
         keyBodies' \in Seq({Blank, Spoilt} \cup Whole), Len(keyBodies) <= Len(keyBodies'),
         keyNames' \in [{"api", "tmp"} -> 0..Len(keyBodies')],
         keyStates' \in Seq(Whole), Len(keyStates') = Len(keyStates),
         Holds(c)', Took(c)',
         ~keyOverlap =>
           /\ Stored' \in Whole
           /\ keyNames'["api"] # 0 => keyNames'["api"] # keyNames'["tmp"]
           /\ c.at = "done" => Agrees'
           /\ c.at # "done" => Stands(c)'
  PROVE  KInv'
<1>1. w \in KeyCallers /\ keyCalls[w].at \notin {"idle", "done"}
  BY DEF Busy
<1>2. /\ keyCalls' \in [KeyCallers -> {KeyIdle} \cup CallType] /\ keyCalls'[w] = c
      /\ \A v \in KeyCallers \ {w} : keyCalls'[v] = keyCalls[v]
  BY <1>1 DEF Step, KInv, KType
<1>3. c.at # "idle"
  BY DEF CallType, Persisting
<1>4. KType'
  BY <1>2 DEF KInv, KType
<1>5. Calls'
  <2> SUFFICES ASSUME NEW v \in KeyCallers, keyCalls'[v].at # "idle"
               PROVE  Holds(keyCalls[v])'
    BY DEF Calls
  <2>1. CASE v = w
    BY <1>2, <2>1 DEF Holds
  <2>2. CASE v # w
    <3>1. keyCalls'[v] = keyCalls[v] /\ Holds(keyCalls[v])
      BY <1>2, <2>2 DEF KInv, Calls
    <3>2. Len(keyBodies) \in Nat /\ Len(keyBodies') \in Nat
      BY LenProperties DEF KInv, KType
    <3> QED
      BY <3>1, <3>2 DEF Holds
  <2> QED
    BY <2>1, <2>2
<1>6. Alone'
  <2> SUFFICES ASSUME ~keyOverlap PROVE Alone'
    BY DEF Alone
  <2>1. Busy = {w} /\ keyLoader = <<>>
    BY BusyFacts
  <2>2. Busy' = IF c.at = "done" THEN {} ELSE {w}
    BY <1>1, <1>2, <1>3, <2>1 DEF Busy
  <2>3. keyCalls'[w] = c
    BY <1>2
  <2>4. c.at # "done" => Stands(keyCalls[w])'
    BY <2>3 DEF Stands
  <2> QED
    BY <2>1, <2>2, <2>4 DEF Alone
<1>7. First'
  <2>1. keyCount # 0
    BY <1>1 DEF KInv, First, KeyIdle
  <2>2. ASSUME keyCount = 1
        PROVE  /\ \A v, u \in KeyCallers :
                    keyCalls'[v].at # "idle" /\ keyCalls'[u].at # "idle" => v = u
               /\ \A v \in KeyCallers : Took(keyCalls[v])'
    <3>1. \A v \in KeyCallers \ {w} : keyCalls'[v].at = "idle"
      BY <1>1, <1>2, <2>2 DEF KInv, First
    <3>2. \A v \in KeyCallers \ {w} : Took(keyCalls[v])'
      BY <3>1 DEF Took
    <3>3. Took(keyCalls[w])'
      BY <1>2 DEF Took
    <3> QED
      BY <3>1, <3>2, <3>3
  <2> QED
    BY <2>1, <2>2 DEF First
<1> QED
  BY <1>4, <1>5, <1>6, <1>7 DEF KInv

\* A call that only goes on, or ends, keeps what it holds.
LEMMA CallWent ==
  ASSUME NEW c \in CallType, NEW at \in {"apply", "done"} \cup Persisting
  PROVE  /\ [c EXCEPT !.at = at] \in CallType /\ [c EXCEPT !.at = at].at = at
         /\ [c EXCEPT !.at = at].ask = c.ask /\ [c EXCEPT !.at = at].state = c.state
         /\ [c EXCEPT !.at = at].sets = c.sets /\ [c EXCEPT !.at = at].deletes = c.deletes
         /\ [c EXCEPT !.at = at].merged = c.merged /\ [c EXCEPT !.at = at].fd = c.fd
         /\ [c EXCEPT !.at = at].error = c.error
BY DEF CallType

LEMMA NamesTyped ==
  ASSUME KInv
  PROVE  /\ keyBodies \in Seq({Blank, Spoilt} \cup Whole) /\ Len(keyBodies) \in Nat
         /\ keyNames["api"] \in 0..Len(keyBodies) /\ keyNames["tmp"] \in 0..Len(keyBodies)
         /\ DOMAIN keyNames = {"api", "tmp"}
         /\ keyStates \in Seq(Whole) /\ Len(keyStates) \in Nat
         /\ keyStates # <<>> => Len(keyStates) > 0 /\ keyStates[Len(keyStates)] \in Whole
<1>1. keyBodies \in Seq({Blank, Spoilt} \cup Whole) /\ keyStates \in Seq(Whole)
  BY DEF KInv, KType
<1>2. Len(keyBodies) \in Nat /\ Len(keyStates) \in Nat
  BY <1>1, LenProperties
<1>3. keyStates # <<>> => Len(keyStates) > 0 /\ keyStates[Len(keyStates)] \in Whole
  <2>1. keyStates # <<>> => Len(keyStates) # 0
    BY <1>1, EmptySeq
  <2> QED
    BY <1>1, <1>2, <2>1, ElementOfSeq
<1> QED
  BY <1>1, <1>2, <1>3 DEF KInv, KType

LEMMA LastThere ==
  ASSUME KInv, keyStates # <<>>
  PROVE  Len(keyStates) \in 1..Len(keyStates)
BY NamesTyped

LEMMA AgreesStays ==
  ASSUME Agrees, Stored' = Stored, UNCHANGED <<keyStates, keyLost>>
  PROVE  Agrees'
BY DEF Agrees

\* The store refuses: nothing of the file's name has changed yet.
LEMMA StorageStep ==
  ASSUME KInv, NEW w \in Busy, Storage(w), keyCalls[w].at \in {"open", "write", "verify", "rename", "force"},
         UNCHANGED <<keyBodies, keyStates, keyLoader, keyInits, keyCount, keyOverlap, keyLost>>,
         keyNames' = keyNames \/ keyNames' = [keyNames EXCEPT !["tmp"] = 0]
  PROVE  KInv'
<1>0. w \in KeyCallers /\ keyCalls[w].at \notin {"idle", "done"}
  BY DEF Busy
<1>1. keyCalls[w] \in CallType /\ Holds(keyCalls[w])
  BY <1>0, CallFacts
<1>2. PICK result \in {"storage", "item"} :
        Step(w, [keyCalls[w] EXCEPT !.at = "done", !.refused = TRUE, !.result = result])
  BY <1>1 DEF Storage, CallType
<1>3. PICK c : c = [keyCalls[w] EXCEPT !.at = "done", !.refused = TRUE, !.result = result]
  OBVIOUS
<1>8. c \in CallType /\ c.at = "done" /\ c.refused
  BY <1>1, <1>3 DEF CallType
<1>4. Step(w, c)
  BY <1>2, <1>3
<1>5. keyNames' \in [{"api", "tmp"} -> 0..Len(keyBodies)] /\ keyNames'["api"] = keyNames["api"]
      /\ keyNames'["tmp"] \in {keyNames["tmp"], 0}
  BY NamesTyped DEF KInv, KType
<1>6. Holds(c)' /\ Took(c)'
  BY <1>8 DEF Holds, Took, Persisting
<1>7. ~keyOverlap =>
        /\ Stored' \in Whole
        /\ keyNames'["api"] # 0 => keyNames'["api"] # keyNames'["tmp"]
        /\ Agrees'
  <2> SUFFICES ASSUME ~keyOverlap
               PROVE  /\ Stored' \in Whole
                      /\ keyNames'["api"] # 0 => keyNames'["api"] # keyNames'["tmp"]
                      /\ Agrees'
    OBVIOUS
  <2>1. Stands(keyCalls[w]) /\ Stored' = Stored
    BY <1>5, BusyFacts DEF Stored
  <2> QED
    BY <1>5, <2>1 DEF Stands, KInv, Alone, Agrees
<1>9. /\ keyBodies' \in Seq({Blank, Spoilt} \cup Whole) /\ Len(keyBodies) <= Len(keyBodies')
      /\ keyNames' \in [{"api", "tmp"} -> 0..Len(keyBodies')]
      /\ keyStates' \in Seq(Whole) /\ Len(keyStates') = Len(keyStates)
  BY <1>5, NamesTyped
<1> QED
  BY <1>4, <1>6, <1>7, <1>8, <1>9, CallMoves

LEMMA ReadStep ==
  ASSUME KInv, NEW w \in Busy, ReadCurrent(w)
  PROVE  KInv'
<1>0. w \in KeyCallers /\ keyCalls[w].at = "read"
  BY DEF Busy, ReadCurrent
<1>1. keyCalls[w] \in CallType /\ Holds(keyCalls[w])
  BY <1>0, CallFacts
<1>2. keyCalls[w].state \in 1..Len(keyStates) /\ keyCalls[w].sets \in Partial
  BY <1>0, <1>1 DEF Holds, Persisting, CallType
<1>3. PICK merged : merged = Merged(keyCalls[w].sets, keyCalls[w].deletes, keyStates[keyCalls[w].state])
  OBVIOUS
<1>4. merged \in Whole
  <2>1. keyStates[keyCalls[w].state] \in Whole
    BY <1>2, NamesTyped, ElementOfSeq
  <2> QED
    BY <1>2, <1>3, <2>1, MergedTyped
<1>5. PICK c : c = [keyCalls[w] EXCEPT !.at = "open", !.merged = merged]
  OBVIOUS
<1>6. /\ c \in CallType /\ c.at = "open" /\ c.merged = merged
      /\ c.ask = keyCalls[w].ask /\ c.state = keyCalls[w].state
      /\ c.sets = keyCalls[w].sets /\ c.deletes = keyCalls[w].deletes
  BY <1>1, <1>4, <1>5 DEF CallType, Persisting
<1>7. Step(w, c) /\ UNCHANGED <<keyFiles, keyStates, keyLoader, keyInits, keyCount, keyOverlap, keyLost>>
  BY <1>3, <1>5 DEF ReadCurrent
<1>8. Holds(c)' /\ Took(c)'
  BY <1>0, <1>1, <1>4, <1>6, <1>7 DEF Holds, Took, Persisting
<1>9. ~keyOverlap =>
        /\ Stored' \in Whole
        /\ keyNames'["api"] # 0 => keyNames'["api"] # keyNames'["tmp"]
        /\ Stands(c)'
  <2> SUFFICES ASSUME ~keyOverlap
               PROVE  /\ Stored' \in Whole
                      /\ keyNames'["api"] # 0 => keyNames'["api"] # keyNames'["tmp"]
                      /\ Stands(c)'
    OBVIOUS
  <2>1. Stands(keyCalls[w]) /\ Stored' = Stored
    BY <1>7, BusyFacts DEF Stored, keyFiles
  <2>2. c.state = Len(keyStates) /\ merged = Merged(c.sets, c.deletes, keyStates[Len(keyStates)])
    BY <1>0, <1>3, <1>6, <2>1 DEF Stands, Persisting
  <2>3. Stands(c)'
    <3>1. Agrees'
      BY <1>0, <1>7, <2>1, AgreesStays DEF Stands
    <3> QED
      BY <1>0, <1>6, <1>7, <2>1, <2>2, <3>1 DEF Stands
  <2> QED
    BY <1>7, <2>1, <2>3 DEF KInv, Alone, keyFiles
<1> QED
  BY <1>6, <1>7, <1>8, <1>9, NamesTyped, CallMoves DEF KInv, KType, keyFiles

LEMMA OpenStep ==
  ASSUME KInv, NEW w \in Busy, OpenTmp(w), ~Storage(w)
  PROVE  KInv'
<1>0. w \in KeyCallers /\ keyCalls[w].at = "open"
  BY DEF Busy, OpenTmp
<1>1. keyCalls[w] \in CallType /\ Holds(keyCalls[w])
  BY <1>0, CallFacts
<1>2. PICK fd : /\ fd = (IF keyNames["tmp"] = 0 THEN Len(keyBodies) + 1 ELSE keyNames["tmp"])
                /\ keyBodies' = (IF fd > Len(keyBodies) THEN Append(keyBodies, Blank)
                                 ELSE [keyBodies EXCEPT ![fd] = Blank])
                /\ keyNames' = [keyNames EXCEPT !["tmp"] = fd]
                /\ Step(w, [keyCalls[w] EXCEPT !.at = "write", !.fd = fd])
  BY DEF OpenTmp
<1>3. UNCHANGED <<keyStates, keyLoader, keyInits, keyCount, keyOverlap, keyLost>>
  BY DEF OpenTmp
<1>4. /\ keyBodies' \in Seq({Blank, Spoilt} \cup Whole)
      /\ Len(keyBodies') \in Nat /\ Len(keyBodies) <= Len(keyBodies')
      /\ fd \in 1..Len(keyBodies') /\ keyBodies'[fd] = Blank
      /\ \A j \in 1..Len(keyBodies) : j # fd => keyBodies'[j] = keyBodies[j]
  <2>1. fd \in Nat /\ fd > 0
    BY <1>2, NamesTyped
  <2>2. CASE fd > Len(keyBodies)
    <3>1. keyBodies' = Append(keyBodies, Blank) /\ fd = Len(keyBodies) + 1
      BY <1>2, <2>2, NamesTyped
    <3> QED
      BY <3>1, NamesTyped, SeqGrown
  <2>3. CASE ~(fd > Len(keyBodies))
    <3>1. fd \in 1..Len(keyBodies) /\ keyBodies' = [keyBodies EXCEPT ![fd] = Blank]
      BY <1>2, <2>1, <2>3, NamesTyped
    <3> QED
      BY <3>1, NamesTyped, SeqSet
  <2> QED
    BY <2>2, <2>3
<1>5. /\ keyNames' \in [{"api", "tmp"} -> 0..Len(keyBodies')]
      /\ keyNames'["tmp"] = fd /\ keyNames'["api"] = keyNames["api"]
  BY <1>2, <1>4, NamesTyped DEF KInv, KType
<1>6. PICK c : c = [keyCalls[w] EXCEPT !.at = "write", !.fd = fd]
  OBVIOUS
<1>7. /\ c \in CallType /\ c.at = "write" /\ c.fd = fd
      /\ c.ask = keyCalls[w].ask /\ c.state = keyCalls[w].state
      /\ c.sets = keyCalls[w].sets /\ c.deletes = keyCalls[w].deletes
      /\ c.merged = keyCalls[w].merged
  <2>1. fd \in Nat
    BY <1>4
  <2> QED
    BY <1>1, <1>6, <2>1 DEF CallType, Persisting
<1>8. Holds(c)' /\ Took(c)'
  BY <1>0, <1>1, <1>3, <1>4, <1>7 DEF Holds, Took, Persisting
<1>9. ~keyOverlap =>
        /\ Stored' \in Whole
        /\ keyNames'["api"] # 0 => keyNames'["api"] # keyNames'["tmp"]
        /\ Stands(c)'
  <2> SUFFICES ASSUME ~keyOverlap
               PROVE  /\ Stored' \in Whole
                      /\ keyNames'["api"] # 0 => keyNames'["api"] # keyNames'["tmp"]
                      /\ Stands(c)'
    OBVIOUS
  <2>1. Stands(keyCalls[w])
    BY BusyFacts
  <2>2. keyNames["api"] # 0 => keyNames["api"] # fd
    BY <1>2, NamesTyped DEF KInv, Alone
  <2>3. Stored' = Stored
    BY <1>4, <1>5, <2>2, NamesTyped DEF Stored
  <2>4. Stands(c)'
    <3>1. Agrees'
      BY <1>0, <1>3, <2>1, <2>3, AgreesStays DEF Stands
    <3> QED
      BY <1>0, <1>3, <1>4, <1>5, <1>7, <2>1, <3>1 DEF Stands, Persisting
  <2> QED
    BY <1>5, <2>2, <2>3, <2>4 DEF KInv, Alone
<1>10. Step(w, c)
  BY <1>2, <1>6
<1>11. keyStates' \in Seq(Whole) /\ Len(keyStates') = Len(keyStates)
  BY <1>3, NamesTyped
<1> QED
  BY <1>3, <1>4, <1>5, <1>7, <1>8, <1>9, <1>10, <1>11, CallMoves

LEMMA OpenFails ==
  ASSUME KInv, NEW w \in Busy, OpenTmp(w), Storage(w)
  PROVE  KInv'
<1>1. keyCalls[w].at = "open" /\ UNCHANGED <<keyStates, keyLoader, keyInits, keyCount, keyOverlap, keyLost>>
  BY DEF OpenTmp
<1>2. UNCHANGED keyFiles
  <2>1. SUFFICES ASSUME ~UNCHANGED keyFiles PROVE FALSE
    OBVIOUS
  <2>2. PICK fd : Step(w, [keyCalls[w] EXCEPT !.at = "write", !.fd = fd])
    BY <2>1 DEF OpenTmp
  <2>3. w \in KeyCallers /\ keyCalls[w] \in CallType
    BY <1>1, CallFacts DEF Busy
  <2>4. keyCalls'[w].at = "write"
    BY <2>2, <2>3 DEF Step, KInv, KType, CallType
  <2>5. keyCalls'[w].at = "done"
    BY <2>3 DEF Storage, Step, KInv, KType, CallType
  <2> QED
    BY <2>4, <2>5
<1> QED
  BY <1>1, <1>2, StorageStep DEF keyFiles

LEMMA FillStep ==
  ASSUME KInv, NEW w \in Busy, FillTmp(w)
  PROVE  KInv'
<1>0. /\ w \in KeyCallers /\ keyCalls[w].at = "write"
      /\ UNCHANGED <<keyNames, keyStates, keyLoader, keyInits, keyCount, keyOverlap, keyLost>>
  BY DEF Busy, FillTmp
<1>1. keyCalls[w] \in CallType /\ Holds(keyCalls[w])
  BY <1>0, CallFacts
<1>2. CASE Storage(w) /\ UNCHANGED keyBodies
  BY <1>0, <1>2, StorageStep
<1>3. ASSUME NEW x \in {keyCalls[w].merged}
                         \cup (IF keyBodies[keyCalls[w].fd] = Blank THEN {} ELSE {Spoilt}),
             keyBodies' = [keyBodies EXCEPT ![keyCalls[w].fd] = x], Goes(w, "verify")
      PROVE  KInv'
  <2>1. keyCalls[w].fd \in 1..Len(keyBodies) /\ keyCalls[w].merged \in Whole
    BY <1>0, <1>1 DEF Holds, Persisting
  <2>2. x \in {Blank, Spoilt} \cup Whole
    BY <1>3, <2>1
  <2>3. /\ keyBodies' \in Seq({Blank, Spoilt} \cup Whole) /\ Len(keyBodies') = Len(keyBodies)
        /\ keyBodies'[keyCalls[w].fd] = x
        /\ \A j \in 1..Len(keyBodies) : j # keyCalls[w].fd => keyBodies'[j] = keyBodies[j]
    BY <1>3, <2>1, <2>2, NamesTyped, SeqSet
  <2>4. PICK c : c = [keyCalls[w] EXCEPT !.at = "verify"]
    OBVIOUS
  <2>5. /\ c \in CallType /\ c.at = "verify" /\ c.fd = keyCalls[w].fd
        /\ c.ask = keyCalls[w].ask /\ c.state = keyCalls[w].state
        /\ c.sets = keyCalls[w].sets /\ c.deletes = keyCalls[w].deletes
        /\ c.merged = keyCalls[w].merged
    BY <1>1, <2>4, CallWent DEF Persisting
  <2>6. Holds(c)' /\ Took(c)'
    BY <1>0, <1>1, <2>3, <2>5 DEF Holds, Took, Persisting
  <2>7. ~keyOverlap =>
          /\ Stored' \in Whole
          /\ keyNames'["api"] # 0 => keyNames'["api"] # keyNames'["tmp"]
          /\ Stands(c)'
    <3> SUFFICES ASSUME ~keyOverlap
                 PROVE  /\ Stored' \in Whole
                        /\ keyNames'["api"] # 0 => keyNames'["api"] # keyNames'["tmp"]
                        /\ Stands(c)'
      OBVIOUS
    <3>1. Stands(keyCalls[w])
      BY BusyFacts
    <3>2. keyNames["tmp"] = keyCalls[w].fd /\ x = keyCalls[w].merged
      BY <1>0, <1>3, <3>1 DEF Stands
    <3>3. keyNames["api"] # 0 => keyNames["api"] # keyCalls[w].fd
      BY <3>2 DEF KInv, Alone
    <3>4. Stored' = Stored
      BY <1>0, <2>3, <3>3, NamesTyped DEF Stored
    <3>5. Stands(c)'
      <4>1. Agrees'
        BY <1>0, <3>1, <3>4, AgreesStays DEF Stands
      <4> QED
        BY <1>0, <2>3, <2>5, <3>1, <3>2, <4>1 DEF Stands, Persisting
    <3> QED
      BY <1>0, <3>4, <3>5 DEF KInv, Alone
  <2>8. Step(w, c)
    BY <1>3, <2>4 DEF Goes
  <2>9. /\ keyStates' \in Seq(Whole) /\ Len(keyStates') = Len(keyStates)
        /\ Len(keyBodies) <= Len(keyBodies')
        /\ keyNames' \in [{"api", "tmp"} -> 0..Len(keyBodies')]
    BY <1>0, <2>3, NamesTyped DEF KInv, KType
  <2> QED
    BY <1>0, <2>3, <2>5, <2>6, <2>7, <2>8, <2>9, CallMoves
<1> QED
  BY <1>2, <1>3 DEF FillTmp

\* The call goes on, or is told to, with the bodies as they are.
LEMMA NamingStep ==
  ASSUME KInv, NEW w \in Busy, NEW at \in Persisting \ {"read", "open", "write"}, NEW tries \in Nat,
         Step(w, [keyCalls[w] EXCEPT !.tries = tries, !.at = at]),
         keyCalls[w].at \in {"verify", "rename", "clear", "force"},
         UNCHANGED <<keyBodies, keyStates, keyLoader, keyInits, keyCount, keyOverlap>>,
         \/ UNCHANGED <<keyNames, keyLost>> /\ at # "cache"
         \/ Renamed /\ at = "cache"
         \/ keyNames' = [keyNames EXCEPT !["api"] = 0] /\ keyLost' = TRUE /\ at = "force"
  PROVE  KInv'
<1>0. w \in KeyCallers
  BY DEF Busy
<1>1. keyCalls[w] \in CallType /\ Holds(keyCalls[w])
  BY CallFacts, <1>0 DEF Persisting
<1>2. PICK c : c = [keyCalls[w] EXCEPT !.tries = tries, !.at = at]
  OBVIOUS
<1>3. /\ c \in CallType /\ c.at = at /\ c.fd = keyCalls[w].fd
      /\ c.ask = keyCalls[w].ask /\ c.state = keyCalls[w].state
      /\ c.sets = keyCalls[w].sets /\ c.deletes = keyCalls[w].deletes
      /\ c.merged = keyCalls[w].merged
  BY <1>1, <1>2 DEF CallType, Persisting
<1>4. Holds(c)' /\ Took(c)'
  BY <1>1, <1>3 DEF Holds, Took, Persisting
<1>5. keyNames' \in [{"api", "tmp"} -> 0..Len(keyBodies')]
  BY NamesTyped DEF KInv, KType, Renamed
<1>6. ~keyOverlap =>
        /\ Stored' \in Whole
        /\ keyNames'["api"] # 0 => keyNames'["api"] # keyNames'["tmp"]
        /\ Stands(c)'
  <2> SUFFICES ASSUME ~keyOverlap
               PROVE  /\ Stored' \in Whole
                      /\ keyNames'["api"] # 0 => keyNames'["api"] # keyNames'["tmp"]
                      /\ Stands(c)'
    OBVIOUS
  <2>1. Stands(keyCalls[w])
    BY BusyFacts
  <2>2. CASE UNCHANGED <<keyNames, keyLost>> /\ at # "cache"
    <3>1. Stored' = Stored
      BY <2>2 DEF Stored
    <3>2. Agrees'
      BY <2>1, <2>2, <3>1 DEF Stands, Agrees
    <3>3. Stands(c)'
      BY <1>3, <2>1, <2>2, <3>2 DEF Stands, Persisting
    <3> QED
      BY <2>2, <3>1, <3>3 DEF KInv, Alone
  <2>3. CASE Renamed /\ at = "cache"
    <3>1. keyNames["tmp"] = c.fd /\ keyBodies[c.fd] = c.merged /\ c.fd # 0 /\ c.merged \in Whole
      BY <1>1, <1>3, <2>1, NamesTyped DEF Stands, Holds, Persisting
    <3>2. Stored' = c.merged /\ keyNames'["api"] = c.fd /\ keyNames'["tmp"] = 0
      BY <2>3, <3>1 DEF Stored, Renamed
    <3>3. Stands(c)'
      BY <1>3, <2>1, <2>3, <3>2 DEF Stands, Persisting
    <3> QED
      BY <3>1, <3>2, <3>3
  <2>4. CASE keyNames' = [keyNames EXCEPT !["api"] = 0] /\ keyLost' = TRUE /\ at = "force"
    <3>1. keyNames'["api"] = 0 /\ keyNames'["tmp"] = keyNames["tmp"]
      BY <2>4 DEF KInv, KType
    <3>2. Stored' = NoKeys
      BY <3>1 DEF Stored
    <3>3. Agrees'
      BY <2>4, <3>2 DEF Agrees
    <3>4. Stands(c)'
      BY <1>3, <2>1, <2>4, <3>1, <3>3 DEF Stands, Persisting
    <3>5. NoKeys \in Whole
      BY BlankFacts
    <3> QED
      BY <3>1, <3>2, <3>4, <3>5
  <2> QED
    BY <2>2, <2>3, <2>4
<1>7. Step(w, c)
  BY <1>2
<1>8. /\ keyBodies' \in Seq({Blank, Spoilt} \cup Whole) /\ Len(keyBodies) <= Len(keyBodies')
      /\ keyStates' \in Seq(Whole) /\ Len(keyStates') = Len(keyStates)
  BY NamesTyped
<1>9. c.at # "done"
  BY <1>3 DEF Persisting
<1> QED
  BY <1>3, <1>4, <1>5, <1>6, <1>7, <1>8, <1>9, CallMoves

\* It goes on without another attempt.
LEMMA GoesOn ==
  ASSUME KInv, NEW w \in Busy, NEW at \in Persisting, Goes(w, at),
         keyCalls[w].at \in {"verify", "rename", "clear", "force"}
  PROVE  \E n \in Nat : Step(w, [keyCalls[w] EXCEPT !.tries = n, !.at = at])
<1>1. w \in KeyCallers
  BY DEF Busy
<1>2. keyCalls[w] \in CallType
  BY CallFacts, <1>1
<1>3. PICK n : n = keyCalls[w].tries
  OBVIOUS
<1>4. n \in Nat
  BY <1>2, <1>3 DEF CallType
<1>5. [keyCalls[w] EXCEPT !.tries = n, !.at = at] = [keyCalls[w] EXCEPT !.at = at]
  BY <1>2, <1>3 DEF CallType
<1> QED
  BY <1>4, <1>5 DEF Goes

LEMMA NamingSteps ==
  ASSUME KInv, NEW w \in Busy,
         VerifyTmp(w) \/ RenameTmp(w) \/ RenameFails(w) \/ ClearStore(w) \/ ForceRename(w)
  PROVE  KInv'
<1>1. /\ UNCHANGED <<keyBodies, keyStates, keyLoader, keyInits, keyCount, keyOverlap>>
      /\ keyCalls[w].at \in {"verify", "rename", "clear", "force"}
  BY DEF VerifyTmp, RenameTmp, RenameFails, ClearStore, ForceRename, keyFiles
<1>2. CASE /\ Storage(w) /\ keyCalls[w].at \in {"verify", "force"} /\ UNCHANGED keyLost
           /\ keyNames' = keyNames \/ keyNames' = [keyNames EXCEPT !["tmp"] = 0]
  BY <1>1, <1>2, StorageStep
<1>3. CASE UNCHANGED <<keyNames, keyLost>> /\ Goes(w, "rename")
  <2>1. PICK n \in Nat : Step(w, [keyCalls[w] EXCEPT !.tries = n, !.at = "rename"])
    BY <1>1, <1>3, GoesOn DEF Persisting
  <2> QED
    BY <1>1, <1>3, <2>1, NamingStep DEF Persisting
<1>4. CASE Renamed /\ Goes(w, "cache")
  <2>1. PICK n \in Nat : Step(w, [keyCalls[w] EXCEPT !.tries = n, !.at = "cache"])
    BY <1>1, <1>4, GoesOn DEF Persisting
  <2> QED
    BY <1>1, <1>4, <2>1, NamingStep DEF Persisting
<1>5. CASE ClearStore(w)
  <2>1. PICK n \in Nat : Step(w, [keyCalls[w] EXCEPT !.tries = n, !.at = "force"])
    BY <1>1, <1>5, GoesOn DEF Persisting, ClearStore
  <2>2. \/ keyNames' = [keyNames EXCEPT !["api"] = 0] /\ keyLost' = TRUE
        \/ UNCHANGED <<keyNames, keyLost>>
    BY <1>5 DEF ClearStore
  <2> QED
    BY <1>1, <2>1, <2>2, NamingStep DEF Persisting
<1>6. CASE RenameFails(w)
  <2>1. w \in KeyCallers
    BY DEF Busy
  <2>2. keyCalls[w].tries \in Nat
    BY <1>1, <2>1, CallFacts DEF CallType
  <2>3. PICK n \in Nat : n = keyCalls[w].tries + 1
    BY <2>2
  <2>4. PICK at \in {"rename", "clear"} : Step(w, [keyCalls[w] EXCEPT !.tries = n, !.at = at])
    BY <1>6, <2>3 DEF RenameFails
  <2>5. UNCHANGED <<keyNames, keyLost>>
    BY <1>6 DEF RenameFails, keyFiles
  <2> QED
    BY <1>1, <2>4, <2>5, NamingStep DEF Persisting
<1> QED
  BY <1>2, <1>3, <1>4, <1>5, <1>6 DEF VerifyTmp, RenameTmp, ForceRename, RemoveTmp

LEMMA CacheStep ==
  ASSUME KInv, NEW w \in Busy, UpdateCache(w)
  PROVE  KInv'
<1>0. /\ w \in KeyCallers /\ keyCalls[w].at = "cache"
      /\ UNCHANGED <<keyFiles, keyLoader, keyInits, keyCount, keyOverlap, keyLost>>
  BY DEF Busy, UpdateCache
<1>1. keyCalls[w] \in CallType /\ Holds(keyCalls[w])
  BY CallFacts, <1>0
<1>2. PICK result \in {"ok", "item"} :
        Step(w, [keyCalls[w] EXCEPT !.at = "done", !.result = result])
  BY <1>1 DEF UpdateCache, Returned, CallType
<1>3. PICK c : c = [keyCalls[w] EXCEPT !.at = "done", !.result = result]
  OBVIOUS
<1>4. c \in CallType /\ c.at = "done" /\ c.ask = keyCalls[w].ask
  BY <1>1, <1>3 DEF CallType
<1>5. PICK now : now = Merged(keyCalls[w].sets, keyCalls[w].deletes, keyStates[keyCalls[w].state])
  OBVIOUS
<1>6. keyCalls[w].state \in 1..Len(keyStates) /\ keyCalls[w].sets \in Partial
  BY <1>0, <1>1 DEF Holds, Persisting, CallType
<1>7. now \in Whole
  <2>1. keyStates[keyCalls[w].state] \in Whole
    BY <1>6, NamesTyped, ElementOfSeq
  <2> QED
    BY <1>5, <1>6, <2>1, MergedTyped
<1>8. /\ keyStates' = [keyStates EXCEPT ![keyCalls[w].state] = now]
      /\ keyStates' \in Seq(Whole) /\ Len(keyStates') = Len(keyStates)
      /\ keyStates'[keyCalls[w].state] = now
  <2>1. keyStates' = [keyStates EXCEPT ![keyCalls[w].state] = now]
    BY <1>5 DEF UpdateCache
  <2> QED
    BY <1>6, <1>7, <2>1, NamesTyped, SeqSet
<1>9. Holds(c)'
  BY <1>4 DEF Holds, Persisting
<1>10. ~keyOverlap =>
         /\ Stored' \in Whole /\ Stored' = now
         /\ keyNames'["api"] # 0 => keyNames'["api"] # keyNames'["tmp"]
         /\ keyStates'[Len(keyStates')] = now
  <2> SUFFICES ASSUME ~keyOverlap
               PROVE  /\ Stored' \in Whole /\ Stored' = now
                      /\ keyNames'["api"] # 0 => keyNames'["api"] # keyNames'["tmp"]
                      /\ keyStates'[Len(keyStates')] = now
    OBVIOUS
  <2>1. Stands(keyCalls[w])
    BY BusyFacts
  <2>2. Stored' = Stored
    BY <1>0 DEF Stored, keyFiles
  <2>3. Stored = now /\ keyCalls[w].state = Len(keyStates)
    BY <1>0, <1>5, <2>1 DEF Stands, Persisting
  <2> QED
    BY <1>0, <1>7, <1>8, <2>2, <2>3 DEF KInv, Alone, keyFiles
<1>11. Took(c)'
  <2>1. TookEffect(keyCalls[w].ask, now)
    <3>1. keyCalls[w].ask \in KeyRequests
      BY <1>1 DEF CallType
    <3> QED
      BY <1>0, <1>1, <1>5, <3>1, MergedTook DEF Holds, Persisting
  <2>2. ~keyOverlap => TookEffect(c.ask, Stored')
    BY <1>4, <1>10, <2>1
  <2> QED
    BY <1>0, <2>2 DEF Took, TookEffect
<1>12. Step(w, c)
  BY <1>2, <1>3
<1>13. /\ keyBodies' \in Seq({Blank, Spoilt} \cup Whole) /\ Len(keyBodies) <= Len(keyBodies')
       /\ keyNames' \in [{"api", "tmp"} -> 0..Len(keyBodies')]
  BY <1>0, NamesTyped DEF KInv, KType, keyFiles
<1> QED
  <2>1. ~keyOverlap => Agrees'
    BY <1>10 DEF Agrees
  <2> QED
    BY <1>0, <1>4, <1>8, <1>9, <1>10, <1>11, <1>12, <1>13, <2>1, CallMoves

-----------------------------------------------------------------------------
(* The steps that begin something, or belong to no call under way.         *)

LEMMA KeysStart == KeysInit => KInv
<1> SUFFICES ASSUME KeysInit PROVE KInv
  OBVIOUS
<1>1. KType
  <2>1. keyBodies \in Seq({Blank, Spoilt} \cup Whole) /\ keyStates \in Seq(Whole)
    BY EmptySeq DEF KeysInit
  <2>2. keyNames \in [{"api", "tmp"} -> 0..Len(keyBodies)]
    BY LenProperties, <2>1 DEF KeysInit
  <2>3. keyCalls \in [KeyCallers -> {KeyIdle} \cup CallType]
    BY DEF KeysInit
  <2> QED
    BY <2>1, <2>2, <2>3 DEF KeysInit, KType
<1>2. KeyIdle.at = "idle"
  BY DEF KeyIdle
<1>3. Busy = {} /\ Stored = NoKeys
  BY <1>2 DEF KeysInit, Busy, Stored
<1>4. Calls /\ Alone /\ First
  BY <1>2, <1>3, BlankFacts DEF KeysInit, Calls, Alone, Agrees, First
<1> QED
  BY <1>1, <1>4 DEF KInv

\* A request is checked as a whole; one that is in order is under way.
LEMMA CallStep ==
  ASSUME KInv, NEW w \in KeyCallers, SetApiKeyCall(w)
  PROVE  KInv'
<1>0. /\ keyCalls[w].at \in {"idle", "done"} /\ keyCount' = keyCount + 1
      /\ keyOverlap' = (keyOverlap \/ Busy # {} \/ keyLoader # <<>>)
      /\ UNCHANGED <<keyFiles, keyStates, keyLoader, keyInits, keyLost>>
  BY DEF SetApiKeyCall, Notes
<1>1. PICK r \in KeyRequests, bad \in BOOLEAN :
        Step(w, [at |-> IF bad THEN "done" ELSE "apply", ask |-> r, state |-> 0, sets |-> Blank,
                 deletes |-> NoModels, merged |-> Blank, fd |-> 0, tries |-> 0, error |-> "none",
                 refused |-> FALSE, result |-> IF bad THEN "invalid" ELSE "none"])
  BY DEF SetApiKeyCall
<1>2. PICK c : c = [at |-> IF bad THEN "done" ELSE "apply", ask |-> r, state |-> 0, sets |-> Blank,
                    deletes |-> NoModels, merged |-> Blank, fd |-> 0, tries |-> 0, error |-> "none",
                    refused |-> FALSE, result |-> IF bad THEN "invalid" ELSE "none"]
  OBVIOUS
<1>3. /\ c \in CallType /\ c.at \in {"apply", "done"}
      /\ c.at = "done" => c.result = "invalid"
  BY <1>2, BlankFacts DEF CallType, NoModels
<1>4. /\ keyCalls' \in [KeyCallers -> {KeyIdle} \cup CallType] /\ keyCalls'[w] = c
      /\ \A v \in KeyCallers \ {w} : keyCalls'[v] = keyCalls[v]
  BY <1>1, <1>2, <1>3 DEF Step, KInv, KType
<1>5. KType'
  <2>1. keyOverlap' \in BOOLEAN
    BY <1>0, Zenon DEF KInv, KType
  <2> QED
    BY <1>0, <1>4, <2>1 DEF KInv, KType, keyFiles
<1>6. Holds(c)'
  BY <1>3 DEF Holds, Persisting
<1>7. Calls'
  <2> SUFFICES ASSUME NEW v \in KeyCallers, keyCalls'[v].at # "idle"
               PROVE  Holds(keyCalls[v])'
    BY DEF Calls
  <2>1. CASE v = w
    BY <1>4, <1>6, <2>1 DEF Holds
  <2>2. CASE v # w
    <3>1. keyCalls'[v] = keyCalls[v] /\ Holds(keyCalls[v])
      BY <1>4, <2>2 DEF KInv, Calls
    <3> QED
      BY <1>0, <3>1 DEF Holds, keyFiles
  <2> QED
    BY <2>1, <2>2
<1>8. Alone'
  <2> SUFFICES ASSUME ~keyOverlap' PROVE Alone'
    BY DEF Alone
  <2>1. ~keyOverlap /\ Busy = {} /\ keyLoader = <<>> /\ Stored' = Stored
    BY <1>0 DEF Stored, keyFiles
  <2>2. Busy' \subseteq {w} /\ keyCalls'[w] = c
    BY <1>4, <2>1 DEF Busy
  <2>3. Agrees /\ Agrees'
    BY <1>0, <2>1, AgreesStays DEF KInv, Alone
  <2>4. c.at = "apply" => Stands(c)'
    BY <1>0, <2>1, <2>3 DEF Stands, Persisting
  <2>5. \A v \in Busy' : Stands(keyCalls[v])'
    <3>1. Busy' # {} => c.at = "apply"
      BY <1>3, <2>2 DEF Busy
    <3> QED
      BY <2>2, <2>4, <3>1 DEF Stands
  <2> QED
    BY <1>0, <2>1, <2>2, <2>3, <2>5 DEF KInv, Alone, keyFiles
<1>9. First'
  <2>1. keyCount' # 0
    BY <1>0 DEF KInv, KType
  <2>2. ASSUME keyCount' = 1
        PROVE  /\ \A v, u \in KeyCallers :
                    keyCalls'[v].at # "idle" /\ keyCalls'[u].at # "idle" => v = u
               /\ \A v \in KeyCallers : Took(keyCalls[v])'
    <3>1. keyCount = 0
      BY <1>0, <2>2 DEF KInv, KType
    <3>2. \A v \in KeyCallers \ {w} : keyCalls'[v].at = "idle"
      BY <1>4, <3>1 DEF KInv, First, KeyIdle
    <3>3. \A v \in KeyCallers \ {w} : Took(keyCalls[v])'
      BY <3>2 DEF Took
    <3>4. Took(keyCalls[w])'
      BY <1>3, <1>4 DEF Took
    <3> QED
      BY <3>2, <3>3, <3>4
  <2> QED
    BY <2>1, <2>2 DEF First
<1> QED
  BY <1>5, <1>7, <1>8, <1>9 DEF KInv

LEMMA ApplyStep ==
  ASSUME KInv, NEW w \in KeyCallers, ApplyApiKey(w)
  PROVE  KInv'
<1>0. /\ w \in Busy /\ keyCalls[w].at = "apply"
      /\ UNCHANGED <<keyFiles, keyStates, keyLoader, keyInits, keyCount, keyOverlap, keyLost>>
  BY DEF Busy, ApplyApiKey
<1>1. keyCalls[w] \in CallType /\ keyCalls[w].ask \in KeyRequests
  <2>1. keyCalls[w] \in CallType
    BY CallFacts, <1>0
  <2> QED
    BY <2>1 DEF CallType
<1>2. PICK r, sets, error :
        /\ r = keyCalls[w].ask
        /\ sets = (IF r.action = "set" THEN EncryptItem(r.items) ELSE Blank)
        /\ error = (IF r.action = "set" /\ \E k \in DOMAIN r.items : Fails(r.items[k])
                    THEN "item" ELSE "none")
  OBVIOUS
<1>3. r \in KeyRequests /\ sets \in Partial /\ error \in {"none", "item"}
  BY <1>1, <1>2, EncryptTyped, BlankFacts
<1>4. ~keyOverlap => /\ Stands(keyCalls[w]) /\ Stored' = Stored /\ Stored \in Whole
                     /\ keyNames["api"] # 0 => keyNames["api"] # keyNames["tmp"]
  BY <1>0, BusyFacts DEF Stored, keyFiles, KInv, Alone
<1>5. /\ keyBodies' \in Seq({Blank, Spoilt} \cup Whole) /\ Len(keyBodies) <= Len(keyBodies')
      /\ keyNames' \in [{"api", "tmp"} -> 0..Len(keyBodies')]
      /\ keyStates' \in Seq(Whole) /\ Len(keyStates') = Len(keyStates)
  BY <1>0, NamesTyped DEF KInv, KType, keyFiles
<1>6. ASSUME NEW result \in {"uninitialized", "ok", "none", "item"}, Returned(w, result),
             result \in {"ok", "item"} =>
               r.items = <<>> \/ (r.action = "set" /\ EncryptItem(r.items) = Blank)
      PROVE  KInv'
  <2>1. PICK c : c = [keyCalls[w] EXCEPT !.at = "done", !.result = result]
    OBVIOUS
  <2>2. c \in CallType /\ c.at = "done" /\ c.ask = r /\ c.result = result
    BY <1>1, <1>2, <2>1 DEF CallType
  <2>3. Holds(c)'
    BY <2>2 DEF Holds, Persisting
  <2>4. Took(c)'
    <3>1. result \in {"ok", "item"} => TookEffect(r, Stored')
      BY <1>3, <1>6, NothingToTake
    <3> QED
      BY <2>2, <3>1 DEF Took, TookEffect
  <2>5. Step(w, c)
    BY <1>6, <2>1 DEF Returned
  <2>6. ~keyOverlap => Agrees'
    BY <1>0, <1>4, AgreesStays DEF Stands
  <2> QED
    BY <1>0, <1>4, <1>5, <2>2, <2>3, <2>4, <2>5, <2>6, CallMoves DEF keyFiles
<1>7. ASSUME keyStates # <<>>, NEW deletes \in SUBSET (KeyModels \cup {""}),
             r.action = "delete" => deletes = {r.items[k].model : k \in DOMAIN r.items},
             Step(w, [keyCalls[w] EXCEPT !.at = "read", !.state = Len(keyStates), !.error = error,
                                         !.sets = sets, !.deletes = deletes])
      PROVE  KInv'
  <2>1. PICK c : c = [keyCalls[w] EXCEPT !.at = "read", !.state = Len(keyStates), !.error = error,
                                         !.sets = sets, !.deletes = deletes]
    OBVIOUS
  <2>2. /\ c \in CallType /\ c.at = "read" /\ c.ask = r /\ c.state = Len(keyStates)
        /\ c.sets = sets /\ c.deletes = deletes
    BY <1>1, <1>2, <1>3, <1>7, <2>1, NamesTyped DEF CallType, Persisting
  <2>3. Holds(c)' /\ Took(c)'
    <3>0. Len(keyStates) \in 1..Len(keyStates)
      BY <1>7, LastThere
    <3>1. c.state \in 1..Len(keyStates')
      BY <1>0, <2>2, <3>0
    <3>2. /\ r.action = "set" => sets = EncryptItem(r.items)
          /\ r.action = "delete" => sets = Blank
      BY <1>2
    <3> QED
      BY <1>7, <2>2, <3>1, <3>2 DEF Holds, Took, Persisting
  <2>4. Step(w, c)
    BY <1>7, <2>1
  <2>5. ~keyOverlap => Stands(c)'
    <3>1. ~keyOverlap => Agrees'
      BY <1>0, <1>4, AgreesStays DEF Stands
    <3> QED
      BY <1>0, <1>4, <2>2, <3>1 DEF Stands, Persisting
  <2> QED
    BY <1>0, <1>4, <1>5, <2>2, <2>3, <2>4, <2>5, CallMoves DEF keyFiles
<1>8. CASE keyStates = <<>>
  BY <1>6, <1>8 DEF ApplyApiKey
<1>9. CASE keyStates # <<>> /\ r.items = <<>>
  BY <1>2, <1>6, <1>9 DEF ApplyApiKey
<1>10. CASE keyStates # <<>> /\ r.items # <<>> /\ r.action = "set" /\ sets = Blank
  <2>1. Returned(w, error)
    BY <1>2, <1>10 DEF ApplyApiKey
  <2>2. EncryptItem(r.items) = Blank
    BY <1>2, <1>10
  <2> QED
    BY <1>3, <1>6, <1>10, <2>1, <2>2
<1>11. CASE keyStates # <<>> /\ r.items # <<>> /\ ~(r.action = "set" /\ sets = Blank)
  <2>1. PICK deletes : deletes = (IF r.action = "set" THEN NoModels
                                  ELSE {r.items[k].model : k \in DOMAIN r.items})
    OBVIOUS
  <2>2. deletes \in SUBSET (KeyModels \cup {""})
    BY <1>3, <2>1, RequestFacts DEF NoModels
  <2>3. Step(w, [keyCalls[w] EXCEPT !.at = "read", !.state = Len(keyStates), !.error = error,
                                    !.sets = sets, !.deletes = deletes])
    BY <1>2, <1>11, <2>1 DEF ApplyApiKey
  <2> QED
    BY <1>7, <1>11, <2>1, <2>2, <2>3
<1> QED
  BY <1>8, <1>9, <1>10, <1>11

LEMMA LoadStep ==
  ASSUME KInv, LoadFiles
  PROVE  KInv'
<1>0. /\ keyLoader = <<>> /\ keyInits' = keyInits + 1
      /\ keyOverlap' = (keyOverlap \/ Busy # {} \/ keyLoader # <<>>)
      /\ UNCHANGED <<keyStates, keyCalls, keyCount, keyLost>>
  BY DEF LoadFiles, Notes
<1>1. \/ UNCHANGED keyFiles
      \/ /\ keyNames["api"] = 0 /\ keyBodies' = Append(keyBodies, NoKeys)
         /\ keyNames' = [keyNames EXCEPT !["api"] = Len(keyBodies')]
  BY DEF LoadFiles, EnsureStateApiKeys
<1>2. /\ keyBodies' \in Seq({Blank, Spoilt} \cup Whole)
      /\ Len(keyBodies') \in Nat /\ Len(keyBodies) <= Len(keyBodies')
      /\ keyNames' \in [{"api", "tmp"} -> 0..Len(keyBodies')]
      /\ keyNames'["tmp"] = keyNames["tmp"]
      /\ \A j \in 1..Len(keyBodies) : keyBodies'[j] = keyBodies[j]
      /\ keyNames'["api"] = keyNames["api"]
         \/ (keyNames["api"] = 0 /\ keyNames'["api"] = Len(keyBodies) + 1
             /\ keyBodies'[Len(keyBodies) + 1] = NoKeys)
  <2>1. CASE UNCHANGED keyFiles
    BY <2>1, NamesTyped DEF keyFiles, KInv, KType
  <2>2. CASE /\ keyNames["api"] = 0 /\ keyBodies' = Append(keyBodies, NoKeys)
             /\ keyNames' = [keyNames EXCEPT !["api"] = Len(keyBodies')]
    <3>1. /\ keyBodies' \in Seq({Blank, Spoilt} \cup Whole) /\ Len(keyBodies') = Len(keyBodies) + 1
          /\ keyBodies'[Len(keyBodies) + 1] = NoKeys
          /\ \A j \in 1..Len(keyBodies) : keyBodies'[j] = keyBodies[j]
      BY <2>2, NamesTyped, BlankFacts, SeqGrown
    <3>2. keyNames' \in [{"api", "tmp"} -> 0..Len(keyBodies')]
      BY <2>2, <3>1, NamesTyped DEF KInv, KType
    <3> QED
      BY <2>2, <3>1, <3>2, NamesTyped
  <2> QED
    BY <1>1, <2>1, <2>2
<1>3. Stored' = Stored
  BY <1>2, NamesTyped DEF Stored
<1>4. /\ keyLoader' = <<>> \/ \E b \in Whole : keyLoader' = <<b>>
      /\ Stored \in Whole => keyLoader' = <<Stored>>
  <2>1. CASE keyNames'["api"] = 0
    <3>1. keyLoader' = <<NoKeys>> /\ Stored' = NoKeys
      BY <2>1 DEF LoadFiles, Stored
    <3> QED
      BY <1>3, <3>1, BlankFacts
  <2>2. CASE keyNames'["api"] # 0
    <3>1. PICK b : b = keyBodies'[keyNames'["api"]]
      OBVIOUS
    <3>2. b \in {Blank, Spoilt} \cup Whole /\ Stored' = b
      BY <1>2, <2>2, <3>1, ElementOfSeq DEF Stored
    <3>3. keyLoader' = IF b = Spoilt THEN <<>> ELSE <<ReadKeys(b)>>
      BY <2>2, <3>1 DEF LoadFiles
    <3>4. b \in Whole => ReadKeys(b) = b /\ b # Spoilt
      BY BlankFacts DEF ReadKeys, Readable, Whole
    <3>5. b # Spoilt => ReadKeys(b) \in Whole
      <4>1. CASE b = Blank
        <5>1. CASE KeyModels = {}
          <6>1. Blank \in [KeyModels -> Texts]
            BY <5>1 DEF Blank
          <6>2. Blank \in Whole
            BY <6>1, BlankFacts DEF Whole
          <6> QED
            BY <4>1, <6>2, <3>4
        <5>2. CASE KeyModels # {}
          BY <4>1, <5>2, BlankFacts DEF ReadKeys, Readable
        <5> QED
          BY <5>1, <5>2
      <4> QED
        BY <3>2, <3>4, <4>1
    <3> QED
      BY <1>3, <3>2, <3>3, <3>4, <3>5
  <2> QED
    BY <2>1, <2>2
<1>5. KType'
  <2>1. keyOverlap' \in BOOLEAN
    BY <1>0, Zenon DEF KInv, KType
  <2> QED
    BY <1>0, <1>2, <1>4, <2>1 DEF KInv, KType
<1>6. Calls'
  <2> SUFFICES ASSUME NEW v \in KeyCallers, keyCalls[v].at # "idle"
               PROVE  Holds(keyCalls[v])'
    BY <1>0 DEF Calls
  <2>1. Holds(keyCalls[v])
    BY DEF KInv, Calls
  <2> QED
    BY <1>0, <1>2, <2>1, NamesTyped DEF Holds
<1>7. Alone'
  <2> SUFFICES ASSUME ~keyOverlap' PROVE Alone'
    BY DEF Alone
  <2>1. ~keyOverlap /\ Busy = {} /\ Busy' = {}
    BY <1>0 DEF Busy
  <2>2. Stored \in Whole /\ Agrees
    BY <2>1 DEF KInv, Alone
  <2>3. keyNames'["api"] # 0 => keyNames'["api"] # keyNames'["tmp"]
    BY <1>2, <2>1, NamesTyped DEF KInv, Alone
  <2>4. Agrees'
    BY <1>0, <1>3, <2>2, AgreesStays
  <2> QED
    BY <1>0, <1>3, <1>4, <2>1, <2>2, <2>3, <2>4 DEF Alone
<1>8. First'
  BY <1>0, <1>3 DEF KInv, First, Took, TookEffect
<1> QED
  BY <1>5, <1>6, <1>7, <1>8 DEF KInv

LEMMA InstallStep ==
  ASSUME KInv, Install
  PROVE  KInv'
<1>0. /\ keyLoader # <<>> /\ keyLoader' = <<>>
      /\ \/ keyStates' = Append(keyStates, keyLoader[1])
         \/ keyStates' = keyStates /\ keyLost' = keyLost
      /\ UNCHANGED <<keyFiles, keyCalls, keyInits, keyCount, keyOverlap>>
  BY DEF Install
<1>1. PICK b \in Whole : keyLoader = <<b>>
  BY <1>0 DEF KInv, KType
<1>2. keyLoader[1] = b
  BY <1>1
<1>3. /\ keyStates' \in Seq(Whole) /\ Len(keyStates') \in Nat /\ Len(keyStates) <= Len(keyStates')
      /\ (keyStates' = keyStates /\ keyLost' = keyLost) \/ keyStates'[Len(keyStates')] = b
  <2>1. CASE keyStates' = keyStates /\ keyLost' = keyLost
    BY <2>1, NamesTyped
  <2>2. CASE keyStates' = Append(keyStates, b)
    BY <2>2, NamesTyped, SeqGrown
  <2> QED
    BY <1>0, <1>2, <2>1, <2>2
<1>4. KType'
  BY <1>0, <1>3 DEF KInv, KType, keyFiles
<1>5. Calls'
  <2> SUFFICES ASSUME NEW v \in KeyCallers, keyCalls[v].at # "idle"
               PROVE  Holds(keyCalls[v])'
    BY <1>0 DEF Calls
  <2>1. Holds(keyCalls[v])
    BY DEF KInv, Calls
  <2> QED
    BY <1>0, <1>3, <2>1, NamesTyped DEF Holds, keyFiles
<1>6. Stored' = Stored
  BY <1>0 DEF Stored, keyFiles
<1>7. Alone'
  <2> SUFFICES ASSUME ~keyOverlap PROVE Alone'
    BY <1>0 DEF Alone
  <2>1. Busy = {} /\ Busy' = {} /\ keyLoader = <<Stored>>
    BY <1>0 DEF KInv, Alone, Busy
  <2>2. b = Stored
    BY <1>1, <2>1
  <2>3. Agrees'
    <3>1. CASE keyStates' = keyStates /\ keyLost' = keyLost
      BY <1>6, <2>1, <3>1, AgreesStays DEF KInv, Alone
    <3>2. CASE keyStates'[Len(keyStates')] = b
      BY <1>6, <2>2, <3>2 DEF Agrees
    <3> QED
      BY <1>3, <3>1, <3>2
  <2> QED
    BY <1>0, <1>6, <2>1, <2>3 DEF KInv, Alone, keyFiles
<1>8. First'
  BY <1>0, <1>6 DEF KInv, First, Took, TookEffect
<1> QED
  BY <1>4, <1>5, <1>7, <1>8 DEF KInv

-----------------------------------------------------------------------------
(* Theorems.                                                               *)

LEMMA KeysStep == KInv /\ [KeysNext]_keyVars => KInv'
<1> SUFFICES ASSUME KInv, [KeysNext]_keyVars PROVE KInv'
  OBVIOUS
<1>1. CASE LoadFiles \/ Install
  BY <1>1, LoadStep, InstallStep
<1>2. ASSUME NEW w \in KeyCallers, SetApiKeyCall(w) \/ ApplyApiKey(w)
      PROVE  KInv'
  BY <1>2, CallStep, ApplyStep
<1>3. ASSUME NEW w \in KeyCallers, PersistAndUpdate(w)
      PROVE  KInv'
  <2>1. w \in Busy
    BY <1>3 DEF Busy, PersistAndUpdate, ReadCurrent, OpenTmp, FillTmp, VerifyTmp, RenameTmp, RenameFails,
                ClearStore, ForceRename, UpdateCache
  <2> QED
    BY <1>3, <2>1, ReadStep, OpenStep, OpenFails, FillStep, NamingSteps, CacheStep
    DEF PersistAndUpdate
<1>4. CASE UNCHANGED keyVars
  <2>1. UNCHANGED <<keyBodies, keyNames, keyStates, keyLoader, keyCalls, keyInits, keyCount, keyOverlap, keyLost>>
    BY <1>4 DEF keyVars, keyFiles
  <2> QED
    BY <2>1 DEF KInv, KType, Calls, Holds, Alone, Stands, Agrees, Busy, Stored, First, Took, TookEffect
<1> QED
  BY <1>1, <1>2, <1>3, <1>4 DEF KeysNext

LEMMA KeysInvariant == KeysSpec => []KInv
BY KeysStart, KeysStep, PTL DEF KeysSpec

LEMMA InvMeansKept == KInv => KeysAreKept
<1> SUFFICES ASSUME KInv PROVE KeysAreKept
  OBVIOUS
<1>1. KeysTypeOK
  <2>1. \A k \in DOMAIN keyBodies : keyBodies[k] \in {Blank, Spoilt} \/ Readable(keyBodies[k])
    <3> SUFFICES ASSUME NEW k \in DOMAIN keyBodies
                 PROVE  keyBodies[k] \in {Blank, Spoilt} \/ Readable(keyBodies[k])
      OBVIOUS
    <3>1. keyBodies[k] \in {Blank, Spoilt} \cup Whole
      BY NamesTyped, LenProperties, ElementOfSeq
    <3> QED
      BY <3>1 DEF Whole, Readable
  <2>2. \A k \in DOMAIN keyStates : Readable(keyStates[k])
    <3> SUFFICES ASSUME NEW k \in DOMAIN keyStates PROVE Readable(keyStates[k])
      OBVIOUS
    <3>1. keyStates[k] \in Whole
      BY NamesTyped, LenProperties, ElementOfSeq
    <3> QED
      BY <3>1 DEF Whole, Readable
  <2>3. DOMAIN keyBodies = 1..Len(keyBodies) /\ DOMAIN keyStates = 1..Len(keyStates)
    BY NamesTyped, LenProperties
  <2>4. ASSUME NEW w \in KeyCallers
        PROVE  /\ keyCalls[w].at \in {"idle", "apply", "read", "open", "write", "verify", "rename",
                                      "clear", "force", "cache", "done"}
               /\ keyCalls[w].at \in {"write", "verify", "rename", "clear", "force"}
                    => keyCalls[w].fd \in DOMAIN keyBodies
               /\ keyCalls[w].at = "read" => keyCalls[w].state \in DOMAIN keyStates
    <3>1. CASE keyCalls[w].at = "idle"
      BY <3>1
    <3>2. CASE keyCalls[w].at # "idle"
      <4>1. keyCalls[w].at \in {"apply", "done"} \cup Persisting
        BY <3>2, CallFacts DEF CallType
      <4> QED
        BY <2>3, <3>2, <4>1, CallFacts DEF Holds, Persisting
    <3> QED
      BY <3>1, <3>2
  <2> QED
    BY <2>1, <2>2, <2>4, NamesTyped DEF KeysTypeOK
<1>2. StoreIsMemory
  BY NamesTyped DEF KInv, Alone, Agrees, StoreIsMemory, Quiet, Last
<1>3. GoodItemsTakeEffect
  BY DEF KInv, First, Took, GoodItemsTakeEffect
<1>4. KeysStayWithTheirModel
  <2>1. \A b \in {Blank, Spoilt} \cup Whole : Theirs(b)
    BY BlankFacts DEF Whole
  <2>2. \A k \in DOMAIN keyBodies : Theirs(keyBodies[k])
    <3> SUFFICES ASSUME NEW k \in DOMAIN keyBodies PROVE Theirs(keyBodies[k])
      OBVIOUS
    <3>1. keyBodies[k] \in {Blank, Spoilt} \cup Whole
      BY NamesTyped, LenProperties, ElementOfSeq
    <3> QED
      BY <2>1, <3>1
  <2>3. \A k \in DOMAIN keyStates : Theirs(keyStates[k])
    <3> SUFFICES ASSUME NEW k \in DOMAIN keyStates PROVE Theirs(keyStates[k])
      OBVIOUS
    <3>1. keyStates[k] \in Whole
      BY NamesTyped, LenProperties, ElementOfSeq
    <3> QED
      BY <2>1, <3>1
  <2>4. \A w \in Busy : Theirs(keyCalls[w].merged)
    <3> SUFFICES ASSUME NEW w \in Busy PROVE Theirs(keyCalls[w].merged)
      OBVIOUS
    <3>1. keyCalls[w] \in CallType
      BY CallFacts DEF Busy
    <3>2. keyCalls[w].merged \in {Blank} \cup Whole
      BY <3>1 DEF CallType
    <3> QED
      BY <2>1, <3>2
  <2> QED
    BY <2>2, <2>3, <2>4 DEF KeysStayWithTheirModel
<1> QED
  BY <1>1, <1>2, <1>3, <1>4 DEF KeysAreKept

\* However set_api_key calls and initialisations fail, one after the other they leave in the file
\* what the memory has and each good item asked for, or, after a call that removed the store to make
\* room for a rename that failed all the same, no keys at all; and however they race, no model gets a
\* key that was not set for it (config/mod.rs persist_and_update, router.rs apply_api_key and init).
THEOREM KeysKept == KeysSpec => []KeysAreKept
BY KeysInvariant, InvMeansKept, PTL

\* Min is among them, and the least.
LEMMA MinOf ==
  ASSUME NEW T \in SUBSET Nat, T # {}
  PROVE  Min(T) \in T /\ \A y \in T : Min(T) <= y
<1>1. \E x \in T : \A y \in T : x <= y
  BY LeastNumber
<1> QED
  BY <1>1 DEF Min


(***************************************************************************)
(* InferenceRoute.  The first strategy of least priority.                  *)
(***************************************************************************)
FitsFor(config, type, k) ==
  LET s == config.strategies[k]
  IN s.on /\ (type = "any" \/ (s.model \in DOMAIN config.models /\ config.models[s.model].type = type))

\* What the search should have in hand after k strategies: the best of them, if one fits.
BestOf(config, type, k, i) ==
  /\ i \in 1..k /\ FitsFor(config, type, i)
  /\ \A j \in 1..k : FitsFor(config, type, j) =>
       \/ config.strategies[i].prio < config.strategies[j].prio
       \/ config.strategies[i].prio = config.strategies[j].prio /\ i <= j

InHand(config, type, k, r) ==
  \/ r = <<>> /\ \A j \in 1..k : ~FitsFor(config, type, j)
  \/ \E i : BestOf(config, type, k, i) /\ r = <<config.strategies[i]>>

\* One turn of the search, and all of them.
Better(config, type, k, r) ==
  IF FitsFor(config, type, k) /\ (r = <<>> \/ config.strategies[k].prio < r[1].prio)
  THEN <<config.strategies[k]>> ELSE r
Searching(config, type, f) ==
  f = [k \in 0..Len(config.strategies) |-> IF k = 0 THEN <<>> ELSE Better(config, type, k, f[k - 1])]

Prioritised(config) ==
  /\ Len(config.strategies) \in Nat /\ DOMAIN config.strategies = 1..Len(config.strategies)
  /\ \A k \in 1..Len(config.strategies) : config.strategies[k].prio \in Int

LEMMA TurnIsBetter ==
  ASSUME NEW config, NEW type, Prioritised(config), NEW k \in 1..Len(config.strategies), NEW r,
         InHand(config, type, k - 1, r)
  PROVE  InHand(config, type, k, Better(config, type, k, r))
<1> DEFINE P(i) == config.strategies[i].prio
           F(i) == FitsFor(config, type, i)
<1>0. PICK n : n = Len(config.strategies)
  OBVIOUS
<1>1. n \in Nat /\ k \in 1..n /\ \A i \in 1..n : P(i) \in Int
  BY <1>0 DEF Prioritised
<1>2. \A j \in 1..k : j = k \/ j \in 1..k - 1
  BY <1>1
<1>3. \A j \in 1..k - 1 : j \in 1..k /\ j \in 1..n /\ j < k
  BY <1>1
<1>4. CASE r = <<>> /\ \A j \in 1..k - 1 : ~F(j)
  <2>1. CASE F(k)
    <3>1. Better(config, type, k, r) = <<config.strategies[k]>>
      BY <2>1, <1>4 DEF Better
    <3>2. BestOf(config, type, k, k)
      BY <2>1, <1>1, <1>2, <1>4 DEF BestOf
    <3> QED
      BY <3>1, <3>2 DEF InHand
  <2>2. CASE ~F(k)
    <3>1. Better(config, type, k, r) = r
      BY <2>2 DEF Better
    <3> QED
      BY <3>1, <2>2, <1>2, <1>4 DEF InHand
  <2> QED
    BY <2>1, <2>2
<1>5. ASSUME NEW i, BestOf(config, type, k - 1, i), r = <<config.strategies[i]>>
      PROVE  InHand(config, type, k, Better(config, type, k, r))
  <2>1. i \in 1..k - 1 /\ F(i)
    BY <1>5 DEF BestOf
  <2>2. \A j \in 1..k - 1 : F(j) => P(i) < P(j) \/ (P(i) = P(j) /\ i <= j)
    BY <1>5 DEF BestOf
  <2>3. i \in 1..k /\ i < k /\ P(i) \in Int /\ P(k) \in Int
    BY <1>1, <1>3, <2>1
  <2>4. r # <<>> /\ r[1].prio = P(i)
    BY <1>5
  <2>5. CASE F(k) /\ P(k) < P(i)
    <3>1. Better(config, type, k, r) = <<config.strategies[k]>>
      BY <2>5, <2>4 DEF Better
    <3>2. ASSUME NEW j \in 1..k, F(j) PROVE P(k) < P(j) \/ (P(k) = P(j) /\ k <= j)
      <4>1. CASE j = k
        BY <4>1, <2>3, <1>1
      <4>2. CASE j \in 1..k - 1
        <5>1. P(j) \in Int /\ P(i) <= P(j)
          BY <4>2, <3>2, <2>2, <2>3, <1>1, <1>3
        <5> QED
          BY <5>1, <2>3, <2>5
      <4> QED
        BY <4>1, <4>2, <1>2
    <3>3. BestOf(config, type, k, k)
      BY <2>5, <3>2, <1>1 DEF BestOf
    <3> QED
      BY <3>1, <3>3 DEF InHand
  <2>6. CASE ~(F(k) /\ P(k) < P(i))
    <3>1. Better(config, type, k, r) = r
      BY <2>6, <2>4 DEF Better
    <3>2. ASSUME NEW j \in 1..k, F(j) PROVE P(i) < P(j) \/ (P(i) = P(j) /\ i <= j)
      <4>1. CASE j = k
        BY <4>1, <3>2, <2>3, <2>6
      <4>2. CASE j \in 1..k - 1
        BY <4>2, <3>2, <2>2
      <4> QED
        BY <4>1, <4>2, <1>2
    <3>3. BestOf(config, type, k, i)
      BY <2>1, <2>3, <3>2 DEF BestOf
    <3> QED
      BY <3>1, <3>3, <1>5 DEF InHand
  <2> QED
    BY <2>5, <2>6
<1> QED
  BY <1>4, <1>5 DEF InHand

LEMMA InHandOnce ==
  ASSUME NEW config, NEW type, Prioritised(config), NEW k \in 0..Len(config.strategies), NEW r, NEW q,
         InHand(config, type, k, r), InHand(config, type, k, q)
  PROVE  r = q
<1>0. PICK n : n = Len(config.strategies)
  OBVIOUS
<1>1. n \in Nat /\ k \in 0..n /\ \A i \in 1..n : config.strategies[i].prio \in Int
  BY <1>0 DEF Prioritised
<1>2. ASSUME NEW i, NEW j, BestOf(config, type, k, i), BestOf(config, type, k, j) PROVE i = j
  <2>1. i \in 1..k /\ j \in 1..k /\ FitsFor(config, type, i) /\ FitsFor(config, type, j)
    BY <1>2 DEF BestOf
  <2>2. config.strategies[i].prio \in Int /\ config.strategies[j].prio \in Int
    BY <1>1, <2>1
  <2>3. \/ config.strategies[i].prio < config.strategies[j].prio
        \/ config.strategies[i].prio = config.strategies[j].prio /\ i <= j
    BY <1>2, <2>1 DEF BestOf
  <2>4. \/ config.strategies[j].prio < config.strategies[i].prio
        \/ config.strategies[j].prio = config.strategies[i].prio /\ j <= i
    BY <1>2, <2>1 DEF BestOf
  <2>5. i \in Int /\ j \in Int
    BY <2>1
  <2> QED
    BY <2>2, <2>3, <2>4, <2>5
<1>3. ASSUME NEW i, BestOf(config, type, k, i), \A j \in 1..k : ~FitsFor(config, type, j) PROVE FALSE
  BY <1>3 DEF BestOf
<1> QED
  BY <1>2, <1>3 DEF InHand

LEMMA SearchFinds ==
  ASSUME NEW config, NEW type, Prioritised(config)
  PROVE  InHand(config, type, Len(config.strategies), FindFirstEnabled(config, type))
<1>0. PICK n : n = Len(config.strategies)
  OBVIOUS
<1>1. n \in Nat
  BY <1>0 DEF Prioritised
<1>2. InHand(config, type, 0, <<>>)
  BY DEF InHand
<1>3. \A k \in 0..n : \E r : InHand(config, type, k, r)
  <2> DEFINE T == {k \in 0..n : ~\E r : InHand(config, type, k, r)}
  <2>1. SUFFICES ASSUME T # {} PROVE FALSE
    OBVIOUS
  <2>2. T \in SUBSET Nat
    OBVIOUS
  <2>3. PICK k \in T : \A j \in T : k <= j
    BY <2>1, <2>2, LeastNumber
  <2>4. k # 0
    BY <2>3, <1>2
  <2>5. k \in 1..n /\ k - 1 \in 0..n /\ ~(k <= k - 1)
    BY <2>3, <2>4, <1>1
  <2>6. k - 1 \notin T
    <3> HIDE DEF T
    <3> QED
      BY <2>3, <2>5
  <2>7. PICK r : InHand(config, type, k - 1, r)
    BY <2>5, <2>6
  <2>8. InHand(config, type, k, Better(config, type, k, r))
    BY <2>5, <2>7, <1>0, TurnIsBetter
  <2> QED
    BY <2>3, <2>8
<1> DEFINE hand(k) == CHOOSE r : InHand(config, type, k, r)
           g == [k \in 0..n |-> hand(k)]
<1>4. \A k \in 0..n : InHand(config, type, k, g[k])
  BY <1>3
<1> HIDE DEF g
<1>5. g[0] = <<>>
  BY <1>0, <1>1, <1>2, <1>4, InHandOnce
<1>6. ASSUME NEW k \in 1..n PROVE g[k] = Better(config, type, k, g[k - 1])
  <2>1. k \in 0..n /\ k - 1 \in 0..n
    BY <1>1
  <2>2. InHand(config, type, k, Better(config, type, k, g[k - 1]))
    BY <2>1, <1>0, <1>4, TurnIsBetter
  <2> QED
    BY <2>1, <2>2, <1>0, <1>4, InHandOnce
<1>7. g = [k \in 0..n |-> IF k = 0 THEN <<>> ELSE Better(config, type, k, g[k - 1])]
  <2>1. g = [k \in 0..n |-> g[k]]
    BY DEF g
  <2>2. \A k \in 0..n : g[k] = IF k = 0 THEN <<>> ELSE Better(config, type, k, g[k - 1])
    BY <1>5, <1>6
  <2> QED
    BY <2>1, <2>2
<1>8. Searching(config, type, g)
  BY <1>0, <1>7 DEF Searching
<1> DEFINE R == CHOOSE f : Searching(config, type, f)
<1>9. Searching(config, type, R)
  BY <1>8
<1>10. FindFirstEnabled(config, type) = R[n]
  BY <1>0 DEF FindFirstEnabled, Searching, Better, FitsFor
<1> HIDE DEF R
<1>11. R = [k \in 0..n |-> IF k = 0 THEN <<>> ELSE Better(config, type, k, R[k - 1])]
  BY <1>0, <1>9 DEF Searching
<1>12. R[0] = <<>> /\ \A k \in 1..n : R[k] = Better(config, type, k, R[k - 1])
  BY <1>1, <1>11
<1>13. \A k \in 0..n : InHand(config, type, k, R[k])
  <2> DEFINE T == {k \in 0..n : ~InHand(config, type, k, R[k])}
  <2>1. SUFFICES ASSUME T # {} PROVE FALSE
    OBVIOUS
  <2>2. T \in SUBSET Nat
    OBVIOUS
  <2>3. PICK k \in T : \A j \in T : k <= j
    BY <2>1, <2>2, LeastNumber
  <2>4. k # 0
    BY <2>3, <1>2, <1>12
  <2>5. k \in 1..n /\ k - 1 \in 0..n /\ ~(k <= k - 1)
    BY <2>3, <2>4, <1>1
  <2>6. k - 1 \notin T
    <3> HIDE DEF T
    <3> QED
      BY <2>3, <2>5
  <2>7. InHand(config, type, k - 1, R[k - 1])
    BY <2>5, <2>6
  <2>8. InHand(config, type, k, R[k])
    BY <2>5, <2>7, <1>0, <1>12, TurnIsBetter
  <2> QED
    BY <2>3, <2>8
<1> QED
  BY <1>0, <1>1, <1>10, <1>13

\* The strategy that the search returns leads those that fit.
FitSet(config, type) == {k \in DOMAIN config.strategies : FitsFor(config, type, k)}
Leading(config, fits, s) ==
  \E k \in fits : /\ s = config.strategies[k]
                  /\ \A j \in fits : \/ config.strategies[k].prio < config.strategies[j].prio
                                     \/ config.strategies[k].prio = config.strategies[j].prio /\ k <= j
Led(config, fits, r) ==
  IF fits = {} THEN r = <<>> ELSE \E s : r = <<s>> /\ Leading(config, fits, s)

Picked(config, sensitive) ==
  IF sensitive THEN FitSet(config, "any")
  ELSE IF FitSet(config, "cloud") # {} THEN FitSet(config, "cloud") ELSE FitSet(config, "local")

LEMMA SearchLeads ==
  ASSUME NEW config, NEW type, Prioritised(config)
  PROVE  Led(config, FitSet(config, type), FindFirstEnabled(config, type))
<1>1. PICK n : n = Len(config.strategies)
  OBVIOUS
<1>2. n \in Nat /\ DOMAIN config.strategies = 1..n
  BY <1>1 DEF Prioritised
<1>3. PICK r : r = FindFirstEnabled(config, type)
  OBVIOUS
<1>4. InHand(config, type, n, r)
  BY <1>1, <1>3, SearchFinds
<1>5. CASE r = <<>> /\ \A j \in 1..n : ~FitsFor(config, type, j)
  <2>1. FitSet(config, type) = {}
    BY <1>2, <1>5 DEF FitSet
  <2> QED
    BY <2>1, <1>3, <1>5 DEF Led
<1>6. ASSUME NEW i, BestOf(config, type, n, i), r = <<config.strategies[i]>>
      PROVE  Led(config, FitSet(config, type), r)
  <2>1. i \in FitSet(config, type)
    BY <1>2, <1>6 DEF FitSet, BestOf
  <2>2. Leading(config, FitSet(config, type), config.strategies[i])
    BY <2>1, <1>2, <1>6 DEF Leading, FitSet, BestOf
  <2> QED
    BY <2>1, <2>2, <1>6 DEF Led
<1> QED
  BY <1>3, <1>4, <1>5, <1>6 DEF InHand

LEMMA MatchedLeads ==
  ASSUME NEW config, NEW sensitive \in BOOLEAN, Prioritised(config)
  PROVE  Led(config, Picked(config, sensitive), Matched(config, sensitive))
<1>1. CASE sensitive
  BY <1>1, SearchLeads DEF Matched, Picked
<1>2. CASE ~sensitive
  <2>1. Led(config, FitSet(config, "cloud"), FindFirstEnabled(config, "cloud"))
    BY SearchLeads
  <2>2. Led(config, FitSet(config, "local"), FindFirstEnabled(config, "local"))
    BY SearchLeads
  <2>3. CASE FitSet(config, "cloud") # {}
    <3>1. FindFirstEnabled(config, "cloud") # <<>>
      BY <2>1, <2>3 DEF Led
    <3> QED
      BY <3>1, <2>1, <2>3, <1>2 DEF Matched, Picked
  <2>4. CASE FitSet(config, "cloud") = {}
    <3>1. FindFirstEnabled(config, "cloud") = <<>>
      BY <2>1, <2>4 DEF Led
    <3> QED
      BY <3>1, <2>2, <2>4, <1>2 DEF Matched, Picked
  <2> QED
    BY <2>3, <2>4
<1> QED
  BY <1>1, <1>2

(***************************************************************************)
(* A decision that lets a request go.                                      *)
(***************************************************************************)
PayloadsOf(req) == IF HeaderOnly(req.body) THEN <<>> ELSE ParsePayloads(req.body)
MaskedAll(config, p) == [k \in DOMAIN p |-> Masked(config, p[k])]
Sensitive(config, p) == MaskedAll(config, p) # p
RouteOf(config, req) == EngineRoute(config, PayloadsOf(req))

LEMMA EngineRoutes ==
  ASSUME NEW config, NEW p, Prioritised(config), EngineRoute(config, p).ok
  PROVE  LET s == EngineRoute(config, p).strategy
             hides == Sensitive(config, p) /\ s.sanitize
         IN /\ Leading(config, Picked(config, Sensitive(config, p)), s)
            /\ s.model \in DOMAIN config.models /\ config.models[s.model].on
            /\ config.keys[s.model] # "corrupt"
            /\ EngineRoute(config, p).credential =
                 IF config.keys[s.model] = "none" THEN "EMPTY" ELSE config.keys[s.model]
            /\ EngineRoute(config, p).masked = hides
            /\ EngineRoute(config, p).payloads = IF hides THEN MaskedAll(config, p) ELSE p
<1>1. PICK m : m = Matched(config, Sensitive(config, p))
  OBVIOUS
<1>2. PICK r : r = EngineRoute(config, p)
  OBVIOUS
<1>3. Led(config, Picked(config, Sensitive(config, p)), m)
  BY <1>1, MatchedLeads DEF Sensitive
<1>4. m # <<>>
  <2>1. SUFFICES ASSUME m = <<>> PROVE FALSE
    OBVIOUS
  <2>2. r = [ok |-> FALSE]
    BY <2>1, <1>1, <1>2 DEF EngineRoute, Sensitive, MaskedAll
  <2> QED
    BY <2>2, <1>2
<1>5. PICK s : m = <<s>> /\ Leading(config, Picked(config, Sensitive(config, p)), s)
  BY <1>3, <1>4 DEF Led
<1>6. r = [ok |-> Credential(config, s.model).ok /\ s.model \in DOMAIN config.models /\ config.models[s.model].on,
           strategy |-> s, masked |-> Sensitive(config, p) /\ s.sanitize, credential |-> Credential(config, s.model).key,
           payloads |-> IF Sensitive(config, p) /\ s.sanitize THEN MaskedAll(config, p) ELSE p]
  BY <1>1, <1>2, <1>4, <1>5 DEF EngineRoute, Sensitive, MaskedAll
<1>7. /\ r.strategy = s /\ r.masked = (Sensitive(config, p) /\ s.sanitize)
      /\ r.credential = Credential(config, s.model).key
      /\ r.payloads = IF Sensitive(config, p) /\ s.sanitize THEN MaskedAll(config, p) ELSE p
  BY <1>6
<1>8. Credential(config, s.model).ok /\ s.model \in DOMAIN config.models /\ config.models[s.model].on
  <2>1. r.ok = (Credential(config, s.model).ok /\ s.model \in DOMAIN config.models /\ config.models[s.model].on)
    BY <1>6
  <2>2. r.ok
    BY <1>2
  <2> QED
    BY <2>1, <2>2, Zenon
<1>9. CASE config.keys[s.model] = "none"
  <2>1. Credential(config, s.model) = [ok |-> TRUE, key |-> "EMPTY"]
    BY <1>9 DEF Credential
  <2> QED
    BY <2>1, <1>2, <1>5, <1>7, <1>8, <1>9
<1>10. CASE config.keys[s.model] # "none"
  <2>1. Credential(config, s.model) = [ok |-> config.keys[s.model] # "corrupt", key |-> config.keys[s.model]]
    BY <1>8, <1>10 DEF Credential
  <2>2. Credential(config, s.model).ok = (config.keys[s.model] # "corrupt")
        /\ Credential(config, s.model).key = config.keys[s.model]
    BY <2>1
  <2>3. config.keys[s.model] # "corrupt"
    BY <2>2, <1>8, Zenon
  <2> QED
    BY <2>2, <2>3, <1>2, <1>5, <1>7, <1>8, <1>10
<1> QED
  BY <1>9, <1>10

LEMMA LetsGo ==
  ASSUME NEW config, NEW req, NEW out, out = RouteUnder(config, req), out # InfBlocked
  PROVE  LET route == RouteOf(config, req)
         IN /\ route.ok
            /\ ~HeaderOnly(req.body) => ~ParseFails(req.body)
            /\ out.config = config /\ out.strategy = route.strategy /\ out.masked = route.masked
            /\ out.format \in {"openai", "anthropic"} /\ out.result \in {"forward", "modified"}
            /\ out.mods = BuildModifications(req, out.format, route, config)
<1>1. PICK route : route = RouteOf(config, req)
  OBVIOUS
<1>2. PICK format : format = IF HeaderOnly(req.body) THEN "openai" ELSE DetectFormat(req.body, req.headers)
  OBVIOUS
<1>3. PICK mods : mods = BuildModifications(req, format, route, config)
  OBVIOUS
<1>4. ~(~HeaderOnly(req.body) /\ ParseFails(req.body))
  BY DEF RouteUnder
<1>5. out = IF ~route.ok THEN InfBlocked
            ELSE [result |-> IF mods = <<>> THEN "forward" ELSE "modified", mods |-> mods,
                  format |-> format, masked |-> route.masked, config |-> config, strategy |-> route.strategy]
  BY <1>1, <1>2, <1>3, <1>4 DEF RouteUnder, RouteOf, PayloadsOf
<1>6. route.ok
  BY <1>5
<1>7. /\ out.result = (IF mods = <<>> THEN "forward" ELSE "modified") /\ out.mods = mods
      /\ out.format = format /\ out.masked = route.masked /\ out.config = config /\ out.strategy = route.strategy
  BY <1>5, <1>6
<1>8. format \in {"openai", "anthropic"}
  BY <1>2 DEF DetectFormat
<1> QED
  BY <1>1, <1>3, <1>4, <1>6, <1>7, <1>8

(***************************************************************************)
(* What the modifications make of a request.                               *)
(***************************************************************************)
Shaped(r) == \E B, V : r \in [connect : BOOLEAN, body : B, headers : [InfKeys -> V]]

LEMMA HeaderIsSet ==
  ASSUME NEW r, Shaped(r), NEW mod, mod.target = "header", mod.key \in InfKeys
  PROVE  LET q == WithModification(r, mod)
         IN /\ Shaped(q) /\ q.body = r.body
            /\ \A k \in InfKeys : k # mod.key => q.headers[k] = r.headers[k]
            /\ q.headers[mod.key] =
                 IF LegalValue(mod.value) /\ (mod.action = "modify" \/ r.headers[mod.key] = "none")
                 THEN mod.value ELSE r.headers[mod.key]
<1>1. PICK q : q = WithModification(r, mod)
  OBVIOUS
<1>2. PICK key, value : key = mod.key /\ value = mod.value
  OBVIOUS
<1>3. PICK B, V : r \in [connect : BOOLEAN, body : B, headers : [InfKeys -> V]]
  BY DEF Shaped
<1>4. q = WithHeader(r, mod)
  BY <1>1 DEF WithModification
<1>5. CASE LegalValue(mod.value) /\ (mod.action = "modify" \/ r.headers[mod.key] = "none")
  <2>1. q = [r EXCEPT !.headers = [@ EXCEPT ![key] = value]]
    BY <1>2, <1>4, <1>5 DEF WithHeader
  <2>2. PICK h : h = [r.headers EXCEPT ![key] = value]
    OBVIOUS
  <2>3. r.headers \in [InfKeys -> V] /\ r.connect \in BOOLEAN /\ r.body \in B
    BY <1>3
  <2>4. h \in [InfKeys -> V \cup {value}] /\ h[key] = value /\ \A k \in InfKeys : k # key => h[k] = r.headers[k]
    BY <1>2, <2>2, <2>3
  <2>5. q = [r EXCEPT !.headers = h]
    BY <2>1, <2>2
  <2>6. q \in [connect : BOOLEAN, body : B, headers : [InfKeys -> V \cup {value}]]
    BY <1>3, <2>3, <2>4, <2>5
  <2>7. q.body = r.body /\ q.headers = h
    BY <1>3, <2>5
  <2> QED
    BY <2>4, <2>6, <2>7, <1>1, <1>2, <1>5 DEF Shaped
<1>6. CASE ~(LegalValue(mod.value) /\ (mod.action = "modify" \/ r.headers[mod.key] = "none"))
  <2>1. q = r
    BY <1>4, <1>6 DEF WithHeader
  <2> QED
    BY <2>1, <1>1, <1>6
<1> QED
  BY <1>5, <1>6

LEMMA BodyIsSet ==
  ASSUME NEW r, Shaped(r), NEW mod, mod.target = "body"
  PROVE  LET q == WithModification(r, mod)
         IN Shaped(q) /\ q.body = mod.body /\ q.headers = r.headers
<1>1. PICK q : q = WithModification(r, mod)
  OBVIOUS
<1>2. PICK b : b = mod.body
  OBVIOUS
<1>3. PICK B, V : r \in [connect : BOOLEAN, body : B, headers : [InfKeys -> V]]
  BY DEF Shaped
<1>4. q = [r EXCEPT !.body = b]
  BY <1>1, <1>2 DEF WithModification
<1>5. q \in [connect : BOOLEAN, body : B \cup {b}, headers : [InfKeys -> V]] /\ q.body = b /\ q.headers = r.headers
  BY <1>3, <1>4
<1> QED
  BY <1>1, <1>2, <1>5 DEF Shaped

\* The modifications are applied one after another.
Applying(r, mods, f) ==
  f = [k \in 0..Len(mods) |-> IF k = 0 THEN r ELSE WithModification(f[k - 1], mods[k])]

LEMMA AppliesAll ==
  ASSUME NEW r, NEW mods, Len(mods) \in 1..3
  PROVE  LET q == WithModification(r, mods[1])
             t == WithModification(q, mods[2])
         IN ApplyInferenceModifications(r, mods) =
              IF Len(mods) = 1 THEN q ELSE IF Len(mods) = 2 THEN t ELSE WithModification(t, mods[3])
<1>1. PICK n : n = Len(mods)
  OBVIOUS
<1>2. PICK q : q = WithModification(r, mods[1])
  OBVIOUS
<1>3. PICK t : t = WithModification(q, mods[2])
  OBVIOUS
<1>4. PICK u : u = WithModification(t, mods[3])
  OBVIOUS
<1> DEFINE g == [k \in 0..n |-> IF k = 0 THEN r ELSE IF k = 1 THEN q ELSE IF k = 2 THEN t ELSE u]
<1>5. \A k \in 0..n : g[k] = IF k = 0 THEN r ELSE WithModification(g[k - 1], mods[k])
  <2>1. n \in 1..3
    BY <1>1
  <2>2. ASSUME NEW k \in 0..n PROVE g[k] = IF k = 0 THEN r ELSE WithModification(g[k - 1], mods[k])
    <3>1. k = 0 \/ k = 1 \/ k = 2 \/ k = 3
      BY <2>1
    <3>2. CASE k = 0
      BY <3>2
    <3>3. CASE k = 1
      <4>1. g[k] = q /\ g[0] = r /\ k - 1 = 0
        BY <3>3, <2>1
      <4> QED
        BY <4>1, <3>3, <1>2
    <3>4. CASE k = 2
      <4>1. g[k] = t /\ g[1] = q /\ k - 1 = 1
        BY <3>4, <2>1
      <4> QED
        BY <4>1, <3>4, <1>3
    <3>5. CASE k = 3
      <4>1. g[k] = u /\ g[2] = t /\ k - 1 = 2
        BY <3>5, <2>1
      <4> QED
        BY <4>1, <3>5, <1>4
    <3> QED
      BY <3>1, <3>2, <3>3, <3>4, <3>5
  <2> QED
    BY <2>2
<1>6. Applying(r, mods, g)
  <2>1. g = [k \in 0..n |-> g[k]]
    OBVIOUS
  <2> HIDE DEF g
  <2> QED
    BY <2>1, <1>1, <1>5 DEF Applying
<1> DEFINE R == CHOOSE f : Applying(r, mods, f)
<1>7. Applying(r, mods, R)
  BY <1>6
<1>8. ApplyInferenceModifications(r, mods) = R[n]
  BY <1>1 DEF ApplyInferenceModifications, Applying
<1> HIDE DEF R, g
<1>9. n \in 1..3 /\ \A k \in 0..n : R[k] = IF k = 0 THEN r ELSE WithModification(R[k - 1], mods[k])
  BY <1>1, <1>7 DEF Applying
<1>10. R[0] = r
  BY <1>9
<1>11. R[1] = q
  <2>1. 1 \in 0..n /\ 1 - 1 = 0
    BY <1>9
  <2> QED
    BY <2>1, <1>2, <1>9, <1>10
<1>12. n >= 2 => R[2] = t
  <2>1. n >= 2 => 2 \in 0..n /\ 2 - 1 = 1
    BY <1>9
  <2> QED
    BY <2>1, <1>3, <1>9, <1>11
<1>13. n >= 3 => R[3] = u
  <2>1. n >= 3 => 3 \in 0..n /\ 3 - 1 = 2 /\ n >= 2
    BY <1>9
  <2> QED
    BY <2>1, <1>4, <1>9, <1>12
<1>14. n = 1 \/ n = 2 \/ n = 3
  BY <1>9
<1> QED
  BY <1>1, <1>2, <1>3, <1>4, <1>8, <1>11, <1>12, <1>13, <1>14

AuthHeader(format) == IF format = "anthropic" THEN "x-api-key" ELSE "authorization"
Rewrites(req, route) == ~HeaderOnly(req.body) /\ (route.masked \/ req.body.model # route.strategy.model)

LEMMA RowsJoin ==
  ASSUME NEW a, NEW b
  PROVE  LET s == (<<a>> \o <<b>>) \o <<>>
             t == (<<a>> \o <<>>) \o <<b>>
         IN /\ (<<a>> \o <<>>) \o <<>> = <<a>>
            /\ Len(s) = 2 /\ s[1] = a /\ s[2] = b
            /\ Len(t) = 2 /\ t[1] = a /\ t[2] = b
<1> DEFINE S == {a, b}
<1>1. PICK x, y : x = <<a>> /\ y = <<b>>
  OBVIOUS
<1>2. x \in Seq(S) /\ y \in Seq(S) /\ Len(x) = 1 /\ Len(y) = 1 /\ x[1] = a /\ y[1] = b
  BY <1>1
<1> HIDE DEF S
<1>3. x \o <<>> = x /\ (x \o y) \o <<>> = x \o y
  BY <1>2
<1>4. Len(x \o y) = 2 /\ (x \o y)[1] = a /\ (x \o y)[2] = b
  BY <1>2, ConcatProperties
<1> QED
  BY <1>1, <1>3, <1>4

Joined(a, b, c) == (<<a>> \o <<b>>) \o <<c>>

LEMMA ThreeJoin ==
  ASSUME NEW a, NEW b, NEW c
  PROVE  Len(Joined(a, b, c)) = 3 /\ Joined(a, b, c)[1] = a /\ Joined(a, b, c)[2] = b
         /\ Joined(a, b, c)[3] = c
<1> DEFINE S == {a, b, c}
<1>1. PICK x, y, z : x = <<a>> /\ y = <<b>> /\ z = <<c>>
  OBVIOUS
<1>2. /\ x \in Seq(S) /\ y \in Seq(S) /\ z \in Seq(S) /\ Len(x) = 1 /\ Len(y) = 1 /\ Len(z) = 1
      /\ x[1] = a /\ y[1] = b /\ z[1] = c
  BY <1>1
<1> HIDE DEF S
<1>3. PICK t : t = x \o y
  OBVIOUS
<1>4. t \in Seq(S)
  BY <1>2, <1>3, ConcatProperties
<1>5. Len(t) = 2 /\ t[1] = a /\ t[2] = b
  <2>1. Len(t) = Len(x) + Len(y)
    BY <1>2, <1>3, ConcatProperties
  <2>2. t[1] = x[1]
    BY <1>2, <1>3, ConcatProperties
  <2>3. t[2] = y[1]
    BY <1>2, <1>3, ConcatProperties
  <2> QED
    BY <2>1, <2>2, <2>3, <1>2
<1>6. PICK u : u = t \o z
  OBVIOUS
<1>7. Len(u) = 3
  BY <1>2, <1>4, <1>5, <1>6, ConcatProperties
<1>8. u[1] = t[1] /\ u[2] = t[2] /\ u[3] = z[1]
  BY <1>2, <1>4, <1>5, <1>6, ConcatProperties
<1>9. u = Joined(a, b, c)
  BY <1>1, <1>3, <1>6 DEF Joined
<1> QED
  BY <1>2, <1>5, <1>7, <1>8, <1>9

LEMMA SentIs ==
  ASSUME NEW req, Shaped(req), NEW route, NEW config, NEW format, format \in {"openai", "anthropic"}
  PROVE  LET q == ApplyInferenceModifications(req, BuildModifications(req, format, route, config))
             key == AuthHeader(format)
         IN /\ q.headers[key] = IF LegalValue(route.credential) THEN route.credential ELSE req.headers[key]
            /\ q.body = IF Rewrites(req, route) THEN BuildModifiedBody(req.body, route) ELSE req.body
<1>1. PICK key : key = AuthHeader(format)
  OBVIOUS
<1>2. PICK host : host = HostOfEndpoint(config.models[route.strategy.model].endpoint)
  OBVIOUS
<1>3. PICK body : body = BuildModifiedBody(req.body, route)
  OBVIOUS
<1> DEFINE a == [target |-> "header", key |-> key, value |-> route.credential,
                 action |-> IF req.headers[key] # "none" THEN "modify" ELSE "add"]
           h == [target |-> "header", key |-> "host", value |-> host,
                 action |-> IF req.headers["host"] # "none" THEN "modify" ELSE "add"]
           b == [target |-> "body", body |-> body]
           moves == host # "none" /\ host # req.headers["host"]
           mods == BuildModifications(req, format, route, config)
           made == <<a>> \o (IF moves THEN <<h>> ELSE <<>>) \o (IF Rewrites(req, route) THEN <<b>> ELSE <<>>)
<1>4. mods = made
  BY <1>1, <1>2, <1>3 DEF BuildModifications, SetHeader, AuthHeader, Rewrites
<1>5. a.target = "header" /\ a.key = key /\ a.value = route.credential
      /\ a.action = IF req.headers[key] # "none" THEN "modify" ELSE "add"
  OBVIOUS
<1>6. h.target = "header" /\ h.key = "host"
  OBVIOUS
<1>7. b.target = "body" /\ b.body = body
  OBVIOUS
<1>8. key \in InfKeys /\ "host" \in InfKeys /\ key # "host"
  BY <1>1 DEF AuthHeader, InfKeys
<1> HIDE DEF a, h, b
<1>9. PICK q : q = WithModification(req, a)
  OBVIOUS
<1>10. /\ Shaped(q) /\ q.body = req.body
       /\ q.headers[key] = IF LegalValue(route.credential) THEN route.credential ELSE req.headers[key]
  BY <1>5, <1>8, <1>9, HeaderIsSet
<1>11. CASE ~moves /\ ~Rewrites(req, route)
  <2>1. mods = <<a>>
    BY <1>4, <1>11, RowsJoin
  <2>2. Len(mods) = 1 /\ mods[1] = a
    BY <2>1
  <2>3. ApplyInferenceModifications(req, mods) = q
    BY <2>2, <1>9, AppliesAll
  <2> QED
    BY <2>3, <1>1, <1>10, <1>11
<1>12. CASE moves /\ ~Rewrites(req, route)
  <2>1. mods = (<<a>> \o <<h>>) \o <<>>
    BY <1>4, <1>12
  <2>2. Len(mods) = 2 /\ mods[1] = a /\ mods[2] = h
    BY <2>1, RowsJoin
  <2>3. PICK t : t = WithModification(q, h)
    OBVIOUS
  <2>4. ApplyInferenceModifications(req, mods) = t
    BY <2>2, <2>3, <1>9, AppliesAll
  <2>5. t.body = q.body /\ t.headers[key] = q.headers[key]
    BY <2>3, <1>6, <1>8, <1>10, HeaderIsSet
  <2> QED
    BY <2>4, <2>5, <1>1, <1>10, <1>12
<1>13. CASE ~moves /\ Rewrites(req, route)
  <2>1. mods = (<<a>> \o <<>>) \o <<b>>
    BY <1>4, <1>13
  <2>2. Len(mods) = 2 /\ mods[1] = a /\ mods[2] = b
    BY <2>1, RowsJoin
  <2>3. PICK t : t = WithModification(q, b)
    OBVIOUS
  <2>4. ApplyInferenceModifications(req, mods) = t
    BY <2>2, <2>3, <1>9, AppliesAll
  <2>5. t.body = body /\ t.headers = q.headers
    BY <2>3, <1>7, <1>10, BodyIsSet
  <2> QED
    BY <2>4, <2>5, <1>1, <1>3, <1>10, <1>13
<1>14. CASE moves /\ Rewrites(req, route)
  <2>1. mods = (<<a>> \o <<h>>) \o <<b>>
    BY <1>4, <1>14
  <2>2. Len(mods) = 3 /\ mods[1] = a /\ mods[2] = h /\ mods[3] = b
    <3>1. PICK x, y, z : x = a /\ y = h /\ z = b
      OBVIOUS
    <3>2. PICK u : u = Joined(x, y, z)
      OBVIOUS
    <3>3. Len(u) = 3 /\ u[1] = x /\ u[2] = y /\ u[3] = z
      BY <3>2, ThreeJoin
    <3>4. u = mods
      BY <3>1, <3>2, <2>1 DEF Joined
    <3> HIDE DEF mods, made
    <3> QED
      BY <3>1, <3>3, <3>4
  <2>3. PICK t : t = WithModification(q, h)
    OBVIOUS
  <2>4. PICK u : u = WithModification(t, b)
    OBVIOUS
  <2>5. ApplyInferenceModifications(req, mods) = u
    BY <2>2, <2>3, <2>4, <1>9, AppliesAll
  <2>6. Shaped(t) /\ t.headers[key] = q.headers[key]
    BY <2>3, <1>6, <1>8, <1>10, HeaderIsSet
  <2>7. u.body = body /\ u.headers = t.headers
    BY <2>4, <2>6, <1>7, BodyIsSet
  <2> QED
    BY <2>5, <2>6, <2>7, <1>1, <1>3, <1>10, <1>14
<1> QED
  BY <1>11, <1>12, <1>13, <1>14

(***************************************************************************)
(* The places of the texts of a body, and their numbers.                   *)
(***************************************************************************)
Before(P, x) == {y \in P : UpTo(y, x)}

LEMMA NthIsBefore ==
  ASSUME NEW P, NEW x
  PROVE  Nth(P, x) = Cardinality(Before(P, x))
BY DEF Nth, Before

LEMMA UpToIsTotal ==
  ASSUME NEW x \in Nat \X Nat, NEW y \in Nat \X Nat
  PROVE  /\ UpTo(x, x) /\ (UpTo(x, y) \/ UpTo(y, x))
         /\ UpTo(x, y) /\ UpTo(y, x) => x = y
         /\ \A z \in Nat \X Nat : UpTo(x, y) /\ UpTo(y, z) => UpTo(x, z)
<1>1. PICK a \in Nat, b \in Nat : x = <<a, b>>
  OBVIOUS
<1>2. PICK c \in Nat, d \in Nat : y = <<c, d>>
  OBVIOUS
<1>3. x[1] = a /\ x[2] = b /\ y[1] = c /\ y[2] = d
  BY <1>1, <1>2
<1>4. UpTo(x, x) /\ (UpTo(x, y) \/ UpTo(y, x))
  BY <1>3 DEF UpTo
<1>5. UpTo(x, y) /\ UpTo(y, x) => a = c /\ b = d
  BY <1>3 DEF UpTo
<1>6. ASSUME NEW z \in Nat \X Nat, UpTo(x, y), UpTo(y, z) PROVE UpTo(x, z)
  <2>1. PICK e \in Nat, f \in Nat : z[1] = e /\ z[2] = f
    OBVIOUS
  <2> QED
    BY <2>1, <1>3, <1>6 DEF UpTo
<1> QED
  BY <1>1, <1>2, <1>4, <1>5, <1>6

LEMMA NthIsPlacing ==
  ASSUME NEW P, IsFiniteSet(P), P \in SUBSET (Nat \X Nat)
  PROVE  /\ \A x \in P : Nth(P, x) \in 1..Cardinality(P)
         /\ \A x, y \in P : Nth(P, x) = Nth(P, y) => x = y
         /\ \A k \in 1..Cardinality(P) : \E x \in P : Nth(P, x) = k
<1>0. PICK n : n = Cardinality(P)
  OBVIOUS
<1>1. n \in Nat
  BY <1>0, FS_CardinalityType
<1>2. ASSUME NEW x \in P PROVE Nth(P, x) \in 1..n
  <2>1. PICK B : B = Before(P, x)
    OBVIOUS
  <2>2. x \in Nat \X Nat
    OBVIOUS
  <2>3. B \in SUBSET P /\ x \in B
    BY <2>1, <2>2, UpToIsTotal DEF Before
  <2>4. IsFiniteSet(B) /\ Cardinality(B) <= n
    BY <1>0, <2>3, FS_Subset
  <2>5. Cardinality(B) \in Nat /\ Cardinality(B) # 0
    BY <2>3, <2>4, FS_CardinalityType, FS_EmptySet
  <2> QED
    BY <1>1, <2>1, <2>4, <2>5, NthIsBefore
<1>3. ASSUME NEW x \in P, NEW y \in P, x # y, UpTo(x, y) PROVE Nth(P, x) < Nth(P, y)
  <2>1. PICK B : B = Before(P, x)
    OBVIOUS
  <2>2. PICK C : C = Before(P, y)
    OBVIOUS
  <2>3. x \in Nat \X Nat /\ y \in Nat \X Nat
    OBVIOUS
  <2>4. B \subseteq C
    <3>1. ASSUME NEW z \in B PROVE z \in C
      <4>1. z \in P /\ z \in Nat \X Nat /\ UpTo(z, x)
        BY <2>1 DEF Before
      <4>2. UpTo(z, y)
        BY <4>1, <2>3, <1>3, UpToIsTotal
      <4> QED
        BY <4>1, <4>2, <2>2 DEF Before
    <3> QED
      BY <3>1
  <2>5. ~UpTo(y, x)
    BY <2>3, <1>3, UpToIsTotal
  <2>6. y \in C /\ y \notin B
    BY <2>1, <2>2, <2>3, <2>5, UpToIsTotal DEF Before
  <2>7. C \in SUBSET P
    BY <2>2 DEF Before
  <2>8. IsFiniteSet(C)
    BY <2>7, FS_Subset
  <2>9. IsFiniteSet(B) /\ Cardinality(B) <= Cardinality(C) /\ Cardinality(B) # Cardinality(C)
    BY <2>4, <2>6, <2>8, FS_Subset
  <2>10. Cardinality(B) \in Nat /\ Cardinality(C) \in Nat
    BY <2>8, <2>9, FS_CardinalityType
  <2>11. Cardinality(B) < Cardinality(C)
    BY <2>9, <2>10
  <2> QED
    BY <2>1, <2>2, <2>11, NthIsBefore
<1>4. ASSUME NEW x \in P, NEW y \in P, Nth(P, x) = Nth(P, y) PROVE x = y
  <2>1. x \in Nat \X Nat /\ y \in Nat \X Nat
    OBVIOUS
  <2>2. UpTo(x, y) \/ UpTo(y, x)
    BY <2>1, UpToIsTotal
  <2>3. Nth(P, x) \in 1..n
    BY <1>2
  <2> QED
    BY <2>2, <2>3, <1>1, <1>3, <1>4
<1>5. ASSUME NEW k \in 1..n PROVE \E x \in P : Nth(P, x) = k
  <2>1. SUFFICES ASSUME \A x \in P : Nth(P, x) # k PROVE FALSE
    OBVIOUS
  <2> DEFINE f == [x \in P |-> Nth(P, x)]
  <2> DEFINE T == (1..n) \ {k}
  <2>2. f \in [P -> T]
    BY <2>1, <1>2
  <2>3. IsFiniteSet(1..n) /\ Cardinality(1..n) = n
    BY <1>1, FS_Interval
  <2>4. IsFiniteSet(T) /\ Cardinality(T) = n - 1
    BY <2>3, FS_RemoveElement
  <2>5. Cardinality(T) < Cardinality(P)
    BY <1>0, <1>1, <2>4
  <2>6. \A x, y \in P : f[x] = f[y] => x = y
    BY <1>4
  <2> HIDE DEF f, T
  <2> QED
    BY <2>2, <2>4, <2>5, <2>6, FS_PigeonHole
<1> QED
  BY <1>0, <1>2, <1>4, <1>5

MessageOf == [role : STRING, content : Contents]

LEMMA ContentEnds ==
  ASSUME NEW c \in Contents
  PROVE  \E m \in Nat : DOMAIN ContentParts(c) = 1..m
<1>1. CASE c.kind = "text"
  <2>1. DOMAIN ContentParts(c) = 1..1
    BY <1>1 DEF ContentParts
  <2> QED
    BY <2>1
<1>2. CASE c.kind = "blocks"
  <2>1. c.blocks \in Seq(TextBlocks)
    BY <1>2 DEF Contents
  <2>2. ContentParts(c) = c.blocks
    BY <1>2 DEF ContentParts
  <2>3. \E m \in Nat : DOMAIN c.blocks = 1..m
    BY <2>1
  <2> QED
    BY <2>2, <2>3
<1>3. CASE c.kind # "text" /\ c.kind # "blocks"
  <2>1. ContentParts(c) = <<>>
    BY <1>3 DEF ContentParts
  <2>2. DOMAIN ContentParts(c) = 1..0
    BY <2>1
  <2> QED
    BY <2>2
<1> QED
  BY <1>1, <1>2, <1>3

LEMMA MessagesEnd ==
  ASSUME NEW body \in Bodies
  PROVE  \E n \in Nat : DOMAIN body.messages = 1..n /\ \A i \in 1..n : body.messages[i] \in MessageOf
<1>1. body.messages \in Seq(MessageOf)
  BY DEF Bodies, MessageOf
<1> QED
  BY <1>1

PlacesIn(body, i) == {i} \X DOMAIN ContentParts(body.messages[i].content)

LEMMA PartsAreFinite ==
  ASSUME NEW body \in Bodies
  PROVE  IsFiniteSet(PartPlaces(body)) /\ PartPlaces(body) \in SUBSET (Nat \X Nat)
<1>1. PICK n \in Nat : DOMAIN body.messages = 1..n /\ \A i \in 1..n : body.messages[i] \in MessageOf
  BY MessagesEnd
<1>2. ASSUME NEW i \in 1..n PROVE IsFiniteSet(PlacesIn(body, i)) /\ PlacesIn(body, i) \in SUBSET (Nat \X Nat)
  <2>1. PICK c : c = body.messages[i].content
    OBVIOUS
  <2>2. c \in Contents
    BY <1>1, <2>1 DEF MessageOf
  <2>3. PICK m \in Nat : DOMAIN ContentParts(c) = 1..m
    BY <2>2, ContentEnds
  <2>4. IsFiniteSet({i}) /\ IsFiniteSet(1..m)
    <3>1. IsFiniteSet({i})
      BY FS_Singleton
    <3>2. IsFiniteSet(1..m)
      BY <2>3, FS_Interval
    <3> QED
      BY <3>1, <3>2
  <2>5. IsFiniteSet({i} \X (1..m))
    BY <2>4, FS_Product
  <2>6. PlacesIn(body, i) = {i} \X (1..m)
    BY <2>1, <2>3 DEF PlacesIn
  <2>7. {i} \X (1..m) \in SUBSET (Nat \X Nat)
    OBVIOUS
  <2> QED
    BY <2>5, <2>6, <2>7
<1> DEFINE f == [i \in 1..n |-> PlacesIn(body, i)]
           S == {f[i] : i \in 1..n}
<1>4. IsFiniteSet(S)
  <2>1. IsFiniteSet(1..n)
    BY FS_Interval
  <2>2. f \in [1..n -> S] /\ \A t \in S : \E i \in 1..n : f[i] = t
    OBVIOUS
  <2> HIDE DEF f, S
  <2>3. f \in Surjection(1..n, S)
    BY <2>2 DEF Surjection
  <2> QED
    BY <2>1, <2>3, FS_Surjection
<1>5. \A T \in S : IsFiniteSet(T) /\ T \in SUBSET (Nat \X Nat)
  BY <1>2
<1>6. IsFiniteSet(UNION S) /\ UNION S \in SUBSET (Nat \X Nat)
  <2> HIDE DEF S
  <2> QED
    BY <1>4, <1>5, FS_UNION
<1>7. PartPlaces(body) \in SUBSET (UNION S)
  <2>1. ASSUME NEW at \in PartPlaces(body) PROVE at \in UNION S
    <3>1. PICK i \in 1..n : at \in PlacesIn(body, i)
      BY <1>1 DEF PartPlaces, PlacesIn
    <3> QED
      BY <3>1
  <2> QED
    BY <2>1
<1> HIDE DEF S
<1>8. IsFiniteSet(PartPlaces(body))
  BY <1>6, <1>7, FS_Subset
<1> QED
  BY <1>6, <1>7, <1>8

LEMMA SegmentsAreFinite ==
  ASSUME NEW body \in Bodies
  PROVE  IsFiniteSet(SegmentPlaces(body)) /\ SegmentPlaces(body) \in SUBSET (Nat \X Nat)
<1>1. SegmentPlaces(body) \in SUBSET PartPlaces(body)
  BY DEF SegmentPlaces, TextPlaces
<1> QED
  BY <1>1, PartsAreFinite, FS_Subset

\* The payloads are the texts of the segments, each at the number of its place.
LEMMA PayloadsAreTexts ==
  ASSUME NEW body \in Bodies
  PROVE  LET P == SegmentPlaces(body)
             p == ParsePayloads(body)
         IN /\ Len(p) = Cardinality(P) /\ Len(p) \in Nat /\ DOMAIN p = 1..Len(p)
            /\ \A at \in P : Nth(P, at) \in DOMAIN p /\ p[Nth(P, at)] = PartAt(body, at).text
            /\ \A k \in DOMAIN p : \E at \in P : Nth(P, at) = k
<1>1. PICK P : P = SegmentPlaces(body)
  OBVIOUS
<1>2. PICK p : p = ParsePayloads(body)
  OBVIOUS
<1>3. PICK n : n = Cardinality(P)
  OBVIOUS
<1>4. IsFiniteSet(P) /\ P \in SUBSET (Nat \X Nat)
  BY <1>1, SegmentsAreFinite
<1>5. n \in Nat
  BY <1>3, <1>4, FS_CardinalityType
<1>6. p = [k \in 1..n |-> PartAt(body, CHOOSE at \in P : Nth(P, at) = k).text]
  BY <1>1, <1>2, <1>3 DEF ParsePayloads
<1>7. Len(p) = n /\ DOMAIN p = 1..n
  BY <1>5, <1>6
<1>8. ASSUME NEW at \in P PROVE Nth(P, at) \in 1..n /\ p[Nth(P, at)] = PartAt(body, at).text
  <2>1. PICK k : k = Nth(P, at)
    OBVIOUS
  <2>2. k \in 1..n
    BY <2>1, <1>3, <1>4, NthIsPlacing
  <2>3. PICK x : x = CHOOSE y \in P : Nth(P, y) = k
    OBVIOUS
  <2>4. x \in P /\ Nth(P, x) = k
    BY <2>1, <2>3
  <2>5. x = at
    BY <2>1, <2>4, <1>4, NthIsPlacing
  <2>6. p[k] = PartAt(body, x).text
    BY <2>2, <2>3, <1>6
  <2> QED
    BY <2>1, <2>2, <2>5, <2>6
<1>9. \A k \in 1..n : \E at \in P : Nth(P, at) = k
  BY <1>3, <1>4, NthIsPlacing
<1> QED
  BY <1>1, <1>2, <1>3, <1>5, <1>7, <1>8, <1>9

(***************************************************************************)
(* What the rewriting of a body makes of its messages.                     *)
(***************************************************************************)
Kept(config, hides, x) == IF hides THEN Masked(config, x) ELSE x
Payloads(config, hides, p) == IF hides THEN MaskedAll(config, p) ELSE p

LEMMA PartIsInPlace ==
  ASSUME NEW body \in Bodies, NEW i \in DOMAIN body.messages, IsUser(body.messages[i]),
         NEW j \in DOMAIN ContentParts(body.messages[i].content)
  PROVE  <<i, j>> \in PartPlaces(body)
         /\ PartAt(body, <<i, j>>) = ContentParts(body.messages[i].content)[j]
<1>1. PICK at : at = <<i, j>>
  OBVIOUS
<1>2. at[1] = i /\ at[2] = j
  BY <1>1
<1>3. at \in PlacesIn(body, i)
  BY <1>1 DEF PlacesIn
<1>4. at \in PartPlaces(body)
  BY <1>2, <1>3 DEF PartPlaces, PlacesIn
<1> QED
  BY <1>1, <1>2, <1>4 DEF PartAt

\* Each place of a text is a segment when every text block has a text.
LEMMA TextsAreSegments ==
  ASSUME NEW body \in Bodies, WellFormed(body)
  PROVE  TextPlaces(body) = SegmentPlaces(body)
<1>1. ASSUME NEW at \in TextPlaces(body) PROVE HasText(PartAt(body, at))
  <2>1. at \in PartPlaces(body) /\ IsText(PartAt(body, at))
    BY <1>1 DEF TextPlaces
  <2>2. PICK i \in DOMAIN body.messages : at \in PlacesIn(body, i)
    BY <2>1 DEF PartPlaces, PlacesIn
  <2>3. PICK m : m = body.messages[i]
    OBVIOUS
  <2>4. m \in MessageOf
    BY <2>2, <2>3, MessagesEnd
  <2>5. at[1] = i /\ at[2] \in DOMAIN ContentParts(m.content)
    BY <2>2, <2>3 DEF PlacesIn
  <2>6. PartAt(body, at) = ContentParts(m.content)[at[2]] /\ IsUser(m)
    BY <2>1, <2>3, <2>5 DEF PartAt, PartPlaces
  <2>7. PICK c : c = m.content
    OBVIOUS
  <2>8. c \in Contents
    BY <2>4, <2>7 DEF MessageOf
  <2>9. CASE c.kind = "text"
    <3>1. ContentParts(c) = <<[type |-> "text", text |-> c.text]>>
      BY <2>9 DEF ContentParts
    <3>2. at[2] = 1
      BY <3>1, <2>5, <2>7
    <3>3. PartAt(body, at).text = c.text
      BY <3>1, <3>2, <2>6, <2>7
    <3>4. c.text \in {"clean", "secret"}
      BY <2>8, <2>9 DEF Contents
    <3> QED
      BY <3>3, <3>4 DEF HasText
  <2>10. CASE c.kind = "blocks"
    <3>1. ContentParts(c) = c.blocks
      BY <2>10 DEF ContentParts
    <3>2. at \in Blocks(body)
      BY <2>2, <2>3, <2>7, <2>10, <3>1 DEF Blocks, BlockRows, PlacesIn
    <3>3. BlockAt(body, at) = PartAt(body, at)
      BY <3>1, <2>3, <2>5, <2>6, <2>7 DEF BlockAt
    <3> QED
      BY <3>2, <3>3, <2>1, <2>3, <2>5, <2>6 DEF WellFormed
  <2>11. CASE c.kind # "text" /\ c.kind # "blocks"
    <3>1. ContentParts(c) = <<>>
      BY <2>11 DEF ContentParts
    <3>2. DOMAIN ContentParts(c) = {}
      BY <3>1
    <3> QED
      BY <3>2, <2>5, <2>7
  <2> QED
    BY <2>9, <2>10, <2>11
<1> QED
  BY <1>1 DEF SegmentPlaces

LEMMA PartIsWritten ==
  ASSUME NEW body \in Bodies, WellFormed(body), NEW config, NEW hides \in BOOLEAN,
         NEW at \in PartPlaces(body)
  PROVE  LET part == PartAt(body, at)
             w == WrittenPart(body, at, Payloads(config, hides, ParsePayloads(body)))
         IN w = IF IsText(part) THEN [part EXCEPT !.text = Kept(config, hides, part.text)] ELSE part
<1>1. PICK part : part = PartAt(body, at)
  OBVIOUS
<1>2. PICK p : p = ParsePayloads(body)
  OBVIOUS
<1>3. PICK pay : pay = Payloads(config, hides, p)
  OBVIOUS
<1>4. PICK P : P = SegmentPlaces(body)
  OBVIOUS
<1>5. CASE IsText(part)
  <2>1. at \in P
    BY <1>1, <1>4, <1>5, TextsAreSegments DEF TextPlaces
  <2>2. HasText(part)
    BY <2>1, <1>1, <1>4 DEF SegmentPlaces
  <2>3. PICK k : k = Nth(P, at)
    OBVIOUS
  <2>4. Len(p) \in Nat /\ DOMAIN p = 1..Len(p) /\ k \in DOMAIN p /\ p[k] = part.text
    BY <2>1, <2>3, <1>1, <1>2, <1>4, PayloadsAreTexts
  <2>5. SlotOf(body, at) = k
    BY <2>3, <1>4, TextsAreSegments DEF SlotOf
  <2>6. Len(pay) = Len(p) /\ pay[k] = Kept(config, hides, part.text)
    <3>1. CASE hides
      <4>1. pay = MaskedAll(config, p)
        BY <3>1, <1>3 DEF Payloads
      <4>2. pay = [x \in 1..Len(p) |-> Masked(config, p[x])]
        BY <4>1, <2>4 DEF MaskedAll
      <4>3. Len(pay) = Len(p)
        BY <4>2, <2>4
      <4>4. pay[k] = Masked(config, p[k])
        BY <4>2, <2>4
      <4> QED
        BY <4>3, <4>4, <3>1, <2>4 DEF Kept
    <3>2. CASE ~hides
      BY <3>2, <1>3, <2>4 DEF Payloads, Kept
    <3> QED
      BY <3>1, <3>2
  <2>7. part.text # "missing"
    BY <2>2 DEF HasText
  <2>8. k <= Len(pay)
    BY <2>4, <2>6
  <2>9. WrittenPart(body, at, pay) = [part EXCEPT !.text = pay[k]]
    BY <2>5, <2>7, <2>8, <1>1, <1>5 DEF WrittenPart
  <2> QED
    BY <2>6, <2>9, <1>1, <1>2, <1>3, <1>5
<1>6. CASE ~IsText(part)
  <2>1. WrittenPart(body, at, pay) = part
    BY <1>1, <1>6 DEF WrittenPart
  <2> QED
    BY <2>1, <1>1, <1>2, <1>3, <1>6
<1> QED
  BY <1>5, <1>6

\* What goes out of a body: each text of the user masked or as it was, all else as it was.
ContentGoes(c, q, config, hides) ==
  /\ q.kind = c.kind
  /\ c.kind = "text" => q.text = Kept(config, hides, c.text)
  /\ c.kind = "blocks" =>
       /\ DOMAIN q.blocks = DOMAIN c.blocks
       /\ \A j \in DOMAIN c.blocks :
            /\ q.blocks[j].type = c.blocks[j].type
            /\ IF IsText(c.blocks[j]) THEN q.blocks[j].text = Kept(config, hides, c.blocks[j].text)
               ELSE q.blocks[j] = c.blocks[j]

MessageGoes(m, q, config, hides) ==
  IF IsUser(m) THEN IsUser(q) /\ ContentGoes(m.content, q.content, config, hides) ELSE q = m

BodyGoes(was, is, config, hides) ==
  /\ DOMAIN is.messages = DOMAIN was.messages
  /\ \A i \in DOMAIN was.messages : MessageGoes(was.messages[i], is.messages[i], config, hides)

LEMMA BodyStays ==
  ASSUME NEW body, NEW config
  PROVE  BodyGoes(body, body, config, FALSE)
<1>1. \A x : Kept(config, FALSE, x) = x
  BY DEF Kept
<1>2. \A c : ContentGoes(c, c, config, FALSE)
  BY <1>1 DEF ContentGoes
<1> QED
  BY <1>2 DEF BodyGoes, MessageGoes

LEMMA ContentIsWritten ==
  ASSUME NEW body \in Bodies, WellFormed(body), NEW config, NEW hides \in BOOLEAN,
         NEW i \in DOMAIN body.messages, IsUser(body.messages[i])
  PROVE  ContentGoes(body.messages[i].content,
                     WrittenContent(body, i, Payloads(config, hides, ParsePayloads(body))), config, hides)
<1>1. PICK pay : pay = Payloads(config, hides, ParsePayloads(body))
  OBVIOUS
<1>2. PICK c : c = body.messages[i].content
  OBVIOUS
<1>3. PICK q : q = WrittenContent(body, i, pay)
  OBVIOUS
<1>4. c \in Contents
  <2>1. body.messages[i] \in MessageOf
    BY MessagesEnd
  <2> QED
    BY <2>1, <1>2 DEF MessageOf
<1>5. ASSUME NEW j \in DOMAIN ContentParts(c)
      PROVE  WrittenPart(body, <<i, j>>, pay) =
               IF IsText(ContentParts(c)[j])
               THEN [ContentParts(c)[j] EXCEPT !.text = Kept(config, hides, ContentParts(c)[j].text)]
               ELSE ContentParts(c)[j]
  <2>1. PICK at : at = <<i, j>>
    OBVIOUS
  <2>2. PICK part : part = ContentParts(c)[j]
    OBVIOUS
  <2>3. at \in PartPlaces(body) /\ PartAt(body, at) = part
    BY <2>1, <2>2, <1>2, PartIsInPlace
  <2>4. WrittenPart(body, at, pay) = IF IsText(part) THEN [part EXCEPT !.text = Kept(config, hides, part.text)] ELSE part
    BY <2>3, <1>1, PartIsWritten
  <2> QED
    BY <2>1, <2>2, <2>4
<1>6. CASE c.kind = "text"
  <2>1. c \in [kind : {"text"}, text : {"clean", "secret"}]
    BY <1>4, <1>6 DEF Contents
  <2>2. PICK x : x = [type |-> "text", text |-> c.text]
    OBVIOUS
  <2>3. x.text = c.text /\ IsText(x)
    BY <2>2 DEF IsText
  <2>4. ContentParts(c) = <<x>>
    BY <2>2, <1>6 DEF ContentParts
  <2>5. 1 \in DOMAIN ContentParts(c) /\ ContentParts(c)[1] = x
    BY <2>4
  <2>6. WrittenPart(body, <<i, 1>>, pay) = [x EXCEPT !.text = Kept(config, hides, x.text)]
    BY <2>3, <2>5, <1>5
  <2>7. PICK w : w = WrittenPart(body, <<i, 1>>, pay).text
    OBVIOUS
  <2>8. w = Kept(config, hides, c.text)
    BY <2>2, <2>3, <2>6, <2>7
  <2>9. q = [c EXCEPT !.text = w]
    BY <2>7, <1>2, <1>3, <1>6 DEF WrittenContent
  <2>10. q.kind = c.kind /\ q.text = w
    BY <2>1, <2>9
  <2> QED
    BY <2>8, <2>10, <1>1, <1>2, <1>3, <1>6 DEF ContentGoes
<1>7. CASE c.kind = "blocks"
  <2>1. c \in [kind : {"blocks"}, blocks : Seq(TextBlocks)]
    BY <1>4, <1>7 DEF Contents
  <2>2. PICK m : m = Len(c.blocks)
    OBVIOUS
  <2>3. m \in Nat /\ DOMAIN c.blocks = 1..m /\ \A j \in 1..m : c.blocks[j] \in TextBlocks
    BY <2>1, <2>2
  <2>4. ContentParts(c) = c.blocks
    BY <1>7 DEF ContentParts
  <2>5. PICK b : b = [j \in DOMAIN c.blocks |-> WrittenPart(body, <<i, j>>, pay)]
    OBVIOUS
  <2>6. q = [c EXCEPT !.blocks = b]
    BY <2>5, <1>2, <1>3, <1>7 DEF WrittenContent
  <2>7. q.kind = c.kind /\ q.blocks = b
    BY <2>1, <2>6
  <2>8. DOMAIN b = DOMAIN c.blocks
    BY <2>5
  <2>9. ASSUME NEW j \in DOMAIN c.blocks
        PROVE  /\ b[j].type = c.blocks[j].type
               /\ IF IsText(c.blocks[j]) THEN b[j].text = Kept(config, hides, c.blocks[j].text)
                  ELSE b[j] = c.blocks[j]
    <3>1. PICK x : x = c.blocks[j]
      OBVIOUS
    <3>2. x \in TextBlocks
      BY <3>1, <2>3
    <3>3. b[j] = WrittenPart(body, <<i, j>>, pay)
      BY <2>5
    <3>4. WrittenPart(body, <<i, j>>, pay) = IF IsText(x) THEN [x EXCEPT !.text = Kept(config, hides, x.text)] ELSE x
      BY <3>1, <2>4, <1>5
    <3> QED
      BY <3>1, <3>2, <3>3, <3>4 DEF TextBlocks
  <2> QED
    BY <2>7, <2>8, <2>9, <1>1, <1>2, <1>3, <1>7 DEF ContentGoes
<1>8. CASE c.kind # "text" /\ c.kind # "blocks"
  <2>1. q = c
    BY <1>2, <1>3, <1>8 DEF WrittenContent
  <2> QED
    BY <2>1, <1>1, <1>2, <1>3, <1>8 DEF ContentGoes
<1> QED
  BY <1>6, <1>7, <1>8

LEMMA BodyIsWritten ==
  ASSUME NEW body \in Bodies, WellFormed(body), NEW config, NEW hides \in BOOLEAN, NEW route,
         route.payloads = Payloads(config, hides, ParsePayloads(body))
  PROVE  BodyGoes(body, BuildModifiedBody(body, route), config, hides)
<1>1. PICK q : q = BuildModifiedBody(body, route)
  OBVIOUS
<1>2. PICK n \in Nat : DOMAIN body.messages = 1..n /\ \A i \in 1..n : body.messages[i] \in MessageOf
  BY MessagesEnd
<1>3. PICK pay : pay = route.payloads
  OBVIOUS
<1> DEFINE Out(i) == IF IsUser(body.messages[i])
                     THEN [body.messages[i] EXCEPT !.content = WrittenContent(body, i, pay)]
                     ELSE body.messages[i]
<1>4. PICK ms : ms = [i \in DOMAIN body.messages |-> Out(i)]
  OBVIOUS
<1>5. PICK model : model = IF body.model = "number" THEN body.model ELSE route.strategy.model
  OBVIOUS
<1>6. q = [body EXCEPT !.model = model, !.messages = ms]
  BY <1>1, <1>3, <1>4, <1>5 DEF BuildModifiedBody
<1>7. q.messages = ms
  BY <1>6 DEF Bodies
<1>8. DOMAIN ms = DOMAIN body.messages
  BY <1>4
<1>9. ASSUME NEW i \in DOMAIN body.messages PROVE MessageGoes(body.messages[i], ms[i], config, hides)
  <2>1. ms[i] = Out(i)
    BY <1>4
  <2>2. PICK m : m = body.messages[i]
    OBVIOUS
  <2>3. m \in MessageOf
    BY <2>2, <1>2
  <2>4. CASE IsUser(m)
    <3>1. PICK w : w = WrittenContent(body, i, pay)
      OBVIOUS
    <3>2. ContentGoes(m.content, w, config, hides)
      BY <3>1, <2>2, <2>4, <1>3, ContentIsWritten
    <3>3. ms[i] = [m EXCEPT !.content = w]
      BY <3>1, <2>1, <2>2, <2>4
    <3>4. ms[i].role = m.role /\ ms[i].content = w
      BY <3>3, <2>3 DEF MessageOf
    <3> QED
      BY <3>2, <3>4, <2>2, <2>4 DEF MessageGoes, IsUser
  <2>5. CASE ~IsUser(m)
    BY <2>1, <2>2, <2>5 DEF MessageGoes
  <2> QED
    BY <2>4, <2>5
<1> QED
  BY <1>1, <1>7, <1>8, <1>9 DEF BodyGoes

(***************************************************************************)
(* The decision on a request, and what it sends on.                        *)
(***************************************************************************)
Hides(config, req, s) == Sensitive(config, PayloadsOf(req)) /\ s.sanitize

LEMMA ConfigsAreOrdered ==
  ASSUME NEW c \in InfConfigs
  PROVE  /\ Prioritised(c) /\ c.masks \in BOOLEAN
         /\ \A k \in DOMAIN c.strategies : c.strategies[k] \in Strategies
         /\ \A m \in DOMAIN c.models : c.models[m].type \in {"local", "cloud"}
<1>1. c.strategies \in Seq(Strategies) /\ c.masks \in BOOLEAN
      /\ \A m \in DOMAIN c.models : c.models[m].type \in {"local", "cloud"}
  BY InfAssumption
<1>2. PICK s : s = c.strategies
  OBVIOUS
<1>3. s \in Seq(Strategies)
  BY <1>1, <1>2
<1>4. Len(s) \in Nat /\ DOMAIN s = 1..Len(s) /\ \A k \in 1..Len(s) : s[k] \in Strategies
  BY <1>3
<1>5. \A k \in 1..Len(s) : s[k].prio \in Int
  BY <1>4 DEF Strategies
<1> QED
  BY <1>1, <1>2, <1>4, <1>5 DEF Prioritised

LEMMA DecidedBy ==
  ASSUME NEW c \in InfConfigs, NEW req \in Requests, NEW out, out = RouteUnder(c, req), out # InfBlocked
  PROVE  LET s == out.strategy
             route == RouteOf(c, req)
         IN /\ out.config = c /\ out.result \in {"forward", "modified"} /\ out.format \in {"openai", "anthropic"}
            /\ out.mods = BuildModifications(req, out.format, route, c)
            /\ route.strategy = s
            /\ Leading(c, Picked(c, Sensitive(c, PayloadsOf(req))), s)
            /\ s \in Strategies /\ s.on
            /\ s.model \in DOMAIN c.models /\ c.models[s.model].on /\ c.keys[s.model] # "corrupt"
            /\ route.credential = IF c.keys[s.model] = "none" THEN "EMPTY" ELSE c.keys[s.model]
            /\ route.masked = Hides(c, req, s)
            /\ route.payloads = Payloads(c, Hides(c, req, s), PayloadsOf(req))
<1>1. PICK route : route = RouteOf(c, req)
  OBVIOUS
<1>2. PICK p : p = PayloadsOf(req)
  OBVIOUS
<1>3. PICK s : s = out.strategy
  OBVIOUS
<1>4. Prioritised(c) /\ \A k \in DOMAIN c.strategies : c.strategies[k] \in Strategies
  BY ConfigsAreOrdered
<1>5. /\ route.ok /\ out.config = c /\ s = route.strategy
      /\ out.format \in {"openai", "anthropic"} /\ out.result \in {"forward", "modified"}
      /\ out.mods = BuildModifications(req, out.format, route, c)
  BY <1>1, <1>3, LetsGo
<1>6. route = EngineRoute(c, p) /\ EngineRoute(c, p).ok
  BY <1>1, <1>2, <1>5 DEF RouteOf
<1>7. /\ Leading(c, Picked(c, Sensitive(c, p)), s)
      /\ s.model \in DOMAIN c.models /\ c.models[s.model].on /\ c.keys[s.model] # "corrupt"
      /\ route.credential = IF c.keys[s.model] = "none" THEN "EMPTY" ELSE c.keys[s.model]
      /\ route.masked = (Sensitive(c, p) /\ s.sanitize)
      /\ route.payloads = IF Sensitive(c, p) /\ s.sanitize THEN MaskedAll(c, p) ELSE p
  BY <1>4, <1>5, <1>6, EngineRoutes
<1>8. route.masked = Hides(c, req, s)
  BY <1>2, <1>7, Zenon DEF Hides
<1>9. route.payloads = Payloads(c, Hides(c, req, s), p)
  BY <1>2, <1>7 DEF Hides, Payloads
<1>10. s \in Strategies /\ s.on
  <2>1. PICK k \in Picked(c, Sensitive(c, p)) : s = c.strategies[k]
    BY <1>7 DEF Leading
  <2>2. k \in DOMAIN c.strategies /\ \E type \in {"any", "cloud", "local"} : FitsFor(c, type, k)
    BY <2>1 DEF Picked, FitSet
  <2>3. c.strategies[k].on
    BY <2>2 DEF FitsFor
  <2> QED
    BY <2>1, <2>2, <2>3, <1>4
<1> QED
  BY <1>1, <1>2, <1>3, <1>5, <1>7, <1>8, <1>9, <1>10

LEMMA RequestsAreShaped ==
  ASSUME NEW req \in Requests
  PROVE  Shaped(req)
BY DEF Shaped, Requests

\* The body that goes on carries the texts of the one that came, masked when the strategy says so.
LEMMA BodyGoesOut ==
  ASSUME NEW c \in InfConfigs, NEW req \in Requests, NEW out, out = RouteUnder(c, req), out # InfBlocked,
         NEW q, q = ApplyInferenceModifications(req, out.mods),
         req.body.kind = "object", WellFormed(req.body)
  PROVE  BodyGoes(req.body, q.body, c, Hides(c, req, out.strategy))
<1>1. PICK route : route = RouteOf(c, req)
  OBVIOUS
<1>2. PICK hides : hides = Hides(c, req, out.strategy)
  OBVIOUS
<1>3. /\ out.mods = BuildModifications(req, out.format, route, c) /\ out.format \in {"openai", "anthropic"}
      /\ out.strategy \in Strategies
      /\ route.masked = hides /\ route.payloads = Payloads(c, hides, PayloadsOf(req))
  BY <1>1, <1>2, DecidedBy
<1>4. q.body = IF Rewrites(req, route) THEN BuildModifiedBody(req.body, route) ELSE req.body
  BY <1>3, RequestsAreShaped, SentIs
<1>5. req.body \in Bodies /\ ~HeaderOnly(req.body)
  BY DEF Requests, HeaderOnly
<1>6. PayloadsOf(req) = ParsePayloads(req.body)
  BY <1>5 DEF PayloadsOf
<1>7. hides \in BOOLEAN
  <2>1. out.strategy.sanitize \in BOOLEAN
    BY <1>3 DEF Strategies
  <2> QED
    BY <2>1, <1>2 DEF Hides
<1>8. CASE Rewrites(req, route)
  <2>1. BodyGoes(req.body, BuildModifiedBody(req.body, route), c, hides)
    BY <1>3, <1>5, <1>6, <1>7, BodyIsWritten
  <2> QED
    BY <2>1, <1>2, <1>4, <1>8
<1>9. CASE ~Rewrites(req, route)
  <2>1. ~route.masked
    BY <1>5, <1>9 DEF Rewrites
  <2>2. hides = FALSE
    BY <2>1, <1>3, <1>7
  <2>3. BodyGoes(req.body, req.body, c, FALSE)
    BY BodyStays
  <2> QED
    BY <2>2, <2>3, <1>2, <1>4, <1>9
<1> QED
  BY <1>8, <1>9

\* The credential that goes on is the one of the configuration.
LEMMA CredentialGoesOut ==
  ASSUME NEW c \in InfConfigs, NEW req \in Requests, NEW out, out = RouteUnder(c, req), out # InfBlocked,
         NEW q, q = ApplyInferenceModifications(req, out.mods)
  PROVE  LET ours == c.keys[out.strategy.model]
             key == AuthHeader(out.format)
         IN q.headers[key] = IF ours = "none" THEN "EMPTY" ELSE IF ours = "odd" THEN req.headers[key] ELSE ours
<1>1. PICK route : route = RouteOf(c, req)
  OBVIOUS
<1>2. PICK ours : ours = c.keys[out.strategy.model]
  OBVIOUS
<1>3. /\ out.mods = BuildModifications(req, out.format, route, c) /\ out.format \in {"openai", "anthropic"}
      /\ route.credential = IF ours = "none" THEN "EMPTY" ELSE ours
  BY <1>1, <1>2, DecidedBy
<1>4. PICK key : key = AuthHeader(out.format)
  OBVIOUS
<1>5. q.headers[key] = IF LegalValue(route.credential) THEN route.credential ELSE req.headers[key]
  BY <1>3, <1>4, RequestsAreShaped, SentIs
<1> QED
  BY <1>2, <1>3, <1>4, <1>5 DEF LegalValue

\* A payload is sensitive when the masker is on and one of its texts is secret.
LEMMA SensitiveIsSecret ==
  ASSUME NEW c, c.masks \in BOOLEAN, NEW p, NEW n \in Nat, DOMAIN p = 1..n, p = [k \in 1..n |-> p[k]]
  PROVE  Sensitive(c, p) = (c.masks /\ \E k \in DOMAIN p : p[k] = "secret")
<1>1. PICK m : m = MaskedAll(c, p)
  OBVIOUS
<1>2. m = [k \in 1..n |-> Masked(c, p[k])]
  BY <1>1 DEF MaskedAll
<1>3. Sensitive(c, p) = (m # p)
  BY <1>1 DEF Sensitive
<1>4. CASE c.masks /\ \E k \in 1..n : p[k] = "secret"
  <2>1. PICK k \in 1..n : p[k] = "secret"
    BY <1>4
  <2>2. m[k] = "masked"
    BY <2>1, <1>2, <1>4 DEF Masked
  <2>3. m # p
    BY <2>1, <2>2
  <2> QED
    BY <2>3, <1>3, <1>4
<1>5. CASE ~(c.masks /\ \E k \in 1..n : p[k] = "secret")
  <2>1. \A k \in 1..n : Masked(c, p[k]) = p[k]
    BY <1>5 DEF Masked
  <2>2. m = p
    BY <2>1, <1>2
  <2> QED
    BY <2>2, <1>3, <1>5
<1> QED
  BY <1>4, <1>5

LEMMA ParsedIsSensitive ==
  ASSUME NEW c \in InfConfigs, NEW body \in Bodies
  PROVE  LET p == ParsePayloads(body)
         IN Sensitive(c, p) = (c.masks /\ \E k \in DOMAIN p : p[k] = "secret")
<1>1. PICK p : p = ParsePayloads(body)
  OBVIOUS
<1>2. Len(p) \in Nat /\ DOMAIN p = 1..Len(p)
  BY <1>1, PayloadsAreTexts
<1>3. PICK n \in Nat : DOMAIN p = 1..n
  BY <1>2
<1>4. p = [k \in 1..n |-> p[k]]
  <2>1. PICK P : P = SegmentPlaces(body)
    OBVIOUS
  <2>2. p = [k \in 1..Cardinality(P) |-> PartAt(body, CHOOSE at \in P : Nth(P, at) = k).text]
    BY <2>1, <1>1 DEF ParsePayloads
  <2>3. p = [k \in DOMAIN p |-> p[k]]
    BY <2>2
  <2> QED
    BY <2>3, <1>3
<1>5. c.masks \in BOOLEAN
  BY ConfigsAreOrdered
<1> QED
  BY <1>1, <1>3, <1>4, <1>5, SensitiveIsSecret

LEMMA NoSecretIsKept ==
  ASSUME NEW c \in InfConfigs, c.masks, NEW body \in Bodies, WellFormed(body), NEW hides \in BOOLEAN,
         hides = Sensitive(c, ParsePayloads(body)), NEW at \in TextPlaces(body)
  PROVE  Kept(c, hides, PartAt(body, at).text) # "secret"
<1>1. PICK text : text = PartAt(body, at).text
  OBVIOUS
<1>2. PICK p : p = ParsePayloads(body)
  OBVIOUS
<1>3. at \in SegmentPlaces(body)
  BY TextsAreSegments
<1>4. PICK k : k = Nth(SegmentPlaces(body), at)
  OBVIOUS
<1>5. k \in DOMAIN p /\ p[k] = text
  BY <1>1, <1>2, <1>3, <1>4, PayloadsAreTexts
<1>6. hides = (c.masks /\ \E j \in DOMAIN p : p[j] = "secret")
  BY <1>2, ParsedIsSensitive
<1>7. CASE hides
  <2>1. Kept(c, hides, text) = Masked(c, text)
    BY <1>7 DEF Kept
  <2>2. Masked(c, text) # "secret"
    BY DEF Masked
  <2> QED
    BY <2>1, <2>2, <1>1
<1>8. CASE ~hides
  <2>1. ~\E j \in DOMAIN p : p[j] = "secret"
    BY <1>6, <1>8
  <2>2. text # "secret"
    BY <2>1, <1>5
  <2> QED
    BY <2>2, <1>1, <1>8 DEF Kept
<1> QED
  BY <1>7, <1>8

\* No text of the user is a secret.
Sanitized(is) ==
  /\ \A k \in UserMessages(is) : is.messages[k].content \notin [kind : {"text"}, text : {"secret"}]
  /\ \A at \in Blocks(is) :
       IsUser(is.messages[at[1]]) /\ IsText(BlockAt(is, at)) => BlockAt(is, at).text # "secret"

LEMMA SanitizedGoes ==
  ASSUME NEW c \in InfConfigs, c.masks, NEW was \in Bodies, WellFormed(was), NEW hides \in BOOLEAN,
         hides = Sensitive(c, ParsePayloads(was)), NEW is, BodyGoes(was, is, c, hides)
  PROVE  Sanitized(is)
<1>1. DOMAIN is.messages = DOMAIN was.messages
      /\ \A i \in DOMAIN was.messages : MessageGoes(was.messages[i], is.messages[i], c, hides)
  BY DEF BodyGoes
<1>2. ASSUME NEW i \in DOMAIN was.messages, IsUser(is.messages[i])
      PROVE  IsUser(was.messages[i]) /\ ContentGoes(was.messages[i].content, is.messages[i].content, c, hides)
  BY <1>1, <1>2 DEF MessageGoes
<1>3. ASSUME NEW i \in DOMAIN was.messages, IsUser(was.messages[i]),
             NEW j \in DOMAIN ContentParts(was.messages[i].content),
             IsText(ContentParts(was.messages[i].content)[j])
      PROVE  Kept(c, hides, ContentParts(was.messages[i].content)[j].text) # "secret"
  <2>1. PICK at : at = <<i, j>>
    OBVIOUS
  <2>2. at \in PartPlaces(was) /\ PartAt(was, at) = ContentParts(was.messages[i].content)[j]
    BY <2>1, <1>3, PartIsInPlace
  <2>3. at \in TextPlaces(was)
    BY <2>2, <1>3 DEF TextPlaces
  <2> QED
    BY <2>2, <2>3, NoSecretIsKept
<1>4. ASSUME NEW k \in UserMessages(is)
      PROVE  is.messages[k].content \notin [kind : {"text"}, text : {"secret"}]
  <2>1. SUFFICES ASSUME is.messages[k].content \in [kind : {"text"}, text : {"secret"}] PROVE FALSE
    OBVIOUS
  <2>2. k \in DOMAIN was.messages /\ IsUser(is.messages[k])
    BY <1>1 DEF UserMessages
  <2>3. PICK m : m = was.messages[k].content
    OBVIOUS
  <2>4. PICK q : q = is.messages[k].content
    OBVIOUS
  <2>5. q.kind = "text" /\ q.text = "secret"
    BY <2>1, <2>4
  <2>6. m.kind = "text" /\ q.text = Kept(c, hides, m.text)
    BY <2>2, <2>3, <2>4, <2>5, <1>2 DEF ContentGoes
  <2>7. PICK x : x = [type |-> "text", text |-> m.text]
    OBVIOUS
  <2>8. IsText(x) /\ x.text = m.text
    BY <2>7 DEF IsText
  <2>9. ContentParts(m) = <<x>>
    BY <2>6, <2>7 DEF ContentParts
  <2>10. 1 \in DOMAIN ContentParts(m) /\ ContentParts(m)[1] = x
    BY <2>9
  <2>11. Kept(c, hides, x.text) # "secret"
    BY <2>2, <2>3, <2>8, <2>10, <1>2, <1>3
  <2> QED
    BY <2>5, <2>6, <2>8, <2>11
<1>5. ASSUME NEW at \in Blocks(is), IsUser(is.messages[at[1]]), IsText(BlockAt(is, at))
      PROVE  BlockAt(is, at).text # "secret"
  <2>1. PICK i \in BlockRows(is) : at \in {i} \X DOMAIN is.messages[i].content.blocks
    BY <1>5 DEF Blocks
  <2>2. PICK j : j = at[2]
    OBVIOUS
  <2>3. at[1] = i /\ j \in DOMAIN is.messages[i].content.blocks
    BY <2>1, <2>2
  <2>4. i \in DOMAIN was.messages /\ is.messages[i].content.kind = "blocks" /\ IsUser(is.messages[i])
    BY <2>1, <2>3, <1>1, <1>5 DEF BlockRows
  <2>5. PICK m : m = was.messages[i].content
    OBVIOUS
  <2>6. PICK q : q = is.messages[i].content
    OBVIOUS
  <2>7. IsUser(was.messages[i]) /\ ContentGoes(m, q, c, hides)
    BY <2>4, <2>5, <2>6, <1>2
  <2>8. m.kind = "blocks"
    BY <2>4, <2>6, <2>7 DEF ContentGoes
  <2>9. ContentParts(m) = m.blocks
    BY <2>8 DEF ContentParts
  <2>10. BlockAt(is, at) = q.blocks[j]
    BY <2>2, <2>3, <2>6 DEF BlockAt
  <2>11. j \in DOMAIN m.blocks
    BY <2>3, <2>6, <2>7, <2>8 DEF ContentGoes
  <2>12. q.blocks[j].type = m.blocks[j].type
         /\ IF IsText(m.blocks[j]) THEN q.blocks[j].text = Kept(c, hides, m.blocks[j].text)
            ELSE q.blocks[j] = m.blocks[j]
    BY <2>7, <2>8, <2>11 DEF ContentGoes
  <2>13. IsText(m.blocks[j])
    BY <2>10, <2>12, <1>5 DEF IsText
  <2>14. Kept(c, hides, m.blocks[j].text) # "secret"
    BY <2>4, <2>5, <2>7, <2>9, <2>11, <2>13, <1>3
  <2> QED
    BY <2>10, <2>12, <2>13, <2>14
<1> QED
  BY <1>4, <1>5 DEF Sanitized

\* What was not masked is where it was.
Same(x, y) == y = x \/ (x = "secret" /\ y = "masked")
KeepsTheRest(was, is) ==
  /\ DOMAIN is.messages = DOMAIN was.messages /\ Blocks(is) = Blocks(was)
  /\ \A k \in DOMAIN was.messages :
       \/ is.messages[k] = was.messages[k]
       \/ IsUser(was.messages[k]) /\ was.messages[k].content.kind = is.messages[k].content.kind
  /\ \A k \in DOMAIN was.messages :
       was.messages[k].content.kind = "text" => Same(was.messages[k].content.text, is.messages[k].content.text)
  /\ \A at \in Blocks(was) :
       /\ BlockAt(is, at).type = BlockAt(was, at).type
       /\ IF IsText(BlockAt(was, at)) THEN Same(BlockAt(was, at).text, BlockAt(is, at).text)
          ELSE BlockAt(is, at) = BlockAt(was, at)

LEMMA RestIsKept ==
  ASSUME NEW c, NEW was, NEW hides \in BOOLEAN, NEW is, BodyGoes(was, is, c, hides)
  PROVE  KeepsTheRest(was, is)
<1>1. DOMAIN is.messages = DOMAIN was.messages
      /\ \A i \in DOMAIN was.messages : MessageGoes(was.messages[i], is.messages[i], c, hides)
  BY DEF BodyGoes
<1>2. \A x : Same(x, Kept(c, hides, x))
  BY DEF Same, Kept, Masked
<1>3. ASSUME NEW i \in DOMAIN was.messages
      PROVE  \/ is.messages[i] = was.messages[i]
             \/ IsUser(was.messages[i]) /\ ContentGoes(was.messages[i].content, is.messages[i].content, c, hides)
  BY <1>1 DEF MessageGoes
<1>4. \A i \in DOMAIN was.messages : is.messages[i].content.kind = was.messages[i].content.kind
  BY <1>3 DEF ContentGoes
<1>5. BlockRows(is) = BlockRows(was)
  BY <1>1, <1>4 DEF BlockRows
<1>6. \A i \in BlockRows(was) : DOMAIN is.messages[i].content.blocks = DOMAIN was.messages[i].content.blocks
  BY <1>3 DEF BlockRows, ContentGoes
<1>7. Blocks(is) = Blocks(was)
  BY <1>5, <1>6 DEF Blocks
<1>8. \A k \in DOMAIN was.messages :
        \/ is.messages[k] = was.messages[k]
        \/ IsUser(was.messages[k]) /\ was.messages[k].content.kind = is.messages[k].content.kind
  BY <1>3, <1>4
<1>9. \A k \in DOMAIN was.messages :
        was.messages[k].content.kind = "text" => Same(was.messages[k].content.text, is.messages[k].content.text)
  <2>1. \A x : Same(x, x)
    BY DEF Same
  <2> QED
    BY <2>1, <1>2, <1>3 DEF ContentGoes
<1>10. ASSUME NEW at \in Blocks(was)
       PROVE  /\ BlockAt(is, at).type = BlockAt(was, at).type
              /\ IF IsText(BlockAt(was, at)) THEN Same(BlockAt(was, at).text, BlockAt(is, at).text)
                 ELSE BlockAt(is, at) = BlockAt(was, at)
  <2>1. PICK i \in BlockRows(was) : at \in {i} \X DOMAIN was.messages[i].content.blocks
    BY <1>10 DEF Blocks
  <2>2. PICK j : j = at[2]
    OBVIOUS
  <2>3. PICK m : m = was.messages[i].content
    OBVIOUS
  <2>4. PICK q : q = is.messages[i].content
    OBVIOUS
  <2>5. at[1] = i /\ j \in DOMAIN m.blocks /\ m.kind = "blocks" /\ i \in DOMAIN was.messages
    BY <2>1, <2>2, <2>3 DEF BlockRows
  <2>6. BlockAt(was, at) = m.blocks[j] /\ BlockAt(is, at) = q.blocks[j]
    BY <2>2, <2>3, <2>4, <2>5 DEF BlockAt
  <2>7. CASE is.messages[i] = was.messages[i]
    <3>1. q = m
      BY <2>3, <2>4, <2>7
    <3> QED
      BY <3>1, <2>6 DEF Same
  <2>8. CASE ContentGoes(m, q, c, hides)
    <3>1. q.blocks[j].type = m.blocks[j].type
          /\ IF IsText(m.blocks[j]) THEN q.blocks[j].text = Kept(c, hides, m.blocks[j].text)
             ELSE q.blocks[j] = m.blocks[j]
      BY <2>5, <2>8 DEF ContentGoes
    <3> QED
      BY <3>1, <2>6, <1>2
  <2> QED
    BY <2>3, <2>4, <2>5, <2>7, <2>8, <1>3
<1> QED
  BY <1>1, <1>7, <1>8, <1>9, <1>10 DEF KeepsTheRest

(***************************************************************************)
(* The strategies among which the decision is, as the property counts them *)
(***************************************************************************)
Open(c, secret) ==
  {k \in DOMAIN c.strategies : c.strategies[k].on /\ (secret \/ c.strategies[k].model \in DOMAIN c.models)}
OpenCloud(c, secret) == {k \in Open(c, secret) : ~secret /\ c.models[c.strategies[k].model].type = "cloud"}

LEMMA OpenIsPicked ==
  ASSUME NEW c \in InfConfigs, NEW secret \in BOOLEAN
  PROVE  Picked(c, secret) = IF OpenCloud(c, secret) # {} THEN OpenCloud(c, secret) ELSE Open(c, secret)
<1>1. \A k \in DOMAIN c.strategies :
        c.strategies[k].model \in DOMAIN c.models => c.models[c.strategies[k].model].type \in {"local", "cloud"}
  BY ConfigsAreOrdered
<1>2. CASE secret
  <2>1. OpenCloud(c, secret) = {}
    BY <1>2 DEF OpenCloud
  <2>2. Open(c, secret) = FitSet(c, "any")
    BY <1>2 DEF Open, FitSet, FitsFor
  <2> QED
    BY <2>1, <2>2, <1>2 DEF Picked
<1>3. CASE ~secret
  <2>1. OpenCloud(c, secret) = FitSet(c, "cloud")
    <3>1. \A k \in DOMAIN c.strategies : FitsFor(c, "cloud", k) <=>
            c.strategies[k].on /\ c.strategies[k].model \in DOMAIN c.models
            /\ c.models[c.strategies[k].model].type = "cloud"
      BY DEF FitsFor
    <3> QED
      BY <3>1, <1>3 DEF OpenCloud, Open, FitSet
  <2>2. OpenCloud(c, secret) = {} => Open(c, secret) = FitSet(c, "local")
    <3>1. SUFFICES ASSUME OpenCloud(c, secret) = {} PROVE Open(c, secret) = FitSet(c, "local")
      OBVIOUS
    <3>2. \A k \in DOMAIN c.strategies : FitsFor(c, "local", k) <=>
            c.strategies[k].on /\ c.strategies[k].model \in DOMAIN c.models
            /\ c.models[c.strategies[k].model].type = "local"
      BY DEF FitsFor
    <3>3. \A k \in Open(c, secret) : k \in DOMAIN c.strategies /\ FitsFor(c, "local", k)
      BY <3>1, <3>2, <1>1, <1>3 DEF OpenCloud, Open
    <3>4. \A k \in FitSet(c, "local") : k \in Open(c, secret)
      BY <3>2 DEF FitSet, Open
    <3> QED
      BY <3>3, <3>4 DEF FitSet
  <2> QED
    BY <2>1, <2>2, <1>3 DEF Picked
<1> QED
  BY <1>2, <1>3

(***************************************************************************)
(* The invariant.  A CONNECT is decided with its body taken away.          *)
(***************************************************************************)
Bodyless(r) == [r EXCEPT !.body.kind = "empty"]

LEMMA BodylessIsRequest ==
  ASSUME NEW r \in Requests
  PROVE  Bodyless(r) \in Requests
<1>1. PICK b : b = [r.body EXCEPT !.kind = "empty"]
  OBVIOUS
<1>2. b \in Bodies
  <2>1. r.body \in Bodies
    BY DEF Requests
  <2> QED
    BY <2>1, <1>1 DEF Bodies
<1>3. Bodyless(r) = [r EXCEPT !.body = b]
  BY <1>1 DEF Bodyless
<1> QED
  BY <1>2, <1>3 DEF Requests

ReqInv ==
  IF infPhase = "rest" THEN infReq = <<>> ELSE \E r \in Requests : infReq = <<r>>
StateInv ==
  /\ infState \in {<<>>} \cup {<<c>> : c \in InfConfigs}
  /\ infInstalled \in 0..InfInstalls
  /\ infState # <<>> => infInstalled > 0
\* What was decided is what a configuration that was once installed says of this very request.
Decided(out) ==
  out = InfBlocked \/ (infInstalled > 0 /\ \E c \in InfConfigs : out = RouteUnder(c, infReq[1]))
OutInv ==
  /\ infPhase = "apply" => infOut # <<>>
  /\ infOut # <<>> => infPhase \in {"apply", "done"} /\ \E out : infOut = <<out>> /\ Decided(out)
SentInv ==
  infSent # <<>> =>
    /\ infPhase = "done" /\ infOut # <<>> /\ infOut[1].result # "block"
    /\ infSent = <<IF infReq[1].connect THEN infReq[1]
                   ELSE ApplyInferenceModifications(infReq[1], infOut[1].mods)>>

InfInv ==
  /\ infPhase \in {"rest", "collect", "route", "apply", "done"}
  /\ ReqInv /\ StateInv /\ OutInv /\ SentInv

LEMMA InfStart == InfInit => InfInv
<1>1. InfInstalls \in Nat
  BY InfAssumption
<1> QED
  BY <1>1 DEF InfInit, InfInv, ReqInv, StateInv, OutInv, SentInv

LEMMA InfStep == InfInv /\ [InferenceNext]_infVars => InfInv'
<1>0. SUFFICES ASSUME InfInv, [InferenceNext]_infVars PROVE InfInv'
  OBVIOUS
<1>a. InfInstalls \in Nat /\ InfRequests \subseteq Requests
  BY InfAssumption
<1>1. CASE InfInstall
  <2>1. infInstalled' = infInstalled + 1 /\ infInstalled' \in 0..InfInstalls /\ infInstalled' > 0
    BY <1>0, <1>1, <1>a DEF InfInv, StateInv, InfInstall
  <2>2. infState' \in {<<>>} \cup {<<c>> : c \in InfConfigs}
    BY <1>0, <1>1 DEF InfInv, StateInv, InfInstall
  <2>3. StateInv'
    BY <2>1, <2>2 DEF StateInv
  <2>4. UNCHANGED <<infReq, infPhase, infOut, infSent>>
    BY <1>1 DEF InfInstall
  <2>5. ReqInv' /\ SentInv' /\ (infPhase \in {"rest", "collect", "route", "apply", "done"})'
    BY <2>4, <1>0 DEF InfInv, ReqInv, SentInv
  <2>6. \A out : Decided(out) => Decided(out)'
    BY <2>1, <2>4 DEF Decided
  <2>7. OutInv'
    BY <2>4, <2>6, <1>0 DEF InfInv, OutInv
  <2> QED
    BY <2>3, <2>5, <2>7 DEF InfInv
<1>2. CASE HandleInference
  <2>1. PICK r \in InfRequests : infReq' = <<IF r.connect THEN [r EXCEPT !.body.kind = "empty"] ELSE r>>
                                 /\ infPhase' = IF r.connect THEN "route" ELSE "collect"
    BY <1>2 DEF HandleInference
  <2>2. PICK q : q = IF r.connect THEN Bodyless(r) ELSE r
    OBVIOUS
  <2>3. q \in Requests
    BY <2>2, <1>a, BodylessIsRequest
  <2>4. infReq' = <<q>>
    BY <2>1, <2>2 DEF Bodyless
  <2>5. infPhase' \in {"collect", "route"}
    BY <2>1
  <2>6. ReqInv'
    BY <2>3, <2>4, <2>5 DEF ReqInv
  <2>7. infPhase = "rest" /\ UNCHANGED <<infState, infInstalled, infOut, infSent>>
    BY <1>2 DEF HandleInference
  <2>8. infOut = <<>> /\ infSent = <<>>
    BY <2>7, <1>0 DEF InfInv, OutInv, SentInv
  <2>9. StateInv' /\ OutInv' /\ SentInv'
    BY <2>5, <2>7, <2>8, <1>0 DEF InfInv, StateInv, OutInv, SentInv
  <2> QED
    BY <2>5, <2>6, <2>9 DEF InfInv
<1>3. CASE CollectBody
  <2>1. infPhase = "collect" /\ infPhase' \in {"route", "done"}
        /\ UNCHANGED <<infState, infInstalled, infReq, infOut, infSent>>
    BY <1>3 DEF CollectBody
  <2>2. infOut = <<>> /\ infSent = <<>>
    BY <2>1, <1>0 DEF InfInv, OutInv, SentInv
  <2>3. ReqInv' /\ StateInv'
    BY <2>1, <1>0 DEF InfInv, ReqInv, StateInv
  <2>4. OutInv' /\ SentInv'
    BY <2>1, <2>2 DEF OutInv, SentInv
  <2> QED
    BY <2>1, <2>3, <2>4 DEF InfInv
<1>4. CASE RouteRequest
  <2>1. infPhase = "route" /\ infPhase' = "apply" /\ UNCHANGED <<infState, infInstalled, infReq, infSent>>
    BY <1>4 DEF RouteRequest
  <2>2. infSent = <<>>
    BY <2>1, <1>0 DEF InfInv, SentInv
  <2>3. PICK out : infOut' = <<out>> /\ (out = RouteInner(infReq[1]) \/ out = InfBlocked)
    BY <1>4 DEF RouteRequest
  <2>4. Decided(out)
    <3>1. CASE out = InfBlocked
      BY <3>1 DEF Decided
    <3>2. CASE out = RouteInner(infReq[1]) /\ infState # <<>>
      <4>1. PICK c \in InfConfigs : infState = <<c>>
        BY <3>2, <1>0 DEF InfInv, StateInv
      <4>2. out = RouteUnder(c, infReq[1])
        BY <4>1, <3>2 DEF RouteInner
      <4>3. infInstalled > 0
        BY <3>2, <1>0 DEF InfInv, StateInv
      <4> QED
        BY <4>2, <4>3 DEF Decided
    <3>3. CASE out = RouteInner(infReq[1]) /\ infState = <<>>
      BY <3>3 DEF Decided, RouteInner
    <3> QED
      BY <3>1, <3>2, <3>3, <2>3
  <2>5. Decided(out)'
    BY <2>1, <2>4 DEF Decided
  <2>6. OutInv' /\ SentInv'
    BY <2>1, <2>2, <2>3, <2>5 DEF OutInv, SentInv
  <2>7. ReqInv' /\ StateInv'
    BY <2>1, <1>0 DEF InfInv, ReqInv, StateInv
  <2> QED
    BY <2>1, <2>6, <2>7 DEF InfInv
<1>5. CASE ApplyDecision
  <2>1. infPhase = "apply" /\ infPhase' = "done" /\ UNCHANGED <<infState, infInstalled, infReq, infOut>>
    BY <1>5 DEF ApplyDecision
  <2>2. infSent' = IF infOut[1].result = "block" THEN <<>>
                   ELSE <<IF infReq[1].connect THEN infReq[1]
                          ELSE ApplyInferenceModifications(infReq[1], infOut[1].mods)>>
    BY <1>5 DEF ApplyDecision
  <2>3. infOut # <<>>
    BY <2>1, <1>0 DEF InfInv, OutInv
  <2>4. SentInv'
    BY <2>1, <2>2, <2>3 DEF SentInv
  <2>5. \A out : Decided(out) => Decided(out)'
    BY <2>1 DEF Decided
  <2>6. OutInv'
    BY <2>1, <2>5, <1>0 DEF InfInv, OutInv
  <2>7. ReqInv' /\ StateInv'
    BY <2>1, <1>0 DEF InfInv, ReqInv, StateInv
  <2> QED
    BY <2>1, <2>4, <2>6, <2>7 DEF InfInv
<1>6. CASE UNCHANGED infVars
  <2>1. \A out : Decided(out) => Decided(out)'
    BY <1>6 DEF Decided, infVars
  <2>2. OutInv'
    BY <2>1, <1>0, <1>6 DEF InfInv, OutInv, infVars
  <2> QED
    BY <2>2, <1>0, <1>6 DEF InfInv, ReqInv, StateInv, SentInv, infVars
<1> QED
  BY <1>0, <1>1, <1>2, <1>3, <1>4, <1>5, <1>6 DEF InferenceNext

(***************************************************************************)
(* What the invariant says of a decision that lets a request go.           *)
(***************************************************************************)
LEMMA DecisionIsOne ==
  ASSUME InfInv, infOut # <<>>, infOut[1].result # "block"
  PROVE  /\ infInstalled > 0 /\ infReq[1] \in Requests /\ infReq = <<infReq[1]>>
         /\ infOut[1] # InfBlocked /\ \E c \in InfConfigs : infOut[1] = RouteUnder(c, infReq[1])
<1>1. PICK out : infOut = <<out>> /\ Decided(out)
  BY DEF InfInv, OutInv
<1>2. infOut[1] = out
  BY <1>1
<1>3. out # InfBlocked
  BY <1>2 DEF InfBlocked
<1>4. infPhase # "rest"
  BY DEF InfInv, OutInv
<1>5. PICK r \in Requests : infReq = <<r>>
  BY <1>4 DEF InfInv, ReqInv
<1>6. infReq[1] = r
  BY <1>5
<1> QED
  BY <1>1, <1>2, <1>3, <1>5, <1>6 DEF Decided

LEMMA TypesHold == InfInv => InfTypeOK
<1>0. SUFFICES ASSUME InfInv PROVE InfTypeOK
  OBVIOUS
<1>1. Len(infReq) <= 1
  <2>1. CASE infReq = <<>>
    BY <2>1
  <2>2. CASE infReq # <<>>
    <3>1. PICK r \in Requests : infReq = <<r>>
      BY <2>2, <1>0 DEF InfInv, ReqInv
    <3> QED
      BY <3>1
  <2> QED
    BY <2>1, <2>2
<1>2. Len(infOut) <= 1
  <2>1. CASE infOut = <<>>
    BY <2>1
  <2>2. CASE infOut # <<>>
    <3>1. PICK out : infOut = <<out>>
      BY <2>2, <1>0 DEF InfInv, OutInv
    <3> QED
      BY <3>1
  <2> QED
    BY <2>1, <2>2
<1>3. Len(infSent) <= 1
  <2>1. CASE infSent = <<>>
    BY <2>1
  <2>2. CASE infSent # <<>>
    <3>1. PICK r : infSent = <<r>>
      BY <2>2, <1>0 DEF InfInv, SentInv
    <3> QED
      BY <3>1
  <2> QED
    BY <2>1, <2>2
<1>4. infPhase = "apply" => infOut # <<>> /\ infOut[1].result \in {"forward", "modified", "block"}
  <2>1. SUFFICES ASSUME infPhase = "apply", infOut[1].result # "block"
                 PROVE  infOut # <<>> /\ infOut[1].result \in {"forward", "modified"}
    BY <1>0 DEF InfInv, OutInv
  <2>2. infOut # <<>>
    BY <1>0, <2>1 DEF InfInv, OutInv
  <2>3. infReq[1] \in Requests /\ infOut[1] # InfBlocked
        /\ \E c \in InfConfigs : infOut[1] = RouteUnder(c, infReq[1])
    BY <1>0, <2>1, <2>2, DecisionIsOne
  <2> QED
    BY <2>2, <2>3, DecidedBy
<1> QED
  BY <1>0, <1>1, <1>2, <1>3, <1>4 DEF InfTypeOK, InfInv, ReqInv, StateInv

\* What went on is the request as the decision changed it.
LEMMA WhatWent ==
  ASSUME InfInv, infSent # <<>>
  PROVE  /\ infOut # <<>> /\ infOut[1].result # "block"
         /\ infSent[1] = IF infReq[1].connect THEN infReq[1]
                         ELSE ApplyInferenceModifications(infReq[1], infOut[1].mods)
<1>1. /\ infOut # <<>> /\ infOut[1].result # "block"
      /\ infSent = <<IF infReq[1].connect THEN infReq[1]
                     ELSE ApplyInferenceModifications(infReq[1], infOut[1].mods)>>
  BY DEF InfInv, SentInv
<1> QED
  BY <1>1

LEMMA ClosedHolds == InfInv => FailClosed
<1>0. SUFFICES ASSUME InfInv, infSent # <<>> PROVE FailClosed
  BY DEF FailClosed
<1>1. infOut # <<>> /\ infOut[1].result # "block"
  BY <1>0, WhatWent
<1>2. PICK req, out : req = infReq[1] /\ out = infOut[1]
  OBVIOUS
<1>3. /\ infInstalled > 0 /\ req \in Requests /\ out # InfBlocked
      /\ \E c \in InfConfigs : out = RouteUnder(c, req)
  BY <1>0, <1>1, <1>2, DecisionIsOne
<1>4. PICK c \in InfConfigs : out = RouteUnder(c, req)
  BY <1>3
<1>5. /\ out.config = c /\ out.strategy.on /\ out.strategy.model \in DOMAIN c.models
      /\ c.models[out.strategy.model].on /\ c.keys[out.strategy.model] # "corrupt"
  BY <1>3, <1>4, DecidedBy
<1> QED
  BY <1>1, <1>2, <1>3, <1>5 DEF FailClosed

LEMMA AuthHolds == InfInv => AuthIsOurs
<1>0. SUFFICES ASSUME InfInv, Went PROVE AuthIsOurs
  BY DEF AuthIsOurs
<1>1. infSent # <<>> /\ ~infReq[1].connect
  BY <1>0 DEF Went
<1>2. PICK req, out, q : req = infReq[1] /\ out = infOut[1] /\ q = infSent[1]
  OBVIOUS
<1>3. infOut # <<>> /\ out.result # "block" /\ q = ApplyInferenceModifications(req, out.mods)
  BY <1>0, <1>1, <1>2, WhatWent
<1>4. req \in Requests /\ out # InfBlocked /\ \E c \in InfConfigs : out = RouteUnder(c, req)
  BY <1>0, <1>2, <1>3, DecisionIsOne
<1>5. PICK c \in InfConfigs : out = RouteUnder(c, req)
  BY <1>4
<1>6. out.config = c
  BY <1>4, <1>5, DecidedBy
<1>7. PICK key, ours : key = AuthHeader(out.format) /\ ours = c.keys[out.strategy.model]
  OBVIOUS
<1>8. q.headers[key] = IF ours = "none" THEN "EMPTY" ELSE IF ours = "odd" THEN req.headers[key] ELSE ours
  BY <1>3, <1>4, <1>5, <1>7, CredentialGoesOut
<1> QED
  BY <1>2, <1>6, <1>7, <1>8 DEF AuthIsOurs, AuthHeader

\* The property, of a configuration, a strategy and whether there is a secret.
Secret(c, body) == c.masks /\ \E k \in DOMAIN ParsePayloads(body) : ParsePayloads(body)[k] = "secret"
Foremost(c, s, secret) ==
  LET all == c.strategies
      type(k) == c.models[all[k].model].type
      open == {k \in DOMAIN all : all[k].on /\ (secret \/ all[k].model \in DOMAIN c.models)}
      cloud == {k \in open : ~secret /\ type(k) = "cloud"}
      fits == IF cloud # {} THEN cloud ELSE open
  IN \E k \in fits :
       /\ all[k] = s
       /\ \A j \in fits : all[k].prio < all[j].prio \/ (all[k].prio = all[j].prio /\ k <= j)

LEMMA PickHolds == InfInv => PicksLeastPriority
<1>0. SUFFICES ASSUME InfInv, infOut # <<>>, infOut[1].result # "block", infReq[1].body.kind = "object"
               PROVE  Foremost(infOut[1].config, infOut[1].strategy, Secret(infOut[1].config, infReq[1].body))
  BY DEF PicksLeastPriority, Foremost, Secret
<1>1. PICK req, out : req = infReq[1] /\ out = infOut[1]
  OBVIOUS
<1>2. req \in Requests /\ out # InfBlocked /\ \E c \in InfConfigs : out = RouteUnder(c, req)
  BY <1>0, <1>1, DecisionIsOne
<1>3. PICK c \in InfConfigs : out = RouteUnder(c, req)
  BY <1>2
<1>4. PICK p : p = ParsePayloads(req.body)
  OBVIOUS
<1>5. req.body \in Bodies /\ PayloadsOf(req) = p
  BY <1>0, <1>1, <1>2, <1>4 DEF Requests, PayloadsOf, HeaderOnly
<1>6. out.config = c /\ Leading(c, Picked(c, Sensitive(c, p)), out.strategy)
  BY <1>2, <1>3, <1>5, DecidedBy
<1>7. PICK secret : secret = Secret(c, req.body)
  OBVIOUS
<1>8. secret \in BOOLEAN /\ Sensitive(c, p) = secret
  <2>1. Sensitive(c, p) = (c.masks /\ \E k \in DOMAIN p : p[k] = "secret")
    BY <1>4, <1>5, ParsedIsSensitive
  <2>2. c.masks \in BOOLEAN
    BY ConfigsAreOrdered
  <2>3. secret = (c.masks /\ \E k \in DOMAIN p : p[k] = "secret")
    BY <1>4, <1>7 DEF Secret
  <2> QED
    BY <2>1, <2>2, <2>3
<1>9. PICK fits : fits = IF OpenCloud(c, secret) # {} THEN OpenCloud(c, secret) ELSE Open(c, secret)
  OBVIOUS
<1>10. Picked(c, Sensitive(c, p)) = fits
  BY <1>8, <1>9, OpenIsPicked
<1>11. \E k \in fits :
         /\ c.strategies[k] = out.strategy
         /\ \A j \in fits : \/ c.strategies[k].prio < c.strategies[j].prio
                            \/ c.strategies[k].prio = c.strategies[j].prio /\ k <= j
  BY <1>6, <1>10 DEF Leading
<1> QED
  <2>1. Foremost(c, out.strategy, secret)
    BY <1>9, <1>11 DEF Foremost, Open, OpenCloud
  <2> QED
    BY <2>1, <1>1, <1>6, <1>7

\* A body with the structure the library reads goes on as the decision rewrites it.
LEMMA BodyWent ==
  ASSUME InfInv, Went, infReq[1].body.kind = "object", WellFormed(infReq[1].body)
  PROVE  \E c \in InfConfigs, hides \in BOOLEAN :
           /\ infOut[1].config = c /\ infReq[1].body \in Bodies
           /\ infOut[1].strategy.sanitize => hides = Sensitive(c, ParsePayloads(infReq[1].body))
           /\ BodyGoes(infReq[1].body, infSent[1].body, c, hides)
<1>1. infSent # <<>> /\ ~infReq[1].connect
  BY DEF Went
<1>2. PICK req, out, q : req = infReq[1] /\ out = infOut[1] /\ q = infSent[1]
  OBVIOUS
<1>3. infOut # <<>> /\ out.result # "block" /\ q = ApplyInferenceModifications(req, out.mods)
  BY <1>1, <1>2, WhatWent
<1>4. req \in Requests /\ out # InfBlocked /\ \E c \in InfConfigs : out = RouteUnder(c, req)
  BY <1>2, <1>3, DecisionIsOne
<1>5. PICK c \in InfConfigs : out = RouteUnder(c, req)
  BY <1>4
<1>6. out.config = c /\ out.strategy \in Strategies
  BY <1>4, <1>5, DecidedBy
<1>7. req.body.kind = "object" /\ WellFormed(req.body)
  BY <1>2
<1>8. req.body \in Bodies /\ PayloadsOf(req) = ParsePayloads(req.body)
  BY <1>4, <1>7 DEF Requests, PayloadsOf, HeaderOnly
<1>9. PICK hides : hides = Hides(c, req, out.strategy)
  OBVIOUS
<1>10. hides \in BOOLEAN
  <2>1. out.strategy.sanitize \in BOOLEAN
    BY <1>6 DEF Strategies
  <2> QED
    BY <2>1, <1>9 DEF Hides
<1>11. out.strategy.sanitize => hides = Sensitive(c, ParsePayloads(req.body))
  <2>1. SUFFICES ASSUME out.strategy.sanitize = TRUE PROVE hides = Sensitive(c, ParsePayloads(req.body))
    BY <1>6 DEF Strategies
  <2>2. Sensitive(c, ParsePayloads(req.body)) \in BOOLEAN
    BY DEF Sensitive
  <2>3. hides = (Sensitive(c, ParsePayloads(req.body)) /\ out.strategy.sanitize)
    BY <1>8, <1>9 DEF Hides
  <2> QED
    BY <2>1, <2>2, <2>3
<1>12. BodyGoes(req.body, q.body, c, hides)
  BY <1>3, <1>4, <1>5, <1>7, <1>9, BodyGoesOut
<1> QED
  BY <1>2, <1>6, <1>8, <1>10, <1>11, <1>12

LEMMA SanitizedHolds == InfInv => SanitizedHasNoSecret
<1>0. SUFFICES ASSUME InfInv, Went, infReq[1].body.kind = "object", WellFormed(infReq[1].body),
                      infOut[1].config.masks, infOut[1].strategy.sanitize
               PROVE  Sanitized(infSent[1].body)
  BY DEF SanitizedHasNoSecret, Sanitized
<1>1. PICK was, is, cfg : was = infReq[1].body /\ is = infSent[1].body /\ cfg = infOut[1].config
  OBVIOUS
<1>2. \E c \in InfConfigs, hides \in BOOLEAN :
        /\ cfg = c /\ was \in Bodies
        /\ hides = Sensitive(c, ParsePayloads(was))
        /\ BodyGoes(was, is, c, hides)
  BY <1>0, <1>1, BodyWent
<1>3. PICK c \in InfConfigs, hides \in BOOLEAN :
        cfg = c /\ was \in Bodies /\ hides = Sensitive(c, ParsePayloads(was)) /\ BodyGoes(was, is, c, hides)
  BY <1>2
<1>4. c.masks /\ WellFormed(was)
  BY <1>0, <1>1, <1>3
<1>5. Sanitized(is)
  BY <1>3, <1>4, SanitizedGoes
<1> QED
  BY <1>1, <1>5

LEMMA RewriteHolds == InfInv => RewriteKeepsTheRest
<1>0. SUFFICES ASSUME InfInv, Went, infReq[1].body.kind = "object", WellFormed(infReq[1].body)
               PROVE  KeepsTheRest(infReq[1].body, infSent[1].body)
  BY DEF RewriteKeepsTheRest, KeepsTheRest, Same
<1>1. PICK was, is : was = infReq[1].body /\ is = infSent[1].body
  OBVIOUS
<1>2. \E c \in InfConfigs, hides \in BOOLEAN : BodyGoes(was, is, c, hides)
  BY <1>0, <1>1, BodyWent
<1>3. PICK c \in InfConfigs, hides \in BOOLEAN : BodyGoes(was, is, c, hides)
  BY <1>2
<1>4. KeepsTheRest(was, is)
  BY <1>3, RestIsKept
<1> QED
  BY <1>1, <1>4

\* A request on an inference route goes on only as a configuration that was installed decides it:
\* to the strategy of least priority, under the credential of its model, with the texts of the user
\* masked and the rest of the body untouched (router.rs, engine.rs and parser.rs of the inference
\* library, the inference handlers of proxy/src/server/mod.rs).
THEOREM RoutesAreGuarded ==
  InferenceSpec =>
    [](/\ InfTypeOK /\ FailClosed /\ AuthIsOurs /\ PicksLeastPriority
       /\ SanitizedHasNoSecret /\ RewriteKeepsTheRest)
<1>1. InferenceSpec => []InfInv
  BY InfStart, InfStep, PTL DEF InferenceSpec
<1>2. InfInv => /\ InfTypeOK /\ FailClosed /\ AuthIsOurs /\ PicksLeastPriority
                /\ SanitizedHasNoSecret /\ RewriteKeepsTheRest
  BY TypesHold, ClosedHolds, AuthHolds, PickHolds, SanitizedHolds, RewriteHolds
<1> QED
  BY <1>1, <1>2, PTL

(***************************************************************************)
(* InferenceConfig.  A configuration that is loaded passed the validator.  *)
(***************************************************************************)
FilesFine(r) ==
  /\ \A f \in {"policy", "models", "patterns"} : LoadConfigFile(r.files[f]) /\ IsObject(r.files[f])
  /\ r.files["keys"] # "long" /\ \A f \in DOMAIN r.files : ParseJson(r.files[f])

LEMMA LoadsWhenFine ==
  ASSUME NEW r
  PROVE  /\ LoadConfig(r).error = "none" <=> FilesFine(r) /\ Validate(BuildConfig(r)) = {}
         /\ LoadConfig(r).error = "none" => LoadConfig(r).config = BuildConfig(r)
<1>1. PICK c : c = BuildConfig(r)
  OBVIOUS
<1>2. PICK v : v = Validate(c)
  OBVIOUS
<1>3. PICK out : out = LoadConfig(r)
  OBVIOUS
<1>4. CASE FilesFine(r)
  <2>1. out = IF v # {} THEN [error |-> "validation"] ELSE [error |-> "none", config |-> c]
    BY <1>1, <1>2, <1>3, <1>4 DEF LoadConfig, FilesFine
  <2>2. out.error = (IF v # {} THEN "validation" ELSE "none") /\ (v = {} => out.config = c)
    BY <2>1
  <2> QED
    BY <2>2, <1>1, <1>2, <1>3, <1>4
<1>5. CASE ~FilesFine(r)
  <2>1. out = [error |-> "load"] \/ out = [error |-> "parse"]
    BY <1>3, <1>5 DEF LoadConfig, FilesFine
  <2> QED
    BY <2>1, <1>3, <1>5
<1> QED
  BY <1>4, <1>5

LEMMA NoErrors ==
  ASSUME NEW c
  PROVE  Validate(c) = {} <=>
           ValidateRoutingPolicy(c) = {} /\ ValidateModels(c.models) = {} /\ ValidateSensitivePatterns(c.patterns) = {}
BY DEF Validate

LEMMA PolicyIsFine ==
  ASSUME NEW c
  PROVE  ValidateRoutingPolicy(c) = {} <=>
           /\ c.version \notin {"", "odd"} /\ c.strategies # <<>>
           /\ \A k \in DOMAIN c.strategies : StrategyErrors(c.strategies[k]) = {}
           /\ Repeated(c.strategies) = {}
           /\ \A k \in DOMAIN c.defaults : \E j \in DOMAIN c.strategies : c.strategies[j].id = c.defaults[k]
<1>1. PICK U : U = UNION {StrategyErrors(c.strategies[k]) : k \in DOMAIN c.strategies}
  OBVIOUS
<1>2. U = {} <=> \A k \in DOMAIN c.strategies : StrategyErrors(c.strategies[k]) = {}
  BY <1>1
<1>3. PICK D : D = CheckThat("defaults", \A k \in DOMAIN c.defaults :
                                  \E j \in DOMAIN c.strategies : c.strategies[j].id = c.defaults[k])
  OBVIOUS
<1>4. D = {} <=> \A k \in DOMAIN c.defaults : \E j \in DOMAIN c.strategies : c.strategies[j].id = c.defaults[k]
  BY <1>3 DEF CheckThat
<1>5. ValidateRoutingPolicy(c) =
        CheckThat("version", c.version \notin {"", "odd"}) \cup CheckThat("strategies", c.strategies # <<>>)
          \cup U \cup CheckThat("duplicate", Repeated(c.strategies) = {}) \cup D
  BY <1>1, <1>3 DEF ValidateRoutingPolicy
<1>6. CheckThat("version", c.version \notin {"", "odd"}) = {} <=> c.version \notin {"", "odd"}
  BY DEF CheckThat
<1>7. CheckThat("strategies", c.strategies # <<>>) = {} <=> c.strategies # <<>>
  BY DEF CheckThat
<1>8. CheckThat("duplicate", Repeated(c.strategies) = {}) = {} <=> Repeated(c.strategies) = {}
  BY DEF CheckThat
<1> QED
  BY <1>2, <1>4, <1>5, <1>6, <1>7, <1>8

LEMMA ModelsAreFine ==
  ASSUME NEW models
  PROVE  ValidateModels(models) = {} <=>
           DOMAIN models # {} /\ \A id \in DOMAIN models : ModelErrors(models[id]) = {}
<1>1. PICK U : U = UNION {ModelErrors(models[id]) : id \in DOMAIN models}
  OBVIOUS
<1>2. U = {} <=> \A id \in DOMAIN models : ModelErrors(models[id]) = {}
  BY <1>1
<1>3. ValidateModels(models) = CheckThat("models", DOMAIN models # {}) \cup U
  BY <1>1 DEF ValidateModels
<1>4. CheckThat("models", DOMAIN models # {}) = {} <=> DOMAIN models # {}
  BY DEF CheckThat
<1> QED
  BY <1>2, <1>3, <1>4

LEMMA PatternsAreFine ==
  ASSUME NEW patterns
  PROVE  ValidateSensitivePatterns(patterns) = {} <=>
           /\ patterns # <<>> /\ Repeated(patterns) = {}
           /\ \A k \in DOMAIN patterns : PatternErrors(patterns[k]) = {}
<1>1. PICK U : U = UNION {PatternErrors(patterns[k]) : k \in DOMAIN patterns}
  OBVIOUS
<1>2. U = {} <=> \A k \in DOMAIN patterns : PatternErrors(patterns[k]) = {}
  BY <1>1
<1>3. ValidateSensitivePatterns(patterns) =
        CheckThat("patterns", patterns # <<>>) \cup U \cup CheckThat("duplicate", Repeated(patterns) = {})
  BY <1>1 DEF ValidateSensitivePatterns
<1>4. CheckThat("patterns", patterns # <<>>) = {} <=> patterns # <<>>
  BY DEF CheckThat
<1>5. CheckThat("duplicate", Repeated(patterns) = {}) = {} <=> Repeated(patterns) = {}
  BY DEF CheckThat
<1> QED
  BY <1>2, <1>3, <1>4, <1>5

BuiltStrategies(r) == [k \in DOMAIN r.policy.strategies |-> BuildStrategy(r.policy.strategies[k])]
BuiltPatterns(r) == [k \in DOMAIN r.patterns |-> BuildPattern(r.patterns[k])]

LEMMA BuiltConfig ==
  ASSUME NEW r
  PROVE  LET c == BuildConfig(r)
         IN /\ c.version = OrElse(r.policy.version, "") /\ c.defaults = OrElse(r.policy.defaults, <<>>)
            /\ c.strategies = BuiltStrategies(r) /\ c.models = BuildModels(r.models)
            /\ c.patterns = BuiltPatterns(r)
<1>1. PICK keys : keys = IF r.files["keys"] = "good" THEN BuildApiKeys(r.apiKeys) ELSE [id \in {} |-> ""]
  OBVIOUS
<1>2. BuildConfig(r) = [version |-> OrElse(r.policy.version, ""), defaults |-> OrElse(r.policy.defaults, <<>>),
                        strategies |-> BuiltStrategies(r), models |-> BuildModels(r.models),
                        patterns |-> BuiltPatterns(r), apiKeys |-> keys]
  BY <1>1 DEF BuildConfig, BuiltStrategies, BuiltPatterns
<1>3. PICK c : c = BuildConfig(r)
  OBVIOUS
<1>4. c = [version |-> OrElse(r.policy.version, ""), defaults |-> OrElse(r.policy.defaults, <<>>),
           strategies |-> BuiltStrategies(r), models |-> BuildModels(r.models),
           patterns |-> BuiltPatterns(r), apiKeys |-> keys]
  BY <1>2, <1>3
<1>5. PICK v, d, s, m, p : /\ v = OrElse(r.policy.version, "") /\ d = OrElse(r.policy.defaults, <<>>)
                           /\ s = BuiltStrategies(r) /\ m = BuildModels(r.models) /\ p = BuiltPatterns(r)
  OBVIOUS
<1>6. c = [version |-> v, defaults |-> d, strategies |-> s, models |-> m, patterns |-> p, apiKeys |-> keys]
  BY <1>4, <1>5
<1>7. c.version = v /\ c.defaults = d /\ c.strategies = s /\ c.models = m /\ c.patterns = p
  BY <1>6
<1> QED
  BY <1>3, <1>5, <1>7

\* What the validator lets through is ordered by priority and of known types.
LEMMA ValidIsOrdered ==
  ASSUME NEW r \in RawConfigs, NEW c, c = BuildConfig(r), Validate(c) = {}
  PROVE  Prioritised(c) /\ \A id \in DOMAIN c.models : c.models[id].type \in {"local", "cloud"}
<1>1. PICK n \in Nat : DOMAIN r.policy.strategies = 1..n
  BY ConfigAssumption DEF PolicyFields
<1>2. c.strategies = [k \in 1..n |-> BuildStrategy(r.policy.strategies[k])]
  BY <1>1, BuiltConfig DEF BuiltStrategies
<1>3. PICK s : s = c.strategies
  OBVIOUS
<1>4. Len(s) = n /\ DOMAIN s = 1..n
  BY <1>2, <1>3
<1>5. ASSUME NEW k \in 1..n PROVE s[k].prio \in Int
  <2>1. StrategyErrors(s[k]) = {}
    BY <1>3, <1>4, NoErrors, PolicyIsFine
  <2>2. CheckThat("priority", s[k].prio \in 1..100) = {}
    BY <2>1 DEF StrategyErrors
  <2>3. s[k].prio \in 1..100
    BY <2>2 DEF CheckThat
  <2> QED
    BY <2>3
<1>6. Prioritised(c)
  BY <1>3, <1>4, <1>5 DEF Prioritised
<1>7. ASSUME NEW id \in DOMAIN c.models PROVE c.models[id].type \in {"local", "cloud"}
  <2>1. ModelErrors(c.models[id]) = {}
    BY NoErrors, ModelsAreFine
  <2>2. CheckEnum("type", c.models[id].type, {"local", "cloud"}) = {}
    BY <2>1 DEF ModelErrors
  <2> QED
    BY <2>2 DEF CheckEnum
<1> QED
  BY <1>6, <1>7

Routable(c) ==
  LET on == {k \in DOMAIN c.strategies : c.strategies[k].on}
  IN /\ Matched(c, FALSE) = <<>> <=> \A k \in on : c.strategies[k].model \notin DOMAIN c.models
     /\ Matched(c, TRUE) = <<>> <=> on = {}

LEMMA ValidIsRoutable ==
  ASSUME NEW c, Prioritised(c), \A id \in DOMAIN c.models : c.models[id].type \in {"local", "cloud"}
  PROVE  Routable(c)
<1>1. \A s \in BOOLEAN : Matched(c, s) = <<>> <=> Picked(c, s) = {}
  <2>1. ASSUME NEW s \in BOOLEAN PROVE Matched(c, s) = <<>> <=> Picked(c, s) = {}
    <3>1. PICK m, P : m = Matched(c, s) /\ P = Picked(c, s)
      OBVIOUS
    <3>2. Led(c, P, m)
      BY <3>1, MatchedLeads
    <3>3. P = {} => m = <<>>
      BY <3>2 DEF Led
    <3>4. P # {} => m # <<>>
      BY <3>2 DEF Led
    <3> QED
      BY <3>1, <3>3, <3>4
  <2> QED
    BY <2>1
<1>2. PICK on : on = {k \in DOMAIN c.strategies : c.strategies[k].on}
  OBVIOUS
<1>3. Picked(c, TRUE) = on
  BY <1>2 DEF Picked, FitSet, FitsFor
<1>4. Picked(c, FALSE) = {} <=> FitSet(c, "cloud") = {} /\ FitSet(c, "local") = {}
  BY DEF Picked
<1>5. FitSet(c, "cloud") = {k \in on : c.strategies[k].model \in DOMAIN c.models
                                       /\ c.models[c.strategies[k].model].type = "cloud"}
  BY <1>2 DEF FitSet, FitsFor
<1>6. FitSet(c, "local") = {k \in on : c.strategies[k].model \in DOMAIN c.models
                                       /\ c.models[c.strategies[k].model].type = "local"}
  BY <1>2 DEF FitSet, FitsFor
<1>7. Picked(c, FALSE) = {} <=> \A k \in on : c.strategies[k].model \notin DOMAIN c.models
  BY <1>4, <1>5, <1>6
<1> QED
  BY <1>1, <1>2, <1>3, <1>7 DEF Routable

(***************************************************************************)
(* A field that has a default may be taken away.                           *)
(***************************************************************************)
LEMMA StrategyFine ==
  ASSUME NEW s
  PROVE  StrategyErrors(s) = {} <=>
           /\ s.id \notin {"", "odd", "long"} /\ s.name # "long" /\ s.prio \in 1..100
           /\ s.format \in {"openai", "anthropic", "any"} /\ s.when \notin {"", "long"}
           /\ s.target \in {"local", "cloud", "cloud_with_sanitization"} /\ s.model # ""
BY DEF StrategyErrors, CheckThat, CheckEnum, CheckStringLength

LEMMA ModelFine ==
  ASSUME NEW m
  PROVE  ModelErrors(m) = {} <=>
           /\ m.id \notin {"", "long"} /\ m.name # "long" /\ m.type \in {"local", "cloud"}
           /\ m.provider \in {"openai", "anthropic", "custom"} /\ m.endpoint # "long"
           /\ m.timeout > 0 /\ m.retries >= 0
BY DEF ModelErrors, CheckThat, CheckEnum, CheckStringLength

LEMMA PatternFine ==
  ASSUME NEW p
  PROVE  PatternErrors(p) = {} <=>
           /\ p.id \notin {"", "long"} /\ p.name # "long" /\ p.severity \in {"low", "medium", "high"}
           /\ (p.type = "custom" => p.regex # "") /\ p.description # "long"
BY DEF PatternErrors, CheckThat, CheckEnum, CheckStringLength

Without(raw, f) == [raw EXCEPT ![f] = <<>>]

LEMMA NothingGivesDefault == \A d : OrElse(<<>>, d) = d
BY DEF OrElse

LEMMA StrategyLosesField ==
  ASSUME NEW raw \in StrategyFields, NEW f \in {"enabled", "priority", "format", "when", "sanitize", "name"},
         StrategyErrors(BuildStrategy(raw)) = {}
  PROVE  /\ StrategyErrors(BuildStrategy(Without(raw, f))) = {}
         /\ BuildStrategy(Without(raw, f)).id = BuildStrategy(raw).id
<1>1. PICK q : q = Without(raw, f)
  OBVIOUS
<1>2. /\ q.id = raw.id /\ q.target = raw.target /\ q.model = raw.model
      /\ q.name = (IF f = "name" THEN <<>> ELSE raw.name)
      /\ q.priority = (IF f = "priority" THEN <<>> ELSE raw.priority)
      /\ q.format = (IF f = "format" THEN <<>> ELSE raw.format)
      /\ q.when = (IF f = "when" THEN <<>> ELSE raw.when)
  BY <1>1 DEF Without, StrategyFields
<1>3. PICK b, d : b = BuildStrategy(raw) /\ d = BuildStrategy(q)
  OBVIOUS
<1>4. /\ b.id = OrElse(raw.id, "") /\ b.target = OrElse(raw.target, "") /\ b.model = OrElse(raw.model, "")
      /\ b.name = OrElse(raw.name, "") /\ b.prio = OrElse(raw.priority, 50)
      /\ b.format = OrElse(raw.format, "any") /\ b.when = OrElse(raw.when, "any")
  BY <1>3 DEF BuildStrategy
<1>5. /\ d.id = OrElse(q.id, "") /\ d.target = OrElse(q.target, "") /\ d.model = OrElse(q.model, "")
      /\ d.name = OrElse(q.name, "") /\ d.prio = OrElse(q.priority, 50)
      /\ d.format = OrElse(q.format, "any") /\ d.when = OrElse(q.when, "any")
  BY <1>3 DEF BuildStrategy
<1>6. /\ d.id = b.id /\ d.target = b.target /\ d.model = b.model
      /\ d.name = (IF f = "name" THEN "" ELSE b.name) /\ d.prio = (IF f = "priority" THEN 50 ELSE b.prio)
      /\ d.format = (IF f = "format" THEN "any" ELSE b.format) /\ d.when = (IF f = "when" THEN "any" ELSE b.when)
  BY <1>2, <1>4, <1>5, NothingGivesDefault
<1>7. /\ b.id \notin {"", "odd", "long"} /\ b.name # "long" /\ b.prio \in 1..100
      /\ b.format \in {"openai", "anthropic", "any"} /\ b.when \notin {"", "long"}
      /\ b.target \in {"local", "cloud", "cloud_with_sanitization"} /\ b.model # ""
  BY <1>3, StrategyFine
<1>8. StrategyErrors(d) = {}
  <2>1. d.id \notin {"", "odd", "long"} /\ d.name # "long" /\ d.target \in {"local", "cloud", "cloud_with_sanitization"}
        /\ d.model # "" /\ d.format \in {"openai", "anthropic", "any"} /\ d.when \notin {"", "long"}
    BY <1>6, <1>7
  <2>2. d.prio \in 1..100
    <3>1. b.prio \in 1..100 /\ (d.prio = 50 \/ d.prio = b.prio)
      BY <1>6, <1>7
    <3> QED
      BY <3>1
  <2> QED
    BY <2>1, <2>2, StrategyFine
<1> QED
  BY <1>1, <1>3, <1>6, <1>8

LEMMA BuiltModel ==
  ASSUME NEW raw
  PROVE  LET b == BuildModelConfig(raw)
         IN /\ b.id = OrElse(raw.id, "") /\ b.type = OrElse(raw.type, "") /\ b.provider = OrElse(raw.provider, "")
            /\ b.name = OrElse(raw.name, "") /\ b.endpoint = OrElse(raw.endpoint, "")
            /\ b.timeout = OrElse(raw.timeout, DefaultTimeout) /\ b.retries = OrElse(raw.retries, 3)
<1>1. PICK a, b, c, d, e, f, g, h :
        /\ a = OrElse(raw.id, "") /\ b = OrElse(raw.name, "") /\ c = OrElse(raw.type, "")
        /\ d = OrElse(raw.provider, "") /\ e = OrElse(raw.endpoint, "") /\ f = OrElse(raw.timeout, DefaultTimeout)
        /\ g = OrElse(raw.retries, 3) /\ h = OrElse(raw.enabled, TRUE)
  OBVIOUS
<1>2. BuildModelConfig(raw) = [id |-> a, name |-> b, type |-> c, provider |-> d, endpoint |-> e,
                               timeout |-> f, retries |-> g, on |-> h]
  BY <1>1 DEF BuildModelConfig
<1>3. PICK m : m = BuildModelConfig(raw)
  OBVIOUS
<1>4. m.id = a /\ m.name = b /\ m.type = c /\ m.provider = d /\ m.endpoint = e /\ m.timeout = f /\ m.retries = g
  BY <1>2, <1>3
<1> QED
  BY <1>1, <1>3, <1>4

LEMMA ModelLosesField ==
  ASSUME NEW raw \in ModelFields, NEW f \in {"enabled", "timeout", "retries", "name", "endpoint"}
  PROVE  /\ ModelErrors(BuildModelConfig(raw)) = {} => ModelErrors(BuildModelConfig(Without(raw, f))) = {}
         /\ BuildModelConfig(Without(raw, f)).id = BuildModelConfig(raw).id
<1>1. PICK q : q = Without(raw, f)
  OBVIOUS
<1>2. /\ q.id = raw.id /\ q.type = raw.type /\ q.provider = raw.provider
      /\ q.name = (IF f = "name" THEN <<>> ELSE raw.name)
      /\ q.endpoint = (IF f = "endpoint" THEN <<>> ELSE raw.endpoint)
      /\ q.timeout = (IF f = "timeout" THEN <<>> ELSE raw.timeout)
      /\ q.retries = (IF f = "retries" THEN <<>> ELSE raw.retries)
  BY <1>1 DEF Without, ModelFields
<1>3. PICK b, d : b = BuildModelConfig(raw) /\ d = BuildModelConfig(q)
  OBVIOUS
<1>4. /\ b.id = OrElse(raw.id, "") /\ b.type = OrElse(raw.type, "") /\ b.provider = OrElse(raw.provider, "")
      /\ b.name = OrElse(raw.name, "") /\ b.endpoint = OrElse(raw.endpoint, "")
      /\ b.timeout = OrElse(raw.timeout, DefaultTimeout) /\ b.retries = OrElse(raw.retries, 3)
  BY <1>3, BuiltModel
<1>5. /\ d.id = OrElse(q.id, "") /\ d.type = OrElse(q.type, "") /\ d.provider = OrElse(q.provider, "")
      /\ d.name = OrElse(q.name, "") /\ d.endpoint = OrElse(q.endpoint, "")
      /\ d.timeout = OrElse(q.timeout, DefaultTimeout) /\ d.retries = OrElse(q.retries, 3)
  BY <1>3, BuiltModel
<1>6. /\ d.id = b.id /\ d.type = b.type /\ d.provider = b.provider
      /\ d.name = (IF f = "name" THEN "" ELSE b.name) /\ d.endpoint = (IF f = "endpoint" THEN "" ELSE b.endpoint)
      /\ d.timeout = (IF f = "timeout" THEN DefaultTimeout ELSE b.timeout)
      /\ d.retries = (IF f = "retries" THEN 3 ELSE b.retries)
  BY <1>2, <1>4, <1>5, NothingGivesDefault
<1>7. ModelErrors(b) = {} => ModelErrors(d) = {}
  <2>1. SUFFICES ASSUME ModelErrors(b) = {} PROVE ModelErrors(d) = {}
    OBVIOUS
  <2>2. /\ b.id \notin {"", "long"} /\ b.name # "long" /\ b.type \in {"local", "cloud"}
        /\ b.provider \in {"openai", "anthropic", "custom"} /\ b.endpoint # "long"
        /\ b.timeout > 0 /\ b.retries >= 0
    BY <2>1, ModelFine
  <2>3. DefaultTimeout > 0
    BY DEF DefaultTimeout
  <2>4. d.timeout > 0 /\ d.retries >= 0
    <3>1. d.timeout = DefaultTimeout \/ d.timeout = b.timeout
      BY <1>6
    <3>2. d.retries = 3 \/ d.retries = b.retries
      BY <1>6
    <3>3. d.timeout > 0
      <4>1. CASE d.timeout = DefaultTimeout
        BY <4>1, <2>3
      <4>2. CASE d.timeout = b.timeout
        BY <4>2, <2>2
      <4> QED
        BY <3>1, <4>1, <4>2
    <3>4. d.retries >= 0
      <4>1. CASE d.retries = 3
        BY <4>1
      <4>2. CASE d.retries = b.retries
        BY <4>2, <2>2
      <4> QED
        BY <3>2, <4>1, <4>2
    <3> QED
      BY <3>3, <3>4
  <2>5. /\ d.id \notin {"", "long"} /\ d.name # "long" /\ d.type \in {"local", "cloud"}
        /\ d.provider \in {"openai", "anthropic", "custom"} /\ d.endpoint # "long"
    BY <2>2, <1>6
  <2> QED
    BY <2>4, <2>5, ModelFine
<1> QED
  BY <1>1, <1>3, <1>6, <1>7

LEMMA PatternLosesField ==
  ASSUME NEW raw \in PatternFields, NEW f \in {"enabled", "severity", "dist", "keywords", "description"},
         PatternErrors(BuildPattern(raw)) = {}
  PROVE  /\ PatternErrors(BuildPattern(Without(raw, f))) = {}
         /\ BuildPattern(Without(raw, f)).id = BuildPattern(raw).id
<1>1. PICK q : q = Without(raw, f)
  OBVIOUS
<1>2. /\ q.id = raw.id /\ q.name = raw.name /\ q.type = raw.type /\ q.regex = raw.regex
      /\ q.severity = (IF f = "severity" THEN <<>> ELSE raw.severity)
      /\ q.description = (IF f = "description" THEN <<>> ELSE raw.description)
  BY <1>1 DEF Without, PatternFields
<1>3. PICK b, d : b = BuildPattern(raw) /\ d = BuildPattern(q)
  OBVIOUS
<1>4. /\ b.id = OrElse(raw.id, "") /\ b.name = OrElse(raw.name, "") /\ b.type = OrElse(raw.type, "")
      /\ b.regex = OrElse(raw.regex, "") /\ b.description = OrElse(raw.description, "")
      /\ b.severity = (IF OrElse(raw.severity, "") = "" THEN "medium" ELSE OrElse(raw.severity, ""))
  BY <1>3 DEF BuildPattern
<1>5. /\ d.id = OrElse(q.id, "") /\ d.name = OrElse(q.name, "") /\ d.type = OrElse(q.type, "")
      /\ d.regex = OrElse(q.regex, "") /\ d.description = OrElse(q.description, "")
      /\ d.severity = (IF OrElse(q.severity, "") = "" THEN "medium" ELSE OrElse(q.severity, ""))
  BY <1>3 DEF BuildPattern
<1>6. /\ d.id = b.id /\ d.name = b.name /\ d.type = b.type /\ d.regex = b.regex
      /\ d.description = (IF f = "description" THEN "" ELSE b.description)
      /\ d.severity = (IF f = "severity" THEN "medium" ELSE b.severity)
  BY <1>2, <1>4, <1>5, NothingGivesDefault
<1>7. /\ b.id \notin {"", "long"} /\ b.name # "long" /\ b.severity \in {"low", "medium", "high"}
      /\ (b.type = "custom" => b.regex # "") /\ b.description # "long"
  BY <1>3, PatternFine
<1>8. PatternErrors(d) = {}
  BY <1>6, <1>7, PatternFine
<1> QED
  BY <1>1, <1>3, <1>6, <1>8

\* Which items repeat an earlier one is decided by their names alone.
LEMMA RepeatedByName ==
  ASSUME NEW n \in Nat, NEW a, NEW b, DOMAIN a = 1..n, DOMAIN b = 1..n, \A k \in 1..n : a[k].id = b[k].id
  PROVE  Repeated(a) = Repeated(b)
<1>1. \A k \in 1..n : (\E j \in 1..(k - 1) : a[j].id = a[k].id) <=> (\E j \in 1..(k - 1) : b[j].id = b[k].id)
  <2>1. \A k \in 1..n : \A j \in 1..(k - 1) : j \in 1..n
    OBVIOUS
  <2> QED
    BY <2>1
<1> QED
  BY <1>1 DEF Repeated

\* Of models of one name, the last.
Nominees(built, id) == {i \in 1..Len(built) : built[i].id = id}
LastOf(built, id) == IF Nominees(built, id) # {} THEN Max(Nominees(built, id)) ELSE 0
Built(raws) == [k \in DOMAIN raws |-> BuildModelConfig(raws[k])]

LEMMA ModelsAreLast ==
  ASSUME NEW raws
  PROVE  BuildModels(raws) =
           [id \in {Built(raws)[k].id : k \in DOMAIN raws} |-> Built(raws)[LastOf(Built(raws), id)]]
BY DEF BuildModels, Built, LastOf, Nominees, SelectLastInSeq

LEMMA LastIsThere ==
  ASSUME NEW n \in Nat, NEW built, Len(built) = n, NEW id, NEW k \in 1..n, built[k].id = id
  PROVE  LastOf(built, id) \in 1..n
<1>1. PICK T : T = Nominees(built, id)
  OBVIOUS
<1>2. T \in SUBSET (1..n) /\ k \in T
  BY <1>1 DEF Nominees
<1>3. T # {}
  BY <1>2
<1>4. \E x \in T : \A y \in T : y <= x
  BY <1>2, <1>3, GreatestNumber
<1>5. Max(T) \in T
  BY <1>2, <1>4 DEF Max
<1> QED
  BY <1>1, <1>2, <1>3, <1>5 DEF LastOf

LEMMA LastByName ==
  ASSUME NEW n \in Nat, NEW a, NEW b, Len(a) = n, Len(b) = n, \A k \in 1..n : a[k].id = b[k].id, NEW id
  PROVE  LastOf(a, id) = LastOf(b, id)
<1>1. Nominees(a, id) = Nominees(b, id)
  BY DEF Nominees
<1> QED
  BY <1>1 DEF LastOf

RawFields == {"files", "policy", "models", "patterns", "apiKeys"}

StrategyLess(r, k, f) == [r EXCEPT !.policy.strategies[k] = [@ EXCEPT ![f] = <<>>]]
ModelLess(r, k, f) == [r EXCEPT !.models[k] = [@ EXCEPT ![f] = <<>>]]
PatternLess(r, k, f) == [r EXCEPT !.patterns[k] = [@ EXCEPT ![f] = <<>>]]

LEMMA SamePolicy ==
  ASSUME NEW r, NEW q, q.policy = r.policy
  PROVE  BuiltStrategies(q) = BuiltStrategies(r)
BY DEF BuiltStrategies

LEMMA SamePatterns ==
  ASSUME NEW r, NEW q, q.patterns = r.patterns
  PROVE  BuiltPatterns(q) = BuiltPatterns(r)
BY DEF BuiltPatterns

LEMMA StrategyMayLose ==
  ASSUME NEW r \in RawConfigs, LoadConfig(r).error = "none", NEW k \in DOMAIN r.policy.strategies,
         NEW f \in {"enabled", "priority", "format", "when", "sanitize", "name"}
  PROVE  LoadConfig(StrategyLess(r, k, f)).error = "none"
<1>1. PICK ss : ss = r.policy.strategies
  OBVIOUS
<1>2. DOMAIN r = RawFields /\ r.policy \in PolicyFields
  BY ConfigAssumption DEF RawFields
<1>3. ss \in Seq(StrategyFields)
  BY <1>1, <1>2 DEF PolicyFields
<1>4. PICK n \in Nat : DOMAIN ss = 1..n /\ \A j \in 1..n : ss[j] \in StrategyFields
  BY <1>3
<1>5. PICK q : q = Without(ss[k], f)
  OBVIOUS
<1>6. PICK ss2 : ss2 = [ss EXCEPT ![k] = q]
  OBVIOUS
<1>7. PICK p2 : p2 = [r.policy EXCEPT !.strategies = ss2]
  OBVIOUS
<1>8. PICK r2 : r2 = [r EXCEPT !.policy = p2]
  OBVIOUS
<1>9. r2 = StrategyLess(r, k, f)
  BY <1>1, <1>5, <1>6, <1>7, <1>8 DEF Without, StrategyLess
<1>10. r2.files = r.files /\ r2.models = r.models /\ r2.patterns = r.patterns /\ r2.policy = p2
  BY <1>2, <1>8 DEF RawFields
<1>11. p2.version = r.policy.version /\ p2.defaults = r.policy.defaults /\ p2.strategies = ss2
  BY <1>2, <1>7 DEF PolicyFields
<1>12. DOMAIN ss2 = 1..n /\ ss2[k] = q /\ \A j \in 1..n : j # k => ss2[j] = ss[j]
  BY <1>1, <1>4, <1>6
<1>13. PICK c, d : c = BuildConfig(r) /\ d = BuildConfig(r2)
  OBVIOUS
<1>a. /\ c.version = OrElse(r.policy.version, "") /\ c.defaults = OrElse(r.policy.defaults, <<>>)
      /\ c.strategies = BuiltStrategies(r) /\ c.models = BuildModels(r.models) /\ c.patterns = BuiltPatterns(r)
  BY <1>13, BuiltConfig
<1>b. /\ d.version = OrElse(r2.policy.version, "") /\ d.defaults = OrElse(r2.policy.defaults, <<>>)
      /\ d.strategies = BuiltStrategies(r2) /\ d.models = BuildModels(r2.models) /\ d.patterns = BuiltPatterns(r2)
  BY <1>13, BuiltConfig
<1>14. FilesFine(r) /\ Validate(c) = {}
  BY <1>13, LoadsWhenFine
<1>15. FilesFine(r2)
  BY <1>10, <1>14 DEF FilesFine
<1>16. d.version = c.version /\ d.defaults = c.defaults /\ d.models = c.models /\ d.patterns = c.patterns
  BY <1>10, <1>11, <1>a, <1>b, SamePatterns
<1>17. DOMAIN c.strategies = 1..n /\ \A j \in 1..n : c.strategies[j] = BuildStrategy(ss[j])
  BY <1>1, <1>4, <1>a DEF BuiltStrategies
<1>18. DOMAIN d.strategies = 1..n /\ \A j \in 1..n : d.strategies[j] = BuildStrategy(ss2[j])
  BY <1>10, <1>11, <1>12, <1>b DEF BuiltStrategies
<1>19. /\ c.version \notin {"", "odd"} /\ c.strategies # <<>>
       /\ \A j \in DOMAIN c.strategies : StrategyErrors(c.strategies[j]) = {}
       /\ Repeated(c.strategies) = {}
       /\ \A i \in DOMAIN c.defaults : \E j \in DOMAIN c.strategies : c.strategies[j].id = c.defaults[i]
  BY <1>14, NoErrors, PolicyIsFine
<1>20. k \in 1..n
  BY <1>1, <1>4
<1>21. StrategyErrors(BuildStrategy(q)) = {} /\ BuildStrategy(q).id = BuildStrategy(ss[k]).id
  <2>1. StrategyErrors(BuildStrategy(ss[k])) = {}
    BY <1>17, <1>19, <1>20
  <2> QED
    BY <2>1, <1>4, <1>5, <1>20, StrategyLosesField
<1>22. \A j \in 1..n : StrategyErrors(d.strategies[j]) = {} /\ d.strategies[j].id = c.strategies[j].id
  BY <1>12, <1>17, <1>18, <1>19, <1>21
<1>23. Repeated(d.strategies) = {}
  <2>1. PICK a, b : a = c.strategies /\ b = d.strategies
    OBVIOUS
  <2>2. DOMAIN a = 1..n /\ DOMAIN b = 1..n /\ \A j \in 1..n : a[j].id = b[j].id
    BY <2>1, <1>17, <1>18, <1>22
  <2>3. Repeated(a) = Repeated(b)
    BY <2>2, RepeatedByName
  <2> QED
    BY <2>1, <2>3, <1>19
<1>24. d.strategies # <<>>
  BY <1>18, <1>20
<1>25. \A i \in DOMAIN d.defaults : \E j \in DOMAIN d.strategies : d.strategies[j].id = d.defaults[i]
  BY <1>16, <1>17, <1>18, <1>19, <1>22
<1>26. ValidateRoutingPolicy(d) = {}
  BY <1>16, <1>18, <1>19, <1>22, <1>23, <1>24, <1>25, PolicyIsFine
<1>27. Validate(d) = {}
  BY <1>14, <1>16, <1>26, NoErrors
<1> QED
  BY <1>9, <1>13, <1>15, <1>27, LoadsWhenFine

LEMMA ModelMayLose ==
  ASSUME NEW r \in RawConfigs, LoadConfig(r).error = "none", NEW k \in DOMAIN r.models,
         NEW f \in {"enabled", "timeout", "retries", "name", "endpoint"}
  PROVE  LoadConfig(ModelLess(r, k, f)).error = "none"
<1>1. PICK ms : ms = r.models
  OBVIOUS
<1>2. DOMAIN r = RawFields /\ ms \in Seq(ModelFields)
  BY <1>1, ConfigAssumption DEF RawFields
<1>4. PICK n \in Nat : DOMAIN ms = 1..n /\ \A j \in 1..n : ms[j] \in ModelFields
  BY <1>2
<1>5. PICK q : q = Without(ms[k], f)
  OBVIOUS
<1>6. PICK ms2 : ms2 = [ms EXCEPT ![k] = q]
  OBVIOUS
<1>7. PICK r2 : r2 = [r EXCEPT !.models = ms2]
  OBVIOUS
<1>8. r2 = ModelLess(r, k, f)
  BY <1>1, <1>5, <1>6, <1>7 DEF Without, ModelLess
<1>9. r2.files = r.files /\ r2.policy = r.policy /\ r2.patterns = r.patterns /\ r2.models = ms2
  BY <1>2, <1>7 DEF RawFields
<1>10. k \in 1..n
  BY <1>1, <1>4
<1>11. DOMAIN ms2 = 1..n /\ ms2[k] = q /\ \A j \in 1..n : j # k => ms2[j] = ms[j]
  BY <1>4, <1>6, <1>10
<1>12. PICK c, d : c = BuildConfig(r) /\ d = BuildConfig(r2)
  OBVIOUS
<1>a. /\ c.version = OrElse(r.policy.version, "") /\ c.defaults = OrElse(r.policy.defaults, <<>>)
      /\ c.strategies = BuiltStrategies(r) /\ c.models = BuildModels(r.models) /\ c.patterns = BuiltPatterns(r)
  BY <1>12, BuiltConfig
<1>b. /\ d.version = OrElse(r2.policy.version, "") /\ d.defaults = OrElse(r2.policy.defaults, <<>>)
      /\ d.strategies = BuiltStrategies(r2) /\ d.models = BuildModels(r2.models) /\ d.patterns = BuiltPatterns(r2)
  BY <1>12, BuiltConfig
<1>13. FilesFine(r) /\ Validate(c) = {}
  BY <1>12, LoadsWhenFine
<1>14. FilesFine(r2)
  BY <1>9, <1>13 DEF FilesFine
<1>15. PICK a, b : a = Built(ms) /\ b = Built(ms2)
  OBVIOUS
<1>16. /\ a = [j \in 1..n |-> BuildModelConfig(ms[j])]
       /\ b = [j \in 1..n |-> BuildModelConfig(ms2[j])]
  BY <1>4, <1>11, <1>15 DEF Built
<1>17. Len(a) = n /\ Len(b) = n /\ DOMAIN a = 1..n /\ DOMAIN b = 1..n
  BY <1>16
<1>18. \A j \in 1..n : (ModelErrors(a[j]) = {} => ModelErrors(b[j]) = {}) /\ b[j].id = a[j].id
  <2>1. ASSUME NEW j \in 1..n PROVE (ModelErrors(a[j]) = {} => ModelErrors(b[j]) = {}) /\ b[j].id = a[j].id
    <3>1. a[j] = BuildModelConfig(ms[j]) /\ b[j] = BuildModelConfig(ms2[j])
      BY <1>16
    <3>2. CASE j = k
      <4>1. ms[k] \in ModelFields
        BY <1>4, <1>10
      <4>2. (ModelErrors(BuildModelConfig(ms[k])) = {} => ModelErrors(BuildModelConfig(q)) = {})
            /\ BuildModelConfig(q).id = BuildModelConfig(ms[k]).id
        BY <4>1, <1>5, ModelLosesField
      <4> QED
        BY <4>2, <3>1, <3>2, <1>11
    <3>3. CASE j # k
      BY <3>1, <3>3, <1>11
    <3> QED
      BY <3>2, <3>3
  <2> QED
    BY <2>1
<1>19. PICK A, B : A = {a[j].id : j \in 1..n} /\ B = {b[j].id : j \in 1..n}
  OBVIOUS
<1>20. A = B
  BY <1>18, <1>19
<1>21. PICK u, v : u = BuildModels(ms) /\ v = BuildModels(ms2)
  OBVIOUS
<1>22. u = [id \in A |-> a[LastOf(a, id)]]
  BY <1>4, <1>15, <1>19, <1>21, ModelsAreLast
<1>23. v = [id \in A |-> b[LastOf(b, id)]]
  BY <1>11, <1>15, <1>19, <1>20, <1>21, ModelsAreLast
<1>24. c.models = u /\ d.models = v /\ d.patterns = c.patterns
  BY <1>1, <1>9, <1>21, <1>a, <1>b, SamePatterns
<1>25. d.version = c.version /\ d.defaults = c.defaults /\ d.strategies = c.strategies
  BY <1>9, <1>a, <1>b, SamePolicy
<1>26. DOMAIN u # {} /\ \A id \in DOMAIN u : ModelErrors(u[id]) = {}
  BY <1>13, <1>24, NoErrors, ModelsAreFine
<1>27. DOMAIN u = A /\ DOMAIN v = A
  BY <1>22, <1>23
<1>28. ASSUME NEW id \in A PROVE ModelErrors(v[id]) = {}
  <2>1. PICK j \in 1..n : a[j].id = id
    BY <1>19
  <2>2. PICK i : i = LastOf(a, id)
    OBVIOUS
  <2>3. i \in 1..n
    BY <2>1, <2>2, <1>17, LastIsThere
  <2>4. LastOf(b, id) = i
    BY <2>2, <1>17, <1>18, LastByName
  <2>5. u[id] = a[i] /\ v[id] = b[i]
    BY <2>2, <2>4, <1>22, <1>23
  <2>6. ModelErrors(a[i]) = {}
    BY <2>5, <1>26, <1>27
  <2> QED
    BY <2>3, <2>5, <2>6, <1>18
<1>29. ValidateModels(v) = {}
  BY <1>26, <1>27, <1>28, ModelsAreFine
<1>30. ValidateRoutingPolicy(d) = {} /\ ValidateSensitivePatterns(d.patterns) = {}
  <2>1. ValidateRoutingPolicy(c) = {} /\ ValidateSensitivePatterns(c.patterns) = {}
    BY <1>13, NoErrors
  <2> QED
    BY <2>1, <1>24, <1>25, PolicyIsFine
<1>31. Validate(d) = {}
  BY <1>24, <1>29, <1>30, NoErrors
<1> QED
  BY <1>8, <1>12, <1>14, <1>31, LoadsWhenFine

LEMMA PatternMayLose ==
  ASSUME NEW r \in RawConfigs, LoadConfig(r).error = "none", NEW k \in DOMAIN r.patterns,
         NEW f \in {"enabled", "severity", "dist", "keywords", "description"}
  PROVE  LoadConfig(PatternLess(r, k, f)).error = "none"
<1>1. PICK ps : ps = r.patterns
  OBVIOUS
<1>2. DOMAIN r = RawFields /\ ps \in Seq(PatternFields)
  BY <1>1, ConfigAssumption DEF RawFields
<1>4. PICK n \in Nat : DOMAIN ps = 1..n /\ \A j \in 1..n : ps[j] \in PatternFields
  BY <1>2
<1>5. PICK q : q = Without(ps[k], f)
  OBVIOUS
<1>6. PICK ps2 : ps2 = [ps EXCEPT ![k] = q]
  OBVIOUS
<1>7. PICK r2 : r2 = [r EXCEPT !.patterns = ps2]
  OBVIOUS
<1>8. r2 = PatternLess(r, k, f)
  BY <1>1, <1>5, <1>6, <1>7 DEF Without, PatternLess
<1>9. r2.files = r.files /\ r2.policy = r.policy /\ r2.models = r.models /\ r2.patterns = ps2
  BY <1>2, <1>7 DEF RawFields
<1>10. k \in 1..n
  BY <1>1, <1>4
<1>11. DOMAIN ps2 = 1..n /\ ps2[k] = q /\ \A j \in 1..n : j # k => ps2[j] = ps[j]
  BY <1>4, <1>6, <1>10
<1>12. PICK c, d : c = BuildConfig(r) /\ d = BuildConfig(r2)
  OBVIOUS
<1>a. /\ c.version = OrElse(r.policy.version, "") /\ c.defaults = OrElse(r.policy.defaults, <<>>)
      /\ c.strategies = BuiltStrategies(r) /\ c.models = BuildModels(r.models) /\ c.patterns = BuiltPatterns(r)
  BY <1>12, BuiltConfig
<1>b. /\ d.version = OrElse(r2.policy.version, "") /\ d.defaults = OrElse(r2.policy.defaults, <<>>)
      /\ d.strategies = BuiltStrategies(r2) /\ d.models = BuildModels(r2.models) /\ d.patterns = BuiltPatterns(r2)
  BY <1>12, BuiltConfig
<1>13. FilesFine(r) /\ Validate(c) = {}
  BY <1>12, LoadsWhenFine
<1>14. FilesFine(r2)
  BY <1>9, <1>13 DEF FilesFine
<1>15. d.version = c.version /\ d.defaults = c.defaults /\ d.strategies = c.strategies /\ d.models = c.models
  BY <1>9, <1>a, <1>b, SamePolicy
<1>16. DOMAIN c.patterns = 1..n /\ \A j \in 1..n : c.patterns[j] = BuildPattern(ps[j])
  BY <1>1, <1>4, <1>a DEF BuiltPatterns
<1>17. DOMAIN d.patterns = 1..n /\ \A j \in 1..n : d.patterns[j] = BuildPattern(ps2[j])
  BY <1>9, <1>11, <1>b DEF BuiltPatterns
<1>18. Repeated(c.patterns) = {} /\ \A j \in DOMAIN c.patterns : PatternErrors(c.patterns[j]) = {}
  BY <1>13, NoErrors, PatternsAreFine
<1>19. PatternErrors(BuildPattern(q)) = {} /\ BuildPattern(q).id = BuildPattern(ps[k]).id
  <2>1. PatternErrors(BuildPattern(ps[k])) = {}
    BY <1>10, <1>16, <1>18
  <2> QED
    BY <2>1, <1>4, <1>5, <1>10, PatternLosesField
<1>20. \A j \in 1..n : PatternErrors(d.patterns[j]) = {} /\ d.patterns[j].id = c.patterns[j].id
  BY <1>11, <1>16, <1>17, <1>18, <1>19
<1>21. Repeated(d.patterns) = {}
  BY <1>16, <1>17, <1>18, <1>20, RepeatedByName
<1>22. d.patterns # <<>>
  BY <1>10, <1>17
<1>23. ValidateSensitivePatterns(d.patterns) = {}
  BY <1>17, <1>20, <1>21, <1>22, PatternsAreFine
<1>24. ValidateRoutingPolicy(d) = {} /\ ValidateModels(d.models) = {}
  <2>1. ValidateRoutingPolicy(c) = {} /\ ValidateModels(c.models) = {}
    BY <1>13, NoErrors
  <2> QED
    BY <2>1, <1>15, PolicyIsFine
<1>25. Validate(d) = {}
  BY <1>23, <1>24, NoErrors
<1> QED
  BY <1>8, <1>12, <1>14, <1>25, LoadsWhenFine

\* What is read is one of the configurations, and what the loader makes of it.
CfgInv == cfgProbe = NoProbe \/ \E r \in RawConfigs : cfgProbe = [raw |-> r, out |-> LoadConfig(r)]

LEMMA LoadedIsValid ==
  ASSUME CfgInv, Loaded
  PROVE  \E r \in RawConfigs : /\ cfgProbe.raw = r /\ cfgProbe.out = LoadConfig(r)
                               /\ LoadConfig(r).error = "none"
<1>1. PICK r \in RawConfigs : cfgProbe = [raw |-> r, out |-> LoadConfig(r)]
  BY DEF CfgInv, Loaded
<1>2. cfgProbe.raw = r /\ cfgProbe.out = LoadConfig(r)
  BY <1>1
<1> QED
  BY <1>2 DEF Loaded

LEMMA RoutableHolds == CfgInv => LoadedIsRoutable
<1>0. SUFFICES ASSUME CfgInv, Loaded PROVE Routable(cfgProbe.out.config)
  BY DEF LoadedIsRoutable, Routable
<1>1. PICK r \in RawConfigs : cfgProbe.out = LoadConfig(r) /\ LoadConfig(r).error = "none"
  BY <1>0, LoadedIsValid
<1>2. PICK c : c = BuildConfig(r)
  OBVIOUS
<1>3. Validate(c) = {} /\ cfgProbe.out.config = c
  BY <1>1, <1>2, LoadsWhenFine
<1>4. Prioritised(c) /\ \A id \in DOMAIN c.models : c.models[id].type \in {"local", "cloud"}
  BY <1>2, <1>3, ValidIsOrdered
<1> QED
  BY <1>3, <1>4, ValidIsRoutable

MayLose(r) ==
  /\ \A k \in DOMAIN r.policy.strategies, f \in {"enabled", "priority", "format", "when", "sanitize", "name"} :
       LoadConfig(StrategyLess(r, k, f)).error = "none"
  /\ \A k \in DOMAIN r.models, f \in {"enabled", "timeout", "retries", "name", "endpoint"} :
       LoadConfig(ModelLess(r, k, f)).error = "none"
  /\ \A k \in DOMAIN r.patterns, f \in {"enabled", "severity", "dist", "keywords", "description"} :
       LoadConfig(PatternLess(r, k, f)).error = "none"

LEMMA DefaultsHold == CfgInv => DefaultsAreLegal
<1>0. SUFFICES ASSUME CfgInv, Loaded PROVE MayLose(cfgProbe.raw)
  BY DEF DefaultsAreLegal, MayLose, StrategyLess, ModelLess, PatternLess
<1>1. PICK r \in RawConfigs : cfgProbe.raw = r /\ LoadConfig(r).error = "none"
  BY <1>0, LoadedIsValid
<1>2. MayLose(r)
  BY <1>1, StrategyMayLose, ModelMayLose, PatternMayLose DEF MayLose
<1> QED
  BY <1>1, <1>2

LEMMA CfgStays == CfgSpec => []CfgInv
<1>1. CfgInit => CfgInv
  BY DEF CfgInit, CfgInv
<1>2. CfgInv /\ [CfgNext]_cfgVars => CfgInv'
  BY DEF CfgInv, CfgNext, LoadProbe, cfgVars
<1> QED
  BY <1>1, <1>2, PTL DEF CfgSpec

(***************************************************************************)
(* InferenceRemote.                                                        *)
(***************************************************************************)
\* What is read is what was sent, as far as it has come; until the answer is there, no line has
\* ended and the limit has not been passed.
UdsInv ==
  /\ UdsTypeOK /\ OnlyWholeAnswersCount /\ KeptIsBounded
  /\ udsLine \in Seq(STRING) /\ udsSent \in Seq(STRING) /\ udsBuf \in Seq(STRING)
  /\ udsPhase # "done" => udsAnswer = "none" /\ Len(udsBuf) <= MaxLine /\ ~Contains(udsBuf, "nl")

LEMMA UdsStart == UdsInit => UdsInv
<1> SUFFICES ASSUME UdsInit PROVE UdsInv
  OBVIOUS
<1>1. <<>> \in Seq(STRING) /\ Len(<<>>) = 0 /\ <<>> = <<>> \o <<>>
  OBVIOUS
<1>2. ~Contains(<<>>, "nl")
  BY DEF Contains
<1> QED
  BY <1>1, <1>2, RemoteAssumption DEF UdsInit, UdsInv, UdsTypeOK, OnlyWholeAnswersCount, KeptIsBounded, RemoteAssumption

\* The line that ends first, when it is a whole answer.
LEMMA FirstLineIs ==
  ASSUME NEW b \in Seq(STRING), Contains(b, "nl"), ParseEnvelope(FirstLine(b))
  PROVE  Len(b) >= 3 /\ b[1] = "{" /\ b[3] = "nl" /\ b[2] = FirstLine(b)[2]
<1> DEFINE I == {i \in 1..Len(b) : b[i] = "nl"}
<1>1. I \in SUBSET Nat /\ I # {}
  BY DEF Contains
<1>2. PICK k : k = Min(I)
  OBVIOUS
<1>3. k \in I
  BY <1>1, <1>2, MinOf
<1>4. SelectInSeq(b, LAMBDA x : x = "nl") = k
  BY <1>1, <1>2 DEF SelectInSeq
<1>5. PICK l : l = SubSeq(b, 1, k - 1)
  OBVIOUS
<1>6. FirstLine(b) = l
  BY <1>4, <1>5 DEF FirstLine
<1>7. k \in 1..Len(b) /\ b[k] = "nl"
  BY <1>3
<1>8. Len(l) = k - 1 /\ \A i \in 1..k - 1 : l[i] = b[i]
  BY <1>5, <1>7
<1>9. Len(l) = 2 /\ l[1] = "{"
  BY <1>6 DEF ParseEnvelope
<1>10. PICK m : m = Len(b)
  OBVIOUS
<1>11. m \in Nat
  BY <1>10
<1>12. k - 1 = 2
  BY <1>8, <1>9
<1>13. k \in 1..m
  BY <1>7, <1>10
<1>14. k = 3 /\ m >= 3
  BY <1>11, <1>12, <1>13
<1>15. l[1] = b[1] /\ l[2] = b[2]
  BY <1>8, <1>14
<1> QED
  BY <1>6, <1>7, <1>9, <1>10, <1>14, <1>15

LEMMA AnswerIs ==
  ASSUME NEW line, udsAsks \in {"none", "route", "key"}
  PROVE  /\ AnswerOf(line) \in {"forward", "modified", "block", "ok", "delivery"}
         /\ WithoutAnswer \in {"block", "delivery"}
         /\ AnswerOf(line) \in {"forward", "modified", "ok"} =>
              /\ ParseEnvelope(line)
              /\ line[2] = CASE AnswerOf(line) = "forward" -> "0" [] AnswerOf(line) = "ok" -> "0" [] OTHER -> "1"
              /\ AnswerOf(line) = "ok" <=> udsAsks = "key"
BY DEF AnswerOf, WithoutAnswer, FromWire

LEMMA UdsStep ==
  ASSUME UdsInv, [UdsNext]_udsVars
  PROVE  UdsInv'
<1> USE DEF UdsInv, UdsTypeOK
<1>0. MaxLine \in Nat /\ ReadChunk \in Nat
  BY RemoteAssumption DEF RemoteAssumption
<1>w. WithoutAnswer \in {"block", "delivery"}
  BY AnswerIs
<1>1. CASE UdsDispatch
  <2>1. udsPhase' \in {"connect", "done"} /\ udsAnswer' \in {"none", "local"} /\ (udsPhase' # "done" => udsAnswer' = "none")
    BY <1>1 DEF UdsDispatch, EndsAs
  <2>2. UNCHANGED <<udsLine, udsSent, udsBuf>> /\ udsAsks' \in {"route", "key"} /\ udsPhase = "rest"
    BY <1>1 DEF UdsDispatch
  <2> QED
    BY <2>1, <2>2 DEF OnlyWholeAnswersCount, KeptIsBounded
<1>2. CASE UdsConnect \/ UdsWrite \/ UdsReadFails
  <2>1. /\ udsPhase # "done" /\ udsPhase' \in {"write", "read", "done"}
        /\ udsAnswer' \in {"none", "block", "delivery"} /\ (udsPhase' # "done" => udsAnswer' = "none")
    BY <1>2, <1>w DEF UdsConnect, UdsWrite, UdsReadFails, EndsAs
  <2>2. UNCHANGED <<udsAsks, udsSent, udsBuf, udsLine>>
    BY <1>2 DEF UdsConnect, UdsWrite, UdsReadFails
  <2> QED
    BY <2>1, <2>2 DEF OnlyWholeAnswersCount, KeptIsBounded
<1>3. CASE ServiceSends
  <2>1. PICK t \in ServiceTexts :
          /\ IsStrictPrefix(udsSent, t)
          /\ udsSent' = Append(udsSent, t[Len(udsSent) + 1])
          /\ udsLine' = Append(udsLine, t[Len(udsSent) + 1])
    BY <1>3 DEF ServiceSends
  <2>2. t \in Seq(STRING)
    BY RemoteAssumption DEF RemoteAssumption
  <2>3. Len(udsSent) + 1 \in 1..Len(t)
    <3>1. Len(udsSent) <= Len(t) /\ udsSent # t /\ udsSent = SubSeq(t, 1, Len(udsSent))
      BY <2>1, <2>2 DEF IsStrictPrefix, IsPrefix
    <3>2. Len(udsSent) # Len(t)
      <4>1. SubSeq(t, 1, Len(t)) = t
        BY <2>2
      <4> QED
        BY <3>1, <4>1
    <3> QED
      BY <3>1, <3>2, <2>2
  <2>4. PICK c : c = t[Len(udsSent) + 1]
    OBVIOUS
  <2>5. c \in STRING
    BY <2>2, <2>3, <2>4
  <2>6. udsSent' = Append(udsSent, c) /\ udsLine' = Append(udsLine, c)
    BY <2>1, <2>4
  <2>7. udsSent' \in Seq(STRING) /\ udsLine' \in Seq(STRING)
    BY <2>5, <2>6
  <2>8. Append(udsBuf \o udsLine, c) = udsBuf \o Append(udsLine, c)
    <3>1. Append(udsBuf \o udsLine, c) = (udsBuf \o udsLine) \o <<c>>
      BY <2>5, AppendIsConcat, ConcatProperties
    <3>2. Append(udsLine, c) = udsLine \o <<c>>
      BY <2>5, AppendIsConcat
    <3>3. (udsBuf \o udsLine) \o <<c>> = udsBuf \o (udsLine \o <<c>>)
      BY <2>5
    <3> QED
      BY <3>1, <3>2, <3>3
  <2>9. UNCHANGED <<udsPhase, udsAsks, udsBuf, udsAnswer>> /\ udsPhase = "read" /\ udsAnswer = "none"
    BY <1>3 DEF ServiceSends
  <2> QED
    BY <2>6, <2>7, <2>8, <2>9 DEF OnlyWholeAnswersCount, KeptIsBounded
<1>4. CASE UdsRead
  <2>1. PICK n \in 1..ReadChunk :
          /\ n <= Len(udsLine)
          /\ udsLine' = SubSeq(udsLine, n + 1, Len(udsLine))
          /\ udsBuf' = udsBuf \o SubSeq(udsLine, 1, n)
    BY <1>4 DEF UdsRead
  <2>2. udsPhase = "read" /\ udsAnswer = "none" /\ UNCHANGED <<udsAsks, udsSent>>
        /\ Len(udsBuf) <= MaxLine
    BY <1>4 DEF UdsRead
  <2>3. PICK h : h = SubSeq(udsLine, 1, n)
    OBVIOUS
  <2>4. h \in Seq(STRING) /\ Len(h) = n /\ udsLine' \in Seq(STRING)
    BY <1>0, <2>1, <2>3
  <2>5. udsLine = h \o udsLine'
    BY <1>0, <2>1, <2>3
  <2>6. udsBuf' \in Seq(STRING) /\ Len(udsBuf') = Len(udsBuf) + n
    BY <2>1, <2>3, <2>4
  <2>7. udsSent' = udsBuf' \o udsLine'
    <3>1. udsBuf \o (h \o udsLine') = (udsBuf \o h) \o udsLine'
      BY <2>4
    <3> QED
      BY <3>1, <2>1, <2>2, <2>3, <2>5
  <2>8. Len(udsBuf') <= MaxLine + ReadChunk
    BY <1>0, <2>1, <2>2, <2>6
  <2>9. Len(udsSent') >= Len(udsBuf') /\ \A i \in 1..Len(udsBuf') : udsSent'[i] = udsBuf'[i]
    BY <2>4, <2>6, <2>7
  <2>10. CASE Contains(udsBuf', "nl")
    <3>1. PICK line : line = FirstLine(udsBuf')
      OBVIOUS
    <3>2. udsPhase' = "done" /\ udsAnswer' = AnswerOf(line)
      BY <1>4, <2>10, <3>1 DEF UdsRead, EndsAs
    <3>3. /\ udsAnswer' \in {"forward", "modified", "block", "ok", "delivery"}
          /\ udsAnswer' \in {"forward", "modified", "ok"} =>
              /\ ParseEnvelope(line)
              /\ line[2] = CASE udsAnswer' = "forward" -> "0" [] udsAnswer' = "ok" -> "0" [] OTHER -> "1"
              /\ udsAnswer' = "ok" <=> udsAsks = "key"
      BY <3>2, AnswerIs
    <3>4. ASSUME udsAnswer' \in {"forward", "modified", "ok"}
          PROVE  Len(udsBuf') >= 3 /\ udsBuf'[1] = "{" /\ udsBuf'[3] = "nl" /\ udsBuf'[2] = line[2]
      BY <3>1, <3>3, <3>4, <2>6, <2>10, FirstLineIs
    <3>5. Len(udsSent') \in Nat /\ Len(udsBuf') \in Nat
      BY <2>4, <2>6, <2>7
    <3>6. ASSUME udsAnswer' \in {"forward", "modified", "ok"}
          PROVE  Len(udsSent') >= 3 /\ udsSent'[1] = "{" /\ udsSent'[3] = "nl" /\ udsSent'[2] = line[2]
      <4>1. PICK m : m = Len(udsBuf')
        OBVIOUS
      <4>2. PICK l : l = Len(udsSent')
        OBVIOUS
      <4>3. m >= 3 /\ l >= m /\ m \in Nat /\ l \in Nat
        BY <3>4, <3>5, <3>6, <4>1, <4>2, <2>9
      <4>4. 1 \in 1..m /\ 2 \in 1..m /\ 3 \in 1..m /\ l >= 3
        BY <4>3
      <4> QED
        BY <3>4, <3>6, <4>1, <4>2, <4>4, <2>9
    <3>7. OnlyWholeAnswersCount'
      BY <3>3, <3>6, <2>2 DEF OnlyWholeAnswersCount
    <3> QED
      BY <3>2, <3>3, <3>7, <2>2, <2>4, <2>6, <2>7, <2>8 DEF KeptIsBounded
  <2>11. CASE ~Contains(udsBuf', "nl")
    <3>1. \/ udsPhase' = "done" /\ udsAnswer' = WithoutAnswer
          \/ ~(Len(udsBuf') > MaxLine) /\ udsPhase' = udsPhase /\ udsAnswer' = udsAnswer
      BY <1>4, <2>11 DEF UdsRead, EndsAs
    <3>2. Len(udsBuf') > MaxLine \/ Len(udsBuf') <= MaxLine
      BY <1>0, <2>6
    <3> QED
      BY <3>1, <3>2, <1>w, <2>2, <2>4, <2>6, <2>7, <2>8, <2>11 DEF OnlyWholeAnswersCount, KeptIsBounded
  <2> QED
    BY <2>10, <2>11
<1>5. CASE UNCHANGED udsVars
  BY <1>5 DEF udsVars, OnlyWholeAnswersCount, KeptIsBounded
<1> QED
  BY <1>1, <1>2, <1>3, <1>4, <1>5 DEF UdsNext

LEMMA UdsStays == UdsSpec => []UdsInv
BY UdsStart, UdsStep, PTL DEF UdsSpec

\* An answer of the remote inference service counts only when all of its line has come, and what is
\* kept of it stays within the limit and one read (proxy inference_uds.rs).
THEOREM RemoteAnswersCount == UdsSpec => [](UdsTypeOK /\ OnlyWholeAnswersCount /\ KeptIsBounded)
<1>1. UdsInv => UdsTypeOK /\ OnlyWholeAnswersCount /\ KeptIsBounded
  BY DEF UdsInv
<1> QED
  BY <1>1, UdsStays, PTL

\* Whatever was loaded can be routed by: a request is without a strategy only when none is enabled that
\* may take it; and a field for which the loader has a default may always be left out (inference config
\* loader.rs, validator.rs).
THEOREM LoadedStaysLegal == CfgSpec => [](LoadedIsRoutable /\ DefaultsAreLegal)
BY CfgStays, RoutableHolds, DefaultsHold, PTL

(***************************************************************************)
(* Masker.  Bytes and characters.                                          *)
(***************************************************************************)
WideUpTo(t, i) == {k \in 1..i : ByteWidth(t[k]) = 2}

LEMMA BytesTyped ==
  ASSUME NEW t, NEW i \in Nat
  PROVE  /\ IsFiniteSet(WideUpTo(t, i)) /\ Cardinality(WideUpTo(t, i)) \in Nat
         /\ CharIndexToBytePos(t, i) = i + Cardinality(WideUpTo(t, i))
         /\ CharIndexToBytePos(t, i) \in Nat
<1>1. IsFiniteSet(1..i)
  BY FS_Interval
<1>2. WideUpTo(t, i) \in SUBSET (1..i)
  BY DEF WideUpTo
<1>3. IsFiniteSet(WideUpTo(t, i))
  BY <1>1, <1>2, FS_Subset
<1>4. Cardinality(WideUpTo(t, i)) \in Nat
  BY <1>3, FS_CardinalityType
<1>5. CharIndexToBytePos(t, i) = i + Cardinality(WideUpTo(t, i))
  BY DEF CharIndexToBytePos, WideUpTo
<1> QED
  BY <1>3, <1>4, <1>5

LEMMA BytesStart ==
  ASSUME NEW t
  PROVE  CharIndexToBytePos(t, 0) = 0
<1>1. WideUpTo(t, 0) = {}
  BY DEF WideUpTo
<1>2. Cardinality({}) = 0
  BY FS_EmptySet
<1> QED
  BY <1>1, <1>2, BytesTyped

LEMMA BytesMove ==
  ASSUME NEW t, NEW i \in Nat
  PROVE  CharIndexToBytePos(t, i + 1) = CharIndexToBytePos(t, i) + ByteWidth(t[i + 1])
<1>1. PICK a, b, c : a = Cardinality(WideUpTo(t, i)) /\ b = Cardinality(WideUpTo(t, i + 1)) /\ c = ByteWidth(t[i + 1])
  OBVIOUS
<1>2. /\ a \in Nat /\ b \in Nat
      /\ CharIndexToBytePos(t, i) = i + a
      /\ CharIndexToBytePos(t, i + 1) = (i + 1) + b
  BY <1>1, BytesTyped
<1>3. i + 1 \notin 1..i /\ 1..(i + 1) = (1..i) \cup {i + 1}
  OBVIOUS
<1>4. CASE c = 2
  <2>1. WideUpTo(t, i + 1) = WideUpTo(t, i) \cup {i + 1}
    BY <1>1, <1>3, <1>4 DEF WideUpTo
  <2>2. i + 1 \notin WideUpTo(t, i) /\ IsFiniteSet(WideUpTo(t, i))
    BY <1>3, BytesTyped DEF WideUpTo
  <2>3. b = a + 1
    BY <1>1, <2>1, <2>2, FS_AddElement
  <2> QED
    BY <1>1, <1>2, <1>4, <2>3
<1>5. CASE c # 2
  <2>1. WideUpTo(t, i + 1) = WideUpTo(t, i)
    BY <1>1, <1>3, <1>5 DEF WideUpTo
  <2>2. b = a
    BY <1>1, <2>1
  <2>3. c = 1
    BY <1>1, <1>5 DEF ByteWidth
  <2> QED
    BY <1>1, <1>2, <2>2, <2>3
<1> QED
  BY <1>4, <1>5

LEMMA BytesGrow ==
  ASSUME NEW t, NEW i \in Nat, NEW j \in Nat, i < j
  PROVE  CharIndexToBytePos(t, i) < CharIndexToBytePos(t, j)
<1>1. PICK a, b : a = Cardinality(WideUpTo(t, i)) /\ b = Cardinality(WideUpTo(t, j))
  OBVIOUS
<1>2. a \in Nat /\ b \in Nat /\ CharIndexToBytePos(t, i) = i + a /\ CharIndexToBytePos(t, j) = j + b
  BY <1>1, BytesTyped
<1>3. WideUpTo(t, i) \in SUBSET WideUpTo(t, j) /\ IsFiniteSet(WideUpTo(t, j))
  BY BytesTyped DEF WideUpTo
<1>4. a <= b
  BY <1>1, <1>3, FS_Subset
<1> QED
  BY <1>2, <1>4

\* The character at the byte it begins with.
LEMMA BytesAreChars ==
  ASSUME NEW t, Len(t) \in Nat, NEW i \in 0..Len(t)
  PROVE  BytePosToCharIndex(t, CharIndexToBytePos(t, i)) = i
<1>1. PICK n, b : n = Len(t) /\ b = CharIndexToBytePos(t, i)
  OBVIOUS
<1> DEFINE S == {j \in 0..n : CharIndexToBytePos(t, j) <= b}
<1>2. n \in Nat /\ i \in 0..n /\ b \in Nat
  BY <1>1, BytesTyped
<1>3. i \in S
  BY <1>1, <1>2
<1>4. \A j \in S : j <= i
  <2>1. SUFFICES ASSUME NEW j \in S, ~(j <= i) PROVE FALSE
    OBVIOUS
  <2>2. j \in Nat /\ i \in Nat /\ i < j /\ CharIndexToBytePos(t, j) <= b
    BY <1>2, <2>1
  <2>3. b < CharIndexToBytePos(t, j) /\ CharIndexToBytePos(t, j) \in Nat
    BY <1>1, <2>2, BytesGrow, BytesTyped
  <2> QED
    BY <1>2, <2>2, <2>3
<1>5. BytePosToCharIndex(t, b) = Max(S)
  BY <1>1 DEF BytePosToCharIndex
<1>6. S \subseteq Nat
  BY <1>2
<1> HIDE DEF S
<1>7. \A x \in S : (\A y \in S : x >= y) => x = i
  BY <1>2, <1>3, <1>4, <1>6
<1>8. \A y \in S : i >= y
  BY <1>2, <1>4, <1>6
<1>9. Max(S) = i
  BY <1>3, <1>7, <1>8 DEF Max
<1> QED
  BY <1>1, <1>5, <1>9

\* A keyword takes as many bytes where it occurs as it has, whatever its case there.
OccursAt(t, w, i) == \A j \in 1..Len(w) : MaskLower(t[i + j]) = MaskLower(w[j])

LEMMA BytesOfWord ==
  ASSUME NEW t, NEW w, Len(w) \in Nat, NEW i \in Nat, OccursAt(t, w, i)
  PROVE  CharIndexToBytePos(t, i) + CharIndexToBytePos(w, Len(w)) = CharIndexToBytePos(t, i + Len(w))
<1>1. PICK n : n = Len(w)
  OBVIOUS
<1>2. n \in Nat /\ \A j \in 1..n : MaskLower(t[i + j]) = MaskLower(w[j])
  BY <1>1 DEF OccursAt
<1>3. \A c, d : MaskLower(c) = MaskLower(d) => ByteWidth(c) = ByteWidth(d)
  BY DEF MaskLower, ByteWidth
<1> DEFINE P(j) == CharIndexToBytePos(t, i) + CharIndexToBytePos(w, j) = CharIndexToBytePos(t, i + j)
           T == {j \in 0..n : ~P(j)}
<1>4. T = {}
  <2>1. SUFFICES ASSUME T # {} PROVE FALSE
    OBVIOUS
  <2>2. T \in SUBSET Nat
    OBVIOUS
  <2>3. PICK j \in T : \A k \in T : j <= k
    <3> HIDE DEF T
    <3> QED
      BY <2>1, <2>2, LeastNumber
  <2>4. CharIndexToBytePos(t, i) \in Nat
    BY BytesTyped
  <2>5. j # 0
    <3>1. P(0)
      BY <2>4, BytesStart
    <3> QED
      BY <2>3, <3>1
  <2>6. PICK k : k = j - 1
    OBVIOUS
  <2>7. k \in Nat /\ k \in 0..n /\ j = k + 1 /\ j \in 1..n /\ k < j
    BY <1>2, <2>3, <2>5, <2>6
  <2>8. P(k)
    BY <2>3, <2>7
  <2>9. ByteWidth(t[i + j]) = ByteWidth(w[j])
    BY <1>2, <1>3, <2>7
  <2>10. PICK x, y, z, c : /\ x = CharIndexToBytePos(t, i) /\ y = CharIndexToBytePos(w, k)
                           /\ z = CharIndexToBytePos(t, i + k) /\ c = ByteWidth(w[j])
    OBVIOUS
  <2>11. x \in Nat /\ y \in Nat /\ z \in Nat /\ x + y = z
    BY <2>7, <2>8, <2>10, BytesTyped
  <2>12. CharIndexToBytePos(w, j) = y + c
    BY <2>7, <2>10, BytesMove
  <2>13. CharIndexToBytePos(t, i + j) = z + c
    <3>1. i + k \in Nat /\ i + j = (i + k) + 1
      BY <2>7
    <3> QED
      BY <2>9, <2>10, <3>1, BytesMove
  <2>14. c \in Nat
    BY <2>10 DEF ByteWidth
  <2>15. P(j)
    BY <2>10, <2>11, <2>12, <2>13, <2>14
  <2> QED
    BY <2>3, <2>15
<1>5. n \in 0..n
  BY <1>2
<1> QED
  BY <1>1, <1>4, <1>5

(***************************************************************************)
(* Masker.  Keywords, windows and what is found in them.                   *)
(***************************************************************************)
WindowFrom(i, dist) == IF dist <= i THEN i - dist ELSE 0
WindowTo(n, k, dist) == IF k + dist <= n THEN k + dist ELSE n
\* Where a keyword that is not empty occurs.
Occurs(t, w, i) == w # <<>> /\ i \in 0..(Len(t) - Len(w)) /\ OccursAt(t, w, i)
RunsIn(t, from, to, set) == {<<from + r[1], from + r[2]>> : r \in ScanRegex(SubSeq(t, from + 1, to), set)}
Stretches(n) == {r \in (0..n) \X (0..n) : r[1] < r[2]}

LEMMA OccurrencesAre ==
  ASSUME NEW t, NEW w, NEW b
  PROVE  b \in Occurrences(t, w) <=> \E i : Occurs(t, w, i) /\ b = CharIndexToBytePos(t, i)
BY DEF Occurrences, Occurs, OccursAt

LEMMA BytesKeepOrder ==
  ASSUME NEW t, NEW i \in Nat, NEW j \in Nat
  PROVE  /\ i <= j <=> CharIndexToBytePos(t, i) <= CharIndexToBytePos(t, j)
         /\ i < j <=> CharIndexToBytePos(t, i) < CharIndexToBytePos(t, j)
<1>1. PICK a, b : a = CharIndexToBytePos(t, i) /\ b = CharIndexToBytePos(t, j)
  OBVIOUS
<1>2. a \in Nat /\ b \in Nat
  BY <1>1, BytesTyped
<1>3. i < j => a < b
  BY <1>1, BytesGrow
<1>4. j < i => b < a
  BY <1>1, BytesGrow
<1>5. i = j => a = b
  BY <1>1
<1>6. (i <= j <=> a <= b) /\ (i < j <=> a < b)
  BY <1>2, <1>3, <1>4, <1>5
<1> QED
  BY <1>1, <1>6

\* Behind a character the search goes on at the next one.
LEMMA NextIs ==
  ASSUME NEW t, Len(t) \in Nat, NEW i \in Nat, i + 1 \in 0..Len(t)
  PROVE  NextSearch(t, CharIndexToBytePos(t, i)) = CharIndexToBytePos(t, i + 1)
<1>1. PICK n, b, c, z : /\ n = Len(t) /\ b = CharIndexToBytePos(t, i)
                        /\ c = CharIndexToBytePos(t, i + 1) /\ z = CharIndexToBytePos(t, n)
  OBVIOUS
<1>2. n \in Nat /\ i + 1 \in Nat /\ i < i + 1 /\ i + 1 <= n
  BY <1>1
<1>3. b \in Nat /\ c \in Nat /\ z \in Nat
  BY <1>1, <1>2, BytesTyped
<1>4. b < c /\ c <= z
  BY <1>1, <1>2, BytesKeepOrder
<1>5. Bytes(t) = z
  BY <1>1 DEF Bytes
<1> DEFINE S == {x \in (b + 1)..z : x = z \/ x \in Boundaries(t)}
<1>6. c \in S
  <2>1. c \in Boundaries(t)
    BY <1>1, <1>2 DEF Boundaries
  <2>2. c \in (b + 1)..z
    BY <1>3, <1>4
  <2> QED
    BY <2>1, <2>2
<1>7. ASSUME NEW x \in S PROVE c <= x /\ x \in Nat
  <2>1. x \in Nat /\ b < x
    BY <1>3
  <2>2. PICK j \in 0..n : x = CharIndexToBytePos(t, j)
    BY <1>1, <1>2 DEF Boundaries
  <2>3. j \in Nat
    BY <1>2
  <2>4. i < j
    BY <1>1, <2>1, <2>2, <2>3, BytesKeepOrder
  <2>5. i + 1 <= j
    BY <2>3, <2>4
  <2> QED
    BY <1>1, <1>2, <2>1, <2>2, <2>3, <2>5, BytesKeepOrder
<1>8. NextSearch(t, b) = Min(S)
  BY <1>5 DEF NextSearch
<1> HIDE DEF S
<1>9. \A x \in S : (\A y \in S : x <= y) => x = c
  BY <1>3, <1>6, <1>7
<1>10. Min(S) = c
  BY <1>6, <1>7, <1>9 DEF Min
<1> QED
  BY <1>1, <1>8, <1>10

SearchTurn(t, w, p) == IF Ahead(t, w, p) = {} THEN p ELSE NextSearch(t, Min(Ahead(t, w, p)))
StartsFrom(t, w, n, f) == f = [i \in 0..n |-> IF i = 0 THEN 0 ELSE SearchTurn(t, w, f[i - 1])]

LEMMA Searches ==
  ASSUME NEW t, NEW w, NEW n \in Nat
  PROVE  \E f : StartsFrom(t, w, n, f)
<1> DEFINE T == {m \in Nat : ~ \E f : StartsFrom(t, w, m, f)}
<1>1. SUFFICES ASSUME T # {} PROVE FALSE
  OBVIOUS
<1>2. PICK m \in T : \A j \in T : m <= j
  BY <1>1, LeastNumber
<1>3. CASE m = 0
  <2> DEFINE e == [i \in 0..0 |-> 0]
  <2>1. \A i \in 0..0 : i = 0
    OBVIOUS
  <2>2. e = [i \in 0..0 |-> IF i = 0 THEN 0 ELSE SearchTurn(t, w, e[i - 1])]
    BY <2>1
  <2>3. StartsFrom(t, w, 0, e)
    BY <2>2 DEF StartsFrom
  <2> QED
    BY <1>2, <1>3, <2>3
<1>4. CASE m # 0
  <2>1. PICK l : l = m - 1
    OBVIOUS
  <2>2. l \in Nat /\ l < m /\ m = l + 1 /\ m \in Nat
    BY <1>2, <1>4, <2>1
  <2>3. PICK f : StartsFrom(t, w, l, f)
    BY <1>2, <2>2
  <2> DEFINE F(h, i) == IF i = 0 THEN 0 ELSE SearchTurn(t, w, h[i - 1])
             g == [i \in 0..m |-> IF i = m THEN F(f, m) ELSE f[i]]
  <2>4. ASSUME NEW i \in 0..m PROVE g[i] = F(g, i)
    <3>1. CASE i = m
      <4>1. m - 1 \in 0..m /\ m - 1 # m
        BY <2>2
      <4>2. g[m - 1] = f[m - 1]
        BY <4>1
      <4>3. g[m] = F(f, m)
        BY <2>2
      <4> HIDE DEF g
      <4> QED
        BY <3>1, <1>4, <4>2, <4>3
    <3>2. CASE i # m
      <4>1. i \in 0..l
        BY <3>2, <2>2
      <4>2. g[i] = f[i]
        BY <3>2
      <4>3. f[i] = F(f, i)
        BY <4>1, <2>3 DEF StartsFrom
      <4>4. CASE i = 0
        BY <4>2, <4>3, <4>4
      <4>5. CASE i # 0
        <5>1. i - 1 \in 0..m /\ i - 1 # m
          BY <4>1, <4>5, <2>2
        <5>2. g[i - 1] = f[i - 1]
          BY <5>1
        <5> HIDE DEF g
        <5> QED
          BY <4>2, <4>3, <4>5, <5>2
      <4> QED
        BY <4>4, <4>5
    <3> QED
      BY <3>1, <3>2
  <2>5. g = [i \in 0..m |-> F(g, i)]
    BY <2>4
  <2>6. StartsFrom(t, w, m, g)
    BY <2>5 DEF StartsFrom
  <2> QED
    BY <1>2, <2>6
<1> QED
  BY <1>3, <1>4

LEMMA SearchStartsAre ==
  ASSUME NEW t, NEW w, Len(t) \in Nat
  PROVE  StartsFrom(t, w, Len(t), SearchStarts(t, w))
<1>1. PICK g : g = CHOOSE f : StartsFrom(t, w, Len(t), f)
  OBVIOUS
<1>2. StartsFrom(t, w, Len(t), g)
  BY <1>1, Searches
<1>3. SearchStarts(t, w) = g
  BY <1>1 DEF SearchStarts, StartsFrom, SearchTurn
<1> QED
  BY <1>2, <1>3

\* What a search finds first.
LEMMA FirstAhead ==
  ASSUME NEW t, NEW w, NEW p, Ahead(t, w, p) # {}
  PROVE  /\ Min(Ahead(t, w, p)) \in Ahead(t, w, p)
         /\ \A b \in Ahead(t, w, p) : Min(Ahead(t, w, p)) <= b
<1> DEFINE S == Ahead(t, w, p)
<1>1. S \subseteq Nat
  <2>1. SUFFICES ASSUME NEW b \in S PROVE b \in Nat
    OBVIOUS
  <2>2. b \in Occurrences(t, w)
    BY DEF Ahead
  <2>3. PICK i : Occurs(t, w, i) /\ b = CharIndexToBytePos(t, i)
    BY <2>2, OccurrencesAre
  <2>4. i \in Nat
    BY <2>3 DEF Occurs
  <2> QED
    BY <2>3, <2>4, BytesTyped
<1> HIDE DEF S
<1>2. S # {}
  BY DEF S
<1>3. PICK x \in S : \A y \in S : x <= y
  BY <1>1, <1>2, LeastNumber
<1>4. Min(S) \in S /\ \A y \in S : Min(S) <= y
  BY <1>3 DEF Min
<1> QED
  BY <1>4 DEF S

FoundBySearch(t, w, f, o) == \E k \in 0..Len(t) : Ahead(t, w, f[k]) # {} /\ o = Min(Ahead(t, w, f[k]))
\* The n-th search begins at a character, n of them at least lie behind it if it finds something, and
\* what occurs before it has been found.
Begun(t, w, f, n) ==
  \E m \in 0..Len(t) :
    /\ f[n] = CharIndexToBytePos(t, m)
    /\ m >= n \/ Ahead(t, w, f[n]) = {}
    /\ \A o \in Occurrences(t, w) : o >= f[n] \/ FoundBySearch(t, w, f, o)

LEMMA SearchGoesOn ==
  ASSUME NEW t, NEW w, Len(t) \in Nat, Len(w) \in Nat, w \in Seq(STRING), NEW f,
         StartsFrom(t, w, Len(t), f), NEW l \in Nat, l + 1 \in 0..Len(t), Begun(t, w, f, l)
  PROVE  Begun(t, w, f, l + 1)
<1>1. PICK N, n, p, q : N = Len(t) /\ n = l + 1 /\ p = f[l] /\ q = f[n]
  OBVIOUS
<1>2. N \in Nat /\ n \in 0..N /\ n \in Nat /\ n # 0 /\ n - 1 = l /\ l \in 0..N
  BY <1>1
<1>3. q = SearchTurn(t, w, p)
  BY <1>1, <1>2 DEF StartsFrom
<1>4. PICK m \in 0..N : /\ p = CharIndexToBytePos(t, m)
                        /\ m >= l \/ Ahead(t, w, p) = {}
                        /\ \A o \in Occurrences(t, w) : o >= p \/ FoundBySearch(t, w, f, o)
  BY <1>1 DEF Begun
<1>5. CASE Ahead(t, w, p) = {}
  <2>1. q = p
    BY <1>3, <1>5 DEF SearchTurn
  <2> QED
    BY <1>1, <1>4, <1>5, <2>1 DEF Begun
<1>6. CASE Ahead(t, w, p) # {}
  <2>1. PICK a : a = Min(Ahead(t, w, p))
    OBVIOUS
  <2>2. a \in Ahead(t, w, p) /\ \A b \in Ahead(t, w, p) : a <= b
    BY <1>6, <2>1, FirstAhead
  <2>3. a \in Occurrences(t, w) /\ a >= p
    BY <2>2 DEF Ahead
  <2>4. PICK i : Occurs(t, w, i) /\ a = CharIndexToBytePos(t, i)
    BY <2>3, OccurrencesAre
  <2>5. PICK k : k = Len(w)
    OBVIOUS
  <2>6. k \in Nat /\ k # 0 /\ i \in 0..(N - k)
    BY <1>1, <2>4, <2>5 DEF Occurs
  <2>7. i \in Nat /\ i + 1 \in Nat /\ i + 1 \in 0..N /\ m \in Nat
    BY <1>2, <2>6
  <2>8. q = CharIndexToBytePos(t, i + 1)
    <3>1. q = NextSearch(t, a)
      BY <1>3, <1>6, <2>1 DEF SearchTurn
    <3> QED
      BY <1>1, <2>4, <2>7, <3>1, NextIs
  <2>9. p \in Nat /\ a \in Nat /\ q \in Nat
    BY <1>4, <2>4, <2>7, <2>8, BytesTyped
  <2>10. m <= i
    <3>1. p <= a
      BY <2>3, <2>9
    <3> QED
      BY <1>4, <2>4, <2>7, <3>1, BytesKeepOrder
  <2>11. i + 1 >= n
    <3>1. m >= l
      BY <1>4, <1>6
    <3> QED
      BY <1>1, <1>2, <2>7, <2>10, <3>1
  <2>12. ASSUME NEW o \in Occurrences(t, w) PROVE o >= q \/ FoundBySearch(t, w, f, o)
    <3>1. CASE o >= p
      <4>1. o \in Ahead(t, w, p)
        BY <3>1 DEF Ahead
      <4>2. a <= o
        BY <2>2, <4>1
      <4>3. PICK j : Occurs(t, w, j) /\ o = CharIndexToBytePos(t, j)
        BY OccurrencesAre
      <4>4. j \in Nat
        BY <4>3 DEF Occurs
      <4>5. o \in Nat
        BY <4>3, <4>4, BytesTyped
      <4>6. CASE o = a
        BY <1>1, <1>2, <1>6, <2>1, <4>6 DEF FoundBySearch
      <4>7. CASE o # a
        <5>1. a < o
          BY <2>9, <4>2, <4>5, <4>7
        <5>2. i < j
          BY <2>4, <2>7, <4>3, <4>4, <5>1, BytesKeepOrder
        <5>3. i + 1 <= j
          BY <2>7, <4>4, <5>2
        <5>4. q <= o
          BY <2>7, <2>8, <4>3, <4>4, <5>3, BytesKeepOrder
        <5> QED
          BY <2>9, <4>5, <5>4
      <4> QED
        BY <4>6, <4>7
    <3>2. CASE FoundBySearch(t, w, f, o)
      BY <3>2
    <3> QED
      BY <1>4, <3>1, <3>2
  <2>13. \E x \in 0..Len(t) :
           /\ f[n] = CharIndexToBytePos(t, x)
           /\ x >= n \/ Ahead(t, w, f[n]) = {}
           /\ \A o \in Occurrences(t, w) : o >= f[n] \/ FoundBySearch(t, w, f, o)
    <3>1. i + 1 \in 0..Len(t) /\ f[n] = CharIndexToBytePos(t, i + 1) /\ i + 1 >= n
      BY <1>1, <2>7, <2>8, <2>11
    <3>2. \A o \in Occurrences(t, w) : o >= f[n] \/ FoundBySearch(t, w, f, o)
      BY <1>1, <2>12
    <3> QED
      BY <3>1, <3>2
  <2> QED
    BY <1>1, <2>13 DEF Begun
<1> QED
  BY <1>5, <1>6

LEMMA SearchesBegin ==
  ASSUME NEW t \in Seq(STRING), NEW w \in Seq(STRING), NEW n \in 0..Len(t)
  PROVE  Begun(t, w, SearchStarts(t, w), n)
<1>1. PICK f, N : f = SearchStarts(t, w) /\ N = Len(t)
  OBVIOUS
<1>2. N \in Nat /\ Len(t) \in Nat /\ Len(w) \in Nat
  BY <1>1
<1>3. StartsFrom(t, w, Len(t), f)
  BY <1>1, <1>2, SearchStartsAre
<1> DEFINE T == {i \in 0..N : ~Begun(t, w, f, i)}
<1>4. T = {}
  <2>1. SUFFICES ASSUME T # {} PROVE FALSE
    OBVIOUS
  <2>2. T \subseteq Nat
    BY <1>2
  <2>3. PICK i \in T : \A j \in T : i <= j
    <3> HIDE DEF T
    <3> QED
      BY <2>1, <2>2, LeastNumber
  <2>4. Begun(t, w, f, 0)
    <3>1. 0 \in 0..Len(t) /\ f[0] = 0
      BY <1>2, <1>3 DEF StartsFrom
    <3>2. f[0] = CharIndexToBytePos(t, 0)
      BY <3>1, BytesStart
    <3>3. ASSUME NEW o \in Occurrences(t, w) PROVE o >= f[0]
      <4>1. PICK k : Occurs(t, w, k) /\ o = CharIndexToBytePos(t, k)
        BY OccurrencesAre
      <4>2. k \in Nat
        BY <4>1 DEF Occurs
      <4>3. o \in Nat
        BY <4>1, <4>2, BytesTyped
      <4> QED
        BY <3>1, <4>3
    <3>4. 0 >= 0
      OBVIOUS
    <3> QED
      BY <3>1, <3>2, <3>3, <3>4 DEF Begun
  <2>5. i # 0
    BY <2>3, <2>4
  <2>6. PICK l : l = i - 1
    OBVIOUS
  <2>7. l \in Nat /\ l \in 0..N /\ i = l + 1 /\ l < i /\ l + 1 \in 0..N
    BY <1>2, <2>3, <2>5, <2>6
  <2>8. Begun(t, w, f, l)
    BY <2>3, <2>7
  <2>9. Begun(t, w, f, l + 1)
    BY <1>1, <1>2, <1>3, <2>7, <2>8, SearchGoesOn
  <2> QED
    BY <2>3, <2>7, <2>9
<1> QED
  BY <1>1, <1>4

\* The loop finds what there is.
LEMMA ScanFinds ==
  ASSUME NEW t \in Seq(STRING), NEW w \in Seq(STRING)
  PROVE  ScanLiteral(t, w) = Occurrences(t, w)
<1>1. PICK f, N : f = SearchStarts(t, w) /\ N = Len(t)
  OBVIOUS
<1>2. N \in Nat /\ N \in 0..Len(t)
  BY <1>1
<1>3. \A o : o \in ScanLiteral(t, w) <=> FoundBySearch(t, w, f, o)
  BY <1>1 DEF ScanLiteral, FoundBySearch
<1>4. ASSUME NEW o, FoundBySearch(t, w, f, o) PROVE o \in Occurrences(t, w)
  <2>1. PICK k \in 0..Len(t) : Ahead(t, w, f[k]) # {} /\ o = Min(Ahead(t, w, f[k]))
    BY <1>4 DEF FoundBySearch
  <2>2. o \in Ahead(t, w, f[k])
    BY <2>1, FirstAhead
  <2> QED
    BY <2>2 DEF Ahead
<1>5. ASSUME NEW o \in Occurrences(t, w) PROVE FoundBySearch(t, w, f, o)
  <2>1. SUFFICES ASSUME ~FoundBySearch(t, w, f, o) PROVE FALSE
    OBVIOUS
  <2>2. Begun(t, w, f, N)
    BY <1>1, <1>2, SearchesBegin
  <2>3. PICK m \in 0..Len(t) : /\ f[N] = CharIndexToBytePos(t, m)
                               /\ m >= N \/ Ahead(t, w, f[N]) = {}
                               /\ o >= f[N]
    BY <2>1, <2>2 DEF Begun
  <2>4. o \in Ahead(t, w, f[N])
    BY <2>3 DEF Ahead
  <2>5. m = N
    BY <1>1, <1>2, <2>3, <2>4
  <2>6. PICK i : Occurs(t, w, i) /\ o = CharIndexToBytePos(t, i)
    BY OccurrencesAre
  <2>7. PICK k : k = Len(w)
    OBVIOUS
  <2>8. k \in Nat /\ k # 0 /\ i \in 0..(N - k)
    BY <1>1, <2>6, <2>7 DEF Occurs
  <2>9. i \in Nat /\ i < N
    BY <1>2, <2>8
  <2>10. o < f[N]
    BY <1>2, <2>3, <2>5, <2>6, <2>9, BytesKeepOrder
  <2>11. o \in Nat /\ f[N] \in Nat
    BY <1>2, <2>3, <2>5, <2>6, <2>9, BytesTyped
  <2> QED
    BY <2>3, <2>10, <2>11
<1> QED
  BY <1>3, <1>4, <1>5

LEMMA ScanIs ==
  ASSUME NEW t \in Seq(STRING), NEW w \in Seq(STRING), NEW b
  PROVE  b \in ScanLiteral(t, w) <=> \E i : Occurs(t, w, i) /\ b = CharIndexToBytePos(t, i)
BY ScanFinds, OccurrencesAre

LEMMA MaxOfTwo ==
  ASSUME NEW x \in Int
  PROVE  Max({0, x}) = IF 0 <= x THEN x ELSE 0
<1> DEFINE S == {0, x}
<1>1. PICK y : y = IF 0 <= x THEN x ELSE 0
  OBVIOUS
<1>2. y \in S /\ \A z \in S : y >= z
  BY <1>1
<1>3. \A v \in S : (\A z \in S : v >= z) => v = y
  BY <1>1, <1>2
<1> HIDE DEF S
<1>4. Max(S) = y
  BY <1>2, <1>3 DEF Max
<1> QED
  BY <1>1, <1>4 DEF S

LEMMA MinOfTwo ==
  ASSUME NEW n \in Int, NEW x \in Int
  PROVE  Min({n, x}) = IF x <= n THEN x ELSE n
<1> DEFINE S == {n, x}
<1>1. PICK y : y = IF x <= n THEN x ELSE n
  OBVIOUS
<1>2. y \in S /\ \A z \in S : y <= z
  BY <1>1
<1>3. \A v \in S : (\A z \in S : v <= z) => v = y
  BY <1>1, <1>2
<1> HIDE DEF S
<1>4. Min(S) = y
  BY <1>2, <1>3 DEF Min
<1> QED
  BY <1>1, <1>4 DEF S

LEMMA WindowIs ==
  ASSUME NEW t, Len(t) \in Nat, NEW w \in Seq(STRING), NEW i, Occurs(t, w, i), NEW dist \in Nat
  PROVE  LET b == CharIndexToBytePos(t, i)
         IN Window(t, b, b + CharIndexToBytePos(w, Len(w)), dist)
              = <<WindowFrom(i, dist), WindowTo(Len(t), i + Len(w), dist)>>
<1>1. PICK n, l, b, c : /\ n = Len(t) /\ l = Len(w) /\ b = CharIndexToBytePos(t, i)
                        /\ c = b + CharIndexToBytePos(w, Len(w))
  OBVIOUS
<1>2. n \in Nat /\ l \in Nat
  BY <1>1
<1>3. i \in 0..(n - l) /\ OccursAt(t, w, i)
  BY <1>1 DEF Occurs
<1>4. i \in Nat /\ i \in 0..n /\ i + l \in 0..n
  BY <1>2, <1>3
<1>5. BytePosToCharIndex(t, b) = i
  BY <1>1, <1>2, <1>4, BytesAreChars
<1>6. c = CharIndexToBytePos(t, i + l)
  BY <1>1, <1>2, <1>3, <1>4, BytesOfWord
<1>7. BytePosToCharIndex(t, c) = i + l
  BY <1>1, <1>2, <1>4, <1>6, BytesAreChars
<1>8. Window(t, b, c, dist) = <<Max({0, i - dist}), Min({n, (i + l) + dist})>>
  BY <1>1, <1>5, <1>7 DEF Window
<1>9. Max({0, i - dist}) = WindowFrom(i, dist)
  <2>1. i - dist \in Int /\ (0 <= i - dist <=> dist <= i)
    BY <1>4
  <2> QED
    BY <2>1, MaxOfTwo DEF WindowFrom
<1>10. Min({n, (i + l) + dist}) = WindowTo(n, i + l, dist)
  <2>1. (i + l) + dist \in Int /\ n \in Int
    BY <1>2, <1>4
  <2> QED
    BY <2>1, MinOfTwo DEF WindowTo
<1>11. Window(t, b, c, dist) = <<WindowFrom(i, dist), WindowTo(n, i + l, dist)>>
  BY <1>8, <1>9, <1>10
<1> QED
  BY <1>1, <1>11

LEMMA WindowHolds ==
  ASSUME NEW n \in Nat, NEW l \in Nat, NEW i \in 0..(n - l), NEW dist \in Nat
  PROVE  /\ WindowFrom(i, dist) \in Nat /\ WindowTo(n, i + l, dist) \in Nat
         /\ WindowFrom(i, dist) <= i /\ i + l <= WindowTo(n, i + l, dist) /\ WindowTo(n, i + l, dist) <= n
         /\ WindowFrom(i, dist) <= WindowTo(n, i + l, dist)
         /\ \A x \in Nat : x >= i - dist => WindowFrom(i, dist) <= x
         /\ \A x \in 0..n : x <= (i + l) + dist => x <= WindowTo(n, i + l, dist)
BY DEF WindowFrom, WindowTo

LEMMA RunsAreThere ==
  ASSUME NEW t \in Seq(STRING), NEW a \in Nat, NEW b \in 0..Len(t), a <= b, NEW set, NEW r \in RunsIn(t, a, b, set)
  PROVE  r \in Stretches(Len(t)) /\ r = <<r[1], r[2]>> /\ a <= r[1] /\ r[2] <= b
<1>1. PICK n, s : n = Len(t) /\ s = SubSeq(t, a + 1, b)
  OBVIOUS
<1>2. n \in Nat /\ b \in 0..n
  BY <1>1
<1>3. Len(s) = b - a
  BY <1>1, <1>2
<1>4. PICK q \in ScanRegex(s, set) : r = <<a + q[1], a + q[2]>>
  BY <1>1 DEF RunsIn
<1>5. q[1] \in 0..(b - a) /\ q[2] \in 0..(b - a) /\ q[1] < q[2]
  BY <1>3, <1>4 DEF ScanRegex
<1>6. PICK u, v, x, y : u = q[1] /\ v = q[2] /\ x = a + u /\ y = a + v
  OBVIOUS
<1>6a. u \in 0..(b - a) /\ v \in 0..(b - a) /\ u < v
  BY <1>5, <1>6
<1>7. x \in 0..n /\ y \in 0..n /\ x < y /\ a <= x /\ y <= b
  BY <1>2, <1>6, <1>6a
<1>8. r = <<x, y>>
  BY <1>4, <1>6
<1> QED
  BY <1>1, <1>7, <1>8 DEF Stretches

\* A run that lies in a window is found in it.
LEMMA RunIsFound ==
  ASSUME NEW t \in Seq(STRING), NEW a \in Nat, NEW b \in 0..Len(t), a <= b, NEW set,
         NEW e \in ScanRegex(t, set), a <= e[1], e[2] <= b
  PROVE  e \in RunsIn(t, a, b, set)
<1>1. PICK n, s, x, y : n = Len(t) /\ s = SubSeq(t, a + 1, b) /\ x = e[1] /\ y = e[2]
  OBVIOUS
<1>2. n \in Nat /\ b \in 0..n
  BY <1>1
<1>3. Len(s) = b - a /\ \A i \in 1..(b - a) : s[i] = t[a + i]
  <2>1. a + 1 \in Int /\ b \in Int /\ \A i \in a + 1..b : i \in 1..n
    BY <1>2
  <2>2. \A i \in a + 1..b : t[i] \in STRING
    BY <1>1, <2>1
  <2>3. Len(s) = b - a /\ \A i \in 1..(b - a) : s[i] = t[(a + 1) + i - 1]
    <3>1. Len(s) = IF a + 1 <= b THEN b - (a + 1) + 1 ELSE 0
      BY <1>1, <2>1, <2>2, SubSeqProperties
    <3>2. Len(s) = b - a
      BY <3>1, <1>2
    <3>3. \A i \in 1..b - (a + 1) + 1 : s[i] = t[(a + 1) + i - 1]
      BY <1>1, <2>1, <2>2, SubSeqProperties
    <3>4. b - (a + 1) + 1 = b - a
      BY <1>2
    <3> QED
      BY <3>2, <3>3, <3>4
  <2>4. \A i \in 1..(b - a) : (a + 1) + i - 1 = a + i
    BY <1>2
  <2> QED
    BY <2>3, <2>4
<1>4. /\ e = <<x, y>> /\ x \in 0..n /\ y \in 0..n /\ x < y
      /\ \A k \in (x + 1)..y : t[k] \in set
      /\ x = 0 \/ t[x] \notin set
      /\ y = n \/ t[y + 1] \notin set
  BY <1>1 DEF ScanRegex
<1>5. a <= x /\ y <= b
  BY <1>1
<1>6. PICK u, v : u = x - a /\ v = y - a
  OBVIOUS
<1>7. PICK m : m = b - a
  OBVIOUS
<1>8. u \in 0..m /\ v \in 0..m /\ u < v /\ x = a + u /\ y = a + v /\ m \in Nat /\ b = a + m
  BY <1>2, <1>4, <1>5, <1>6, <1>7
<1>9. \A k \in (u + 1)..v : s[k] \in set
  <2>1. SUFFICES ASSUME NEW k \in (u + 1)..v PROVE s[k] \in set
    OBVIOUS
  <2>2. k \in 1..m /\ a + k \in (x + 1)..y
    BY <1>8
  <2> QED
    BY <1>3, <1>4, <1>7, <2>2
<1>10. u = 0 \/ s[u] \notin set
  <2>1. SUFFICES ASSUME u # 0 PROVE s[u] \notin set
    OBVIOUS
  <2>2. u \in 1..m /\ x # 0
    BY <1>8, <2>1
  <2> QED
    BY <1>3, <1>4, <1>7, <1>8, <2>2
<1>11. v = m \/ s[v + 1] \notin set
  <2>1. SUFFICES ASSUME v # m PROVE s[v + 1] \notin set
    OBVIOUS
  <2>2. v + 1 \in 1..m /\ y # n /\ a + (v + 1) = y + 1
    BY <1>2, <1>8, <2>1
  <2>3. s[v + 1] = t[y + 1]
    BY <1>3, <1>7, <2>2
  <2> QED
    BY <1>4, <2>2, <2>3
<1>12. <<u, v>> \in ScanRegex(s, set)
  BY <1>3, <1>7, <1>8, <1>9, <1>10, <1>11 DEF ScanRegex
<1>13. PICK q : q = <<u, v>>
  OBVIOUS
<1>14. q[1] = u /\ q[2] = v
  BY <1>13
<1>15. e = <<a + q[1], a + q[2]>>
  BY <1>4, <1>8, <1>14
<1>16. q \in ScanRegex(SubSeq(t, a + 1, b), set)
  BY <1>1, <1>12, <1>13
<1> QED
  BY <1>15, <1>16 DEF RunsIn

LEMMA PatternsTyped ==
  ASSUME NEW patterns \in Seq(MaskPatterns), NEW k \in DOMAIN patterns
  PROVE  /\ patterns[k].keywords \in Seq(Seq(STRING)) /\ patterns[k].dist \in Nat
         /\ patterns[k].id \in STRING /\ patterns[k].on \in BOOLEAN
         /\ \A n \in DOMAIN patterns[k].keywords : patterns[k].keywords[n] \in Seq(STRING)
<1>1. patterns[k] \in MaskPatterns
  OBVIOUS
<1>2. patterns[k].keywords \in Seq(Seq(STRING))
  BY <1>1 DEF MaskPatterns
<1> QED
  BY <1>1, <1>2 DEF MaskPatterns

LEMMA FromAreOn ==
  ASSUME NEW patterns, NEW k \in FromPatterns(patterns)
  PROVE  k \in DOMAIN patterns /\ patterns[k].on
BY DEF FromPatterns

\* An occurrence of a keyword, and what is found around it.
Around(patterns, t, k, n, i) ==
  LET p == patterns[k]
      w == p.keywords[n]
  IN RunsIn(t, WindowFrom(i, p.dist), WindowTo(Len(t), i + Len(w), p.dist), p.regex)

LEMMA MatchesOccur ==
  ASSUME NEW patterns \in Seq(MaskPatterns), NEW t \in Seq(STRING), NEW m \in KeywordMatches(patterns, t)
  PROVE  \E k \in FromPatterns(patterns) : \E n \in DOMAIN patterns[k].keywords : \E i :
           /\ Occurs(t, patterns[k].keywords[n], i) /\ m = <<CharIndexToBytePos(t, i), <<k, n>>>>
<1>1. PICK w \in Keywords(patterns) : m \in ScanLiteral(t, patterns[w[1]].keywords[w[2]]) \X {w}
  BY DEF KeywordMatches
<1>2. PICK k \in FromPatterns(patterns) : w \in {k} \X DOMAIN patterns[k].keywords
  BY <1>1 DEF Keywords
<1>3. PICK n \in DOMAIN patterns[k].keywords : w = <<k, n>>
  BY <1>2
<1>4. m[1] \in ScanLiteral(t, patterns[k].keywords[n]) /\ m = <<m[1], <<k, n>>>>
  BY <1>1, <1>3
<1>5. PICK i : Occurs(t, patterns[k].keywords[n], i) /\ m[1] = CharIndexToBytePos(t, i)
  <2>1. k \in DOMAIN patterns /\ patterns[k].keywords[n] \in Seq(STRING)
    BY FromAreOn, PatternsTyped
  <2> QED
    BY <1>4, <2>1, ScanIs
<1> QED
  BY <1>4, <1>5

LEMMA OccurrencesMatch ==
  ASSUME NEW patterns \in Seq(MaskPatterns), NEW t \in Seq(STRING), NEW k \in FromPatterns(patterns),
         NEW n \in DOMAIN patterns[k].keywords, NEW i, Occurs(t, patterns[k].keywords[n], i)
  PROVE  <<CharIndexToBytePos(t, i), <<k, n>>>> \in KeywordMatches(patterns, t)
<1>1. PICK b, w : b = CharIndexToBytePos(t, i) /\ w = <<k, n>>
  OBVIOUS
<1>2. w \in Keywords(patterns) /\ w[1] = k /\ w[2] = n
  BY <1>1 DEF Keywords
<1>3. b \in ScanLiteral(t, patterns[w[1]].keywords[w[2]])
  <2>1. k \in DOMAIN patterns /\ patterns[k].keywords[n] \in Seq(STRING)
    BY FromAreOn, PatternsTyped
  <2> QED
    BY <1>1, <1>2, <2>1, ScanIs
<1>4. <<b, w>> \in ScanLiteral(t, patterns[w[1]].keywords[w[2]]) \X {w}
  BY <1>3
<1> QED
  BY <1>1, <1>2, <1>4 DEF KeywordMatches

LEMMA FoundIsAround ==
  ASSUME NEW patterns \in Seq(MaskPatterns), NEW t \in Seq(STRING), NEW k \in FromPatterns(patterns),
         NEW n \in DOMAIN patterns[k].keywords, NEW i, Occurs(t, patterns[k].keywords[n], i),
         NEW m, m = <<CharIndexToBytePos(t, i), <<k, n>>>>
  PROVE  FoundBy(patterns, t, m) = Around(patterns, t, k, n, i)
<1>1. PICK p, w, b : p = patterns[k] /\ w = patterns[k].keywords[n] /\ b = CharIndexToBytePos(t, i)
  OBVIOUS
<1>2. m[1] = b /\ m[2][1] = k /\ m[2][2] = n
  BY <1>1
<1>3. k \in DOMAIN patterns
  BY FromAreOn
<1>4. w \in Seq(STRING) /\ p.dist \in Nat
  BY <1>1, <1>3, PatternsTyped
<1>5. PICK v : v = Window(t, b, b + CharIndexToBytePos(w, Len(w)), p.dist)
  OBVIOUS
<1>6. v = <<WindowFrom(i, p.dist), WindowTo(Len(t), i + Len(w), p.dist)>>
  <2>1. Len(t) \in Nat
    OBVIOUS
  <2> QED
    BY <1>1, <1>4, <1>5, <2>1, WindowIs
<1>7. FoundBy(patterns, t, m) = RunsIn(t, v[1], v[2], p.regex)
  BY <1>1, <1>2, <1>5 DEF FoundBy, RunsIn
<1>8. v[1] = WindowFrom(i, p.dist) /\ v[2] = WindowTo(Len(t), i + Len(w), p.dist)
  BY <1>6
<1> QED
  BY <1>1, <1>7, <1>8 DEF Around

LEMMA AroundHolds ==
  ASSUME NEW patterns \in Seq(MaskPatterns), NEW t \in Seq(STRING), NEW k \in FromPatterns(patterns),
         NEW n \in DOMAIN patterns[k].keywords, NEW i, Occurs(t, patterns[k].keywords[n], i)
  PROVE  LET w == patterns[k].keywords[n]
             a == WindowFrom(i, patterns[k].dist)
             b == WindowTo(Len(t), i + Len(w), patterns[k].dist)
         IN /\ a \in Nat /\ b \in 0..Len(t) /\ a <= b
            /\ \A x \in Nat : x >= i - patterns[k].dist => a <= x
            /\ \A x \in 0..Len(t) : x <= (i + Len(w)) + patterns[k].dist => x <= b
<1>1. PICK w, d, l, N : w = patterns[k].keywords[n] /\ d = patterns[k].dist /\ l = Len(w) /\ N = Len(t)
  OBVIOUS
<1>2. k \in DOMAIN patterns
  BY FromAreOn
<1>3. w \in Seq(STRING) /\ d \in Nat
  BY <1>1, <1>2, PatternsTyped
<1>4. l \in Nat /\ N \in Nat
  BY <1>1, <1>3
<1>5. i \in 0..(N - l)
  BY <1>1 DEF Occurs
<1>6. PICK a, b : a = WindowFrom(i, d) /\ b = WindowTo(N, i + l, d)
  OBVIOUS
<1>7. /\ a \in Nat /\ b \in Nat /\ b <= N /\ a <= b
      /\ \A x \in Nat : x >= i - d => a <= x
      /\ \A x \in 0..N : x <= (i + l) + d => x <= b
  BY <1>3, <1>4, <1>5, <1>6, WindowHolds
<1>8. b \in 0..N
  BY <1>4, <1>7
<1> QED
  BY <1>1, <1>6, <1>7, <1>8

\* Everything found is a stretch of the text.
LEMMA FoundIsThere ==
  ASSUME NEW patterns \in Seq(MaskPatterns), NEW t \in Seq(STRING), NEW m \in KeywordMatches(patterns, t),
         NEW r \in FoundBy(patterns, t, m)
  PROVE  r \in Stretches(Len(t)) /\ r = <<r[1], r[2]>>
<1>1. PICK k \in FromPatterns(patterns) : \E n \in DOMAIN patterns[k].keywords : \E i :
        Occurs(t, patterns[k].keywords[n], i) /\ m = <<CharIndexToBytePos(t, i), <<k, n>>>>
  BY MatchesOccur
<1>2. PICK n \in DOMAIN patterns[k].keywords : \E i :
        Occurs(t, patterns[k].keywords[n], i) /\ m = <<CharIndexToBytePos(t, i), <<k, n>>>>
  BY <1>1
<1>3. PICK i : Occurs(t, patterns[k].keywords[n], i) /\ m = <<CharIndexToBytePos(t, i), <<k, n>>>>
  BY <1>2
<1>4. r \in Around(patterns, t, k, n, i)
  BY <1>3, FoundIsAround
<1>5. PICK a, b : a = WindowFrom(i, patterns[k].dist)
                  /\ b = WindowTo(Len(t), i + Len(patterns[k].keywords[n]), patterns[k].dist)
  OBVIOUS
<1>6. a \in Nat /\ b \in 0..Len(t) /\ a <= b
  BY <1>3, <1>5, AroundHolds
<1>7. r \in RunsIn(t, a, b, patterns[k].regex)
  BY <1>4, <1>5 DEF Around
<1> QED
  BY <1>6, <1>7, RunsAreThere

\* Among some matches of keywords one is the first.
LEMMA OneIsFirst ==
  ASSUME NEW M, M # {}, \A m \in M : m[1] \in Nat /\ m[2][1] \in Nat /\ m[2][2] \in Nat
  PROVE  \E m \in M : \A n \in M : NotAfter(m, n)
<1> DEFINE A == {m[1] : m \in M}
<1>1. A \in SUBSET Nat /\ A # {}
  OBVIOUS
<1>2. PICK a \in A : \A x \in A : a <= x
  <2> HIDE DEF A
  <2> QED
    BY <1>1, LeastNumber
<1>3. \A m \in M : a <= m[1]
  BY <1>2
<1> DEFINE B == {m[2][1] : m \in {x \in M : x[1] = a}}
<1>4. B \in SUBSET Nat /\ B # {}
  BY <1>2
<1>5. PICK b \in B : \A x \in B : b <= x
  <2> HIDE DEF B
  <2> QED
    BY <1>4, LeastNumber
<1>6. \A m \in M : m[1] = a => b <= m[2][1]
  BY <1>5
<1> DEFINE C == {m[2][2] : m \in {x \in M : x[1] = a /\ x[2][1] = b}}
<1>7. C \in SUBSET Nat /\ C # {}
  BY <1>5
<1>8. PICK c \in C : \A x \in C : c <= x
  <2> HIDE DEF C
  <2> QED
    BY <1>7, LeastNumber
<1>9. PICK m \in M : m[1] = a /\ m[2][1] = b /\ m[2][2] = c
  BY <1>8
<1>10. a \in Nat /\ b \in Nat /\ c \in Nat
  BY <1>1, <1>2, <1>4, <1>5, <1>7, <1>8
<1>11. ASSUME NEW n \in M PROVE NotAfter(m, n)
  <2>1. PICK x, y, z : x = n[1] /\ y = n[2][1] /\ z = n[2][2]
    OBVIOUS
  <2>2. x \in Nat /\ y \in Nat /\ z \in Nat /\ a <= x
    BY <1>3, <1>11, <2>1
  <2>3. x = a => b <= y
    BY <1>6, <1>11, <2>1
  <2>4. x = a /\ y = b => c <= z
    BY <1>8, <1>11, <2>1
  <2>5. \/ a < x
        \/ a = x /\ (b < y \/ (b = y /\ c <= z))
    BY <1>10, <2>2, <2>3, <2>4
  <2> QED
    BY <1>9, <2>1, <2>5 DEF NotAfter
<1> QED
  BY <1>11

\* What is found was found by a pattern of the masker.
LEMMA FinderIs ==
  ASSUME NEW patterns \in Seq(MaskPatterns), NEW t \in Seq(STRING), NEW m \in KeywordMatches(patterns, t),
         NEW r \in FoundBy(patterns, t, m)
  PROVE  \E k \in FromPatterns(patterns) : FinderOf(patterns, t, r) = patterns[k]
<1> DEFINE by == {x \in KeywordMatches(patterns, t) : r \in FoundBy(patterns, t, x)}
<1>1. by # {}
  OBVIOUS
<1>2. ASSUME NEW x \in by
      PROVE  /\ x[1] \in Nat /\ x[2][1] \in Nat /\ x[2][2] \in Nat
             /\ x[2][1] \in FromPatterns(patterns)
  <2>1. PICK k \in FromPatterns(patterns) : \E n \in DOMAIN patterns[k].keywords : \E i :
          Occurs(t, patterns[k].keywords[n], i) /\ x = <<CharIndexToBytePos(t, i), <<k, n>>>>
    BY MatchesOccur
  <2>2. PICK n \in DOMAIN patterns[k].keywords : \E i :
          Occurs(t, patterns[k].keywords[n], i) /\ x = <<CharIndexToBytePos(t, i), <<k, n>>>>
    BY <2>1
  <2>3. PICK i : Occurs(t, patterns[k].keywords[n], i) /\ x = <<CharIndexToBytePos(t, i), <<k, n>>>>
    BY <2>2
  <2>4. k \in DOMAIN patterns
    BY FromAreOn
  <2>5. k \in Nat
    BY <2>4
  <2>6. patterns[k].keywords \in Seq(Seq(STRING))
    BY <2>4, PatternsTyped
  <2>7. n \in Nat
    BY <2>6
  <2>8. i \in Nat
    BY <2>3 DEF Occurs
  <2>9. CharIndexToBytePos(t, i) \in Nat
    BY <2>8, BytesTyped
  <2> QED
    BY <2>3, <2>5, <2>7, <2>9
<1>3. \E x \in by : \A n \in by : NotAfter(x, n)
  <2> HIDE DEF by
  <2> QED
    BY <1>1, <1>2, OneIsFirst
<1>4. PICK x : x = CHOOSE y \in by : \A n \in by : NotAfter(y, n)
  OBVIOUS
<1>5. x \in by
  <2> HIDE DEF by
  <2> QED
    BY <1>3, <1>4
<1>6. FinderOf(patterns, t, r) = patterns[x[2][1]]
  BY <1>4 DEF FinderOf
<1> QED
  BY <1>2, <1>5, <1>6

LEMMA MatchesAre ==
  ASSUME NEW patterns \in Seq(MaskPatterns), NEW t \in Seq(STRING), NEW r \in AllMatches(patterns, t)
  PROVE  /\ r \in Stretches(Len(t)) /\ r = <<r[1], r[2]>>
         /\ \E k \in FromPatterns(patterns) :
              FinderOf(patterns, t, r) = patterns[k] /\ ValidateEntity(patterns[k].id, t, r)
<1>1. PICK m \in KeywordMatches(patterns, t) : r \in FoundBy(patterns, t, m)
  BY DEF AllMatches
<1>2. ValidateEntity(FinderOf(patterns, t, r).id, t, r)
  BY DEF AllMatches
<1>3. r \in Stretches(Len(t)) /\ r = <<r[1], r[2]>>
  BY <1>1, FoundIsThere
<1>4. PICK k \in FromPatterns(patterns) : FinderOf(patterns, t, r) = patterns[k]
  BY <1>1, FinderIs
<1> QED
  BY <1>2, <1>3, <1>4

\* An entity that stands by itself in reach of a keyword of its pattern is a match.
LEMMA ReachIsMatched ==
  ASSUME NEW patterns \in Seq(MaskPatterns), NEW t \in Seq(STRING), FromPatterns(patterns) # {},
         NEW p \in DOMAIN patterns, patterns[p].on,
         NEW e \in ScanRegex(t, patterns[p].regex), Reaches(t, patterns[p], e),
         \A k \in DOMAIN patterns : patterns[k].on => ValidateEntity(patterns[k].id, t, e)
  PROVE  e \in AllMatches(patterns, t)
<1>1. p \in FromPatterns(patterns)
  BY DEF FromPatterns
<1>2. PICK i \in 0..Len(t) : \E n \in DOMAIN patterns[p].keywords :
        /\ patterns[p].keywords[n] # <<>>
        /\ \A j \in DOMAIN patterns[p].keywords[n] :
             i + j <= Len(t) /\ MaskLower(t[i + j]) = MaskLower(patterns[p].keywords[n][j])
        /\ e[1] >= i - patterns[p].dist
        /\ e[2] <= i + Len(patterns[p].keywords[n]) + patterns[p].dist
  BY DEF Reaches
<1>3. PICK n \in DOMAIN patterns[p].keywords :
        /\ patterns[p].keywords[n] # <<>>
        /\ \A j \in DOMAIN patterns[p].keywords[n] :
             i + j <= Len(t) /\ MaskLower(t[i + j]) = MaskLower(patterns[p].keywords[n][j])
        /\ e[1] >= i - patterns[p].dist
        /\ e[2] <= i + Len(patterns[p].keywords[n]) + patterns[p].dist
  BY <1>2
<1>4. PICK w, d, N, l : w = patterns[p].keywords[n] /\ d = patterns[p].dist /\ N = Len(t) /\ l = Len(w)
  OBVIOUS
<1>5. w \in Seq(STRING) /\ d \in Nat
  BY <1>4, PatternsTyped
<1>6. l \in Nat /\ N \in Nat /\ DOMAIN w = 1..l /\ i \in 0..N /\ l # 0
  BY <1>3, <1>4, <1>5
<1>7. \A j \in 1..l : i + j <= N /\ MaskLower(t[i + j]) = MaskLower(w[j])
  BY <1>3, <1>4, <1>6
<1>8. i + l <= N
  BY <1>6, <1>7
<1>9. Occurs(t, w, i)
  <2>1. i \in 0..(N - l)
    BY <1>6, <1>8
  <2> QED
    BY <1>3, <1>4, <1>7, <2>1 DEF Occurs, OccursAt
<1>10. PICK a, b : a = WindowFrom(i, d) /\ b = WindowTo(N, i + l, d)
  OBVIOUS
<1>11. /\ a \in Nat /\ b \in 0..N /\ a <= b
       /\ \A x \in Nat : x >= i - d => a <= x
       /\ \A x \in 0..N : x <= (i + l) + d => x <= b
  BY <1>1, <1>4, <1>9, <1>10, AroundHolds
<1>12. e[1] \in 0..N /\ e[2] \in 0..N
  BY <1>4 DEF ScanRegex
<1>13. e[1] >= i - d /\ e[2] <= (i + l) + d
  BY <1>3, <1>4
<1>14. a <= e[1] /\ e[2] <= b
  <2>1. e[1] \in Nat
    BY <1>12
  <2> QED
    BY <1>11, <1>12, <1>13, <2>1
<1>15. e \in RunsIn(t, a, b, patterns[p].regex)
  BY <1>4, <1>11, <1>14, RunIsFound
<1>16. PICK m : m = <<CharIndexToBytePos(t, i), <<p, n>>>>
  OBVIOUS
<1>17. m \in KeywordMatches(patterns, t)
  BY <1>1, <1>4, <1>9, <1>16, OccurrencesMatch
<1>18. e \in FoundBy(patterns, t, m)
  <2>1. FoundBy(patterns, t, m) = Around(patterns, t, p, n, i)
    BY <1>1, <1>4, <1>9, <1>16, FoundIsAround
  <2> QED
    BY <2>1, <1>4, <1>10, <1>15 DEF Around
<1>19. PICK k \in FromPatterns(patterns) : FinderOf(patterns, t, e) = patterns[k]
  BY <1>17, <1>18, FinderIs
<1>20. ValidateEntity(FinderOf(patterns, t, e).id, t, e)
  BY <1>19, FromAreOn
<1> QED
  BY <1>17, <1>18, <1>20 DEF AllMatches

(***************************************************************************)
(* Masker.  The matches that are kept.                                     *)
(***************************************************************************)
KeepTurn(matches, i, before) ==
  IF before < i /\ \E r \in matches : r[1] = i - 1 THEN Longest(matches, i - 1)[2] ELSE before
Keeping(matches, n, f) == f = [i \in 0..n |-> IF i = 0 THEN 0 ELSE KeepTurn(matches, i, f[i - 1])]

LEMMA Keeps ==
  ASSUME NEW matches, NEW n \in Nat
  PROVE  \E f : Keeping(matches, n, f)
<1> DEFINE T == {m \in Nat : ~ \E f : Keeping(matches, m, f)}
<1>1. SUFFICES ASSUME T # {} PROVE FALSE
  OBVIOUS
<1>2. PICK m \in T : \A j \in T : m <= j
  BY <1>1, LeastNumber
<1>3. CASE m = 0
  <2> DEFINE e == [i \in 0..0 |-> 0]
  <2>1. \A i \in 0..0 : i = 0
    OBVIOUS
  <2>2. e = [i \in 0..0 |-> IF i = 0 THEN 0 ELSE KeepTurn(matches, i, e[i - 1])]
    BY <2>1
  <2>3. Keeping(matches, 0, e)
    BY <2>2 DEF Keeping
  <2> QED
    BY <1>2, <1>3, <2>3
<1>4. CASE m # 0
  <2>1. PICK l : l = m - 1
    OBVIOUS
  <2>2. l \in Nat /\ l < m /\ m = l + 1 /\ m \in Nat
    BY <1>2, <1>4, <2>1
  <2>3. PICK f : Keeping(matches, l, f)
    BY <1>2, <2>2
  <2> DEFINE F(h, i) == IF i = 0 THEN 0 ELSE KeepTurn(matches, i, h[i - 1])
             g == [i \in 0..m |-> IF i = m THEN F(f, m) ELSE f[i]]
  <2>4. ASSUME NEW i \in 0..m PROVE g[i] = F(g, i)
    <3>1. CASE i = m
      <4>1. m - 1 \in 0..m /\ m - 1 # m
        BY <2>2
      <4>2. g[m - 1] = f[m - 1]
        BY <4>1
      <4>3. g[m] = F(f, m)
        BY <2>2
      <4> HIDE DEF g
      <4> QED
        BY <3>1, <1>4, <4>2, <4>3
    <3>2. CASE i # m
      <4>1. i \in 0..l
        BY <3>2, <2>2
      <4>2. g[i] = f[i]
        BY <3>2
      <4>3. f[i] = F(f, i)
        BY <4>1, <2>3 DEF Keeping
      <4>4. CASE i = 0
        BY <4>2, <4>3, <4>4
      <4>5. CASE i # 0
        <5>1. i - 1 \in 0..m /\ i - 1 # m
          BY <4>1, <4>5, <2>2
        <5>2. g[i - 1] = f[i - 1]
          BY <5>1
        <5> HIDE DEF g
        <5> QED
          BY <4>2, <4>3, <4>5, <5>2
      <4> QED
        BY <4>4, <4>5
    <3> QED
      BY <3>1, <3>2
  <2>5. g = [i \in 0..m |-> F(g, i)]
    BY <2>4
  <2>6. Keeping(matches, m, g)
    BY <2>5 DEF Keeping
  <2> QED
    BY <1>2, <2>6
<1> QED
  BY <1>3, <1>4

LEMMA KeptUntilIs ==
  ASSUME NEW matches, NEW n \in Nat
  PROVE  Keeping(matches, n, KeptUntil(matches, n))
<1>1. PICK g : g = CHOOSE f : Keeping(matches, n, f)
  OBVIOUS
<1>2. Keeping(matches, n, g)
  BY <1>1, Keeps
<1>3. KeptUntil(matches, n) = g
  BY <1>1 DEF KeptUntil, Keeping, KeepTurn
<1> QED
  BY <1>2, <1>3

LEMMA LongestIs ==
  ASSUME NEW n \in Nat, NEW matches \in SUBSET Stretches(n), NEW i, \E r \in matches : r[1] = i
  PROVE  /\ Longest(matches, i) \in matches /\ Longest(matches, i)[1] = i
         /\ \A s \in matches : s[1] = i => s[2] <= Longest(matches, i)[2]
<1> DEFINE E == {r[2] : r \in {s \in matches : s[1] = i}}
<1>1. E # {}
  OBVIOUS
<1>2. \A r \in matches : r[2] \in 1..n
  BY DEF Stretches
<1>3. E \in SUBSET (1..n)
  BY <1>2
<1>4. PICK x \in E : \A y \in E : y <= x
  <2> HIDE DEF E
  <2> QED
    BY <1>1, <1>3, GreatestNumber
<1>5. PICK r \in matches : r[1] = i /\ r[2] = x
  BY <1>4
<1>6. \A s \in matches : s[1] = i => s[2] <= r[2]
  BY <1>4, <1>5
<1> QED
  BY <1>5, <1>6 DEF Longest

\* Where the last one kept of those begun so far ends.
Reached(matches, n, f, i) ==
  /\ f[i] \in 0..n
  /\ f[i] = 0 \/ \E r \in DeduplicateMatches(matches, n) : r[1] < i /\ r[2] = f[i]
  /\ \A r \in DeduplicateMatches(matches, n) : r[1] < i => r[2] <= f[i]

LEMMA KeptIs ==
  ASSUME NEW n \in Nat, NEW matches \in SUBSET Stretches(n), NEW r
  PROVE  r \in DeduplicateMatches(matches, n)
           <=> r \in matches /\ KeptUntil(matches, n)[r[1]] <= r[1] /\ r = Longest(matches, r[1])
BY DEF DeduplicateMatches

LEMMA KeptReach ==
  ASSUME NEW n \in Nat, NEW matches \in SUBSET Stretches(n), NEW i \in 0..n
  PROVE  Reached(matches, n, KeptUntil(matches, n), i)
<1>1. PICK f : f = KeptUntil(matches, n)
  OBVIOUS
<1>2. Keeping(matches, n, f)
  BY <1>1, KeptUntilIs
<1>3. f[0] = 0 /\ \A j \in 1..n : f[j] = KeepTurn(matches, j, f[j - 1])
  BY <1>2 DEF Keeping
<1>4. \A r \in matches : r[1] \in Nat /\ r[2] \in 1..n /\ r[1] < r[2]
  BY DEF Stretches
<1>5. \A r : r \in DeduplicateMatches(matches, n) <=> r \in matches /\ f[r[1]] <= r[1] /\ r = Longest(matches, r[1])
  BY <1>1, KeptIs
<1> DEFINE T == {j \in 0..n : ~Reached(matches, n, f, j)}
<1>6. SUFFICES ASSUME T # {} PROVE FALSE
  BY <1>1
<1>7. T \in SUBSET Nat
  OBVIOUS
<1>8. PICK m \in T : \A j \in T : m <= j
  <2> HIDE DEF T
  <2> QED
    BY <1>6, <1>7, LeastNumber
<1>9. m \in 0..n /\ ~Reached(matches, n, f, m)
  OBVIOUS
<1>10. CASE m = 0
  <2>1. \A r \in DeduplicateMatches(matches, n) : ~(r[1] < 0)
    BY <1>4, <1>5
  <2> QED
    BY <1>3, <1>9, <1>10, <2>1 DEF Reached
<1>11. CASE m # 0
  <2>1. PICK l : l = m - 1
    OBVIOUS
  <2>2. l \in 0..n /\ l < m /\ m = l + 1 /\ m \in 1..n /\ l \in Nat
    BY <1>9, <1>11, <2>1
  <2>3. Reached(matches, n, f, l)
    BY <1>8, <2>2
  <2>4. PICK b, c : b = f[l] /\ c = f[m]
    OBVIOUS
  <2>5. /\ b = 0 \/ \E r \in DeduplicateMatches(matches, n) : r[1] < l /\ r[2] = b
        /\ \A r \in DeduplicateMatches(matches, n) : r[1] < l => r[2] <= b
    BY <2>3, <2>4 DEF Reached
  <2>6. b \in 0..n
    BY <2>3, <2>4 DEF Reached
  <2>7. c = KeepTurn(matches, m, b)
    BY <1>3, <2>1, <2>2, <2>4
  <2>8. \A r \in DeduplicateMatches(matches, n) : r[1] < m => r[1] < l \/ r[1] = l
    BY <1>4, <1>5, <2>2
  <2>9. \A r \in DeduplicateMatches(matches, n) : r[1] = l => b <= l /\ r = Longest(matches, l) /\ r \in matches
    BY <1>5, <2>4
  <2>10. CASE b < m /\ \E r \in matches : r[1] = l
    <3>1. PICK r : r = Longest(matches, l)
      OBVIOUS
    <3>2. r \in matches /\ r[1] = l
      BY <2>10, <3>1, LongestIs
    <3>3. c = r[2]
      BY <2>1, <2>7, <2>10, <3>1 DEF KeepTurn
    <3>4. b <= l
      BY <2>2, <2>6, <2>10
    <3>5. r \in DeduplicateMatches(matches, n)
      BY <1>5, <2>4, <3>1, <3>2, <3>4
    <3>6. c \in 1..n /\ l < c
      BY <1>4, <3>2, <3>3
    <3>7. \A s \in DeduplicateMatches(matches, n) : s[1] < m => s[2] <= c
      <4>1. \A s \in DeduplicateMatches(matches, n) : s[1] < l => s[2] <= b
        BY <2>5
      <4>2. \A s \in DeduplicateMatches(matches, n) : s[1] = l => s[2] = c
        BY <2>9, <3>1, <3>3
      <4>3. \A s \in DeduplicateMatches(matches, n) : s[2] \in Nat
        BY <1>4, <1>5
      <4> QED
        BY <2>2, <2>6, <2>8, <3>4, <3>6, <4>1, <4>2, <4>3
    <3>8. r[1] < m /\ r[2] = c
      BY <2>2, <3>2, <3>3
    <3> QED
      BY <1>9, <2>4, <3>5, <3>6, <3>7, <3>8 DEF Reached
  <2>11. CASE ~(b < m /\ \E r \in matches : r[1] = l)
    <3>1. c = b
      BY <2>1, <2>7, <2>11 DEF KeepTurn
    <3>2. \A r \in DeduplicateMatches(matches, n) : r[1] # l
      BY <2>2, <2>6, <2>9, <2>11
    <3>3. \A r \in DeduplicateMatches(matches, n) : r[1] < m => r[1] < l
      BY <2>8, <3>2
    <3>4. \A r \in DeduplicateMatches(matches, n) : r[1] < l => r[1] < m
      BY <1>4, <1>5, <2>2
    <3> QED
      BY <1>9, <2>3, <2>4, <3>1, <3>3, <3>4 DEF Reached
  <2> QED
    BY <2>10, <2>11
<1> QED
  BY <1>10, <1>11

\* Two that are kept are apart.
LEMMA KeptAreApart ==
  ASSUME NEW n \in Nat, NEW matches \in SUBSET Stretches(n),
         NEW r \in DeduplicateMatches(matches, n), NEW s \in DeduplicateMatches(matches, n)
  PROVE  /\ r[1] < s[1] => r[2] <= s[1]
         /\ r[1] = s[1] => r = s
<1>1. PICK x : x = KeptUntil(matches, n)[s[1]]
  OBVIOUS
<1>2. r \in matches /\ s \in matches /\ x <= s[1] /\ r = Longest(matches, r[1]) /\ s = Longest(matches, s[1])
  BY <1>1, KeptIs
<1>3. s[1] \in 0..n /\ r[2] \in Nat
  BY <1>2 DEF Stretches
<1>4. Reached(matches, n, KeptUntil(matches, n), s[1])
  BY <1>3, KeptReach
<1>5. x \in Nat /\ (r[1] < s[1] => r[2] <= x)
  BY <1>1, <1>4 DEF Reached
<1> QED
  BY <1>2, <1>3, <1>5

\* Every match overlaps with one that is kept.
LEMMA MatchesAreTouched ==
  ASSUME NEW n \in Nat, NEW matches \in SUBSET Stretches(n), NEW e \in matches
  PROVE  \E r \in DeduplicateMatches(matches, n) : r[1] < e[2] /\ e[1] < r[2]
<1>1. PICK a, b : a = e[1] /\ b = e[2]
  OBVIOUS
<1>2. a \in 0..n /\ b \in 0..n /\ a < b
  BY <1>1 DEF Stretches
<1>3. PICK x : x = KeptUntil(matches, n)[a]
  OBVIOUS
<1>4. Reached(matches, n, KeptUntil(matches, n), a)
  BY <1>2, KeptReach
<1>5. x \in 0..n
  BY <1>3, <1>4 DEF Reached
<1>6. CASE x <= a
  <2>1. PICK r : r = Longest(matches, a)
    OBVIOUS
  <2>2. r \in matches /\ r[1] = a /\ b <= r[2]
    BY <1>1, <2>1, LongestIs
  <2>3. r \in DeduplicateMatches(matches, n)
    BY <1>3, <1>6, <2>1, <2>2, KeptIs
  <2>4. r[2] \in Nat
    BY <2>2 DEF Stretches
  <2> QED
    BY <1>1, <1>2, <2>2, <2>3, <2>4
<1>7. CASE ~(x <= a)
  <2>1. x # 0
    BY <1>2, <1>7
  <2>2. PICK r \in DeduplicateMatches(matches, n) : r[1] < a /\ r[2] = x
    BY <1>3, <1>4, <2>1 DEF Reached
  <2>3. r[1] \in Nat
    BY KeptIs DEF Stretches
  <2> QED
    BY <1>1, <1>2, <1>5, <1>7, <2>2, <2>3
<1> QED
  BY <1>6, <1>7


(***************************************************************************)
(* Masker.  What a probe shows.                                            *)
(***************************************************************************)
MaskInv ==
  \/ maskProbe = NoText
  \/ \E p \in MaskPatternLists, t \in MaskTexts : maskProbe = [patterns |-> p, text |-> t, out |-> MaskText(p, t)]

LEMMA ProbeIs ==
  ASSUME MaskInv, Probed
  PROVE  /\ maskProbe.patterns \in Seq(MaskPatterns) /\ maskProbe.text \in Seq(STRING)
         /\ maskProbe.out = MaskText(maskProbe.patterns, maskProbe.text)
         /\ \A k \in DOMAIN maskProbe.patterns, i \in DOMAIN maskProbe.text :
              maskProbe.patterns[k].id # maskProbe.text[i]
<1>1. PICK p \in MaskPatternLists, t \in MaskTexts : maskProbe = [patterns |-> p, text |-> t, out |-> MaskText(p, t)]
  BY DEF MaskInv, Probed
<1>2. maskProbe.patterns = p /\ maskProbe.text = t /\ maskProbe.out = MaskText(p, t)
  BY <1>1
<1>3. p \in Seq(MaskPatterns) /\ t \in Seq(STRING)
  BY MaskAssumption
<1>4. \A k \in DOMAIN p, i \in DOMAIN t : p[k].id # t[i]
  BY MaskAssumption
<1> QED
  BY <1>2, <1>3, <1>4

LEMMA NothingIsKept ==
  ASSUME NEW patterns, NEW t, FromPatterns(patterns) = {}
  PROVE  MaskText(patterns, t).matches = {} /\ MaskText(patterns, t).text = t
BY DEF MaskText

LEMMA SomeAreKept ==
  ASSUME NEW patterns \in Seq(MaskPatterns), NEW t \in Seq(STRING), FromPatterns(patterns) # {}
  PROVE  /\ MaskText(patterns, t).matches = DeduplicateMatches(AllMatches(patterns, t), Len(t))
         /\ MaskText(patterns, t).text
              = FlattenSeq([i \in DOMAIN t |-> Written(patterns, t, DeduplicateMatches(AllMatches(patterns, t), Len(t)), i)])
         /\ AllMatches(patterns, t) \in SUBSET Stretches(Len(t))
<1>1. AllMatches(patterns, t) \in SUBSET Stretches(Len(t))
  BY MatchesAre
<1>2. MaskText(patterns, t) = Desensitize(patterns, t)
  BY DEF MaskText
<1> QED
  BY <1>1, <1>2 DEF Desensitize

LEMMA KeptAreMatches ==
  ASSUME NEW patterns \in Seq(MaskPatterns), NEW t \in Seq(STRING), NEW r \in MaskText(patterns, t).matches
  PROVE  r \in AllMatches(patterns, t) /\ FromPatterns(patterns) # {}
<1>1. FromPatterns(patterns) # {}
  BY NothingIsKept
<1> QED
  BY <1>1, SomeAreKept DEF DeduplicateMatches

LEMMA ReachableHolds ==
  ASSUME MaskInv
  PROVE  ReachableIsTouched
<1>1. SUFFICES ASSUME Probed, FromPatterns(maskProbe.patterns) # {},
                      NEW p \in Enabled, NEW e \in ScanRegex(maskProbe.text, maskProbe.patterns[p].regex),
                      Reaches(maskProbe.text, maskProbe.patterns[p], e),
                      \A q \in Enabled : ValidateEntity(maskProbe.patterns[q].id, maskProbe.text, e)
               PROVE  \E r \in maskProbe.out.matches : r[1] < e[2] /\ e[1] < r[2]
  BY DEF ReachableIsTouched
<1>2. PICK patterns, t : patterns = maskProbe.patterns /\ t = maskProbe.text
  OBVIOUS
<1>3. patterns \in Seq(MaskPatterns) /\ t \in Seq(STRING) /\ maskProbe.out = MaskText(patterns, t)
  BY <1>1, <1>2, ProbeIs
<1>4. p \in DOMAIN patterns /\ patterns[p].on
  BY <1>1, <1>2 DEF Enabled
<1>5. \A k \in DOMAIN patterns : patterns[k].on => ValidateEntity(patterns[k].id, t, e)
  BY <1>1, <1>2 DEF Enabled
<1>6. e \in AllMatches(patterns, t)
  BY <1>1, <1>2, <1>3, <1>4, <1>5, ReachIsMatched
<1>7. PICK n : n = Len(t)
  OBVIOUS
<1>8. n \in Nat
  BY <1>3, <1>7
<1>9. AllMatches(patterns, t) \in SUBSET Stretches(n)
  BY <1>1, <1>2, <1>3, <1>7, SomeAreKept
<1>10. \E r \in DeduplicateMatches(AllMatches(patterns, t), n) : r[1] < e[2] /\ e[1] < r[2]
  BY <1>6, <1>8, <1>9, MatchesAreTouched
<1>11. maskProbe.out.matches = DeduplicateMatches(AllMatches(patterns, t), n)
  BY <1>1, <1>2, <1>3, <1>7, SomeAreKept
<1> QED
  BY <1>10, <1>11

LEMMA WholeHolds ==
  ASSUME MaskInv
  PROVE  OnlyWholeEntities
<1>1. SUFFICES ASSUME Probed, NEW r \in maskProbe.out.matches
               PROVE  /\ ~Beside(maskProbe.text, r, Digits)
                      /\ \/ FinderOf(maskProbe.patterns, maskProbe.text, r).id \in Numbered
                         \/ ~Beside(maskProbe.text, r, Alnum)
  BY DEF OnlyWholeEntities
<1>2. PICK patterns, t : patterns = maskProbe.patterns /\ t = maskProbe.text
  OBVIOUS
<1>3. patterns \in Seq(MaskPatterns) /\ t \in Seq(STRING) /\ maskProbe.out = MaskText(patterns, t)
  BY <1>1, <1>2, ProbeIs
<1>4. r \in AllMatches(patterns, t)
  BY <1>1, <1>3, KeptAreMatches
<1>5. PICK k \in FromPatterns(patterns) :
        FinderOf(patterns, t, r) = patterns[k] /\ ValidateEntity(patterns[k].id, t, r)
  BY <1>3, <1>4, MatchesAre
<1>6. ~Beside(t, r, Alnum) => ~Beside(t, r, Digits)
  BY DEF Beside, Alnum
<1>7. CASE patterns[k].id \in Numbered
  BY <1>2, <1>5, <1>7 DEF ValidateEntity
<1>8. CASE patterns[k].id \notin Numbered
  BY <1>2, <1>5, <1>6, <1>8 DEF ValidateEntity
<1> QED
  BY <1>7, <1>8

LEMMA SearchHolds ==
  ASSUME MaskInv
  PROVE  SearchIsWhole
<1>1. SUFFICES ASSUME Probed, NEW p \in Enabled, NEW w \in DOMAIN maskProbe.patterns[p].keywords,
                      NEW t, NEW keyword, t = maskProbe.text, keyword = maskProbe.patterns[p].keywords[w]
               PROVE  /\ \A n \in 0..Len(t) : SearchStarts(t, keyword)[n] \in Boundaries(t)
                      /\ Occurrences(t, keyword) \subseteq ScanLiteral(t, keyword)
  BY DEF SearchIsWhole
<1>2. t \in Seq(STRING) /\ maskProbe.patterns \in Seq(MaskPatterns) /\ p \in DOMAIN maskProbe.patterns
  BY <1>1, ProbeIs DEF Enabled
<1>3. keyword \in Seq(STRING)
  BY <1>1, <1>2, PatternsTyped
<1>4. ASSUME NEW n \in 0..Len(t) PROVE SearchStarts(t, keyword)[n] \in Boundaries(t)
  BY <1>2, <1>3, SearchesBegin DEF Begun, Boundaries
<1> QED
  BY <1>2, <1>3, <1>4, ScanFinds

(***************************************************************************)
(* Masker.  Pieces of a text put together.                                 *)
(***************************************************************************)
Flattening(q, n, f) == f = [i \in 1..n |-> IF i = 1 THEN q[i] ELSE f[i - 1] \o q[i]]

LEMMA Flattens ==
  ASSUME NEW q, NEW n \in Nat
  PROVE  \E f : Flattening(q, n, f)
<1> DEFINE T == {m \in Nat : ~ \E f : Flattening(q, m, f)}
<1>1. SUFFICES ASSUME T # {} PROVE FALSE
  OBVIOUS
<1>2. PICK m \in T : \A j \in T : m <= j
  BY <1>1, LeastNumber
<1>3. CASE m = 0
  <2> DEFINE e == [i \in 1..0 |-> <<>>]
  <2>1. Flattening(q, 0, e)
    BY DEF Flattening
  <2> QED
    BY <1>2, <1>3, <2>1
<1>4. CASE m # 0
  <2>1. PICK l : l = m - 1
    OBVIOUS
  <2>2. l \in Nat /\ l < m /\ m = l + 1 /\ m \in Nat
    BY <1>2, <1>4, <2>1
  <2>3. PICK f : Flattening(q, l, f)
    BY <1>2, <2>2
  <2> DEFINE F(h, i) == IF i = 1 THEN q[i] ELSE h[i - 1] \o q[i]
             g == [i \in 1..m |-> IF i = m THEN F(f, m) ELSE f[i]]
  <2>4. ASSUME NEW i \in 1..m PROVE g[i] = F(g, i)
    <3>1. CASE i = m
      <4>1. CASE m = 1
        BY <3>1, <4>1
      <4>2. CASE m # 1
        <5>1. m - 1 \in 1..m /\ m - 1 # m
          BY <2>2, <4>2
        <5>2. g[m - 1] = f[m - 1]
          BY <5>1
        <5>3. g[m] = F(f, m)
          BY <2>2
        <5> HIDE DEF g
        <5> QED
          BY <3>1, <5>2, <5>3
      <4> QED
        BY <4>1, <4>2
    <3>2. CASE i # m
      <4>1. i \in 1..l
        BY <3>2, <2>2
      <4>2. g[i] = f[i]
        BY <3>2
      <4>3. f[i] = F(f, i)
        BY <4>1, <2>3 DEF Flattening
      <4>4. CASE i = 1
        BY <4>2, <4>3, <4>4
      <4>5. CASE i # 1
        <5>1. i - 1 \in 1..m /\ i - 1 # m
          BY <4>1, <4>5, <2>2
        <5>2. g[i - 1] = f[i - 1]
          BY <5>1
        <5> HIDE DEF g
        <5> QED
          BY <4>2, <4>3, <5>2
      <4> QED
        BY <4>4, <4>5
    <3> QED
      BY <3>1, <3>2
  <2>5. g = [i \in 1..m |-> F(g, i)]
    BY <2>4
  <2>6. Flattening(q, m, g)
    BY <2>5 DEF Flattening
  <2> QED
    BY <1>2, <2>6
<1> QED
  BY <1>3, <1>4

LEMMA FlattenEnds ==
  ASSUME NEW S, NEW q \in Seq(S), NEW n \in Nat, n = Len(q)
  PROVE  /\ n = 0 => FlattenSeq(q) = <<>>
         /\ n # 0 => \E f : Flattening(q, n, f) /\ FlattenSeq(q) = f[n]
<1>1. CASE n = 0
  <2>1. q = <<>>
    BY <1>1, EmptySeq, SeqEqual
  <2>2. FlattenSeq(q) = <<>>
    BY <1>1, <2>1 DEF FlattenSeq
  <2> QED
    BY <1>1, <2>2
<1>2. CASE n # 0
  <2>1. PICK f : f = CHOOSE g : Flattening(q, n, g)
    OBVIOUS
  <2>2. Flattening(q, n, f)
    BY <2>1, Flattens
  <2>3. FlattenSeq(q) = f[n]
    BY <1>2, <2>1 DEF FlattenSeq, Flattening
  <2> QED
    BY <1>2, <2>2, <2>3
<1> QED
  BY <1>1, <1>2

(***************************************************************************)
(* Masker.  Marks and matches counted from the left.                       *)
(***************************************************************************)
MarkedIn(o, M, k) == {j \in 1..k : o[j] \in M}
MarksIn(o, M, k) == Cardinality(MarkedIn(o, M, k))

LEMMA MarksMove ==
  ASSUME NEW o, NEW M, NEW k \in Nat
  PROVE  /\ MarksIn(o, M, k) \in Nat /\ MarksIn(o, M, 0) = 0
         /\ o[k + 1] \in M => MarksIn(o, M, k + 1) = MarksIn(o, M, k) + 1
         /\ o[k + 1] \notin M => MarksIn(o, M, k + 1) = MarksIn(o, M, k)
<1>1. k + 1 \notin 1..k /\ 1..(k + 1) = (1..k) \cup {k + 1}
  OBVIOUS
<1>2. IsFiniteSet(MarkedIn(o, M, k))
  <2>1. IsFiniteSet(1..k)
    BY FS_Interval
  <2>2. MarkedIn(o, M, k) \in SUBSET (1..k)
    BY DEF MarkedIn
  <2> QED
    BY <2>1, <2>2, FS_Subset
<1>3. MarksIn(o, M, k) \in Nat
  BY <1>2, FS_CardinalityType DEF MarksIn
<1>4. MarkedIn(o, M, 0) = {}
  BY DEF MarkedIn
<1>5. MarksIn(o, M, 0) = 0
  BY <1>4, FS_EmptySet DEF MarksIn
<1>6. ASSUME o[k + 1] \in M PROVE MarksIn(o, M, k + 1) = MarksIn(o, M, k) + 1
  <2>1. MarkedIn(o, M, k + 1) = MarkedIn(o, M, k) \cup {k + 1}
    BY <1>1, <1>6 DEF MarkedIn
  <2>2. k + 1 \notin MarkedIn(o, M, k)
    BY <1>1 DEF MarkedIn
  <2> QED
    BY <1>2, <2>1, <2>2, FS_AddElement DEF MarksIn
<1>7. ASSUME o[k + 1] \notin M PROVE MarksIn(o, M, k + 1) = MarksIn(o, M, k)
  <2>1. MarkedIn(o, M, k + 1) = MarkedIn(o, M, k)
    BY <1>1, <1>7 DEF MarkedIn
  <2> QED
    BY <2>1 DEF MarksIn
<1> QED
  BY <1>3, <1>5, <1>6, <1>7

\* Stretches that do not overlap, and those that begin before a place.
Apart(n, K) ==
  /\ K \in SUBSET Stretches(n)
  /\ \A r \in K, s \in K : (r[1] < s[1] => r[2] <= s[1]) /\ (r[1] = s[1] => r = s)
BegunBefore(K, i) == {r \in K : r[1] < i}

LEMMA BegunMove ==
  ASSUME NEW n \in Nat, NEW K, Apart(n, K), NEW i \in Nat
  PROVE  /\ IsFiniteSet(K) /\ BegunBefore(K, 0) = {} /\ BegunBefore(K, n) = K
         /\ Cardinality(BegunBefore(K, i)) \in Nat
         /\ ~(\E r \in K : r[1] = i) => BegunBefore(K, i + 1) = BegunBefore(K, i)
<1>1. \A r \in K : r[1] \in 0..n /\ r[2] \in 0..n /\ r[1] < r[2]
  BY DEF Apart, Stretches
<1>2. IsFiniteSet(K)
  <2>1. IsFiniteSet((0..n) \X (0..n))
    <3>1. 0 \in Int /\ n \in Int
      OBVIOUS
    <3>2. IsFiniteSet(0..n)
      BY <3>1, FS_Interval
    <3> QED
      BY <3>2, FS_Product
  <2>2. K \in SUBSET ((0..n) \X (0..n))
    BY DEF Apart, Stretches
  <2> QED
    BY <2>1, <2>2, FS_Subset
<1>3. BegunBefore(K, 0) = {} /\ BegunBefore(K, n) = K
  BY <1>1 DEF BegunBefore
<1>4. IsFiniteSet(BegunBefore(K, i))
  <2>1. BegunBefore(K, i) \in SUBSET K
    BY DEF BegunBefore
  <2> QED
    BY <1>2, <2>1, FS_Subset
<1>5. Cardinality(BegunBefore(K, i)) \in Nat
  BY <1>4, FS_CardinalityType
<1>6. \A r \in K : r[1] < i + 1 <=> r[1] < i \/ r[1] = i
  BY <1>1
<1>7. ASSUME ~(\E r \in K : r[1] = i) PROVE BegunBefore(K, i + 1) = BegunBefore(K, i)
  BY <1>6, <1>7 DEF BegunBefore
<1> QED
  BY <1>2, <1>3, <1>5, <1>7

LEMMA BegunGrows ==
  ASSUME NEW n \in Nat, NEW K, Apart(n, K), NEW i \in Nat, NEW r \in K, r[1] = i
  PROVE  Cardinality(BegunBefore(K, i + 1)) = Cardinality(BegunBefore(K, i)) + 1
<1>1. \A s \in K : s[1] \in 0..n
  BY DEF Apart, Stretches
<1>2. \A s \in K : s[1] < i + 1 <=> s[1] < i \/ s[1] = i
  BY <1>1
<1>3. \A s \in K : s[1] = i => s = r
  BY DEF Apart
<1>4. BegunBefore(K, i + 1) = BegunBefore(K, i) \cup {r}
  BY <1>2, <1>3 DEF BegunBefore
<1>5. r \notin BegunBefore(K, i)
  BY DEF BegunBefore
<1>6. IsFiniteSet(BegunBefore(K, i))
  <2>1. BegunBefore(K, i) \in SUBSET K
    BY DEF BegunBefore
  <2>2. IsFiniteSet(K)
    BY BegunMove
  <2> QED
    BY <2>1, <2>2, FS_Subset
<1> QED
  BY <1>4, <1>5, <1>6, FS_AddElement

NthOf(K, m) == CHOOSE r \in K : Cardinality({s \in K : s[1] <= r[1]}) = m

LEMMA NthIs ==
  ASSUME NEW n \in Nat, NEW K, Apart(n, K), NEW r \in K, NEW i \in Nat, r[1] = i
  PROVE  NthOf(K, Cardinality(BegunBefore(K, i + 1))) = r
<1>1. \A s \in K : s[1] \in 0..n
  BY DEF Apart, Stretches
<1> DEFINE U(s) == {x \in K : x[1] <= s[1]}
<1>2. U(r) = BegunBefore(K, i + 1)
  BY <1>1 DEF BegunBefore
<1>3. \A s \in K : IsFiniteSet(U(s))
  <2>1. IsFiniteSet(K)
    BY BegunMove
  <2> QED
    BY <2>1, FS_Subset
<1>4. ASSUME NEW s \in K, Cardinality(U(s)) = Cardinality(U(r)) PROVE s = r
  <2>1. s[1] <= r[1] \/ r[1] <= s[1]
    BY <1>1
  <2>2. CASE s[1] <= r[1]
    <3>1. U(s) \in SUBSET U(r)
      BY <1>1, <2>2
    <3>2. U(s) = U(r)
      <4> HIDE DEF U
      <4> QED
        BY <1>3, <1>4, <3>1, FS_Subset
    <3>3. r \in U(r)
      BY <1>1
    <3>4. r[1] <= s[1]
      BY <3>2, <3>3
    <3>5. r[1] = s[1]
      BY <1>1, <2>2, <3>4
    <3> QED
      BY <3>5 DEF Apart
  <2>3. CASE r[1] <= s[1]
    <3>1. U(r) \in SUBSET U(s)
      BY <1>1, <2>3
    <3>2. U(s) = U(r)
      <4> HIDE DEF U
      <4> QED
        BY <1>3, <1>4, <3>1, FS_Subset
    <3>3. s \in U(s)
      BY <1>1
    <3>4. s[1] <= r[1]
      BY <3>2, <3>3
    <3>5. r[1] = s[1]
      BY <1>1, <2>3, <3>4
    <3> QED
      BY <3>5 DEF Apart
  <2> QED
    BY <2>1, <2>2, <2>3
<1>5. PICK m : m = Cardinality(BegunBefore(K, i + 1))
  OBVIOUS
<1>6. Cardinality(U(r)) = m
  BY <1>2, <1>5
<1>7. \A s \in K : Cardinality(U(s)) = m => s = r
  BY <1>4, <1>6
<1>8. NthOf(K, m) = r
  BY <1>6, <1>7 DEF NthOf
<1> QED
  BY <1>5, <1>8


(***************************************************************************)
(* Masker.  Reading a text back from what was written for it.              *)
(***************************************************************************)
\* What is written for the next character, and how much is written before and after it.
ToldAt(t, K, M, o, c, i) ==
  \/ (\E r \in K : r[1] = i) /\ c[i + 1] = c[i] + 1 /\ o[c[i] + 1] \in M
  \/ ~(\E r \in K : r[1] = i) /\ (\E s \in K : s[1] < i /\ i < s[2]) /\ c[i + 1] = c[i]
  \/ ~(\E s \in K : s[1] <= i /\ i < s[2]) /\ c[i + 1] = c[i] + 1 /\ o[c[i] + 1] = t[i + 1]

Was(t, K, M, o, k) ==
  IF o[k] \in M
  THEN SubSeq(t, NthOf(K, MarksIn(o, M, k))[1] + 1, NthOf(K, MarksIn(o, M, k))[2])
  ELSE <<o[k]>>
PrefixOf(f, k) == IF k = 0 THEN <<>> ELSE f[k]
ReadUpTo(t, n, K, s, i, e) ==
  /\ s = SubSeq(t, 1, e)
  /\ e = i \/ \E r \in K : r[1] < i /\ r[2] = e
  /\ \A r \in K : r[1] < i => r[2] <= e
Restored(t, n, K, M, o, c, f, i) ==
  /\ c[i] \in Nat
  /\ MarksIn(o, M, c[i]) = Cardinality(BegunBefore(K, i))
  /\ \E e \in i..n : ReadUpTo(t, n, K, PrefixOf(f, c[i]), i, e)
\* The piece at y is put behind what comes before it.
GrowsAt(t, K, M, o, q, f, x, y) ==
  /\ q[y] = Was(t, K, M, o, y)
  /\ q[y] \in Seq(STRING) => PrefixOf(f, y) = PrefixOf(f, x) \o q[y]
Unmarked(t, n, M) == \A i \in 1..n : t[i] \notin M

\* One more piece.
LEMMA StretchesJoin ==
  ASSUME NEW t \in Seq(STRING), NEW e \in 0..Len(t), NEW d \in e..Len(t)
  PROVE  /\ SubSeq(t, 1, e) \o SubSeq(t, e + 1, d) = SubSeq(t, 1, d)
         /\ SubSeq(t, e + 1, d) \in Seq(STRING)
<1>1. 1 \in 1..(Len(t) + 1) /\ e \in (1 - 1)..Len(t)
  OBVIOUS
<1>2. SubSeq(t, 1, e) \o SubSeq(t, e + 1, d) = SubSeq(t, 1, d)
  BY <1>1, ConcatAdjacentSubSeq
<1>3. \A z \in (e + 1)..d : t[z] \in STRING
  BY ElementOfSeq
<1>4. e + 1 \in Int /\ d \in Int
  OBVIOUS
<1>5. SubSeq(t, e + 1, d) \in Seq(STRING)
  BY <1>3, <1>4, SubSeqProperties
<1> QED
  BY <1>2, <1>5

LEMMA PrefixGrows ==
  ASSUME NEW q, NEW L, NEW f, Flattening(q, L, f), NEW k \in Nat, NEW j \in 1..L, j = k + 1, q[j] \in Seq(STRING)
  PROVE  PrefixOf(f, j) = PrefixOf(f, k) \o q[j]
<1>1. f[j] = IF j = 1 THEN q[j] ELSE f[k] \o q[j]
  <2>1. f[j] = IF j = 1 THEN q[j] ELSE f[j - 1] \o q[j]
    BY DEF Flattening
  <2>2. j - 1 = k
    OBVIOUS
  <2> QED
    BY <2>1, <2>2
<1>2. PrefixOf(f, j) = f[j]
  BY DEF PrefixOf
<1>3. CASE k = 0
  <2>1. <<>> \o q[j] = q[j]
    BY ConcatEmptySeq
  <2>2. PrefixOf(f, k) = <<>>
    BY <1>3 DEF PrefixOf
  <2>3. j = 1
    BY <1>3
  <2>4. f[j] = q[j]
    BY <1>1, <2>3
  <2> QED
    BY <1>2, <2>1, <2>2, <2>4
<1>4. CASE k # 0
  <2>1. PrefixOf(f, k) = f[k]
    BY <1>4 DEF PrefixOf
  <2>2. j # 1
    BY <1>4
  <2>3. f[j] = f[k] \o q[j]
    BY <1>1, <2>2
  <2> QED
    BY <1>2, <2>1, <2>3
<1> QED
  BY <1>3, <1>4

LEMMA RestoreStep ==
  ASSUME NEW t \in Seq(STRING), NEW n \in Nat, n = Len(t), NEW K, Apart(n, K), NEW M, Unmarked(t, n, M),
         NEW o, NEW q, NEW f, NEW c, NEW i \in Nat, i < n, ToldAt(t, K, M, o, c, i), c[i + 1] \in Nat,
         c[i + 1] = c[i] + 1 => GrowsAt(t, K, M, o, q, f, c[i], c[i + 1]), Restored(t, n, K, M, o, c, f, i)
  PROVE  Restored(t, n, K, M, o, c, f, i + 1)
<1>1. PICK x, y : x = c[i] /\ y = c[i + 1]
  OBVIOUS
<1>2. x \in Nat /\ y \in Nat /\ (y = x + 1 => GrowsAt(t, K, M, o, q, f, x, y))
  BY <1>1 DEF Restored
<1>3. PICK m : m = MarksIn(o, M, x)
  OBVIOUS
<1>4. m \in Nat /\ m = Cardinality(BegunBefore(K, i))
  BY <1>1, <1>2, <1>3, MarksMove DEF Restored
<1>5. PICK e \in i..n : ReadUpTo(t, n, K, PrefixOf(f, x), i, e)
  BY <1>1 DEF Restored
<1>6. \A r \in K : r[1] \in Nat /\ r[2] \in 0..n /\ r[1] < r[2]
  BY DEF Apart, Stretches
<1>7. /\ PrefixOf(f, x) = SubSeq(t, 1, e)
      /\ e = i \/ \E r \in K : r[1] < i /\ r[2] = e
      /\ \A r \in K : r[1] < i => r[2] <= e
  BY <1>5 DEF ReadUpTo
<1>8. i + 1 \in Nat /\ i + 1 \in 1..n /\ e \in 0..n /\ e \in Nat
  OBVIOUS
<1>9. \A r \in K : r[1] < i + 1 <=> r[1] < i \/ r[1] = i
  BY <1>6
<1>10. CASE (\E r \in K : r[1] = i) /\ y = x + 1 /\ o[x + 1] \in M
  <2>1. PICK r \in K : r[1] = i
    BY <1>10
  <2>2. PICK d : d = r[2]
    OBVIOUS
  <2>3. d \in 0..n /\ i < d
    BY <1>6, <2>1, <2>2
  <2>4. e = i
    <3>1. ASSUME NEW s \in K, s[1] < i, s[2] = e PROVE e <= i
      BY <2>1, <3>1 DEF Apart
    <3> QED
      BY <1>7, <3>1
  <2>5. MarksIn(o, M, y) = m + 1
    BY <1>2, <1>3, <1>10, MarksMove
  <2>6. Cardinality(BegunBefore(K, i + 1)) = m + 1
    <3>1. Cardinality(BegunBefore(K, i + 1)) = Cardinality(BegunBefore(K, i)) + 1
      BY <2>1, BegunGrows
    <3> QED
      BY <1>4, <3>1
  <2>7. NthOf(K, m + 1) = r
    BY <2>1, <2>6, NthIs
  <2>8. q[y] = SubSeq(t, i + 1, d)
    <3>1. q[y] = Was(t, K, M, o, y)
      BY <1>2, <1>10 DEF GrowsAt
    <3>2. NthOf(K, MarksIn(o, M, y)) = r
      BY <1>10, <2>5, <2>7
    <3>3. Was(t, K, M, o, y) = SubSeq(t, r[1] + 1, r[2])
      BY <1>10, <3>2 DEF Was
    <3> QED
      BY <2>1, <2>2, <3>1, <3>3 
  <2>9. PrefixOf(f, y) = SubSeq(t, 1, d)
    <3>1. e \in 0..Len(t) /\ d \in e..Len(t)
      BY <2>3, <2>4
    <3>2. q[y] = SubSeq(t, e + 1, d)
      BY <2>4, <2>8
    <3>3. q[y] \in Seq(STRING) /\ SubSeq(t, 1, e) \o q[y] = SubSeq(t, 1, d)
      BY <3>1, <3>2, StretchesJoin
    <3>4. PrefixOf(f, y) = PrefixOf(f, x) \o q[y]
      BY <1>2, <1>10, <3>3 DEF GrowsAt
    <3> QED
      BY <1>7, <3>3, <3>4
  <2>10. \A s \in K : s[1] < i + 1 => s[2] <= d
    <3>1. \A s \in K : s[1] < i => s[2] <= e
      BY <1>7
    <3>2. \A s \in K : s[1] = i => s = r
      BY <2>1 DEF Apart
    <3>3. \A s \in K : s[1] < i => s[2] <= d
      BY <1>6, <2>3, <2>4, <3>1
    <3>4. \A s \in K : s[1] = i => s[2] <= d
      BY <2>2, <2>3, <3>2
    <3> QED
      BY <1>9, <3>3, <3>4
  <2>11. ReadUpTo(t, n, K, PrefixOf(f, y), i + 1, d)
    <3>1. r[1] < i + 1 /\ r[2] = d
      BY <2>1, <2>2
    <3> QED
      BY <1>10, <2>9, <2>10, <3>1 DEF ReadUpTo
  <2>12. d \in (i + 1)..n
    BY <2>3
  <2> QED
    BY <1>1, <1>2, <2>5, <2>6, <2>11, <2>12 DEF Restored
<1>11. CASE ~(\E r \in K : r[1] = i) /\ (\E s \in K : s[1] < i /\ i < s[2]) /\ y = x
  <2>1. PICK s \in K : s[1] < i /\ i < s[2]
    BY <1>11
  <2>2. i < e
    <3>1. s[2] <= e /\ s[2] \in Nat
      BY <1>6, <1>7, <2>1
    <3> QED
      BY <1>8, <2>1, <3>1
  <2>3. PICK r \in K : r[1] < i /\ r[2] = e
    BY <1>7, <2>2
  <2>4. r[1] < i + 1 /\ e \in (i + 1)..n
    BY <1>6, <2>2, <2>3
  <2>5. \A z \in K : z[1] < i + 1 => z[2] <= e
    BY <1>7, <1>9, <1>11
  <2>6. ReadUpTo(t, n, K, PrefixOf(f, y), i + 1, e)
    BY <1>7, <1>11, <2>3, <2>4, <2>5 DEF ReadUpTo
  <2>7. BegunBefore(K, i + 1) = BegunBefore(K, i)
    BY <1>11, BegunMove
  <2> QED
    BY <1>1, <1>2, <1>3, <1>4, <1>11, <2>4, <2>6, <2>7 DEF Restored
<1>12. CASE ~(\E s \in K : s[1] <= i /\ i < s[2]) /\ y = x + 1 /\ o[x + 1] = t[i + 1]
  <2>1. e = i
    <3>1. ASSUME NEW s \in K, s[1] < i, s[2] = e PROVE e <= i
      <4>1. s[1] <= i
        BY <1>6, <3>1
      <4> QED
        BY <1>8, <1>12, <3>1, <4>1
    <3> QED
      BY <1>7, <3>1
  <2>2. ~(\E r \in K : r[1] = i)
    BY <1>6, <1>12
  <2>3. o[x + 1] \notin M
    BY <1>8, <1>12 DEF Unmarked
  <2>4. MarksIn(o, M, y) = m
    BY <1>2, <1>3, <1>12, <2>3, MarksMove
  <2>5. BegunBefore(K, i + 1) = BegunBefore(K, i)
    BY <2>2, BegunMove
  <2>6. q[y] = <<t[i + 1]>>
    <3>1. q[y] = Was(t, K, M, o, y)
      BY <1>2, <1>12 DEF GrowsAt
    <3>2. Was(t, K, M, o, y) = <<t[i + 1]>>
      BY <1>12, <2>3 DEF Was
    <3> QED
      BY <3>1, <3>2 
  <2>7. SubSeq(t, i + 1, i + 1) = <<t[i + 1]>>
    <3>1. i + 1 \in 1..Len(t) /\ i + 1 \in (i + 1)..Len(t)
      BY <1>8
    <3>2. SubSeq(t, i + 1, i + 1) = <<t[i + 1]>> \o SubSeq(t, (i + 1) + 1, i + 1)
      BY <3>1, SubSeqRecursiveFirst
    <3>3. (i + 1) + 1 \in Int /\ i + 1 \in Int /\ i + 1 < (i + 1) + 1
      OBVIOUS
    <3>4. SubSeq(t, (i + 1) + 1, i + 1) = <<>>
      BY <3>3, SubSeqEmpty
    <3>5. <<t[i + 1]>> \in Seq(STRING)
      BY <3>1, ElementOfSeq
    <3> QED
      BY <3>2, <3>4, <3>5, ConcatEmptySeq
  <2>8. PrefixOf(f, y) = SubSeq(t, 1, i + 1)
    <3>1. e \in 0..Len(t) /\ i + 1 \in e..Len(t)
      BY <1>8, <2>1
    <3>2. q[y] = SubSeq(t, e + 1, i + 1)
      BY <2>1, <2>6, <2>7
    <3>3. q[y] \in Seq(STRING) /\ SubSeq(t, 1, e) \o q[y] = SubSeq(t, 1, i + 1)
      BY <3>1, <3>2, StretchesJoin
    <3>4. PrefixOf(f, y) = PrefixOf(f, x) \o q[y]
      BY <1>2, <1>12, <3>3 DEF GrowsAt
    <3> QED
      BY <1>7, <3>3, <3>4
  <2>9. \A s \in K : s[1] < i + 1 => s[2] <= i + 1
    <3>1. \A s \in K : s[1] < i => s[2] <= i
      BY <1>7, <2>1
    <3>2. \A s \in K : s[1] < i => s[2] <= i + 1
      BY <1>6, <3>1
    <3> QED
      BY <1>9, <2>2, <3>2
  <2>10. ReadUpTo(t, n, K, PrefixOf(f, y), i + 1, i + 1)
    BY <1>12, <2>8, <2>9 DEF ReadUpTo
  <2>11. i + 1 \in (i + 1)..n
    BY <1>8
  <2> QED
    BY <1>1, <1>2, <1>4, <2>4, <2>5, <2>10, <2>11 DEF Restored
<1> QED
  BY <1>1, <1>10, <1>11, <1>12 DEF ToldAt


LEMMA PiecesGrow ==
  ASSUME NEW t, NEW K, NEW M, NEW o, NEW L, NEW q, NEW f, Flattening(q, L, f),
         NEW x \in Nat, NEW y \in 1..L, y = x + 1, q[y] = Was(t, K, M, o, y)
  PROVE  GrowsAt(t, K, M, o, q, f, x, y)
BY PrefixGrows DEF GrowsAt

\* How much is written for the first characters, from none to all of them.
ReadFrom(t, n, K, M, o, c) ==
  /\ c[0] = 0 /\ c[n] = Len(o)
  /\ \A i \in Nat : i < n => c[i + 1] \in 0..Len(o) /\ c[i] \in 0..Len(o) /\ ToldAt(t, K, M, o, c, i)
AllGrow(t, n, K, M, o, q, f, c) ==
  \A i \in Nat : i < n /\ c[i + 1] = c[i] + 1 => GrowsAt(t, K, M, o, q, f, c[i], c[i + 1])

LEMMA AllIsRestored ==
  ASSUME NEW t \in Seq(STRING), NEW n \in Nat, n = Len(t), NEW K, Apart(n, K), NEW M, Unmarked(t, n, M),
         NEW o \in Seq(STRING), NEW q, NEW f, NEW c, ReadFrom(t, n, K, M, o, c), AllGrow(t, n, K, M, o, q, f, c)
  PROVE  MarksIn(o, M, Len(o)) = Cardinality(K) /\ PrefixOf(f, Len(o)) = t
<1> DEFINE T == {i \in 0..n : ~Restored(t, n, K, M, o, c, f, i)}
<1>1. Restored(t, n, K, M, o, c, f, 0)
  <2>1. c[0] = 0
    BY DEF ReadFrom
  <2>2. MarksIn(o, M, 0) = 0
    BY MarksMove
  <2>3. BegunBefore(K, 0) = {}
    BY BegunMove
  <2>4. Cardinality(BegunBefore(K, 0)) = 0
    BY <2>3, FS_EmptySet
  <2>5. \A r \in K : ~(r[1] < 0)
    BY DEF Apart, Stretches
  <2>6. 1 \in Int /\ 0 \in Int /\ 0 < 1
    OBVIOUS
  <2>7. SubSeq(t, 1, 0) = <<>>
    BY <2>6, SubSeqEmpty
  <2>8. ReadUpTo(t, n, K, PrefixOf(f, 0), 0, 0)
    BY <2>5, <2>7 DEF ReadUpTo, PrefixOf
  <2>9. 0 \in 0..n
    OBVIOUS
  <2> QED
    BY <2>1, <2>2, <2>4, <2>8, <2>9 DEF Restored
<1>2. ASSUME NEW i \in Nat, i < n, Restored(t, n, K, M, o, c, f, i) PROVE Restored(t, n, K, M, o, c, f, i + 1)
  <2>1. ToldAt(t, K, M, o, c, i) /\ c[i + 1] \in 0..Len(o)
    BY <1>2 DEF ReadFrom
  <2>2. c[i + 1] \in Nat
    BY <2>1
  <2>3. c[i + 1] = c[i] + 1 => GrowsAt(t, K, M, o, q, f, c[i], c[i + 1])
    BY <1>2 DEF AllGrow
  <2> QED
    BY <1>2, <2>1, <2>2, <2>3, RestoreStep
<1>3. T = {}
  <2>1. SUFFICES ASSUME T # {} PROVE FALSE
    OBVIOUS
  <2>2. T \in SUBSET Nat
    OBVIOUS
  <2>3. PICK m \in T : \A j \in T : m <= j
    <3> HIDE DEF T
    <3> QED
      BY <2>1, <2>2, LeastNumber
  <2>4. m \in 0..n /\ ~Restored(t, n, K, M, o, c, f, m)
    OBVIOUS
  <2>5. m # 0
    BY <1>1, <2>4
  <2>6. PICK l : l = m - 1
    OBVIOUS
  <2>7. l \in Nat /\ l < n /\ l \in 0..n /\ l < m /\ m = l + 1
    BY <2>4, <2>5, <2>6
  <2>8. Restored(t, n, K, M, o, c, f, l)
    BY <2>3, <2>7
  <2> QED
    BY <1>2, <2>4, <2>7, <2>8
<1>4. Restored(t, n, K, M, o, c, f, n)
  BY <1>3
<1>5. c[n] = Len(o)
  BY DEF ReadFrom
<1>6. MarksIn(o, M, Len(o)) = Cardinality(K)
  <2>1. BegunBefore(K, n) = K
    BY BegunMove
  <2> QED
    BY <1>4, <1>5, <2>1 DEF Restored
<1>7. PICK e \in n..n : ReadUpTo(t, n, K, PrefixOf(f, c[n]), n, e)
  BY <1>4 DEF Restored
<1>8. PrefixOf(f, Len(o)) = SubSeq(t, 1, e) /\ e = n
  BY <1>5, <1>7 DEF ReadUpTo
<1>9. SubSeq(t, 1, Len(t)) = t
  BY SubSeqFull
<1> QED
  BY <1>6, <1>8, <1>9

LEMMA TextIsRestored ==
  ASSUME NEW t \in Seq(STRING), NEW n \in Nat, n = Len(t), NEW K, Apart(n, K), NEW M, Unmarked(t, n, M),
         NEW o \in Seq(STRING), NEW c, ReadFrom(t, n, K, M, o, c)
  PROVE  /\ MarksIn(o, M, Len(o)) = Cardinality(K)
         /\ t = FlattenSeq([k \in DOMAIN o |-> Was(t, K, M, o, k)])
<1>1. PICK L : L = Len(o)
  OBVIOUS
<1>2. L \in Nat /\ DOMAIN o = 1..L
  BY <1>1
<1>3. PICK q : q = [k \in 1..L |-> Was(t, K, M, o, k)]
  OBVIOUS
<1>4. PICK S : S = {Was(t, K, M, o, k) : k \in 1..L}
  OBVIOUS
<1>5. q \in [1..L -> S]
  BY <1>3, <1>4
<1>6. q \in Seq(S) /\ Len(q) = L
  BY <1>2, <1>5
<1>7. q = [k \in DOMAIN o |-> Was(t, K, M, o, k)]
  BY <1>2, <1>3
<1>8. CASE L = 0
  <2>1. FlattenSeq(q) = <<>>
    BY <1>2, <1>6, <1>8, FlattenEnds
  <2>2. AllGrow(t, n, K, M, o, q, q, c)
    <3>1. \A i \in Nat : i < n => c[i + 1] = 0 /\ c[i] = 0
      BY <1>1, <1>8 DEF ReadFrom
    <3>2. \A i \in Nat : i < n => c[i + 1] # c[i] + 1
      BY <3>1
    <3> QED
      BY <3>2 DEF AllGrow
  <2>3. MarksIn(o, M, Len(o)) = Cardinality(K) /\ PrefixOf(q, Len(o)) = t
    BY <2>2, AllIsRestored
  <2>4. t = <<>>
    BY <1>1, <1>8, <2>3 DEF PrefixOf
  <2> QED
    BY <1>7, <2>1, <2>3, <2>4
<1>9. CASE L # 0
  <2>1. PICK f : Flattening(q, L, f) /\ FlattenSeq(q) = f[L]
    BY <1>2, <1>6, <1>9, FlattenEnds
  <2>2. ASSUME NEW i \in Nat, i < n, c[i + 1] = c[i] + 1 PROVE GrowsAt(t, K, M, o, q, f, c[i], c[i + 1])
    <3>1. PICK x, y : x = c[i] /\ y = c[i + 1]
      OBVIOUS
    <3>2. x \in 0..L /\ y \in 0..L /\ y = x + 1
      BY <1>1, <2>2, <3>1 DEF ReadFrom
    <3>3. x \in Nat /\ y \in 1..L
      BY <1>2, <3>2
    <3>4. q[y] = Was(t, K, M, o, y)
      BY <1>3, <3>3
    <3>5. GrowsAt(t, K, M, o, q, f, x, y)
      BY <2>1, <3>2, <3>3, <3>4, PiecesGrow
    <3> QED
      BY <3>1, <3>5
  <2>3. AllGrow(t, n, K, M, o, q, f, c)
    BY <2>2 DEF AllGrow
  <2>4. MarksIn(o, M, Len(o)) = Cardinality(K) /\ PrefixOf(f, Len(o)) = t
    BY <2>3, AllIsRestored
  <2>5. FlattenSeq(q) = t
    BY <1>1, <1>9, <2>1, <2>4 DEF PrefixOf
  <2> QED
    BY <1>7, <2>4, <2>5
<1> QED
  BY <1>8, <1>9


\* Of pieces put together every one is found where it was put.
PutAt(P, o, c, i) ==
  /\ c[i] \in 0..Len(o) /\ c[i + 1] \in 0..Len(o)
  /\ c[i + 1] = c[i] + Len(P[i + 1])
  /\ \A j \in 1..Len(P[i + 1]) : o[c[i] + j] = P[i + 1][j]
AllTexts(P, n) == \A i \in 1..n : P[i] \in Seq(STRING)
Held(f, o, i) ==
  /\ PrefixOf(f, i) \in Seq(STRING) /\ Len(PrefixOf(f, i)) <= Len(o)
  /\ \A k \in 1..Len(PrefixOf(f, i)) : o[k] = PrefixOf(f, i)[k]
PutBehind(P, f, o, i, h) ==
  /\ Len(PrefixOf(f, h)) = Len(PrefixOf(f, i)) + Len(P[h])
  /\ \A j \in 1..Len(P[h]) : o[Len(PrefixOf(f, i)) + j] = P[h][j]

LEMMA PrefixesTyped ==
  ASSUME NEW n \in Nat, NEW P, AllTexts(P, n), NEW f, Flattening(P, n, f), NEW i \in 0..n
  PROVE  PrefixOf(f, i) \in Seq(STRING)
<1> DEFINE T == {j \in 0..n : PrefixOf(f, j) \notin Seq(STRING)}
<1>1. SUFFICES ASSUME T # {} PROVE FALSE
  OBVIOUS
<1>2. T \in SUBSET Nat
  OBVIOUS
<1>3. PICK m \in T : \A j \in T : m <= j
  <2> HIDE DEF T
  <2> QED
    BY <1>1, <1>2, LeastNumber
<1>4. m # 0
  <2>1. <<>> \in Seq(STRING)
    BY EmptySeq
  <2> QED
    BY <2>1 DEF PrefixOf
<1>5. PICK l : l = m - 1
  OBVIOUS
<1>6. l \in Nat /\ m \in 1..n /\ m = l + 1 /\ l \in 0..n /\ l < m
  BY <1>4, <1>5
<1>7. PrefixOf(f, l) \in Seq(STRING)
  BY <1>3, <1>6
<1>8. P[m] \in Seq(STRING)
  BY <1>6 DEF AllTexts
<1>9. PrefixOf(f, m) = PrefixOf(f, l) \o P[m]
  BY <1>6, <1>8, PrefixGrows
<1>10. PrefixOf(f, m) \in Seq(STRING)
  BY <1>7, <1>8, <1>9, ConcatProperties
<1> QED
  BY <1>10

LEMMA PieceIsPut ==
  ASSUME NEW n \in Nat, NEW P, AllTexts(P, n), NEW f, Flattening(P, n, f),
         NEW o \in Seq(STRING), NEW i \in Nat, NEW h \in 1..n, h = i + 1, Held(f, o, h)
  PROVE  Held(f, o, i) /\ PutBehind(P, f, o, i, h)
<1>1. PICK a, b, p : a = PrefixOf(f, i) /\ b = PrefixOf(f, h) /\ p = P[h]
  OBVIOUS
<1>2. i \in 0..n
  OBVIOUS
<1>3. a \in Seq(STRING) /\ p \in Seq(STRING)
  <2>1. a \in Seq(STRING)
    BY <1>1, <1>2, PrefixesTyped
  <2> QED
    BY <1>1, <2>1 DEF AllTexts
<1>4. b = a \o p
  <2>1. P[h] \in Seq(STRING)
    BY <1>1, <1>3
  <2>2. PrefixOf(f, h) = PrefixOf(f, i) \o P[h]
    BY <2>1, PrefixGrows
  <2> QED
    BY <1>1, <2>2
<1>5. PICK x, y, z, L : x = Len(a) /\ y = Len(b) /\ z = Len(p) /\ L = Len(o)
  OBVIOUS
<1>6. x \in Nat /\ z \in Nat /\ L \in Nat
  BY <1>3, <1>5
<1>7. y = x + z /\ \A k \in 1..(x + z) : b[k] = IF k <= x THEN a[k] ELSE p[k - x]
  BY <1>3, <1>4, <1>5, ConcatProperties
<1>8. y <= L /\ \A k \in 1..y : o[k] = b[k]
  BY <1>1, <1>5 DEF Held
<1>9. x <= L
  BY <1>6, <1>7, <1>8
<1>10. ASSUME NEW k \in 1..x PROVE o[k] = a[k]
  <2>1. k \in 1..y /\ k \in 1..(x + z) /\ k <= x
    BY <1>6, <1>7, <1>10
  <2> QED
    BY <1>7, <1>8, <2>1
<1>11. ASSUME NEW j \in 1..z PROVE o[x + j] = p[j]
  <2>1. PICK k : k = x + j
    OBVIOUS
  <2>2. k \in 1..y /\ k \in 1..(x + z) /\ ~(k <= x) /\ k - x = j
    BY <1>6, <1>7, <1>11, <2>1
  <2>3. o[k] = p[k - x]
    BY <1>7, <1>8, <2>2
  <2> QED
    BY <2>1, <2>2, <2>3
<1>12. Held(f, o, i)
  BY <1>1, <1>3, <1>5, <1>9, <1>10 DEF Held
<1>13. \A j \in 1..z : o[x + j] = p[j]
  BY <1>11
<1> QED
  BY <1>1, <1>5, <1>7, <1>12, <1>13 DEF PutBehind

LEMMA PiecesAreRead ==
  ASSUME NEW n \in Nat, NEW P \in Seq(Seq(STRING)), n = Len(P), NEW o, o = FlattenSeq(P)
  PROVE  o \in Seq(STRING) /\ \E c : c[0] = 0 /\ c[n] = Len(o) /\ \A i \in Nat : i < n => PutAt(P, o, c, i)
<1>1. AllTexts(P, n)
  BY ElementOfSeq DEF AllTexts
<1>2. CASE n = 0
  <2>1. o = <<>>
    BY <1>2, FlattenEnds
  <2>2. o \in Seq(STRING) /\ Len(o) = 0
    BY <2>1, EmptySeq
  <2>3. PICK c : c = [i \in 0..0 |-> 0]
    OBVIOUS
  <2>4. c[0] = 0 /\ c[n] = Len(o)
    BY <1>2, <2>2, <2>3
  <2>5. \A i \in Nat : i < n => PutAt(P, o, c, i)
    BY <1>2
  <2> QED
    BY <2>2, <2>4, <2>5
<1>3. CASE n # 0
  <2>1. PICK f : Flattening(P, n, f) /\ o = f[n]
    BY <1>3, FlattenEnds
  <2>2. PrefixOf(f, n) = o
    BY <1>3, <2>1 DEF PrefixOf
  <2>3. n \in 0..n
    OBVIOUS
  <2>4. o \in Seq(STRING)
    BY <1>1, <2>1, <2>2, <2>3, PrefixesTyped
  <2>5. Held(f, o, n)
    <3>1. Len(o) <= Len(o)
      BY <2>4
    <3> QED
      BY <2>2, <2>4, <3>1 DEF Held
  <2> DEFINE T == {k \in 0..n : ~Held(f, o, n - k)}
  <2>6. ASSUME NEW k \in T, \A j \in T : k <= j PROVE FALSE
    <3>1. k \in 0..n /\ ~Held(f, o, n - k)
      OBVIOUS
    <3>2. k # 0
      BY <2>5, <3>1
    <3>3. PICK i, h, l : i = n - k /\ h = i + 1 /\ l = k - 1
      OBVIOUS
    <3>4. i \in Nat /\ h \in 1..n /\ l \in 0..n /\ l < k /\ n - l = h
      BY <3>1, <3>2, <3>3
    <3>5. Held(f, o, h)
      <4>1. l \notin T
        <5> HIDE DEF T
        <5>1. ~(k <= l)
          BY <3>1, <3>4
        <5> QED
          BY <2>6, <5>1
      <4> QED
        BY <3>4, <4>1
    <3>6. Held(f, o, i)
      BY <1>1, <2>1, <2>4, <3>3, <3>4, <3>5, PieceIsPut
    <3> QED
      BY <3>1, <3>3, <3>6
  <2>7. T = {}
    <3>1. T \in SUBSET Nat
      OBVIOUS
    <3> HIDE DEF T
    <3> QED
      BY <2>6, <3>1, LeastNumber
  <2>8. ASSUME NEW i \in 0..n PROVE Held(f, o, i)
    <3>1. PICK k : k = n - i
      OBVIOUS
    <3>2. k \in 0..n /\ n - k = i
      BY <3>1
    <3> QED
      BY <2>7, <3>2
  <2>9. PICK c : c = [i \in 0..n |-> Len(PrefixOf(f, i))]
    OBVIOUS
  <2>10. ASSUME NEW i \in 0..n PROVE c[i] = Len(PrefixOf(f, i)) /\ c[i] \in 0..Len(o)
    <3>1. Len(PrefixOf(f, i)) \in Nat /\ Len(PrefixOf(f, i)) <= Len(o)
      BY <2>8 DEF Held
    <3>2. Len(o) \in Nat
      BY <2>4
    <3> QED
      BY <2>9, <3>1, <3>2
  <2>11. c[0] = 0
    <3>1. 0 \in 0..n
      OBVIOUS
    <3>2. PrefixOf(f, 0) = <<>>
      BY DEF PrefixOf
    <3> QED
      BY <2>10, <3>1, <3>2, EmptySeq
  <2>12. c[n] = Len(o)
    BY <2>2, <2>3, <2>10
  <2>13. ASSUME NEW i \in Nat, i < n PROVE PutAt(P, o, c, i)
    <3>1. PICK h : h = i + 1
      OBVIOUS
    <3>2. h \in 1..n /\ h \in 0..n /\ i \in 0..n
      BY <2>13, <3>1
    <3>3. Held(f, o, h)
      BY <2>8, <3>2
    <3>4. PutBehind(P, f, o, i, h)
      BY <1>1, <2>1, <2>4, <3>1, <3>2, <3>3, PieceIsPut
    <3>5. c[h] = Len(PrefixOf(f, h)) /\ c[i] = Len(PrefixOf(f, i)) /\ c[h] \in 0..Len(o) /\ c[i] \in 0..Len(o)
      BY <2>10, <3>2
    <3>6. c[h] = c[i] + Len(P[h]) /\ \A j \in 1..Len(P[h]) : o[c[i] + j] = P[h][j]
      BY <3>4, <3>5 DEF PutBehind
    <3> QED
      BY <3>1, <3>5, <3>6 DEF PutAt
  <2> QED
    BY <2>4, <2>11, <2>12, <2>13
<1> QED
  BY <1>2, <1>3


\* What is written: a mark, nothing, or the character itself.
WrittenAt(patterns, t, K, i, w) ==
  \/ (\E r \in K : r[1] = i) /\ \E k \in FromPatterns(patterns) : w = <<patterns[k].id>>
  \/ ~(\E r \in K : r[1] = i) /\ (\E s \in K : s[1] < i /\ i < s[2]) /\ w = <<>>
  \/ ~(\E s \in K : s[1] <= i /\ i < s[2]) /\ w = <<t[i + 1]>>

LEMMA WrittenIs ==
  ASSUME NEW patterns \in Seq(MaskPatterns), NEW t \in Seq(STRING), NEW K, K \in SUBSET AllMatches(patterns, t),
         NEW i \in Nat, i < Len(t), NEW h, h = i + 1
  PROVE  WrittenAt(patterns, t, K, i, Written(patterns, t, K, h))
<1>1. \A r \in K : r[1] \in Nat /\ r[2] \in Nat /\ r[1] < r[2]
  BY MatchesAre DEF Stretches
<1>2. h - 1 = i
  OBVIOUS
<1>3. CASE \E r \in K : r[1] = i
  <2>1. PICK r : r = CHOOSE s \in K : s[1] = i
    OBVIOUS
  <2>2. r \in K
    BY <1>3, <2>1
  <2>3. PICK k \in FromPatterns(patterns) : FinderOf(patterns, t, r) = patterns[k]
    BY <2>2, MatchesAre
  <2>4. Written(patterns, t, K, h) = <<FinderOf(patterns, t, r).id>>
    BY <1>2, <1>3, <2>1 DEF Written
  <2>5. Written(patterns, t, K, h) = <<patterns[k].id>>
    BY <2>3, <2>4
  <2> QED
    BY <1>3, <2>5 DEF WrittenAt
<1>4. CASE ~(\E r \in K : r[1] = i) /\ \E s \in K : s[1] < h /\ h <= s[2]
  <2>1. PICK s \in K : s[1] < h /\ h <= s[2]
    BY <1>4
  <2>2. s[1] # i
    BY <1>4
  <2>3. s[1] < i /\ i < s[2]
    <3>1. s[1] \in Nat /\ s[2] \in Nat
      BY <1>1
    <3> QED
      BY <2>1, <2>2, <3>1
  <2>4. Written(patterns, t, K, h) = <<>>
    BY <1>2, <1>4 DEF Written
  <2> QED
    BY <1>4, <2>3, <2>4 DEF WrittenAt
<1>5. CASE ~(\E r \in K : r[1] = i) /\ ~ \E s \in K : s[1] < h /\ h <= s[2]
  <2>1. \A s \in K : ~(s[1] <= i /\ i < s[2])
    <3>1. ASSUME NEW s \in K, s[1] <= i, i < s[2] PROVE s[1] < h /\ h <= s[2]
      <4>1. s[1] \in Nat /\ s[2] \in Nat
        BY <1>1
      <4> QED
        BY <3>1, <4>1
    <3> QED
      BY <1>5, <3>1
  <2>2. Written(patterns, t, K, h) = <<t[h]>>
    BY <1>2, <1>5 DEF Written
  <2> QED
    BY <2>1, <2>2 DEF WrittenAt
<1> QED
  BY <1>3, <1>4, <1>5

LEMMA KeptAreRead ==
  ASSUME NEW patterns \in Seq(MaskPatterns), NEW t \in Seq(STRING), FromPatterns(patterns) # {},
         NEW n \in Nat, n = Len(t), NEW M, \A k \in DOMAIN patterns : patterns[k].on => patterns[k].id \in M
  PROVE  /\ Apart(n, MaskText(patterns, t).matches) /\ MaskText(patterns, t).text \in Seq(STRING)
         /\ \E c : ReadFrom(t, n, MaskText(patterns, t).matches, M, MaskText(patterns, t).text, c)
<1>1. PICK A, K, o : A = AllMatches(patterns, t) /\ K = MaskText(patterns, t).matches /\ o = MaskText(patterns, t).text
  OBVIOUS
<1>2. A \in SUBSET Stretches(n) /\ K = DeduplicateMatches(A, n)
  BY <1>1, SomeAreKept
<1>3. K \in SUBSET A
  BY <1>2 DEF DeduplicateMatches
<1>4. Apart(n, K)
  BY <1>2, <1>3, KeptAreApart DEF Apart
<1>5. PICK P : P = [i \in DOMAIN t |-> Written(patterns, t, K, i)]
  OBVIOUS
<1>6. o = FlattenSeq(P)
  BY <1>1, <1>5, SomeAreKept
<1>7. DOMAIN t = 1..n
  OBVIOUS
<1>8. ASSUME NEW i \in Nat, NEW h \in 1..n, h = i + 1
      PROVE  /\ P[h] \in Seq(STRING)
             /\ \/ /\ \E r \in K : r[1] = i
                   /\ \E m \in M : P[h] = <<m>>
                \/ ~(\E r \in K : r[1] = i) /\ (\E s \in K : s[1] < i /\ i < s[2]) /\ P[h] = <<>>
                \/ ~(\E s \in K : s[1] <= i /\ i < s[2]) /\ P[h] = <<t[h]>>
  <2>1. P[h] = Written(patterns, t, K, h) /\ i < Len(t) /\ t[h] \in STRING
    BY <1>5, <1>7, <1>8
  <2>2. ASSUME NEW k \in FromPatterns(patterns) PROVE patterns[k].id \in M /\ patterns[k].id \in STRING
    BY FromAreOn, PatternsTyped
  <2>3. K \in SUBSET AllMatches(patterns, t)
    BY <1>1, <1>3
  <2>4. CASE (\E r \in K : r[1] = i) /\ \E k \in FromPatterns(patterns) : P[h] = <<patterns[k].id>>
    <3>1. PICK k \in FromPatterns(patterns) : P[h] = <<patterns[k].id>>
      BY <2>4
    <3>2. PICK m : m = patterns[k].id
      OBVIOUS
    <3>3. m \in M /\ m \in STRING /\ P[h] = <<m>>
      BY <2>2, <3>1, <3>2
    <3>4. P[h] \in Seq(STRING)
      BY <3>3
    <3> QED
      BY <2>4, <3>3, <3>4
  <2>5. CASE ~(\E r \in K : r[1] = i) /\ (\E s \in K : s[1] < i /\ i < s[2]) /\ P[h] = <<>>
    <3>1. P[h] \in Seq(STRING)
      BY <2>5, EmptySeq
    <3> QED
      BY <2>5, <3>1
  <2>6. CASE ~(\E s \in K : s[1] <= i /\ i < s[2]) /\ P[h] = <<t[h]>>
    <3>1. P[h] \in Seq(STRING)
      BY <2>1, <2>6
    <3> QED
      BY <2>6, <3>1
  <2>7. WrittenAt(patterns, t, K, i, P[h])
    BY <1>8, <2>1, <2>3, WrittenIs
  <2> QED
    BY <1>8, <2>4, <2>5, <2>6, <2>7 DEF WrittenAt
<1>9. P \in Seq(Seq(STRING)) /\ Len(P) = n
  <2>1. ASSUME NEW h \in 1..n PROVE P[h] \in Seq(STRING)
    <3>1. PICK i : i = h - 1
      OBVIOUS
    <3>2. i \in Nat /\ h = i + 1
      BY <3>1
    <3> QED
      BY <1>8, <3>2
  <2>2. P \in [1..n -> Seq(STRING)]
    BY <1>5, <1>7, <2>1
  <2> QED
    BY <2>2
<1>10. PICK c : o \in Seq(STRING) /\ c[0] = 0 /\ c[n] = Len(o) /\ \A i \in Nat : i < n => PutAt(P, o, c, i)
  BY <1>6, <1>9, PiecesAreRead
<1>11. ASSUME NEW i \in Nat, i < n
       PROVE  c[i + 1] \in 0..Len(o) /\ c[i] \in 0..Len(o) /\ ToldAt(t, K, M, o, c, i)
  <2>1. PICK h, x, y, p : h = i + 1 /\ x = c[i] /\ y = c[h] /\ p = P[h]
    OBVIOUS
  <2>2. h \in 1..n
    BY <1>11, <2>1
  <2>3. x \in 0..Len(o) /\ y \in 0..Len(o) /\ y = x + Len(p) /\ \A j \in 1..Len(p) : o[x + j] = p[j]
    BY <1>10, <1>11, <2>1 DEF PutAt
  <2>4. Len(o) \in Nat
    BY <1>10
  <2>5. x \in Nat
    BY <2>3, <2>4
  <2>6. ASSUME NEW z, p = <<z>> PROVE y = x + 1 /\ o[x + 1] = z
    <3>1. Len(p) = 1 /\ p[1] = z
      BY <2>6
    <3>2. 1 \in 1..Len(p)
      BY <3>1
    <3>3. o[x + 1] = p[1]
      BY <2>3, <3>2
    <3> QED
      BY <2>3, <3>1, <3>3
  <2>7. ASSUME p = <<>> PROVE y = x
    <3>1. Len(p) = 0
      BY <2>7, EmptySeq
    <3> QED
      BY <2>3, <2>5, <3>1
  <2>8. \/ (\E r \in K : r[1] = i) /\ \E m \in M : p = <<m>>
        \/ ~(\E r \in K : r[1] = i) /\ (\E s \in K : s[1] < i /\ i < s[2]) /\ p = <<>>
        \/ ~(\E s \in K : s[1] <= i /\ i < s[2]) /\ p = <<t[h]>>
    BY <1>8, <2>1, <2>2
  <2>9. CASE (\E r \in K : r[1] = i) /\ \E m \in M : p = <<m>>
    <3>1. y = x + 1 /\ o[x + 1] \in M
      BY <2>6, <2>9
    <3> QED
      BY <2>1, <2>3, <2>9, <3>1 DEF ToldAt
  <2>10. CASE ~(\E r \in K : r[1] = i) /\ (\E s \in K : s[1] < i /\ i < s[2]) /\ p = <<>>
    <3>1. y = x
      BY <2>7, <2>10
    <3> QED
      BY <2>1, <2>3, <2>10, <3>1 DEF ToldAt
  <2>11. CASE ~(\E s \in K : s[1] <= i /\ i < s[2]) /\ p = <<t[h]>>
    <3>1. y = x + 1 /\ o[x + 1] = t[h]
      BY <2>6, <2>11
    <3> QED
      BY <2>1, <2>3, <2>11, <3>1 DEF ToldAt
  <2> QED
    BY <2>8, <2>9, <2>10, <2>11
<1>12. ReadFrom(t, n, K, M, o, c)
  BY <1>10, <1>11 DEF ReadFrom
<1> QED
  BY <1>1, <1>4, <1>10, <1>12

LEMMA TextIsRead ==
  ASSUME NEW patterns \in Seq(MaskPatterns), NEW t \in Seq(STRING), FromPatterns(patterns) = {},
         NEW n \in Nat, n = Len(t), NEW M
  PROVE  Apart(n, {}) /\ \E c : ReadFrom(t, n, {}, M, t, c)
<1>1. PICK c : c = [i \in 0..n |-> i]
  OBVIOUS
<1>2. c[0] = 0 /\ c[n] = n
  BY <1>1
<1>3. ASSUME NEW i \in Nat, i < n
      PROVE  c[i + 1] \in 0..n /\ c[i] \in 0..n /\ ToldAt(t, {}, M, t, c, i)
  <2>1. PICK h : h = i + 1
    OBVIOUS
  <2>2. h \in 0..n /\ i \in 0..n
    BY <1>3, <2>1
  <2>3. c[h] = h /\ c[i] = i
    BY <1>1, <2>2
  <2> QED
    BY <2>1, <2>2, <2>3 DEF ToldAt
<1>4. ReadFrom(t, n, {}, M, t, c)
  BY <1>2, <1>3 DEF ReadFrom
<1>5. Apart(n, {})
  BY DEF Apart
<1> QED
  BY <1>4, <1>5

LEMMA ChangesHold ==
  ASSUME MaskInv
  PROVE  MaskingChangesNoOther
<1>1. SUFFICES ASSUME Probed
               PROVE  /\ MarksUpTo(Len(maskProbe.out.text)) = Cardinality(maskProbe.out.matches)
                      /\ maskProbe.text = FlattenSeq([k \in DOMAIN maskProbe.out.text |-> WasAt(k)])
  BY DEF MaskingChangesNoOther
<1>2. PICK patterns, t, M, K, o : patterns = maskProbe.patterns /\ t = maskProbe.text /\ M = Marks
                                  /\ K = maskProbe.out.matches /\ o = maskProbe.out.text
  OBVIOUS
<1>3. /\ patterns \in Seq(MaskPatterns) /\ t \in Seq(STRING)
      /\ K = MaskText(patterns, t).matches /\ o = MaskText(patterns, t).text
  BY <1>1, <1>2, ProbeIs
<1>4. \A k \in DOMAIN patterns : patterns[k].on => patterns[k].id \in M
  BY <1>2 DEF Marks, Enabled
<1>5. PICK n : n = Len(t)
  OBVIOUS
<1>6. n \in Nat /\ DOMAIN t = 1..n
  BY <1>3, <1>5
<1>7. Unmarked(t, n, M)
  <2>1. ASSUME NEW i \in 1..n, t[i] \in M PROVE FALSE
    <3>1. PICK k \in DOMAIN patterns : patterns[k].id = t[i]
      BY <1>2, <2>1 DEF Marks, Enabled
    <3> QED
      BY <1>1, <1>2, <1>6, <3>1, ProbeIs
  <2> QED
    BY <2>1 DEF Unmarked
<1>8. Apart(n, K) /\ o \in Seq(STRING) /\ \E c : ReadFrom(t, n, K, M, o, c)
  <2>1. CASE FromPatterns(patterns) = {}
    <3>1. K = {} /\ o = t
      BY <1>3, <2>1, NothingIsKept
    <3>2. Apart(n, {}) /\ \E c : ReadFrom(t, n, {}, M, t, c)
      BY <1>3, <1>5, <1>6, <2>1, TextIsRead
    <3> QED
      BY <1>3, <3>1, <3>2
  <2>2. CASE FromPatterns(patterns) # {}
    BY <1>3, <1>4, <1>5, <1>6, <2>2, KeptAreRead
  <2> QED
    BY <2>1, <2>2
<1>9. PICK c : ReadFrom(t, n, K, M, o, c)
  BY <1>8
<1>10. MarksIn(o, M, Len(o)) = Cardinality(K) /\ t = FlattenSeq([k \in DOMAIN o |-> Was(t, K, M, o, k)])
  BY <1>3, <1>5, <1>6, <1>7, <1>8, <1>9, TextIsRestored
<1>11. \A k : MarksUpTo(k) = MarksIn(o, M, k)
  BY <1>2 DEF MarksUpTo, MarksIn, MarkedIn
<1>12. \A m : NthMatch(m) = NthOf(K, m)
  BY <1>2 DEF NthMatch, NthOf
<1>13. \A k : WasAt(k) = Was(t, K, M, o, k)
  BY <1>2, <1>11, <1>12 DEF WasAt, Was
<1>14. [k \in DOMAIN o |-> WasAt(k)] = [k \in DOMAIN o |-> Was(t, K, M, o, k)]
  BY <1>13
<1>15. t = FlattenSeq([k \in DOMAIN o |-> WasAt(k)])
  BY <1>10, <1>14
<1>16. MarksUpTo(Len(o)) = Cardinality(K)
  BY <1>10, <1>11
<1> QED
  BY <1>2, <1>15, <1>16

LEMMA MaskStarts ==
  ASSUME MaskInit
  PROVE  MaskInv
BY DEF MaskInit, MaskInv

LEMMA MaskMoves ==
  ASSUME MaskInv, [MaskNext]_maskVars
  PROVE  MaskInv'
<1>1. CASE MaskProbe
  BY <1>1 DEF MaskProbe, MaskInv
<1>2. CASE UNCHANGED maskVars
  BY <1>2 DEF maskVars, MaskInv
<1> QED
  BY <1>1, <1>2 DEF MaskNext

THEOREM MaskStays == MaskSpec => []MaskInv
BY MaskStarts, MaskMoves, PTL DEF MaskSpec

\* What the masker replaces are whole entities; where the expressions compile, none remains that a
\* keyword reaches and every pattern in force accepts, unless it overlaps with one that is replaced;
\* and putting back what the marks stand for gives the text again.  The loop that looks for keywords
\* cuts the text between characters only and finds them all (inference masker mod.rs, engine.rs,
\* utf8.rs, validator.rs).
THEOREM MaskingIsExact == MaskSpec => []TextsAreMasked
<1>1. MaskInv => TextsAreMasked
  BY ChangesHold, ReachableHolds, WholeHolds, SearchHolds DEF TextsAreMasked
<1> QED
  BY <1>1, MaskStays, PTL

(***************************************************************************)
(* The library.                                                            *)
(***************************************************************************)
\* However the library is configured and asked, a prompt leaves only as its configuration says or not
\* at all: the routing, the loader and the remote form each keep their part of the promise (inference
\* router.rs and config, proxy inference_uds.rs).
THEOREM PromptsStayGuarded == InferenceSpec /\ CfgSpec /\ UdsSpec => []PromptsAreGuarded
<1>1. /\ InfTypeOK /\ FailClosed /\ AuthIsOurs /\ PicksLeastPriority
      /\ SanitizedHasNoSecret /\ RewriteKeepsTheRest
      /\ LoadedIsRoutable /\ DefaultsAreLegal
      /\ UdsTypeOK /\ OnlyWholeAnswersCount /\ KeptIsBounded
      => PromptsAreGuarded
  BY DEF PromptsAreGuarded
<1> QED
  BY <1>1, RoutesAreGuarded, LoadedStaysLegal, RemoteAnswersCount, PTL
===============================================================================
