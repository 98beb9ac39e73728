---------------------------- MODULE InferenceKeys ----------------------------
(***************************************************************************)
(* The store of API keys: api_keys.json, the copies of it that each        *)
(* initialisation of the inference library keeps in memory, and the calls  *)
(* that change both, from any number of threads (inference/src/router.rs   *)
(* init .. api_key_for, config/mod.rs, crypto.rs and set_api_key of        *)
(* proxy/src/facade/mod.rs).                                               *)
(*                                                                         *)
(* A file has a name and a body: what was opened under one name is still   *)
(* written to after it was renamed.  A body is a map from models to keys,  *)
(* "none" where there is no key; a key is encrypted with the key of the    *)
(* process, which does not change, so that the cipher is named by its key. *)
(***************************************************************************)
EXTENDS Integers, Sequences, FiniteSets, SequencesExt

CONSTANTS
  KeyModels,     \* models that requests may name
  EnabledModels, \* those the configuration has, enabled
  KeyRequests,   \* what callers may ask: [action, items]
  KeyCallers,
  KeyCrypto,     \* CONFIG_ENCRYPTION_KEY is there and usable
  RenameTries,   \* attempts to rename before the store is removed: 5
  DiskFails,     \* a call on a file may fail though nothing of this program is in its way
  KeyInits, KeyCallsMax  \* bounds: initialisations, calls

ASSUME KeyAssumption ==
  /\ EnabledModels \subseteq KeyModels /\ KeyCrypto \in BOOLEAN /\ DiskFails \in BOOLEAN
  /\ RenameTries \in Nat \ {0} /\ KeyInits \in Nat /\ KeyCallsMax \in Nat

\* What requests bring; a model the configuration lacks is one requests may name all the same.
GivenKeys == UNION {{r.items[k].key : k \in DOMAIN r.items} : r \in KeyRequests}
ASSUME KeyRequestAssumption ==
  /\ "spoilt" \notin KeyModels
  /\ \A r \in KeyRequests :
       r \in [action : {"set", "delete"}, items : Seq([model : KeyModels \cup {""}, key : GivenKeys])]

VARIABLES
  keyBodies,     \* the files' bodies, in the order they were created
  keyNames,      \* [name -> its body; 0 is no file]
  keyStates,     \* what each RouterState that was ever installed holds; STATE is the last
  keyLoader,     \* an initialisation between reading the files and installing
  keyCalls,      \* [caller -> its call]
  keyInits, keyCount,   \* initialisations and calls so far
  keyOverlap,    \* history: two operations were under way at once
  keyLost        \* history: the store was removed to make room, and not written or read in since

keyFiles == <<keyBodies, keyNames>>
keyVars == <<keyFiles, keyStates, keyLoader, keyCalls, keyInits, keyCount, keyOverlap, keyLost>>

NoKeys == [m \in KeyModels |-> "none"]
NoModels == {}
\* A body as it is after it was opened for writing, and one that is no JSON.
Blank == [m \in {} |-> "none"]
Spoilt == [m \in {"spoilt"} |-> "none"]
Readable(b) == DOMAIN b = KeyModels

KeyIdle == [at |-> "idle"]
Busy == {w \in KeyCallers : keyCalls[w].at \notin {"idle", "done"}}
\* What starts while something else is under way overlaps with it.
Notes == keyOverlap' = (keyOverlap \/ Busy # {} \/ keyLoader # <<>>)

KeysInit ==
  /\ keyBodies = <<>> /\ keyNames = [n \in {"api", "tmp"} |-> 0]
  /\ keyStates = <<>> /\ keyLoader = <<>> /\ keyCalls = [w \in KeyCallers |-> KeyIdle]
  /\ keyInits = 0 /\ keyCount = 0 /\ keyOverlap = FALSE /\ keyLost = FALSE

-----------------------------------------------------------------------------
\* router.rs: init takes a missing file for no keys; init_default creates it first.
EnsureStateApiKeys(default) ==
  IF default /\ keyNames["api"] = 0
  THEN /\ keyBodies' = Append(keyBodies, NoKeys)
       /\ keyNames' = [keyNames EXCEPT !["api"] = Len(keyBodies')]
  ELSE UNCHANGED keyFiles

ReadKeys(b) == IF Readable(b) THEN b ELSE NoKeys

\* An empty file is no keys too; a spoilt one is an error of parsing.
LoadFiles ==
  /\ keyInits < KeyInits /\ keyLoader = <<>>
  /\ keyInits' = keyInits + 1
  /\ \E default \in BOOLEAN :
       /\ EnsureStateApiKeys(default)
       /\ IF keyNames'["api"] = 0 THEN keyLoader' = <<NoKeys>>
          ELSE IF keyBodies'[keyNames'["api"]] = Spoilt THEN keyLoader' = <<>>
          ELSE keyLoader' = <<ReadKeys(keyBodies'[keyNames'["api"]])>>
  /\ Notes
  /\ UNCHANGED <<keyStates, keyCalls, keyCount, keyLost>>

\* Installed as a whole; one of the other files may not parse or not validate instead.
Install ==
  /\ keyLoader # <<>> /\ keyLoader' = <<>>
  /\ \/ keyStates' = Append(keyStates, keyLoader[1]) /\ keyLost' = FALSE
     \/ UNCHANGED <<keyStates, keyLost>>
  /\ UNCHANGED <<keyFiles, keyCalls, keyInits, keyCount, keyOverlap>>

-----------------------------------------------------------------------------
\* proxy/src/facade/mod.rs
Step(w, call) == keyCalls' = [keyCalls EXCEPT ![w] = call]
Goes(w, at) == Step(w, [keyCalls[w] EXCEPT !.at = at])
Returned(w, result) == Step(w, [keyCalls[w] EXCEPT !.at = "done", !.result = result])

BadItem(action, item) == item.model = "" \/ (action = "set" /\ item.key = "")

\* Arguments are checked as a whole before anything is done.
SetApiKeyCall(w) ==
  /\ keyCalls[w].at \in {"idle", "done"} /\ keyCount < KeyCallsMax
  /\ keyCount' = keyCount + 1
  /\ \E r \in KeyRequests :
       LET bad == \E k \in DOMAIN r.items : BadItem(r.action, r.items[k])
       IN Step(w, [at |-> IF bad THEN "done" ELSE "apply", ask |-> r, state |-> 0, sets |-> Blank,
                   deletes |-> NoModels, merged |-> Blank, fd |-> 0, tries |-> 0, error |-> "none", refused |-> FALSE,
                   result |-> IF bad THEN "invalid" ELSE "none"])
  /\ Notes
  /\ UNCHANGED <<keyFiles, keyStates, keyLoader, keyInits, keyLost>>

\* inference/src/router.rs
Fails(item) == item.model \notin EnabledModels \/ ~KeyCrypto
Good(items) == {k \in DOMAIN items : ~Fails(items[k])}
\* The last good item of its model.
Counts(items, k) ==
  k \in Good(items) /\ \A j \in Good(items) : items[j].model = items[k].model => j <= k
EncryptItem(items) ==
  [m \in {items[k].model : k \in Good(items)} |->
     items[CHOOSE k \in DOMAIN items : Counts(items, k) /\ items[k].model = m].key]

\* The state is the one installed now, whatever is installed later.  Items that fail are left out,
\* and the first failure is what the call returns in the end.
ApplyApiKey(w) ==
  /\ keyCalls[w].at = "apply"
  /\ LET r == keyCalls[w].ask
         sets == IF r.action = "set" THEN EncryptItem(r.items) ELSE Blank
         error == IF r.action = "set" /\ \E k \in DOMAIN r.items : Fails(r.items[k]) THEN "item" ELSE "none"
     IN IF keyStates = <<>> THEN Returned(w, "uninitialized")
        ELSE IF r.items = <<>> THEN Returned(w, "ok")
        ELSE IF r.action = "set" /\ sets = Blank THEN Returned(w, error)
        ELSE Step(w, [keyCalls[w] EXCEPT !.at = "read", !.state = Len(keyStates), !.error = error, !.sets = sets,
               !.deletes = IF r.action = "set" THEN NoModels ELSE {r.items[k].model : k \in DOMAIN r.items}])
  /\ UNCHANGED <<keyFiles, keyStates, keyLoader, keyInits, keyCount, keyOverlap, keyLost>>

-----------------------------------------------------------------------------
\* inference/src/config/mod.rs
Merged(sets, deletes, current) ==
  [m \in KeyModels |-> IF m \in DOMAIN sets THEN sets[m] ELSE IF m \in deletes THEN "none" ELSE current[m]]

ReadCurrent(w) ==
  /\ keyCalls[w].at = "read"
  /\ Step(w, [keyCalls[w] EXCEPT !.at = "open",
       !.merged = Merged(keyCalls[w].sets, keyCalls[w].deletes, keyStates[keyCalls[w].state])])
  /\ UNCHANGED <<keyFiles, keyStates, keyLoader, keyInits, keyCount, keyOverlap, keyLost>>

\* The first error is the one that is returned; that the store refused is kept as history.
Storage(w) == Step(w, [keyCalls[w] EXCEPT !.at = "done", !.refused = TRUE,
                         !.result = IF keyCalls[w].error = "none" THEN "storage" ELSE keyCalls[w].error])

\* fs::write: opened, and emptied, here; every caller uses the same name.
OpenTmp(w) ==
  /\ keyCalls[w].at = "open"
  /\ \/ LET fd == IF keyNames["tmp"] = 0 THEN Len(keyBodies) + 1 ELSE keyNames["tmp"] IN
          /\ keyBodies' = IF fd > Len(keyBodies) THEN Append(keyBodies, Blank) ELSE [keyBodies EXCEPT ![fd] = Blank]
          /\ keyNames' = [keyNames EXCEPT !["tmp"] = fd]
          /\ Step(w, [keyCalls[w] EXCEPT !.at = "write", !.fd = fd])
     \/ DiskFails /\ Storage(w) /\ UNCHANGED keyFiles
  /\ UNCHANGED <<keyStates, keyLoader, keyInits, keyCount, keyOverlap, keyLost>>

\* ... and filled here.  Over what another caller has written to the same body, the longer text
\* leaves its tail behind.  The disk may be full.
FillTmp(w) ==
  /\ keyCalls[w].at = "write"
  /\ \/ LET b == keyBodies[keyCalls[w].fd] IN
          /\ keyBodies' \in {[keyBodies EXCEPT ![keyCalls[w].fd] = x] :
                               x \in {keyCalls[w].merged} \cup (IF b = Blank THEN {} ELSE {Spoilt})}
          /\ Goes(w, "verify")
     \/ DiskFails /\ Storage(w) /\ UNCHANGED keyBodies
  /\ UNCHANGED <<keyNames, keyStates, keyLoader, keyInits, keyCount, keyOverlap, keyLost>>

\* Without looking at what comes of it.
RemoveTmp ==
  \/ keyNames' = [keyNames EXCEPT !["tmp"] = 0]
  \/ DiskFails /\ UNCHANGED keyNames

\* Read back: it must be there and be JSON, of whatever content.
VerifyTmp(w) ==
  /\ keyCalls[w].at = "verify"
  /\ \/ (keyNames["tmp"] = 0 \/ DiskFails) /\ Storage(w) /\ UNCHANGED keyNames
     \/ /\ keyNames["tmp"] # 0
        /\ IF Readable(keyBodies[keyNames["tmp"]]) THEN Goes(w, "rename") /\ UNCHANGED keyNames
           ELSE Storage(w) /\ RemoveTmp
  /\ UNCHANGED <<keyBodies, keyStates, keyLoader, keyInits, keyCount, keyOverlap, keyLost>>

Renamed == keyNames["tmp"] # 0 /\ keyNames' = [api |-> keyNames["tmp"], tmp |-> 0] /\ keyLost' = FALSE

\* Mutant: the memory is not brought up to date.
RenameTmpOnly(w) ==
  /\ keyCalls[w].at = "rename" /\ Renamed /\ Returned(w, "ok")
  /\ UNCHANGED <<keyBodies, keyStates, keyLoader, keyInits, keyCount, keyOverlap>>

RenameTmp(w) ==
  /\ keyCalls[w].at = "rename" /\ Renamed /\ Goes(w, "cache")
  /\ UNCHANGED <<keyBodies, keyStates, keyLoader, keyInits, keyCount, keyOverlap>>

\* There is nothing to rename, or it cannot be renamed: tried again, and at the last attempt
\* without the store.
RenameFails(w) ==
  /\ keyCalls[w].at = "rename" /\ (keyNames["tmp"] = 0 \/ DiskFails)
  /\ Step(w, [keyCalls[w] EXCEPT !.tries = @ + 1, !.at = IF keyCalls[w].tries + 1 = RenameTries THEN "clear" ELSE @])
  /\ UNCHANGED <<keyFiles, keyStates, keyLoader, keyInits, keyCount, keyOverlap, keyLost>>

\* The store is removed to make room, if it can be, and the rename is tried once more.
ClearStore(w) ==
  /\ keyCalls[w].at = "clear" /\ Goes(w, "force")
  /\ \/ keyNames' = [keyNames EXCEPT !["api"] = 0] /\ keyLost' = TRUE
     \/ DiskFails /\ UNCHANGED <<keyNames, keyLost>>
  /\ UNCHANGED <<keyBodies, keyStates, keyLoader, keyInits, keyCount, keyOverlap>>

\* When that fails too, what was to replace the store is removed as well.
ForceRename(w) ==
  /\ keyCalls[w].at = "force"
  /\ \/ Renamed /\ Goes(w, "cache")
     \/ (keyNames["tmp"] = 0 \/ DiskFails) /\ Storage(w) /\ RemoveTmp /\ UNCHANGED keyLost
  /\ UNCHANGED <<keyBodies, keyStates, keyLoader, keyInits, keyCount, keyOverlap>>

\* Under the write lock, on what the memory holds now.
UpdateCache(w) ==
  /\ keyCalls[w].at = "cache"
  /\ keyStates' = [keyStates EXCEPT ![keyCalls[w].state] = Merged(keyCalls[w].sets, keyCalls[w].deletes, @)]
  /\ Returned(w, IF keyCalls[w].error = "none" THEN "ok" ELSE keyCalls[w].error)
  /\ UNCHANGED <<keyFiles, keyLoader, keyInits, keyCount, keyOverlap, keyLost>>

PersistAndUpdate(w) ==
  \/ ReadCurrent(w) \/ OpenTmp(w) \/ FillTmp(w) \/ VerifyTmp(w)
  \/ RenameTmp(w) \/ RenameFails(w) \/ ClearStore(w) \/ ForceRename(w) \/ UpdateCache(w)

KeysNext ==
  \/ LoadFiles \/ Install
  \/ \E w \in KeyCallers : SetApiKeyCall(w) \/ ApplyApiKey(w) \/ PersistAndUpdate(w)

KeysSpec == KeysInit /\ [][KeysNext]_keyVars

-----------------------------------------------------------------------------
\* Every variable keeps its type; a call writes through a body that exists (config/mod.rs).
KeysTypeOK ==
  /\ \A k \in DOMAIN keyBodies : keyBodies[k] \in {Blank, Spoilt} \/ Readable(keyBodies[k])
  /\ \A n \in {"api", "tmp"} : keyNames[n] \in 0..Len(keyBodies)
  /\ \A k \in DOMAIN keyStates : Readable(keyStates[k])
  /\ \A w \in KeyCallers :
       /\ keyCalls[w].at \in {"idle", "apply", "read", "open", "write", "verify", "rename", "clear",
                              "force", "cache", "done"}
       /\ keyCalls[w].at \in {"write", "verify", "rename", "clear", "force"} => keyCalls[w].fd \in DOMAIN keyBodies
       /\ keyCalls[w].at = "read" => keyCalls[w].state \in DOMAIN keyStates

Stored == IF keyNames["api"] = 0 THEN NoKeys ELSE keyBodies[keyNames["api"]]
Quiet == Busy = {} /\ keyLoader = <<>>

\* As long as operations follow one another, the store holds what the installed state holds in
\* memory, so that an initialisation brings back every key, except after a call that could not
\* rename, removed the store to make room and still could not (config/mod.rs:89-103): then there
\* are no keys in the store, until the next call that succeeds writes all those of the memory
\* (config/mod.rs persist_and_update, router.rs init and init_default).
StoreIsMemory ==
  ~keyOverlap /\ Quiet /\ keyStates # <<>> => Stored = Last(keyStates) \/ (keyLost /\ Stored = NoKeys)

\* What each good item asked for is what the body says of its model.
TookEffect(ask, b) ==
  \A k \in DOMAIN ask.items : Counts(ask.items, k) =>
    b[ask.items[k].model] = (IF ask.action = "set" THEN ask.items[k].key ELSE "none")

\* A request that was not refused as a whole takes effect for each of its items that is good, even
\* when another of them makes the call fail, unless the disk refuses (router.rs apply_api_key).
GoodItemsTakeEffect ==
  \A w \in KeyCallers :
    ~keyOverlap /\ Quiet /\ keyCount = 1 /\ keyCalls[w].at = "done" /\ ~keyCalls[w].refused
    /\ keyCalls[w].result \in {"ok", "item"} => TookEffect(keyCalls[w].ask, Stored)

\* What somebody set for a model.
Asked(m) == {"none"} \cup UNION {{r.items[k].key : k \in {n \in DOMAIN r.items : r.items[n].model = m}}
                                   : r \in {q \in KeyRequests : q.action = "set"}}
Theirs(b) == \A m \in DOMAIN b \cap KeyModels : b[m] \in Asked(m)

\* However calls race, and whatever they spoil: a key that is stored, in memory or to be written
\* for a model is one that somebody set for that model (router.rs apply_api_key, config/mod.rs).
KeysStayWithTheirModel ==
  /\ \A k \in DOMAIN keyBodies : Theirs(keyBodies[k])
  /\ \A k \in DOMAIN keyStates : Theirs(keyStates[k])
  /\ \A w \in Busy : Theirs(keyCalls[w].merged)

\* The store is replaced, never taken away (config/mod.rs:50 "atomic write"; on a disk that never
\* fails two callers take it away).
StoreNeverVanishes == [][keyNames["api"] # 0 => keyNames'["api"] # 0]_keyVars

\* What set_api_key stored is what the router uses and, unless the store was lost to a failing disk,
\* what a restart finds, call by call and item by item (config/mod.rs: set_api_key,
\* persist_and_update).
KeysAreKept == KeysTypeOK /\ StoreIsMemory /\ GoodItemsTakeEffect /\ KeysStayWithTheirModel
=============================================================================
