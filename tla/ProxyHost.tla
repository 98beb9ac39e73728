------------------------------ MODULE ProxyHost ------------------------------
(***************************************************************************)
(* The proxy's process: the chain its main thread starts through, the      *)
(* one-time proxy_init of the library's facade, which other callers may    *)
(* race, and the threads that apply the controller's management messages   *)
(* (proxy_proc/src/main.rs, proxy_proc/src/config_receiver.rs and          *)
(* proxy/src/facade/mod.rs).                                               *)
(*                                                                         *)
(* The environment is a record of verdicts: each field says what the code  *)
(* that reads it would find.  The two texts the process takes apart by     *)
(* hand, the address of an upstream proxy and the list of keys, are        *)
(* sequences of symbols; an environment carries them with what their parse *)
(* gives.                                                                  *)
(***************************************************************************)
EXTENDS Integers, Sequences, FiniteSets, SequencesExt

CONSTANTS
  HostEnvs,      \* environments the process may be started in
  HostSettings,  \* what a caller of proxy_init may ask for
  OtherCallers,  \* callers of proxy_init besides the main thread
  Receivers,     \* threads of the configuration socket
  Containers,
  HostMessages,  \* bound: messages of the controller
  UpstreamTexts, KeyTexts,  \* the texts that are taken apart
  Absent         \* stands for a missing value

\* What any caller may ask for.
HostAsks == HostSettings \cup {e.init : e \in HostEnvs}

ASSUME HostAssumption ==
  /\ "main" \notin OtherCallers /\ HostMessages \in Nat
  /\ Absent \notin UpstreamTexts \cup KeyTexts
  /\ UpstreamTexts \subseteq Seq(STRING) /\ KeyTexts \subseteq Seq(STRING)
  /\ Absent # "ok" /\ \A s \in HostAsks : s.dir # Absent

VARIABLES
  hostEnv,       \* what the process was started with
  hostPc,        \* step of the main thread
  hostHas,       \* what the start has put in place: the CA, the resolver, the log sink
  hostCalls,     \* [caller -> its call of proxy_init]
  hostLibrary,   \* the directory the inference library was last initialised from
  hostGuard,     \* INITIALIZED
  hostTries,     \* attempts to bind the forwarding endpoint
  hostServes,    \* serve tasks, with the upstream proxies they use
  hostCas, hostCerts, hostConfigs,  \* registry.cas, cert_services, registry.configs
  hostJobs,      \* [thread -> its message and step]
  hostSent,      \* messages taken so far
  hostProbe      \* a text that is taken apart, and the outcome

hostStart == <<hostEnv, hostPc, hostHas>>
hostInit == <<hostCalls, hostLibrary, hostGuard, hostTries, hostServes>>
hostTables == <<hostCas, hostCerts, hostConfigs, hostJobs, hostSent>>
hostVars == <<hostStart, hostInit, hostTables, hostProbe>>

HostCallers == {"main"} \cup OtherCallers

-----------------------------------------------------------------------------
\* proxy/src/facade/mod.rs: the address of an upstream proxy.
Refused == [ok |-> FALSE]

LastColon(s) == LET at == {k \in DOMAIN s : s[k] = ":"}
                IN CHOOSE k \in at : \A j \in at : j <= k

\* parse::<u16>() takes a plus sign and leading zeros; what it gives is a number.
PortDigits(s) == IF s # <<>> /\ s[1] = "+" THEN Tail(s) ELSE s
PortNumber(s) == FoldLeft(LAMBDA n, x : 10 * n + IF x = "8" THEN 8 ELSE 0, 0, PortDigits(s))
IsPort(s) ==
  /\ PortDigits(s) # <<>> /\ \A k \in DOMAIN PortDigits(s) : PortDigits(s)[k] \in {"0", "8"}
  /\ PortNumber(s) \in 1..65535

HasScheme(s) == \E k \in 1..(Len(s) - 1) : s[k] = ":" /\ s[k + 1] = "//"

HostAndPort(s) ==
  IF s # <<>> /\ s[1] = "["
  THEN LET close == SelectInSeq(s, LAMBDA x : x = "]")
       IN IF close > 0 /\ close < Len(s) /\ s[close + 1] = ":"
          THEN [ok |-> TRUE, host |-> SubSeq(s, 2, close - 1), port |-> SubSeq(s, close + 2, Len(s))]
          ELSE Refused
  ELSE IF Contains(s, ":")
       THEN [ok |-> TRUE, host |-> SubSeq(s, 1, LastColon(s) - 1),
             port |-> SubSeq(s, LastColon(s) + 1, Len(s))]
       ELSE Refused

Http == <<"http", ":", "//">>

ParseUpstream(raw) ==
  LET rest == IF IsPrefix(Http, raw) THEN SubSeq(raw, 4, Len(raw)) ELSE raw
      split == HostAndPort(rest)
  IN IF (rest = raw /\ HasScheme(raw)) \/ ~split.ok THEN Refused
     ELSE IF split.host = <<>> \/ ~IsPort(split.port) THEN Refused
     ELSE [split EXCEPT !.port = PortNumber(@)]

\* A variable of the environment: a text, or bytes that are no Unicode.
Upstream(raw) == [unicode |-> TRUE, text |-> raw, out |-> ParseUpstream(raw)]
NotUnicode == [unicode |-> FALSE]

\* The lower-case variable first. An empty one counts as unset, and so does one that is no
\* Unicode: var() fails for it as for one that is not there.
Named(v) == v # Absent /\ v.unicode /\ v.text # <<>>
Chosen(lower, upper) == IF Named(lower) THEN lower ELSE IF Named(upper) THEN upper ELSE Absent

ReadUpstreamEnv(lower, upper) ==
  LET raw == Chosen(lower, upper)
  IN [ok |-> raw = Absent \/ raw.out.ok, via |-> raw]

-----------------------------------------------------------------------------
\* proxy_proc/src/main.rs: the list of keys, model:key pairs between commas.
Trim(s) == LET solid == {k \in DOMAIN s : s[k] # " "}
           IN IF solid = {} THEN <<>>
              ELSE SubSeq(s, CHOOSE k \in solid : \A j \in solid : k <= j,
                             CHOOSE k \in solid : \A j \in solid : j <= k)

SplitOnce(pair) == LET at == SelectInSeq(pair, LAMBDA x : x = ":")
                   IN [id |-> Trim(SubSeq(pair, 1, at - 1)),
                       key |-> Trim(SubSeq(pair, at + 1, Len(pair)))]

\* The pairs that are not blank, each up to a comma or the end from the comma before it.
PairBefore(s, i) ==
  Trim(SubSeq(s, Max({0} \cup {k \in DOMAIN s : k < i /\ s[k] = ","}) + 1, i - 1))
Pairs(s) ==
  FlattenSeq([i \in 1..(Len(s) + 1) |->
    IF (i > Len(s) \/ s[i] = ",") /\ PairBefore(s, i) # <<>> THEN <<PairBefore(s, i)>> ELSE <<>>])

ParseApiKey(raw) ==
  LET pairs == Pairs(raw)
      items == [k \in DOMAIN pairs |-> SplitOnce(pairs[k])]
  IN IF \E k \in DOMAIN pairs : ~Contains(pairs[k], ":") THEN Refused
     ELSE IF \E k \in DOMAIN items : items[k].id = <<>> \/ items[k].key = <<>> THEN Refused
     ELSE [ok |-> TRUE, items |-> items]

HostProbe ==
  /\ hostProbe = Absent /\ hostPc = "rest"
  /\ hostProbe' \in {[text |-> x, of |-> "upstream", out |-> ParseUpstream(x)] : x \in UpstreamTexts}
                    \cup {[text |-> x, of |-> "keys", out |-> ParseApiKey(x)] : x \in KeyTexts}
  /\ UNCHANGED <<hostStart, hostInit, hostTables>>

-----------------------------------------------------------------------------
HostInit ==
  /\ hostEnv = Absent /\ hostPc = "rest" /\ hostHas = {} /\ hostProbe = Absent
  /\ hostCalls = [w \in HostCallers |-> [at |-> "idle", ask |-> Absent, vias |-> <<>>, result |-> Absent]]
  /\ hostLibrary = Absent /\ hostGuard = FALSE /\ hostTries = 0 /\ hostServes = <<>>
  /\ hostCas = {} /\ hostCerts = {} /\ hostConfigs = [c \in Containers |-> Absent]
  /\ hostJobs = [t \in Receivers |-> [at |-> "idle"]] /\ hostSent = 0

Alive == hostPc \notin {"rest", "dead"}

HostLaunch ==
  /\ hostPc = "rest" /\ hostProbe = Absent
  /\ hostEnv' \in HostEnvs /\ hostPc' = "env"
  /\ UNCHANGED <<hostHas, hostInit, hostTables, hostProbe>>

\* One step of the start: it goes on, or the process exits.
HostStep(from, good, to, gains) ==
  /\ hostPc = from
  /\ hostPc' = IF good THEN to ELSE "dead"
  /\ hostHas' = IF good THEN hostHas \cup gains ELSE hostHas
  /\ UNCHANGED <<hostEnv, hostInit, hostTables, hostProbe>>

\* The variables that must be set, and set to something usable.
RequireEnv(e) == e.vars = "good"
\* The optional ones: unset or blank is nothing asked for, anything else must be usable.
ParseInferenceRoute(e) == e.route \in {Absent, "good"}
ParseAgentRouterConfigDir(e) == e.dir \in {Absent, "absolute"}

FromEnv ==
  HostStep("env", /\ RequireEnv(hostEnv) /\ ParseInferenceRoute(hostEnv)
                  /\ ParseAgentRouterConfigDir(hostEnv)
                  /\ (hostEnv.keys = Absent \/ hostEnv.keys.ok), "ca", {})

\* What the files hold is not looked at: a broken CA fails when a container gets it.
LoadCa == HostStep("ca", hostEnv.ca \in {"good", "broken"}, "resolver", {"ca"})

\* The pinned map may not be there yet: that is a warning, and it is opened on demand.
RegisterEbpfResolver == HostStep("resolver", TRUE, "sink", {"resolver"})

SetupLogSink == HostStep("sink", TRUE, "start", {"sink"})

StartProxy ==
  /\ hostPc = "start" /\ hostCalls["main"].at = "idle"
  /\ IF hostEnv.ip = "loopback"
     THEN /\ hostCalls' = [hostCalls EXCEPT !["main"].at = "validate", !["main"].ask = hostEnv.init]
          /\ UNCHANGED hostPc
     ELSE hostPc' = "dead" /\ UNCHANGED hostCalls
  /\ UNCHANGED <<hostEnv, hostHas, hostLibrary, hostGuard, hostTries, hostServes, hostTables, hostProbe>>

StartProxyEnds ==
  /\ hostCalls["main"].at = "done"
  /\ HostStep("start", hostCalls["main"].result = "ok", "key", {})

ApplyStartupApiKey ==
  HostStep("key", TRUE, "listen",
           IF hostEnv.keys # Absent /\ hostEnv.remote = "unset" /\ hostLibrary # Absent
           THEN {"keys"} ELSE {})

StartConfigReceiver == HostStep("listen", hostEnv.sock = "good", "loop", {})

-----------------------------------------------------------------------------
\* proxy_init; the caller's environment is part of what it asks.  Bound: no call of
\* another caller overlaps with the messages.
Becomes(w, step) == hostCalls' = [hostCalls EXCEPT ![w].at = step]
Returns(w, r) == hostCalls' = [hostCalls EXCEPT ![w].at = "done", ![w].result = r]

OtherCalls(w) ==
  /\ Alive /\ hostCalls[w].at = "idle" /\ hostSent = 0
  /\ \E s \in HostSettings : hostCalls' = [hostCalls EXCEPT ![w].at = "validate", ![w].ask = s]
  /\ UNCHANGED <<hostStart, hostLibrary, hostGuard, hostTries, hostServes, hostTables, hostProbe>>

\* A caller that was refused may correct what it asks and call again.
CallsAgain(w) ==
  /\ Alive /\ hostCalls[w].at = "done" /\ hostCalls[w].result # "ok"
  /\ hostCalls' = [hostCalls EXCEPT ![w].at = "idle"]
  /\ UNCHANGED <<hostStart, hostLibrary, hostGuard, hostTries, hostServes, hostTables, hostProbe>>

ValidateEndpoint(w) ==
  /\ Alive /\ hostCalls[w].at = "validate"
  /\ IF hostCalls[w].ask.port # 0 /\ hostCalls[w].ask.routes # "blank"
     THEN Becomes(w, "library") ELSE Returns(w, "InvalidEndpoint")
  /\ UNCHANGED <<hostStart, hostLibrary, hostGuard, hostTries, hostServes, hostTables, hostProbe>>

\* The library is initialised by every call that gets here, also by one the guard will refuse.
InitInferenceRouter(w) ==
  /\ Alive /\ hostCalls[w].at = "library"
  /\ IF hostCalls[w].ask.dir # "broken"
     THEN Becomes(w, "upstream") /\ hostLibrary' = hostCalls[w].ask.dir
     ELSE Returns(w, "InferenceInit") /\ UNCHANGED hostLibrary
  /\ UNCHANGED <<hostStart, hostGuard, hostTries, hostServes, hostTables, hostProbe>>

ReadUpstreams(w) ==
  LET http == ReadUpstreamEnv(hostCalls[w].ask.http, hostCalls[w].ask.httpUpper)
      https == ReadUpstreamEnv(hostCalls[w].ask.https, hostCalls[w].ask.httpsUpper)
  IN /\ Alive /\ hostCalls[w].at = "upstream"
     /\ IF http.ok /\ https.ok
        THEN hostCalls' = [hostCalls EXCEPT ![w].at = "guard", ![w].vias = <<http.via, https.via>>]
        ELSE Returns(w, "InvalidUpstreamProxy")
     /\ UNCHANGED <<hostStart, hostLibrary, hostGuard, hostTries, hostServes, hostTables, hostProbe>>

TakeGuard(w) ==
  /\ Alive /\ hostCalls[w].at = "guard"
  /\ IF hostGuard THEN Returns(w, "AlreadyInitialized") ELSE Becomes(w, "bind")
  /\ hostGuard' = TRUE
  /\ UNCHANGED <<hostStart, hostLibrary, hostTries, hostServes, hostTables, hostProbe>>

\* A port another process holds: the call fails and the guard stays taken.
BindForwarding(w) ==
  /\ Alive /\ hostCalls[w].at = "bind"
  /\ hostTries' = hostTries + 1
  /\ IF hostCalls[w].ask.busy THEN Returns(w, "ForwardingBind") ELSE Becomes(w, "spawn")
  /\ UNCHANGED <<hostStart, hostLibrary, hostGuard, hostServes, hostTables, hostProbe>>

\* Missing system roots are logged and nothing more.
SpawnServe(w) ==
  /\ Alive /\ hostCalls[w].at = "spawn"
  /\ hostServes' = Append(hostServes, [by |-> w, http |-> hostCalls[w].vias[1],
                                       https |-> hostCalls[w].vias[2], has |-> hostHas])
  /\ Returns(w, "ok")
  /\ UNCHANGED <<hostStart, hostLibrary, hostGuard, hostTries, hostTables, hostProbe>>

ProxyInit(w) ==
  \/ ValidateEndpoint(w) \/ InitInferenceRouter(w) \/ ReadUpstreams(w)
  \/ TakeGuard(w) \/ BindForwarding(w) \/ SpawnServe(w)

-----------------------------------------------------------------------------
\* proxy_proc/src/config_receiver.rs: one thread per connection of the controller.
Job(t, job) == hostJobs' = [hostJobs EXCEPT ![t] = job]
Answers(t, status) == Job(t, [at |-> "idle", status |-> status])

\* Mutant: a container the registry knows keeps its CA.
ReceiveKnown(t) ==
  /\ hostPc = "loop" /\ hostJobs[t].at = "idle" /\ hostSent < HostMessages
  /\ \A w \in HostCallers : hostCalls[w].at \in {"idle", "done"}
  /\ hostSent' = hostSent + 1
  /\ \E c \in Containers, good \in BOOLEAN :
       Job(t, [at |-> IF c \in hostCas THEN "config" ELSE "registry", c |-> c, good |-> good])
  /\ UNCHANGED <<hostStart, hostInit, hostCas, hostCerts, hostConfigs, hostProbe>>

Receive(t) ==
  /\ hostPc = "loop" /\ hostJobs[t].at = "idle" /\ hostSent < HostMessages
  /\ \A w \in HostCallers : hostCalls[w].at \in {"idle", "done"}
  /\ hostSent' = hostSent + 1
  /\ \/ \E c \in Containers, good \in BOOLEAN : Job(t, [at |-> "registry", c |-> c, good |-> good])
     \/ \E c \in Containers : Job(t, [at |-> "remove", c |-> c])
     \/ \E blank \in BOOLEAN : Job(t, [at |-> "key", blank |-> blank])
     \/ Answers(t, "error")     \* not a message, a payload that does not parse, or an unknown type
  /\ UNCHANGED <<hostStart, hostInit, hostCas, hostCerts, hostConfigs, hostProbe>>

\* set_container_ca in its two tables; a CA that does not parse is only a warning here.
RefreshRegistry(t) ==
  /\ Alive /\ hostJobs[t].at = "registry"
  /\ hostCas' = hostCas \cup {hostJobs[t].c}
  /\ Job(t, [hostJobs[t] EXCEPT !.at = "certs"])
  /\ UNCHANGED <<hostStart, hostInit, hostCerts, hostConfigs, hostSent, hostProbe>>

RefreshCerts(t) ==
  /\ Alive /\ hostJobs[t].at = "certs"
  /\ hostCerts' = hostCerts \cup (IF hostEnv.ca = "good" THEN {hostJobs[t].c} ELSE {})
  /\ Job(t, [hostJobs[t] EXCEPT !.at = "config"])
  /\ UNCHANGED <<hostStart, hostInit, hostCas, hostConfigs, hostSent, hostProbe>>

RefreshConfig(t) ==
  /\ Alive /\ hostJobs[t].at = "config"
  /\ IF hostJobs[t].good
     THEN hostConfigs' = [hostConfigs EXCEPT ![hostJobs[t].c] = hostSent] /\ Answers(t, "ok")
     ELSE UNCHANGED hostConfigs /\ Answers(t, "error")
  /\ UNCHANGED <<hostStart, hostInit, hostCas, hostCerts, hostSent, hostProbe>>

\* Nothing to remove is "ok" too; what the container had as CA stays.
RemoveContainer(t) ==
  /\ Alive /\ hostJobs[t].at = "remove"
  /\ hostConfigs' = [hostConfigs EXCEPT ![hostJobs[t].c] = Absent]
  /\ Answers(t, "ok")
  /\ UNCHANGED <<hostStart, hostInit, hostCas, hostCerts, hostSent, hostProbe>>

\* Blank fields are invalid; then the remote service if one is named, else the library.
SetApiKey(t) ==
  /\ Alive /\ hostJobs[t].at = "key"
  /\ Answers(t, IF hostJobs[t].blank \/ hostEnv.remote = "down" THEN "error"
                ELSE IF hostEnv.remote = "unset" /\ hostLibrary = Absent THEN "uninitialized" ELSE "ok")
  /\ UNCHANGED <<hostStart, hostInit, hostCas, hostCerts, hostConfigs, hostSent, hostProbe>>

Handle(t) ==
  \/ RefreshRegistry(t) \/ RefreshCerts(t) \/ RefreshConfig(t) \/ RemoveContainer(t) \/ SetApiKey(t)

-----------------------------------------------------------------------------
HostMain ==
  \/ FromEnv \/ LoadCa \/ RegisterEbpfResolver \/ SetupLogSink \/ StartProxy \/ StartProxyEnds
  \/ ApplyStartupApiKey \/ StartConfigReceiver

HostNext ==
  \/ HostLaunch \/ HostProbe \/ HostMain
  \/ \E w \in HostCallers : ProxyInit(w)
  \/ \E w \in OtherCallers : OtherCalls(w) \/ CallsAgain(w)
  \/ \E t \in Receivers : Receive(t) \/ Handle(t)

HostSpec == HostInit /\ [][HostNext]_hostVars

-----------------------------------------------------------------------------
HostTypeOK ==
  /\ hostPc \in {"rest", "env", "ca", "resolver", "sink", "start", "key", "listen", "loop", "dead"}
  /\ hostEnv \in HostEnvs \cup {Absent} /\ hostHas \subseteq {"ca", "resolver", "sink", "keys"}
  /\ \A w \in HostCallers :
       /\ hostCalls[w].at \in {"idle", "validate", "library", "upstream", "guard", "bind", "spawn", "done"}
       /\ hostCalls[w].result \in {Absent, "ok", "InvalidEndpoint", "InferenceInit",
                                   "InvalidUpstreamProxy", "AlreadyInitialized", "ForwardingBind"}
  /\ hostGuard \in BOOLEAN /\ hostTries \in Nat
  /\ hostCas \subseteq Containers /\ hostCerts \subseteq hostCas
  /\ \A t \in Receivers : hostJobs[t].at \in {"idle", "registry", "certs", "config", "remove", "key"}
  /\ hostSent \in 0..HostMessages

\* However callers race, at most one attempt to bind is ever made, and the guard is gone only
\* when one is made or about to be: a call refused for what it asked can be corrected.
GuardIsOneAttempt ==
  hostTries + Cardinality({w \in HostCallers : hostCalls[w].at = "bind"})
    = IF hostGuard THEN 1 ELSE 0

\* A task that serves goes direct only if neither variable is a text that is not empty, and else
\* through a usable address that one of the two names. (A variable that is no Unicode is one that
\* goes direct, although facade/mod.rs:235-237 and 398-399 say that whatever is not of the right
\* form refuses to start.)
Via(via, lower, upper) ==
  IF via = Absent THEN ~Named(lower) /\ ~Named(upper)
  ELSE via \in {lower, upper} /\ Named(via) /\ via.out.ok
DirectOnlyIfUnnamed ==
  \A k \in DOMAIN hostServes :
    LET ask == hostCalls[hostServes[k].by].ask IN
      /\ Via(hostServes[k].http, ask.http, ask.httpUpper)
      /\ Via(hostServes[k].https, ask.https, ask.httpsUpper)

\* An accepted address is the text that was given: the host as it stands between the scheme or
\* the brackets and a colon, the port as the number of 16 bits that the rest of the text is.
UpstreamReadsBack ==
  hostProbe # Absent /\ hostProbe.of = "upstream" /\ hostProbe.out.ok =>
    \E port \in {SubSeq(hostProbe.text, k, Len(hostProbe.text)) : k \in DOMAIN hostProbe.text} :
      LET host == hostProbe.out.host
          bare == host \o <<":">> \o port
          boxed == <<"[">> \o host \o <<"]", ":">> \o port
      IN /\ hostProbe.text \in {bare, boxed, Http \o bare, Http \o boxed}
         /\ host # <<>> /\ IsPort(port) /\ hostProbe.out.port = PortNumber(port)

\* Accepted keys are the pairs of the list in their order, cut at their first colon: a key may
\* hold colons and a model may not.
Without(s, set) == FlattenSeq([k \in DOMAIN s |-> IF s[k] \in set THEN <<>> ELSE <<s[k]>>])
KeysAreSplitOnce ==
  hostProbe # Absent /\ hostProbe.of = "keys" /\ hostProbe.out.ok =>
    LET items == hostProbe.out.items
        back == FlattenSeq([k \in DOMAIN items |-> Without(items[k].id \o <<":">> \o items[k].key, {" "})])
    IN /\ back = Without(hostProbe.text, {" ", ","})
       /\ \A k \in DOMAIN items : ~Contains(items[k].id, ":")

\* The proxy of this process serves nobody before the CA, the resolver of identities and the
\* audit sink are in place.
ServesArmed ==
  \A k \in DOMAIN hostServes :
    hostServes[k].by = "main" => {"ca", "resolver", "sink"} \subseteq hostServes[k].has

\* With a CA that parses, a container whose traffic is decided has one to be decrypted with,
\* whichever of the handlers' threads brought its policy.
ConfiguredHasCa ==
  hostEnv # Absent /\ hostEnv.ca = "good" =>
    \A c \in Containers : hostConfigs[c] # Absent => c \in hostCerts

\* No key is refused because the library was not initialised first.
KeysFindTheLibrary == \A t \in Receivers : hostJobs[t] # [at |-> "idle", status |-> "uninitialized"]

\* A proxy process that serves has all it needs to, and keeps it: one start, the CA of every
\* configured container, an upstream that is what was written (main.rs, facade/mod.rs).
HostIsArmed ==
  /\ HostTypeOK
  /\ GuardIsOneAttempt /\ ServesArmed /\ ConfiguredHasCa /\ KeysFindTheLibrary
  /\ DirectOnlyIfUnnamed /\ UpstreamReadsBack /\ KeysAreSplitOnce
=============================================================================
