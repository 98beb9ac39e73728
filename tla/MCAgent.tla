------------------------------- MODULE MCAgent -------------------------------
(***************************************************************************)
(* The parts of the proxy process that share no state with one another,    *)
(* for TLC: instances of the four parts, and their sum, in which one part  *)
(* moves while the others are at rest.                                     *)
(***************************************************************************)
EXTENDS Tunnel, ProxyFilter, NameCache, ProxyHost

CONSTANTS n1, n2, r1, r2

MCTunnelForms ==
  {[kind |-> "request", tls |-> TRUE, via |-> TRUE],
   [kind |-> "upgrade", tls |-> TRUE, via |-> FALSE],
   [kind |-> "blind", tls |-> FALSE, via |-> TRUE]}

-----------------------------------------------------------------------------
\* Texts of up to three characters: a letter in both cases, a separator and the query's mark.
MCChars == {"a", "A", "?"}
MCSeqs(S) == UNION {[1..k -> S] : k \in 0..3}
MCTexts == MCSeqs(MCChars)
MCPatterns == MCSeqs({"a", "A", "*"})

\* Rule sets whose rules are written in every order that matters.
Star == <<"*">>
Target(path, action) == [method |-> Star, path |-> path, action |-> action]
Binary(path, action) == [path |-> path, action |-> action]
MCTargets == {<<Target(Star, "allow"), Target(<<"a">>, "deny")>>,
              <<Target(Star, "alert")>>,
              <<Target(<<"A">>, "alert"), Target(<<"a">>, "allow")>>}
MCBinaries == {<<>>,
               <<Binary(Star, "allow"), Binary(<<"a">>, "alert")>>,
               <<Binary(Star, "alert"), Binary(<<"a">>, "deny")>>}
MCNetwork == [family |-> 4, addr |-> 2, prefix |-> 1]
MCHosts == {[type |-> "host", context |-> <<"*", "a">>], [type |-> "ip", net |-> MCNetwork]}
MCRuleSets(name) ==
  {[name |-> name, host |-> [prio |-> p] @@ h, targets |-> t, binaries |-> b] :
     p \in 1..2, h \in MCHosts, t \in MCTargets, b \in MCBinaries}
MCUnnamed == [name |-> "", host |-> [prio |-> 1, type |-> "host", context |-> Star],
              targets |-> <<>>, binaries |-> <<>>]
MCAllowAll == [default |-> "allow", rules |-> <<>>]
MCFilterConfigs ==
  {[default |-> "deny", rules |-> <<x, y>>] : x \in MCRuleSets("x"), y \in MCRuleSets("y")}
    \cup {[default |-> "alert", rules |-> <<x>>] : x \in MCRuleSets("x")}
MCRevisions == {[default |-> "allow", rules |-> <<MCUnnamed>>], MCAllowAll}
MCRequests ==
  {[domain |-> <<"A">>, method |-> <<"a">>, path |-> p, binary |-> b, ips |-> i] :
     p \in {<<"a", "?">>, <<"A">>}, b \in {<<"a">>, <<"A">>, Unset},
     i \in {{}, {[family |-> 4, addr |-> 3], [family |-> 6, addr |-> 2]},
            {[family |-> 4, addr |-> 1]}}}

-----------------------------------------------------------------------------
MCAddressSets == {{}, {1}, {2}}

-----------------------------------------------------------------------------
HostAsk == [port |-> 1, routes |-> "good", dir |-> "default", busy |-> FALSE,
            http |-> Absent, httpUpper |-> Absent, https |-> Absent, httpsUpper |-> Absent]
HostGood == <<"[", "0", "]", ":", "8">>
MCHostSettings ==
  {HostAsk, [HostAsk EXCEPT !.port = 0],
   [HostAsk EXCEPT !.dir = "broken"], [HostAsk EXCEPT !.dir = "own"], [HostAsk EXCEPT !.busy = TRUE],
   [HostAsk EXCEPT !.http = Upstream(<<"8">>), !.httpUpper = Upstream(HostGood)],
   [HostAsk EXCEPT !.http = NotUnicode, !.httpUpper = Upstream(HostGood), !.https = NotUnicode],
   [HostAsk EXCEPT !.http = Upstream(<<>>), !.httpUpper = Upstream(HostGood), !.https = Upstream(Http \o HostGood)]}
HostEnv == [vars |-> "good", route |-> Absent, dir |-> Absent, keys |-> Absent, ca |-> "good", ip |-> "loopback", init |-> HostAsk,
            remote |-> "unset", sock |-> "good"]
MCHostEnvs ==
  {HostEnv, [HostEnv EXCEPT !.vars = "bad"], [HostEnv EXCEPT !.route = "blank"],
   [HostEnv EXCEPT !.dir = "relative"], [HostEnv EXCEPT !.keys = ParseApiKey(<<"m">>)],
   [HostEnv EXCEPT !.keys = ParseApiKey(<<"m", ":", "k">>)],
   [HostEnv EXCEPT !.init.routes = "blank"], [HostEnv EXCEPT !.ca = "broken"], [HostEnv EXCEPT !.ca = "open"], [HostEnv EXCEPT !.ip = "any"],
   [HostEnv EXCEPT !.remote = "down"], [HostEnv EXCEPT !.sock = "bad"]}
  \cup {[HostEnv EXCEPT !.init = s] : s \in {x \in MCHostSettings : x.busy \/ x.http # Absent}}
HostTexts(S, n) == UNION {[1..k -> S] : k \in 0..n}
MCUpstreamTexts == HostTexts({"0", "8", "[", "]", ":", "//", "+"}, 4) \cup
  {<<"0", ":">> \o [k \in 1..n |-> "8"] : n \in {4, 5}} \cup
  {Http \o s : s \in HostTexts({"8", "[", "]", ":", "http", "//"}, 4)}
MCKeyTexts == HostTexts({"m", ":", ",", " "}, 5)
-----------------------------------------------------------------------------
TunnelRests == tunPhase = "rest"
FilterRests == filUpdates = 0 /\ filProbe = Unset
NamesRest == nameChanges = 0 /\ nameCache = {} /\ \A r \in Lookups : At(r, "rest")

HostRests == hostPc = "rest" /\ hostProbe = Absent

AgentInit == TunnelInit /\ FilterInit /\ NameInit /\ HostInit

AgentNext ==
  \/ FilterRests /\ NamesRest /\ HostRests
     /\ TunnelNext /\ UNCHANGED <<filVars, nameVars, hostVars>>
  \/ TunnelRests /\ NamesRest /\ HostRests
     /\ FilterNext /\ UNCHANGED <<tunVars, nameVars, hostVars>>
  \/ TunnelRests /\ FilterRests /\ HostRests
     /\ NameNext /\ UNCHANGED <<tunVars, filVars, hostVars>>
  \/ TunnelRests /\ FilterRests /\ NamesRest
     /\ HostNext /\ UNCHANGED <<tunVars, filVars, nameVars>>

AgentVars == <<tunVars, filVars, nameVars, hostVars>>
AgentRests == TunnelRests /\ FilterRests /\ NamesRest /\ HostRests

=============================================================================
