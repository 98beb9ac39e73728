----------------------------- MODULE ProxyFilter -----------------------------
(***************************************************************************)
(* The filter of the proxy: the configuration a container is given, how it *)
(* is checked and put in order when it is stored (facade, registry), the   *)
(* evaluation of a request against it (filter/engine.rs) and the matchers  *)
(* of its dimensions (filter/matcher).                                     *)
(*                                                                         *)
(* A configuration has a default policy and rule sets; a rule set has a    *)
(* host condition with a priority, target rules and binary rules, each of  *)
(* them an action for what it matches.  Texts are sequences of characters, *)
(* "*" the wildcard; addresses are numbers of a family and its width.      *)
(***************************************************************************)
EXTENDS Integers, Sequences, FiniteSets, SequencesExt

CONSTANTS
  FilterConfigs,   \* configurations a container may be given first
  FilterRevisions, \* those that may follow
  FilterUpdates,   \* bound: calls of set_container_config
  FilterRequests,  \* requests that are evaluated
  Unset,           \* stands for no configuration, no request, no decision
  Patterns, Texts, \* what the matchers are probed with
  AddressBits,     \* width of an IPv6 address, and of the common form
  V4Bits           \* width of an IPv4 address

VARIABLES
  filWritten,   \* the configuration last accepted, as it was written
  filStored,    \* the same, as the registry keeps it
  filUpdates,   \* calls of set_container_config so far
  filAsked,     \* the request last evaluated
  filDecision,  \* and its decision
  filProbe      \* a matcher, what it was asked and what it said

(***************************************************************************)
(* What a configuration and a decision are made of (model.rs).             *)
(***************************************************************************)
RuleActions == {"deny", "alert", "allow"}
Chars == Patterns \cup Texts
HostRules == [type : {"host"}, context : Chars, prio : Nat]
               \cup [type : {"ip"}, prio : Nat,
                     net : [family : {4, 6}, addr : Nat, prefix : Nat]]
TargetRules == [method : Chars, path : Chars, action : RuleActions]
BinaryRules == [path : Chars, action : RuleActions]
RuleSets == [name : STRING, host : HostRules, targets : Seq(TargetRules),
             binaries : Seq(BinaryRules)]
Configs == [default : RuleActions, rules : Seq(RuleSets)]
Reasons == {"whitelist", "blacklist", "default", "config_not_found", "binary_not_found",
            "dns_resolve_error"}
Decisions == [action : {"allow", "deny"}, alert : BOOLEAN, reason : Reasons,
              rule : STRING \cup {Unset}]

ASSUME FilterAssumption ==
  /\ FilterUpdates \in Nat
  /\ AddressBits \in Nat /\ V4Bits \in 1..AddressBits
  /\ Patterns \subseteq Seq(STRING) /\ Texts \subseteq Seq(STRING)
  /\ FilterConfigs \subseteq Configs /\ FilterRevisions \subseteq Configs
  /\ Unset \notin Configs /\ Unset \notin FilterRequests /\ Unset \notin Decisions

filVars == <<filWritten, filStored, filUpdates, filAsked, filDecision, filProbe>>

FilterInit ==
  /\ filWritten = Unset /\ filStored = Unset /\ filUpdates = 0
  /\ filAsked = Unset /\ filDecision = Unset /\ filProbe = Unset

(***************************************************************************)
(* Matchers.                                                               *)
(***************************************************************************)
\* ASCII folding: every upper-case letter the texts use.
Lower(c) == IF c = "A" THEN "a" ELSE c
Folded(s) == [i \in DOMAIN s |-> Lower(s[i])]

StartsWith(s, p) == Len(p) <= Len(s) /\ SubSeq(s, 1, Len(p)) = p
EndsWith(s, p) == Len(p) <= Len(s) /\ SubSeq(s, Len(s) - Len(p) + 1, Len(s)) = p

Stars(p) == Cardinality({i \in DOMAIN p : p[i] = "*"})

\* glob_match (globset, everything but the star escaped): the star stands for any sequence.
Glob(p, s) ==
  \/ p = s
  \/ \E i \in DOMAIN p :
       /\ p[i] = "*"
       /\ Len(s) >= Len(p) - 1
       /\ StartsWith(s, SubSeq(p, 1, i - 1)) /\ EndsWith(s, SubSeq(p, i + 1, Len(p)))

\* DomainMatcher: the star at the front, at the end, inside, or none; letters of either case.
DomainMatches(p, s) ==
  \/ p = <<"*">>
  \/ /\ p # <<"*">>
     /\ IF Head(p) = "*" THEN EndsWith(Folded(s), Folded(Tail(p)))
        ELSE IF Last(p) = "*" THEN StartsWith(Folded(s), Folded(Front(p)))
        ELSE IF Stars(p) > 0 THEN Glob(Folded(p), Folded(s))
        ELSE Folded(s) = Folded(p)

\* MethodMatcher: case matters.
MethodMatches(p, s) == p = <<"*">> \/ IF Stars(p) > 0 THEN Glob(p, s) ELSE p = s

\* What precedes the first "?".
PathOf(s) == LET marks == {i \in DOMAIN s : s[i] = "?"} IN
             IF marks = {} THEN s ELSE SubSeq(s, 1, Min(marks) - 1)

\* UriMatcher: the path without its query.
UriMatches(p, s) ==
  \/ p = <<"*">>
  \/ /\ p # <<"*">>
     /\ IF Last(p) = "*" THEN StartsWith(PathOf(s), Front(p))
        ELSE IF Head(p) = "*" THEN EndsWith(PathOf(s), Tail(p))
        ELSE IF Stars(p) > 0 THEN Glob(p, PathOf(s))
        ELSE PathOf(s) = p

\* parse_cidr and ip_in_network: both families share a word of AddressBits, an IPv4 address in
\* its high bits, so that a prefix is the same mask for either.
TwoTo[k \in 0..AddressBits] == IF k = 0 THEN 1 ELSE 2 * TwoTo[k - 1]

Width(family) == IF family = 4 THEN V4Bits ELSE AddressBits
Word(ip) == ip.addr * TwoTo[AddressBits - Width(ip.family)]

\* A shift by the whole width overflows: prefix 0 is a case of its own.
Mask(n) == IF n = 0 THEN 0 ELSE ((TwoTo[AddressBits] - 1) * TwoTo[AddressBits - n]) % TwoTo[AddressBits]

OneBits(x) == {i \in 0..AddressBits - 1 : (x \div TwoTo[i]) % 2 = 1}

InNetwork(ip, net) ==
  /\ ip.family = net.family
  /\ OneBits(Word(ip)) \cap OneBits(Mask(net.prefix))
       = OneBits(Word(net)) \cap OneBits(Mask(net.prefix))

\* IpMatcher: one address of the name is enough.
AnyInNetwork(ips, net) == \E ip \in ips : InNetwork(ip, net)

(***************************************************************************)
(* The configuration, checked and stored.                                  *)
(***************************************************************************)
ValidGlob(p) == p # <<>> /\ Stars(p) <= 1

ValidNetwork(net) == net.prefix <= Width(net.family)

\* validate_ruleset.
ValidRuleSet(rs) ==
  /\ rs.name # ""
  /\ IF rs.host.type = "ip" THEN ValidNetwork(rs.host.net) ELSE ValidGlob(rs.host.context)
  /\ \A t \in Range(rs.targets) : ValidGlob(t.method) /\ ValidGlob(t.path)
  /\ \A b \in Range(rs.binaries) : ValidGlob(b.path)

ValidConfig(fc) == \A rs \in Range(fc.rules) : ValidRuleSet(rs)

ActionRank(a) == CASE a = "deny" -> 0 [] a = "alert" -> 1 [] a = "allow" -> 2

\* A stable sort: the place of an item is how many do not come after it.
Precedes(key, i, j) == key[i] < key[j] \/ (key[i] = key[j] /\ i <= j)
Place(key, i) == Cardinality({j \in DOMAIN key : Precedes(key, j, i)})
Sorted(s, key) == [k \in DOMAIN s |-> s[CHOOSE i \in DOMAIN s : Place(key, i) = k]]

\* What rule sets and rules are sorted by.
Urgency(sets) == [i \in DOMAIN sets |-> -sets[i].host.prio]
Ranks(rules) == [i \in DOMAIN rules |-> ActionRank(rules[i].action)]

\* Mutant: the rules of a rule set stay in the order they were written.
RulesAsWritten(fc) == [fc EXCEPT !.rules = Sorted(@, Urgency(@))]

\* normalize_rule_order: rule sets by falling priority, the rules of each from deny to allow.
InOrder(rs) ==
  [rs EXCEPT !.targets = Sorted(@, Ranks(@)), !.binaries = Sorted(@, Ranks(@))]
NormalizeRuleOrder(fc) ==
  [fc EXCEPT !.rules = LET sets == Sorted(@, Urgency(@)) IN [i \in DOMAIN sets |-> InOrder(sets[i])]]

\* set_container_config: what is not valid leaves the configuration there was.
SetContainerConfig(fc) ==
  /\ filUpdates < FilterUpdates
  /\ filUpdates' = filUpdates + 1
  /\ IF ValidConfig(fc)
     THEN filStored' = NormalizeRuleOrder(fc) /\ filWritten' = fc
     ELSE UNCHANGED <<filStored, filWritten>>
  /\ filAsked' = Unset /\ filDecision' = Unset
  /\ UNCHANGED filProbe

RemoveContainerPolicy ==
  /\ filStored # Unset
  /\ filStored' = Unset /\ filWritten' = Unset
  /\ filAsked' = Unset /\ filDecision' = Unset
  /\ UNCHANGED <<filUpdates, filProbe>>

(***************************************************************************)
(* The evaluation.                                                         *)
(***************************************************************************)
RuleSetMatches(req, rs) ==
  IF rs.host.type = "ip" THEN AnyInNetwork(req.ips, rs.host.net)
  ELSE DomainMatches(rs.host.context, req.domain)

\* A binary that was not resolved matches no rule.
BinaryHits(req, b) == req.binary # Unset /\ Glob(b.path, req.binary)
TargetHits(req, t) == MethodMatches(t.method, req.method) /\ UriMatches(t.path, req.path)

Verdict(action, reason, rs) ==
  [action |-> IF action = "deny" THEN "deny" ELSE "allow",
   alert |-> action = "alert", reason |-> reason, rule |-> rs]

\* One rule set: its first binary rule that denies or alerts, else its first target rule;
\* a binary rule that allows decides nothing.
BinaryRule(req, rs) == {i \in DOMAIN rs.binaries : rs.binaries[i].action # "allow" /\ BinaryHits(req, rs.binaries[i])}
TargetRule(req, rs) == {i \in DOMAIN rs.targets : TargetHits(req, rs.targets[i])}
InRuleSet(req, rs) ==
  LET binary == BinaryRule(req, rs)  target == TargetRule(req, rs)
      because(a) == IF a = "allow" THEN "whitelist" ELSE "blacklist"
  IN CASE binary # {} -> Verdict(rs.binaries[Min(binary)].action, "blacklist", rs.name)
       [] binary = {} /\ target # {} ->
            LET a == rs.targets[Min(target)].action IN Verdict(a, because(a), rs.name)
       [] OTHER -> Unset

\* evaluate: rule sets in their order, the first that decides; else the default policy.
Evaluate(req, fc) ==
  LET decides == {i \in DOMAIN fc.rules : RuleSetMatches(req, fc.rules[i]) /\ InRuleSet(req, fc.rules[i]) # Unset}
  IN IF decides # {} THEN InRuleSet(req, fc.rules[Min(decides)])
     ELSE Verdict(fc.default, "default", Unset)

\* handle_request: a request whose binary or whose addresses a rule needs and nobody resolved
\* is denied before the evaluation, as is one of a container without a configuration.
Denied(reason) == [action |-> "deny", alert |-> FALSE, reason |-> reason, rule |-> Unset]

Decide(req, fc) ==
  CASE fc = Unset -> Denied("config_not_found")
    [] fc # Unset /\ req.binary = Unset /\ (\E rs \in Range(fc.rules) : rs.binaries # <<>>) ->
         Denied("binary_not_found")
    [] fc # Unset /\ ~(req.binary = Unset /\ (\E rs \in Range(fc.rules) : rs.binaries # <<>>))
         /\ req.ips = {} /\ (\E rs \in Range(fc.rules) : rs.host.type = "ip") ->
         Denied("dns_resolve_error")
    [] OTHER -> Evaluate(req, fc)

Ask(req) ==
  /\ filUpdates > 0 /\ filAsked = Unset
  /\ filAsked' = req /\ filDecision' = Decide(req, filStored)
  /\ UNCHANGED <<filWritten, filStored, filUpdates, filProbe>>

\* The matchers by themselves.
Networks == [family : {4, 6}, addr : 0..TwoTo[AddressBits] - 1, prefix : 0..AddressBits]
Addresses == [family : {4, 6}, addr : 0..TwoTo[AddressBits] - 1]
InFamily(x) == x.addr < TwoTo[Width(x.family)]

ProbeText ==
  \E p \in Patterns, s \in Texts : \E m \in {"domain", "method", "uri"} :
    /\ ValidGlob(p)
    /\ filProbe' = [kind |-> m, pattern |-> p, text |-> s,
                    hit |-> CASE m = "domain" -> DomainMatches(p, s)
                              [] m = "method" -> MethodMatches(p, s)
                              [] m = "uri" -> UriMatches(p, s)]

ProbeNetwork ==
  \E net \in Networks, ip \in Addresses :
    /\ InFamily(net) /\ InFamily(ip) /\ ValidNetwork(net)
    /\ filProbe' = [kind |-> "net", net |-> net, ip |-> ip, hit |-> InNetwork(ip, net)]

Probe ==
  /\ filUpdates = 0 /\ filProbe = Unset
  /\ ProbeText \/ ProbeNetwork
  /\ UNCHANGED <<filWritten, filStored, filUpdates, filAsked, filDecision>>

FilterNext ==
  \/ filProbe = Unset /\
     \E fc \in IF filUpdates = 0 THEN FilterConfigs ELSE FilterRevisions : SetContainerConfig(fc)
  \/ RemoveContainerPolicy
  \/ \E req \in FilterRequests : Ask(req)
  \/ Probe

FilterSpec == FilterInit /\ [][FilterNext]_filVars

-----------------------------------------------------------------------------
\* Type invariant: what the registry keeps and what evaluate returns.
FilterTypeOK ==
  /\ filStored \in Configs \cup {Unset} /\ filWritten \in Configs \cup {Unset}
  /\ filUpdates \in 0..FilterUpdates
  /\ filAsked \in FilterRequests \cup {Unset}
  /\ filDecision \in Decisions \cup {Unset}

\* What the configuration as it was written says of a request, without an order of evaluation:
\* of the rule sets that decide it the one of highest priority, the earliest of equals; in it a
\* binary rule that denies, one that alerts, then target rules from deny to allow.
Strictest(actions) == CHOOSE a \in actions : \A b \in actions : ActionRank(a) <= ActionRank(b)

ActionsFor(req, rs) ==
  LET binaries == {b.action : b \in {r \in Range(rs.binaries) : BinaryHits(req, r)}} \ {"allow"}
      targets == {t.action : t \in {r \in Range(rs.targets) : TargetHits(req, r)}}
  IN IF binaries # {} THEN binaries ELSE targets

MeantBy(req, fc) ==
  LET deciding == {i \in DOMAIN fc.rules :
                     RuleSetMatches(req, fc.rules[i]) /\ ActionsFor(req, fc.rules[i]) # {}}
      best == CHOOSE i \in deciding : \A j \in deciding :
                \/ fc.rules[i].host.prio > fc.rules[j].host.prio
                \/ fc.rules[i].host.prio = fc.rules[j].host.prio /\ i <= j
  IN IF deciding = {} THEN fc.default ELSE Strictest(ActionsFor(req, fc.rules[best]))

\* A request that is evaluated gets what the last configuration accepted says, in whatever order
\* its rules were written, and an update that was refused changes nothing (set_container_config,
\* normalize_rule_order, evaluate).
DecidesAsWritten ==
  (filDecision # Unset /\ filDecision.reason \in {"blacklist", "whitelist", "default"}) =>
    LET meant == MeantBy(filAsked, filWritten)
    IN /\ filDecision.action = (IF meant = "deny" THEN "deny" ELSE "allow")
       /\ filDecision.alert = (meant = "alert")

\* No request is let through by a rule that depends on something unknown: the binary of the
\* process, the addresses of the name, the configuration of the container (fail closed).
UnknownIsDenied ==
  (filDecision # Unset /\ filDecision.action = "allow") =>
    /\ filWritten # Unset
    /\ \A rs \in Range(filWritten.rules) :
         /\ rs.binaries # <<>> => filAsked.binary # Unset
         /\ rs.host.type = "ip" => filAsked.ips # {}

\* The short cuts of the three matchers are the one-star glob they stand for: over the domain in
\* either case, over the method, over the path without its query.
MatchersAreGlobs ==
  (filProbe # Unset /\ filProbe.kind # "net") =>
    LET p == filProbe.pattern  s == filProbe.text
    IN filProbe.hit = CASE filProbe.kind = "domain" -> Glob(Folded(p), Folded(s))
                        [] filProbe.kind = "method" -> Glob(p, s)
                        [] filProbe.kind = "uri" -> Glob(p, PathOf(s))

\* An address is in a network exactly when their families agree and so do as many of their
\* leading bits as the prefix says, from none to all.
NetworksArePrefixes ==
  (filProbe # Unset /\ filProbe.kind = "net") =>
    LET ip == filProbe.ip  net == filProbe.net
        Leading(x) == x.addr \div TwoTo[Width(net.family) - net.prefix]
    IN filProbe.hit = (ip.family = net.family /\ Leading(ip) = Leading(net))

\* The filter decides what the policy's author wrote, for requests and containers known and
\* unknown, and its matchers are what they are called (filter/mod.rs, matcher/mod.rs).
PolicyIsRead ==
  FilterTypeOK /\ DecidesAsWritten /\ UnknownIsDenied /\ MatchersAreGlobs /\ NetworksArePrefixes
=============================================================================
