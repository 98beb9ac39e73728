----------------------------- MODULE MCInference -----------------------------
(***************************************************************************)
(* The inference library and its remote form, for TLC: instances of the    *)
(* five parts, and their sum, in which one part moves while the others     *)
(* are at rest.                                                            *)
(***************************************************************************)
EXTENDS InferenceLibrary, MCInferenceKeys

-----------------------------------------------------------------------------
InfText(t) == [kind |-> "text", text |-> t]
InfBlocks(s) == [kind |-> "blocks", blocks |-> s]
InfBlock(type, text) == [type |-> type, text |-> text]
InfMessage(role, content) == [role |-> role, content |-> content]
InfContents ==
  {InfText("secret"), [kind |-> "other"],
   InfBlocks(<<InfBlock("image", "clean"), InfBlock("text", "secret")>>),
   InfBlocks(<<InfBlock("text", "clean"), InfBlock("text", "missing"), InfBlock("text", "secret")>>),
   InfBlocks(<<InfBlock("text", "number"), InfBlock("image", "missing"), InfBlock("text", "clean")>>)}
InfBody == [kind |-> "object", list |-> TRUE, system |-> FALSE, max |-> FALSE, model |-> "m1",
            messages |-> <<>>]
MCInfBodies ==
  {[InfBody EXCEPT !.kind = "empty"], [InfBody EXCEPT !.kind = "garbage"], [InfBody EXCEPT !.list = FALSE],
   [InfBody EXCEPT !.messages = <<InfMessage("system", InfText("secret"))>>],
   [InfBody EXCEPT !.max = TRUE, !.messages = <<InfMessage("user", InfText("clean"))>>],
   [InfBody EXCEPT !.model = "none", !.messages = <<InfMessage("system", InfText("secret")), InfMessage("user", InfText("clean"))>>]}
  \cup {[InfBody EXCEPT !.model = m, !.messages = <<InfMessage("user", x), InfMessage("assistant", InfText("secret")), InfMessage("user", y)>>] :
          m \in {"m2", "number"}, x \in InfContents, y \in InfContents}
MCInfRequests ==
  {[connect |-> c, body |-> b, headers |-> [k \in InfKeys |-> IF k = "host" THEN h ELSE "theirs"]] :
     c \in BOOLEAN, b \in MCInfBodies, h \in {"anthropic", "h1"}}
  \cup {[connect |-> FALSE, body |-> b, headers |-> [k \in InfKeys |-> "none"]] : b \in MCInfBodies}
InfStrategy(prio, model) == [on |-> TRUE, prio |-> prio, model |-> model, sanitize |-> TRUE]
InfModel(type, endpoint) == [type |-> type, on |-> TRUE, endpoint |-> endpoint]
InfConfig ==
  [strategies |-> <<InfStrategy(2, "m1"), InfStrategy(1, "m2"), InfStrategy(1, "m1")>>,
   models |-> [m1 |-> InfModel("cloud", <<"https", "://", "u", "@", "h1", "/", "v">>),
               m2 |-> InfModel("local", <<"h2", "/", "@", "v">>)],
   masks |-> TRUE, keys |-> [m1 |-> "good", m2 |-> "none"]]
MCInfConfigs ==
  {InfConfig, [InfConfig EXCEPT !.masks = FALSE, !.keys.m1 = "odd"],
   [InfConfig EXCEPT !.keys.m1 = "corrupt", !.strategies[2].sanitize = FALSE],
   [InfConfig EXCEPT !.models.m2.on = FALSE, !.models.m1.endpoint = <<"://", "/">>],
   [InfConfig EXCEPT !.strategies[2].model = "gone", !.strategies[1].on = FALSE],
   [InfConfig EXCEPT !.strategies = <<>>]}
-----------------------------------------------------------------------------
RawStrategy(id, model) ==
  [id |-> <<id>>, name |-> <<"n">>, enabled |-> <<TRUE>>, priority |-> <<1>>, format |-> <<>>, when |-> <<>>,
   target |-> <<"cloud">>, model |-> <<model>>, sanitize |-> <<TRUE>>]
RawModel(id, type) ==
  [id |-> <<id>>, name |-> <<"n">>, type |-> <<type>>, provider |-> <<"openai">>, endpoint |-> <<"e">>,
   timeout |-> <<1>>, retries |-> <<0>>, enabled |-> <<TRUE>>]
RawPattern ==
  [id |-> <<"p">>, name |-> <<"n">>, type |-> <<"custom">>, regex |-> <<"r">>, keywords |-> <<>>,
   description |-> <<"d">>, severity |-> <<"high">>, enabled |-> <<TRUE>>, dist |-> <<-1>>]
RawFiles == [f \in {"policy", "models", "patterns", "keys"} |-> "good"]
RawBase ==
  [files |-> RawFiles,
   policy |-> [version |-> <<"1.0.0">>, defaults |-> <<<<"s2">>>>,
               strategies |-> <<RawStrategy("s1", "m1"), RawStrategy("s2", "m2")>>],
   models |-> <<RawModel("m1", "cloud"), RawModel("m2", "local")>>,
   patterns |-> <<RawPattern>>, apiKeys |-> [m1 |-> <<"c">>, m2 |-> <<"">>]]
RawStrategies ==
  LET s == RawStrategy("s1", "m1") IN
  {s} \cup {[s EXCEPT !.enabled = <<FALSE>>, !.model = <<"m3">>], [s EXCEPT !.enabled = <<>>, !.priority = <<>>]}
    \cup {[s EXCEPT !.id = v] : v \in {<<"">>, <<"odd">>, <<"long">>, <<"s2">>}}
    \cup {[s EXCEPT !.priority = v] : v \in {<<0>>, <<100>>, <<101>>}}
    \cup {[s EXCEPT !.model = v] : v \in {<<>>, <<"m3">>}}
    \cup {[s EXCEPT !.when = <<"">>], [s EXCEPT !.format = <<"odd">>], [s EXCEPT !.target = <<>>], [s EXCEPT !.name = <<"long">>]}
RawModels ==
  LET r == RawModel("m1", "cloud") IN
  {r} \cup {[r EXCEPT !.type = v] : v \in {<<>>, <<"odd">>, <<"local">>}}
    \cup {[r EXCEPT !.id = v] : v \in {<<>>, <<"m2">>}}
    \cup {[r EXCEPT !.timeout = <<0>>], [r EXCEPT !.retries = <<-1>>], [r EXCEPT !.endpoint = <<"long">>], [r EXCEPT !.provider = <<>>]}
RawPatterns ==
  {<<RawPattern>>, <<>>, <<RawPattern, RawPattern>>, <<[RawPattern EXCEPT !.severity = <<>>]>>,
   <<[RawPattern EXCEPT !.severity = <<"odd">>]>>, <<[RawPattern EXCEPT !.regex = <<>>]>>,
   <<[RawPattern EXCEPT !.regex = <<>>, !.type = <<>>, !.dist = <<>>]>>}
MCRawConfigs ==
  {[RawBase EXCEPT !.policy.strategies[1] = s, !.models[1] = m, !.patterns = p, !.policy.defaults = d] :
     s \in RawStrategies, m \in RawModels, p \in RawPatterns, d \in {<<>>, <<<<"s2">>>>, <<<<"s1", "s9">>>>}}
  \cup {[RawBase EXCEPT !.policy.strategies = <<s>>, !.models[1] = m, !.policy.defaults = <<>>] : s \in RawStrategies, m \in RawModels}
  \cup {[RawBase EXCEPT !.files[f] = v] : f \in DOMAIN RawFiles, v \in {"missing", "long", "garbage", "list"}}
  \cup {[RawBase EXCEPT !.policy.version = v] : v \in {<<>>, <<"odd">>}}
  \cup {[RawBase EXCEPT !.policy.strategies = <<>>, !.policy.defaults = <<>>], [RawBase EXCEPT !.models = <<>>]}
-----------------------------------------------------------------------------
MaskTextsOf(S, n) == UNION {[1..k -> S] : k \in 0..n}
MCMaskTexts == MaskTextsOf({"K", "0", " ", "wide"}, 5) \cup {<<"k", "a">> \o s : s \in MaskTextsOf({"0", "a", " ", "@"}, 3)}
MaskPattern(id, keywords, set, dist) == [on |-> TRUE, id |-> id, keywords |-> keywords, regex |-> set, dist |-> dist]
MCMaskPatternLists ==
  {<<MaskPattern("P", <<<<"k">>, <<"wide", "K">>>>, {"0"}, 2)>>,
   <<MaskPattern("P", <<<<"k">>>>, {"0", "wide"}, 3), MaskPattern("Q", <<<<"wide">>>>, {"0", " "}, 4)>>,
   <<MaskPattern("Phone", <<<<"K">>>>, {"0"}, 5), MaskPattern("Q", <<<<"wide">>>>, {"0"}, 2)>>,
   <<MaskPattern("ID_Card", <<<<"k">>, <<" ", " ">>>>, {"0"}, 3), MaskPattern("Bank_Card", <<<<"wide">>>>, {"0", " "}, 4)>>,
   <<MaskPattern("Email", <<<<"k">>, <<>>>>, {"a", "@"}, 5)>>,
   <<[MaskPattern("P", <<<<"k">>>>, {"0"}, 2) EXCEPT !.on = FALSE]>>,
   <<MaskPattern("P", <<<<"k">>>>, {"["}, 2), MaskPattern("Q", <<<<"k">>>>, {"0"}, 2)>>}
-----------------------------------------------------------------------------
MCServiceTexts ==
  {<<"{", d, "nl">> \o s : d \in {"0", "1", "2", "9"}, s \in {<<>>, <<"{", "0", "nl">>}}
  \cup {<<"nl", "{", "0", "nl">>, <<"{", "0", "0", "0", "0", "0", "0", "nl">>}
-----------------------------------------------------------------------------
RouteRests == infInstalled = 0 /\ infPhase = "rest"
ConfigRests == cfgProbe = NoProbe
KeysRest == keyInits = 0 /\ keyCount = 0
MaskerRests == maskProbe = NoText
RemoteRests == udsPhase = "rest"

LibraryInit == InfInit /\ CfgInit /\ KeysInit /\ MaskInit /\ UdsInit
LibraryVars == <<infVars, cfgVars, keyVars, maskVars, udsVars>>
LibraryRests == RouteRests /\ ConfigRests /\ KeysRest /\ MaskerRests /\ RemoteRests

LibraryNext ==
  \/ ConfigRests /\ KeysRest /\ MaskerRests /\ RemoteRests
     /\ InferenceNext /\ UNCHANGED <<cfgVars, keyVars, maskVars, udsVars>>
  \/ RouteRests /\ KeysRest /\ MaskerRests /\ RemoteRests
     /\ CfgNext /\ UNCHANGED <<infVars, keyVars, maskVars, udsVars>>
  \/ RouteRests /\ ConfigRests /\ MaskerRests /\ RemoteRests
     /\ KeysNext /\ UNCHANGED <<infVars, cfgVars, maskVars, udsVars>>
  \/ RouteRests /\ ConfigRests /\ KeysRest /\ RemoteRests
     /\ MaskNext /\ UNCHANGED <<infVars, cfgVars, keyVars, udsVars>>
  \/ RouteRests /\ ConfigRests /\ KeysRest /\ MaskerRests
     /\ UdsNext /\ UNCHANGED <<infVars, cfgVars, keyVars, maskVars>>
=============================================================================
