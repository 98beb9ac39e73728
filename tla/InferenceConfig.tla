--------------------------- MODULE InferenceConfig ---------------------------
(***************************************************************************)
(* How the inference library reads its configuration: fields that are      *)
(* missing or of another type than expected take a default, and what is    *)
(* then wrong is refused, all of it at once (inference/src/config:         *)
(* loader.rs, validator.rs, model.rs).                                     *)
(*                                                                         *)
(* A field of a file is <<value>> or, missing or of another type, <<>>.    *)
(* Of a text it only matters whether it is empty, "long" for its field, or *)
(* "odd", made of other characters than the field allows.                  *)
(***************************************************************************)
EXTENDS InferenceRoute

CONSTANTS RawConfigs, NoProbe

\* What the loader reads of an object, each field there or not; other fields are left alone.
Optional(S) == {x \in Seq(S) : Len(x) <= 1}
StrategyFields ==
  [id : Optional(STRING), name : Optional(STRING), enabled : Optional(BOOLEAN), priority : Optional(Int),
   format : Optional(STRING), when : Optional(STRING), target : Optional(STRING), model : Optional(STRING),
   sanitize : Optional(BOOLEAN)]
ModelFields ==
  [id : Optional(STRING), name : Optional(STRING), type : Optional(STRING), provider : Optional(STRING),
   endpoint : Optional(STRING), timeout : Optional(Int), retries : Optional(Int), enabled : Optional(BOOLEAN)]
PatternFields ==
  [id : Optional(STRING), name : Optional(STRING), type : Optional(STRING), regex : Optional(STRING),
   keywords : Optional(Seq(STRING)), description : Optional(STRING), severity : Optional(STRING),
   enabled : Optional(BOOLEAN), dist : Optional(Int)]
PolicyFields ==
  [version : Optional(STRING), defaults : Optional(Seq(STRING)), strategies : Seq(StrategyFields)]

ASSUME ConfigAssumption ==
  \A r \in RawConfigs :
    /\ DOMAIN r = {"files", "policy", "models", "patterns", "apiKeys"}
    /\ r.policy \in PolicyFields /\ r.models \in Seq(ModelFields) /\ r.patterns \in Seq(PatternFields)

VARIABLE cfgProbe  \* a configuration that is read, and what comes of it

cfgVars == <<cfgProbe>>

OrElse(field, default) == IF field = <<>> THEN default ELSE field[1]

-----------------------------------------------------------------------------
\* loader.rs
LoadConfigFile(file) == file \notin {"missing", "long"}
ParseJson(file) == file # "garbage"
IsObject(file) == file # "list"

BuildStrategy(raw) ==
  [id |-> OrElse(raw.id, ""), name |-> OrElse(raw.name, ""), on |-> OrElse(raw.enabled, TRUE),
   prio |-> OrElse(raw.priority, 50), format |-> OrElse(raw.format, "any"),
   when |-> OrElse(raw.when, "any"), target |-> OrElse(raw.target, ""),
   model |-> OrElse(raw.model, ""), sanitize |-> OrElse(raw.sanitize, FALSE)]

DefaultTimeout == 30000  \* milliseconds
BuildModelConfig(raw) ==
  [id |-> OrElse(raw.id, ""), name |-> OrElse(raw.name, ""), type |-> OrElse(raw.type, ""),
   provider |-> OrElse(raw.provider, ""), endpoint |-> OrElse(raw.endpoint, ""),
   timeout |-> OrElse(raw.timeout, DefaultTimeout), retries |-> OrElse(raw.retries, 3), on |-> OrElse(raw.enabled, TRUE)]

\* Of models of one name, the last.
BuildModels(raws) ==
  LET built == [k \in DOMAIN raws |-> BuildModelConfig(raws[k])]
      last(id) == SelectLastInSeq(built, LAMBDA m : m.id = id)
  IN [id \in {built[k].id : k \in DOMAIN built} |-> built[last(id)]]

\* A negative distance is none, a missing severity "medium".
BuildPattern(raw) ==
  LET severity == OrElse(raw.severity, "")
      dist == OrElse(raw.dist, 50)
  IN [id |-> OrElse(raw.id, ""), name |-> OrElse(raw.name, ""), type |-> OrElse(raw.type, ""),
      regex |-> OrElse(raw.regex, ""), keywords |-> OrElse(raw.keywords, <<>>),
      description |-> OrElse(raw.description, ""), severity |-> IF severity = "" THEN "medium" ELSE severity,
      on |-> OrElse(raw.enabled, TRUE), dist |-> IF dist < 0 THEN 0 ELSE dist]

\* What is no text, or an empty one, is no key.
BuildApiKeys(raw) == [id \in {i \in DOMAIN raw : OrElse(raw[i], "") # ""} |-> raw[id][1]]

BuildConfig(raw) ==
  [version |-> OrElse(raw.policy.version, ""), defaults |-> OrElse(raw.policy.defaults, <<>>),
   strategies |-> [k \in DOMAIN raw.policy.strategies |-> BuildStrategy(raw.policy.strategies[k])],
   models |-> BuildModels(raw.models),
   patterns |-> [k \in DOMAIN raw.patterns |-> BuildPattern(raw.patterns[k])],
   apiKeys |-> IF raw.files["keys"] = "good" THEN BuildApiKeys(raw.apiKeys) ELSE [id \in {} |-> ""]]

-----------------------------------------------------------------------------
\* validator.rs: the errors, each named by its field.
CheckEnum(field, value, allowed) == IF value \in allowed THEN {} ELSE {field}
CheckStringLength(field, value) == IF value = "long" THEN {field} ELSE {}
CheckThat(field, holds) == IF holds THEN {} ELSE {field}
Repeated(items) == {k \in DOMAIN items : \E j \in 1..(k - 1) : items[j].id = items[k].id}

StrategyErrors(s) ==
  CheckThat("id", s.id \notin {"", "odd"}) \cup CheckStringLength("id", s.id)
    \cup CheckStringLength("name", s.name) \cup CheckThat("priority", s.prio \in 1..100)
    \cup CheckEnum("format", s.format, {"openai", "anthropic", "any"})
    \cup CheckThat("when", s.when # "") \cup CheckStringLength("when", s.when)
    \cup CheckEnum("target", s.target, {"local", "cloud", "cloud_with_sanitization"})
    \cup CheckThat("model", s.model # "")

ValidateRoutingPolicy(c) ==
  CheckThat("version", c.version \notin {"", "odd"}) \cup CheckThat("strategies", c.strategies # <<>>)
    \cup (UNION {StrategyErrors(c.strategies[k]) : k \in DOMAIN c.strategies})
    \cup CheckThat("duplicate", Repeated(c.strategies) = {})
    \cup CheckThat("defaults", \A k \in DOMAIN c.defaults :
                                  \E j \in DOMAIN c.strategies : c.strategies[j].id = c.defaults[k])

ModelErrors(m) ==
  CheckThat("id", m.id # "") \cup CheckStringLength("id", m.id) \cup CheckStringLength("name", m.name)
    \cup CheckEnum("type", m.type, {"local", "cloud"})
    \cup CheckEnum("provider", m.provider, {"openai", "anthropic", "custom"})
    \cup CheckStringLength("endpoint", m.endpoint)
    \cup CheckThat("timeout", m.timeout > 0) \cup CheckThat("retries", m.retries >= 0)

ValidateModels(models) ==
  CheckThat("models", DOMAIN models # {}) \cup (UNION {ModelErrors(models[id]) : id \in DOMAIN models})

PatternErrors(p) ==
  CheckThat("id", p.id # "") \cup CheckStringLength("id", p.id) \cup CheckStringLength("name", p.name)
    \cup CheckEnum("severity", p.severity, {"low", "medium", "high"})
    \cup CheckThat("regex", p.type = "custom" => p.regex # "") \cup CheckStringLength("description", p.description)

ValidateSensitivePatterns(patterns) ==
  CheckThat("patterns", patterns # <<>>) \cup (UNION {PatternErrors(patterns[k]) : k \in DOMAIN patterns})
    \cup CheckThat("duplicate", Repeated(patterns) = {})

Validate(c) ==
  ValidateRoutingPolicy(c) \cup ValidateModels(c.models) \cup ValidateSensitivePatterns(c.patterns)

\* The three files that must be there, and the keys, which may be missing.
LoadConfig(raw) ==
  IF \E f \in {"policy", "models", "patterns"} : ~LoadConfigFile(raw.files[f]) THEN [error |-> "load"]
  ELSE IF raw.files["keys"] = "long" THEN [error |-> "load"]
  ELSE IF \E f \in DOMAIN raw.files : ~ParseJson(raw.files[f]) THEN [error |-> "parse"]
  ELSE IF \E f \in {"policy", "models", "patterns"} : ~IsObject(raw.files[f]) THEN [error |-> "parse"]
  ELSE LET c == BuildConfig(raw)
       IN IF Validate(c) # {} THEN [error |-> "validation"] ELSE [error |-> "none", config |-> c]

LoadProbe ==
  /\ cfgProbe = NoProbe
  /\ cfgProbe' \in {[raw |-> r, out |-> LoadConfig(r)] : r \in RawConfigs}

CfgInit == cfgProbe = NoProbe
CfgNext == LoadProbe
CfgSpec == CfgInit /\ [][CfgNext]_cfgVars

-----------------------------------------------------------------------------
Loaded == cfgProbe # NoProbe /\ cfgProbe.out.error = "none"

\* Whatever was loaded can be routed by: a request without a secret is without a strategy only
\* when no strategy that is enabled names a model of the configuration, and one with a secret only
\* when none is enabled.  The validator's list of types and the engine's two searches agree.
LoadedIsRoutable ==
  Loaded =>
    LET c == cfgProbe.out.config
        on == {k \in DOMAIN c.strategies : c.strategies[k].on}
    IN /\ Matched(c, FALSE) = <<>> <=> \A k \in on : c.strategies[k].model \notin DOMAIN c.models
       /\ Matched(c, TRUE) = <<>> <=> on = {}

\* Taking a field away for which the loader has a default never gets a configuration refused that
\* was good with it (loader.rs build_strategy, build_model_config, build_pattern).
DefaultsAreLegal ==
  Loaded =>
    LET r == cfgProbe.raw IN
      /\ \A k \in DOMAIN r.policy.strategies, f \in {"enabled", "priority", "format", "when", "sanitize", "name"} :
           LoadConfig([r EXCEPT !.policy.strategies[k] = [@ EXCEPT ![f] = <<>>]]).error = "none"
      /\ \A k \in DOMAIN r.models, f \in {"enabled", "timeout", "retries", "name", "endpoint"} :
           LoadConfig([r EXCEPT !.models[k] = [@ EXCEPT ![f] = <<>>]]).error = "none"
      /\ \A k \in DOMAIN r.patterns, f \in {"enabled", "severity", "dist", "keywords", "description"} :
           LoadConfig([r EXCEPT !.patterns[k] = [@ EXCEPT ![f] = <<>>]]).error = "none"
=============================================================================
