--------------------------- MODULE InferenceRoute ---------------------------
(***************************************************************************)
(* A request on an inference route: the inference library decides which    *)
(* model gets it and what of it is masked, and the proxy applies what it   *)
(* answers (inference/src/router.rs, engine.rs, parser.rs and the handlers *)
(* of proxy/src/server/mod.rs).                                            *)
(*                                                                         *)
(* A body is its structure: a list of messages whose texts are "clean" or  *)
(* "secret"; the masker turns the latter into "masked".  An address is a   *)
(* sequence of symbols.  "none" is a missing value.                        *)
(***************************************************************************)
EXTENDS Integers, Sequences, FiniteSets, SequencesExt

CONSTANTS
  InfConfigs,    \* configurations the library may be initialised with
  InfRequests,   \* requests that hit an inference route
  InfInstalls    \* bound: initialisations

InfKeys == {"x-api-key", "authorization", "host"}

\* What a request and a strategy are made of; a text that is "missing" is no member, one that is
\* a "number" no string.
TextBlocks == [type : STRING, text : {"clean", "secret", "missing", "number"}]
Contents ==
  [kind : {"text"}, text : {"clean", "secret"}] \cup [kind : {"blocks"}, blocks : Seq(TextBlocks)]
    \cup [kind : {"other"}]
Bodies == [kind : {"object", "garbage", "empty"}, list : BOOLEAN, system : BOOLEAN, max : BOOLEAN,
           model : STRING, messages : Seq([role : STRING, content : Contents])]
Requests == [connect : BOOLEAN, body : Bodies, headers : [InfKeys -> STRING]]
Strategies == [on : BOOLEAN, prio : Int, model : STRING, sanitize : BOOLEAN]

ASSUME InfAssumption ==
  /\ InfInstalls \in Nat
  /\ InfRequests \subseteq Requests
  /\ \A c \in InfConfigs :
       /\ DOMAIN c = {"strategies", "models", "masks", "keys"}
       /\ c.strategies \in Seq(Strategies) /\ c.masks \in BOOLEAN
       /\ \A m \in DOMAIN c.models : c.models[m].type \in {"local", "cloud"}

VARIABLES
  infState,      \* STATE: at most one configuration, in a sequence
  infInstalled,  \* initialisations so far
  infReq,        \* the request in flight, in a sequence
  infPhase,      \* where it is
  infOut,        \* what the library answered, in a sequence
  infSent        \* what went on to the target, in a sequence

infVars == <<infState, infInstalled, infReq, infPhase, infOut, infSent>>

-----------------------------------------------------------------------------
\* inference/src/parser.rs
IsUser(m) == m.role = "user"
IsText(b) == b.type = "text"
HasText(b) == b.text \in {"clean", "secret"}

\* What a content is made of: a string is one text.
ContentParts(content) ==
  CASE content.kind = "text" -> <<[type |-> "text", text |-> content.text]>>
    [] content.kind = "blocks" -> content.blocks
    [] OTHER -> <<>>
PartAt(body, at) == ContentParts(body.messages[at[1]].content)[at[2]]

\* Where the texts of the user are: the message and the part of it, in that order.
PartPlaces(body) ==
  {at \in UNION {{i} \X DOMAIN ContentParts(body.messages[i].content) : i \in DOMAIN body.messages} :
     IsUser(body.messages[at[1]])}
TextPlaces(body) == {at \in PartPlaces(body) : IsText(PartAt(body, at))}
UpTo(x, at) == x[1] < at[1] \/ (x[1] = at[1] /\ x[2] <= at[2])
Nth(places, at) == Cardinality({x \in places : UpTo(x, at)})

\* extract_content_segments: blocks without a text of their own give none.
SegmentPlaces(body) == {at \in TextPlaces(body) : HasText(PartAt(body, at))}

DetectFormat(body, headers) ==
  IF \E k \in DOMAIN body.messages : body.messages[k].role = "system" THEN "openai"
  ELSE IF body.system \/ body.max THEN "anthropic"
  ELSE IF headers["host"] = "anthropic" \/ headers["x-api-key"] # "none" THEN "anthropic"
  ELSE "openai"

ParseFails(body) ==
  body.kind # "object" \/ ~body.list \/ ~\E k \in DOMAIN body.messages : IsUser(body.messages[k])

\* The segments of all messages, one after another.
ParsePayloads(body) ==
  LET places == SegmentPlaces(body)
  IN [k \in 1..Cardinality(places) |-> PartAt(body, CHOOSE at \in places : Nth(places, at) = k).text]

-----------------------------------------------------------------------------
\* inference/src/engine.rs
\* The first of least priority: a later one must be better.
FindFirstEnabled(config, type) ==
  LET all == config.strategies
      fits(s) == s.on /\ (type = "any" \/ (s.model \in DOMAIN config.models
                                           /\ config.models[s.model].type = type))
      best[k \in 0..Len(all)] ==
        IF k = 0 THEN <<>>
        ELSE IF fits(all[k]) /\ (best[k - 1] = <<>> \/ all[k].prio < best[k - 1][1].prio)
             THEN <<all[k]>> ELSE best[k - 1]
  IN best[Len(all)]

Masked(config, text) == IF config.masks /\ text = "secret" THEN "masked" ELSE text

Matched(config, sensitive) ==
  IF sensitive THEN FindFirstEnabled(config, "any")
  ELSE LET cloud == FindFirstEnabled(config, "cloud")
       IN IF cloud # <<>> THEN cloud ELSE FindFirstEnabled(config, "local")

\* No key is no failure; a key that cannot be decrypted is one.
Credential(config, model) ==
  IF model \notin DOMAIN config.models \/ config.keys[model] = "none" THEN [ok |-> TRUE, key |-> "EMPTY"]
  ELSE [ok |-> config.keys[model] # "corrupt", key |-> config.keys[model]]

EngineRoute(config, payloads) ==
  LET masked == [k \in DOMAIN payloads |-> Masked(config, payloads[k])]
      sensitive == masked # payloads
      matched == Matched(config, sensitive)
  IN IF matched = <<>> THEN [ok |-> FALSE]
     ELSE LET s == matched[1]
              credential == Credential(config, s.model)
          IN [ok |-> credential.ok /\ s.model \in DOMAIN config.models /\ config.models[s.model].on,
              strategy |-> s, masked |-> sensitive /\ s.sanitize, credential |-> credential.key,
              payloads |-> IF sensitive /\ s.sanitize THEN masked ELSE payloads]

-----------------------------------------------------------------------------
\* inference/src/router.rs
\* scheme://user@host:port/path, less what is not the host and port.
HostOfEndpoint(e) ==
  LET scheme == SelectInSeq(e, LAMBDA x : x = "://")
      rest == SubSeq(e, scheme + 1, Len(e))
      slash == SelectInSeq(rest, LAMBDA x : x = "/")
      place == IF slash = 0 THEN rest ELSE SubSeq(rest, 1, slash - 1)
      at == SelectLastInSeq(place, LAMBDA x : x = "@")
      host == SubSeq(place, at + 1, Len(place))
  IN IF host = <<>> THEN "none" ELSE host[1]

\* Mutant: every block takes a segment.
SlotOfAnyPart(body, at) == Nth(PartPlaces(body), at)

\* Every string and every text block takes the next segment, a block without a text too.
SlotOf(body, at) == Nth(TextPlaces(body), at)

WrittenPart(body, at, payloads) ==
  LET part == PartAt(body, at)
  IN IF IsText(part) /\ part.text # "missing" /\ SlotOf(body, at) <= Len(payloads)
     THEN [part EXCEPT !.text = payloads[SlotOf(body, at)]] ELSE part

WrittenContent(body, i, payloads) ==
  LET content == body.messages[i].content
  IN CASE content.kind = "text" -> [content EXCEPT !.text = WrittenPart(body, <<i, 1>>, payloads).text]
       [] content.kind = "blocks" ->
            [content EXCEPT !.blocks = [j \in DOMAIN @ |-> WrittenPart(body, <<i, j>>, payloads)]]
       [] OTHER -> content

BuildModifiedBody(body, route) ==
  [body EXCEPT
    !.model = IF body.model = "number" THEN body.model ELSE route.strategy.model,
    !.messages = [i \in DOMAIN body.messages |->
                    IF IsUser(body.messages[i])
                    THEN [body.messages[i] EXCEPT !.content = WrittenContent(body, i, route.payloads)]
                    ELSE body.messages[i]]]

SetHeader(headers, key, value) ==
  <<[target |-> "header", key |-> key, value |-> value,
     action |-> IF headers[key] # "none" THEN "modify" ELSE "add"]>>

HeaderOnly(body) == body.kind = "empty"

\* The header of the credential, the host when it changes, the body when it must.
BuildModifications(req, format, route, config) ==
  LET host == HostOfEndpoint(config.models[route.strategy.model].endpoint)
      rewrites == ~HeaderOnly(req.body) /\ (route.masked \/ req.body.model # route.strategy.model)
  IN SetHeader(req.headers, IF format = "anthropic" THEN "x-api-key" ELSE "authorization", route.credential)
       \o (IF host # "none" /\ host # req.headers["host"] THEN SetHeader(req.headers, "host", host) ELSE <<>>)
       \o (IF rewrites THEN <<[target |-> "body", body |-> BuildModifiedBody(req.body, route)]>> ELSE <<>>)

\* An answer that lets the request go also keeps, as history, what it was decided by.
InfBlocked == [result |-> "block", mods |-> <<>>]

RouteUnder(config, req) ==
  IF ~HeaderOnly(req.body) /\ ParseFails(req.body) THEN InfBlocked
  ELSE LET format == IF HeaderOnly(req.body) THEN "openai" ELSE DetectFormat(req.body, req.headers)
           payloads == IF HeaderOnly(req.body) THEN <<>> ELSE ParsePayloads(req.body)
           route == EngineRoute(config, payloads)
       IN IF ~route.ok THEN InfBlocked
          ELSE LET mods == BuildModifications(req, format, route, config)
               IN [result |-> IF mods = <<>> THEN "forward" ELSE "modified", mods |-> mods,
                   format |-> format, masked |-> route.masked,
                   config |-> config, strategy |-> route.strategy]

\* Whatever fails inside blocks the request.
RouteInner(req) == IF infState = <<>> THEN InfBlocked ELSE RouteUnder(infState[1], req)

-----------------------------------------------------------------------------
\* proxy/src/server/mod.rs
InfInit ==
  /\ infState = <<>> /\ infInstalled = 0
  /\ infReq = <<>> /\ infPhase = "rest" /\ infOut = <<>> /\ infSent = <<>>

\* init and init_default: a configuration that does not load changes nothing.
InfInstall ==
  /\ infInstalled < InfInstalls
  /\ infInstalled' = infInstalled + 1
  /\ infState' \in {infState} \cup {<<c>> : c \in InfConfigs}
  /\ UNCHANGED <<infReq, infPhase, infOut, infSent>>

\* A CONNECT is decided on its headers: it has no body.
HandleInference ==
  /\ infPhase = "rest"
  /\ \E r \in InfRequests :
       /\ infReq' = <<IF r.connect THEN [r EXCEPT !.body.kind = "empty"] ELSE r>>
       /\ infPhase' = IF r.connect THEN "route" ELSE "collect"
  /\ UNCHANGED <<infState, infInstalled, infOut, infSent>>

\* The body in full before the deadline, or 503 without an audit.
CollectBody ==
  /\ infPhase = "collect"
  /\ infPhase' \in {"route", "done"}
  /\ UNCHANGED <<infState, infInstalled, infReq, infOut, infSent>>

\* default_router is chosen at start: the library's router, which blocks until it is initialised.
\* A router that panics blocks.
RouteRequest ==
  /\ infPhase = "route" /\ infPhase' = "apply"
  /\ infOut' \in {<<RouteInner(infReq[1])>>, <<InfBlocked>>}
  /\ UNCHANGED <<infState, infInstalled, infReq, infSent>>

\* A value that is no legal header is skipped with a warning.
LegalValue(value) == value # "odd"

\* "add" leaves a header that is there alone, "modify" replaces it.
WithHeader(r, mod) ==
  IF LegalValue(mod.value) /\ (mod.action = "modify" \/ r.headers[mod.key] = "none")
  THEN [r EXCEPT !.headers[mod.key] = mod.value] ELSE r

WithModification(r, mod) ==
  IF mod.target = "body" THEN [r EXCEPT !.body = mod.body] ELSE WithHeader(r, mod)

ApplyInferenceModifications(r, mods) ==
  LET sent[k \in 0..Len(mods)] == IF k = 0 THEN r ELSE WithModification(sent[k - 1], mods[k])
  IN sent[Len(mods)]

\* Blocked is 403 and an audit; a CONNECT that is not goes on as it is, as a blind tunnel.
ApplyDecision ==
  /\ infPhase = "apply" /\ infPhase' = "done"
  /\ infSent' = IF infOut[1].result = "block" THEN <<>>
                ELSE <<IF infReq[1].connect THEN infReq[1]
                       ELSE ApplyInferenceModifications(infReq[1], infOut[1].mods)>>
  /\ UNCHANGED <<infState, infInstalled, infReq, infOut>>

InferenceNext ==
  \/ InfInstall \/ HandleInference \/ CollectBody \/ RouteRequest \/ ApplyDecision

InferenceSpec == InfInit /\ [][InferenceNext]_infVars

-----------------------------------------------------------------------------
\* Every variable keeps its type (router.rs STATE, proxy/src/server/mod.rs handle_inference).
InfTypeOK ==
  /\ infState \in {<<>>} \cup {<<c>> : c \in InfConfigs}
  /\ infInstalled \in 0..InfInstalls
  /\ infPhase \in {"rest", "collect", "route", "apply", "done"}
  /\ Len(infReq) <= 1 /\ Len(infOut) <= 1 /\ Len(infSent) <= 1
  /\ infPhase = "rest" => infReq = <<>>
  /\ infPhase = "apply" => infOut # <<>> /\ infOut[1].result \in {"forward", "modified", "block"}

Went == infSent # <<>> /\ ~infReq[1].connect
UserMessages(body) == {k \in DOMAIN body.messages : IsUser(body.messages[k])}
BlockRows(body) == {k \in DOMAIN body.messages : body.messages[k].content.kind = "blocks"}
Blocks(body) == UNION {{k} \X DOMAIN body.messages[k].content.blocks : k \in BlockRows(body)}
BlockAt(body, at) == body.messages[at[1]].content.blocks[at[2]]
\* Every text block of a user's message has a text: the parser's segments and the slots they are
\* written back to are then the same.
WellFormed(body) ==
  \A at \in Blocks(body) : IsUser(body.messages[at[1]]) /\ IsText(BlockAt(body, at)) => HasText(BlockAt(body, at))

\* What goes out under a strategy that sanitizes, from a library that masks, holds no secret in
\* a text of the user (parser.rs extracts the segments, router.rs writes them back by position).
SanitizedHasNoSecret ==
  Went /\ infReq[1].body.kind = "object" /\ WellFormed(infReq[1].body)
  /\ infOut[1].config.masks /\ infOut[1].strategy.sanitize =>
    /\ \A k \in UserMessages(infSent[1].body) :
         infSent[1].body.messages[k].content \notin [kind : {"text"}, text : {"secret"}]
    /\ \A at \in Blocks(infSent[1].body) :
         IsUser(infSent[1].body.messages[at[1]]) /\ IsText(BlockAt(infSent[1].body, at))
           => BlockAt(infSent[1].body, at).text # "secret"

\* Writing the segments back moves no text: what was not masked is where it was, and messages
\* that are not the user's, and blocks that are not texts, are untouched.
RewriteKeepsTheRest ==
  Went /\ infReq[1].body.kind = "object" /\ WellFormed(infReq[1].body) =>
    LET was == infReq[1].body
        is == infSent[1].body
        same(x, y) == y = x \/ (x = "secret" /\ y = "masked")
    IN /\ DOMAIN is.messages = DOMAIN was.messages /\ Blocks(is) = Blocks(was)
       /\ \A k \in DOMAIN was.messages :
            \/ is.messages[k] = was.messages[k]
            \/ IsUser(was.messages[k]) /\ was.messages[k].content.kind = is.messages[k].content.kind
       /\ \A k \in DOMAIN was.messages :
            was.messages[k].content.kind = "text" => same(was.messages[k].content.text, is.messages[k].content.text)
       /\ \A at \in Blocks(was) :
            /\ BlockAt(is, at).type = BlockAt(was, at).type
            /\ IF IsText(BlockAt(was, at)) THEN same(BlockAt(was, at).text, BlockAt(is, at).text)
               ELSE BlockAt(is, at) = BlockAt(was, at)

\* The strategy that decides is an enabled one that no other one precedes, neither by its
\* priority nor, among equals, by its place; without a secret, a cloud model comes before a
\* local one (engine.rs route and find_first_enabled).
PicksLeastPriority ==
  infOut # <<>> /\ infOut[1].result # "block" =>
    LET all == infOut[1].config.strategies
        type(k) == infOut[1].config.models[all[k].model].type
        secret == infOut[1].config.masks
                  /\ \E k \in DOMAIN ParsePayloads(infReq[1].body) : ParsePayloads(infReq[1].body)[k] = "secret"
        open == {k \in DOMAIN all : all[k].on /\ (secret \/ all[k].model \in DOMAIN infOut[1].config.models)}
        cloud == {k \in open : ~secret /\ type(k) = "cloud"}
        fits == IF cloud # {} THEN cloud ELSE open
    IN infReq[1].body.kind = "object" =>
         \E k \in fits :
           /\ all[k] = infOut[1].strategy
           /\ \A j \in fits : all[k].prio < all[j].prio \/ (all[k].prio = all[j].prio /\ k <= j)

\* A request that goes on carries the configured credential of the model it is sent to, or the
\* word EMPTY, in the header of its own format, whatever the client put there; the exception is a
\* credential that no header can hold (router.rs build_modifications, apply_inference_modifications).
AuthIsOurs ==
  Went =>
    LET key == IF infOut[1].format = "anthropic" THEN "x-api-key" ELSE "authorization"
        ours == infOut[1].config.keys[infOut[1].strategy.model]
    IN infSent[1].headers[key] = (IF ours = "none" THEN "EMPTY"
                                  ELSE IF ours = "odd" THEN infReq[1].headers[key] ELSE ours)

\* Nothing goes on, as a request or as a tunnel, that the library did not decide on with a
\* configuration of its own: the model is enabled and its credential could be read.
FailClosed ==
  infSent # <<>> =>
    /\ infInstalled > 0 /\ infOut[1].result # "block"
    /\ infOut[1].strategy.on /\ infOut[1].strategy.model \in DOMAIN infOut[1].config.models
    /\ infOut[1].config.models[infOut[1].strategy.model].on
    /\ infOut[1].config.keys[infOut[1].strategy.model] # "corrupt"
=============================================================================
