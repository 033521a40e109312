--------------------------- MODULE ConfigResolver ---------------------------
(***************************************************************************)
(* The configured resolver: Parse and ConfigResolver.Resolve of            *)
(* src/internal/resolver/config.go with the matchers of matcher.go, the    *)
(* item walk of items.go and the lazy body of jsonpointer.go.              *)
(*                                                                         *)
(* A configuration is loaded once; requests are then resolved one after    *)
(* the other against its rules, top-down, the first match deciding.  A     *)
(* path pattern is the set of paths it matches, a scheme one that is valid *)
(* or not, a body what decoding it and looking for its items yields.  What *)
(* the contract matcher answers is ContractMatcher's: here it refuses, or  *)
(* answers one claim for every item.  A file that is not JSON, or has      *)
(* fields Parse does not know, is no configuration and is left out.        *)
(***************************************************************************)
EXTENDS Integers, Sequences

CONSTANTS
  Service,      \* the services requests are about
  Path,         \* the paths requests are for
  OwnerInPath,  \* the paths an extraction pattern finds an owner in
  Scheme,       \* the valid schemes
  Config,       \* the configurations that may be loaded
  Body,         \* the bodies requests may have
  Unset         \* an empty string or missing field of a configuration

ASSUME UnsetAssumption ==
  Unset \notin Service /\ Unset \notin Scheme /\ Unset # SUBSET Path

ASSUME ConfigAssumption ==
  \A config \in Config :
    /\ Len(config.rules) \in Nat
    /\ DOMAIN config.rules = 1 .. Len(config.rules)
    /\ \A i \in DOMAIN config.rules :
         /\ config.rules[i].service \in Service \cup {Unset}
         /\ \/ config.rules[i].paths = Unset
            \/ config.rules[i].paths \subseteq Path

(* An item is bad if its owner, or the resource or URI its rule wants of   *)
(* it, is missing or not a string.  A body that is not an array is one.    *)
ASSUME BodyAssumption ==
  \A body \in Body :
    /\ body.items \in Seq({"good", "bad"})
    /\ body.kind = "object" => Len(body.items) = 1

VARIABLES
  cfg,      \* the configuration
  phase,    \* "parse", "rejected", "serving", "matching" or "done"
  request,  \* the request being resolved
  at,       \* the rule Resolve looks at
  result    \* what Resolve returned

vars == <<cfg, phase, request, at, result>>

Requests == [service : Service, path : Path, body : Body]
NoRequest == [service |-> Unset, path |-> Unset, body |-> Unset]
NoResult == [status |-> "none"]

-----------------------------------------------------------------------------
(* Parse *)

ValidScheme(scheme) == scheme \in Scheme

(* The scheme of a rule, or the default, or the built-in default. *)
DefaultScheme(config) ==
  IF config.scheme = Unset THEN "identifier" ELSE config.scheme

RuleScheme(config, rule) ==
  IF rule.scheme = Unset THEN DefaultScheme(config) ELSE rule.scheme

(* isCatchAll *)
CatchAll(rule) == rule.service = Unset /\ rule.paths = Unset

(* rejectDeadRules *)
HasDeadRules(rules) ==
  \E i \in DOMAIN rules : CatchAll(rules[i]) /\ i < Len(rules)

(* A contract rule that requires no consent is a contradiction. *)
Contradictory(rule) == rule.type = "contract" /\ ~rule.consentRequired

(* buildMatcher: a known type, its own fields present (complete, which also*)
(* says that every pattern of the rule compiles), and, for contracts, a    *)
(* facade to ask.                                                          *)
Buildable(config, rule) ==
  /\ rule.type \in {"path", "json", "static", "contract"}
  /\ rule.complete
  /\ rule.type = "contract" => config.contractService = "set"

Accepted(config) ==
  /\ ValidScheme(DefaultScheme(config))
  /\ config.contractService # "no url"
  /\ \A i \in DOMAIN config.rules :
       LET rule == config.rules[i]
       IN  /\ ~Contradictory(rule)
           /\ Buildable(config, rule)
           /\ ValidScheme(RuleScheme(config, rule))
  /\ ~HasDeadRules(config.rules)

-----------------------------------------------------------------------------
(* Resolve *)

(* Wrong on purpose: the service or the path is enough. *)
MatchesEither(rule, req) ==
  \/ rule.service \in {Unset, req.service}
  \/ rule.paths # Unset /\ req.path \in rule.paths

(* compiledRule.matches *)
Matches(rule, req) ==
  /\ rule.service # Unset => rule.service = req.service
  /\ rule.paths # Unset => req.path \in rule.paths

(* Wrong on purpose: the body is decoded up front. *)
ReadsAlways(rule) == TRUE

(* The matchers that ask for the body; path and static never do. *)
Reads(rule) == rule.type \in {"json", "contract"}

Undecodable(body) == body.kind = "undecodable"

(* No body at all, bytes that are not JSON, or null: no document, but no   *)
(* error either.                                                           *)
NoDocument(body) == body.kind \in {"none", "opaque"}

Whole == <<"whole">>
Refusal(status) == [status |-> status]

(* claimsPerItem: one claim per item, or a failure at the first item that  *)
(* yields none.  With itemsIsArray the collection must be an array; without*)
(* it an array is an item without an owner.                                *)
Collection(rule, body) ==
  body.kind = IF rule.itemsIsArray THEN "array" ELSE "object"

(* Wrong on purpose: items that yield no claim are passed over. *)
PerGoodItem(rule, body) ==
  IF Collection(rule, body)
    THEN [status |-> "ok",
          claims |-> SelectSeq(body.items, LAMBDA item : item = "good")]
    ELSE Refusal("unresolved")

(* The claims of all the items, or none. *)
PerItem(rule, body) ==
  IF /\ Collection(rule, body)
     /\ \A i \in DOMAIN body.items : body.items[i] = "good"
    THEN [status |-> "ok",
          claims |-> [i \in DOMAIN body.items |-> "item"]]
    ELSE Refusal("unresolved")

(* The path and static matchers claim the whole, whatever the body. *)
WholeClaim(rule, req) ==
  IF rule.type = "path" /\ req.path \notin OwnerInPath
    THEN Refusal("unresolved")
    ELSE [status |-> "ok", claims |-> Whole]

(* The json and contract matchers need a document; the contract matcher    *)
(* may refuse it nevertheless.                                             *)
ItemClaims(rule, body) ==
  IF Undecodable(body) THEN {Refusal("bad request")}
  ELSE IF NoDocument(body) THEN {Refusal("unresolved")}
  ELSE IF rule.type = "json" THEN {PerItem(rule, body)}
  ELSE {PerItem(rule, body), Refusal("unresolved")}

(* What Claims of the rule's matcher may return. *)
Claims(rule, req) ==
  IF Reads(rule) THEN ItemClaims(rule, req.body) ELSE {WholeClaim(rule, req)}

(* The answer to the plugin: the claims, under the rule's flag and scheme. *)
Answer(outcome, consentRequired, scheme) ==
  IF outcome.status = "ok"
    THEN [status |-> "ok", claims |-> outcome.claims,
          consentRequired |-> consentRequired, scheme |-> scheme]
    ELSE outcome

(* The configured default, with no claims. *)
DefaultAnswer(config) ==
  [status |-> "ok", claims |-> <<>>,
   consentRequired |-> config.defaultConsentRequired,
   scheme |-> DefaultScheme(config)]

-----------------------------------------------------------------------------

Init ==
  /\ cfg \in Config
  /\ phase = "parse"
  /\ request = NoRequest
  /\ at = 0
  /\ result = NoResult

Load ==
  /\ phase = "parse"
  /\ phase' = IF Accepted(cfg) THEN "serving" ELSE "rejected"
  /\ UNCHANGED <<cfg, request, at, result>>

Receive(s, p, b) ==
  /\ phase = "serving"
  /\ phase' = "matching"
  /\ request' = [service |-> s, path |-> p, body |-> b]
  /\ at' = 1
  /\ UNCHANGED <<cfg, result>>

(* Wrong on purpose: passes over two rules at a time. *)
NextRuleButOne ==
  /\ phase = "matching"
  /\ at <= Len(cfg.rules)
  /\ ~Matches(cfg.rules[at], request)
  /\ at' = at + 2
  /\ UNCHANGED <<cfg, phase, request, result>>

(* The next rule that does not match is passed over. *)
NextRule ==
  /\ phase = "matching"
  /\ at <= Len(cfg.rules)
  /\ ~Matches(cfg.rules[at], request)
  /\ at' = at + 1
  /\ UNCHANGED <<cfg, phase, request, result>>

(* The first that matches decides, whatever its matcher returns. *)
MatchedRule ==
  /\ phase = "matching"
  /\ at <= Len(cfg.rules)
  /\ LET rule == cfg.rules[at]
     IN  /\ Matches(rule, request)
         /\ \E outcome \in Claims(rule, request) :
              result' = Answer(outcome, rule.consentRequired,
                               RuleScheme(cfg, rule))
  /\ phase' = "done"
  /\ UNCHANGED <<cfg, request, at>>

(* No rule matches. *)
NoRule ==
  /\ phase = "matching"
  /\ at > Len(cfg.rules)
  /\ result' = DefaultAnswer(cfg)
  /\ phase' = "done"
  /\ UNCHANGED <<cfg, request, at>>

Respond ==
  /\ phase = "done"
  /\ phase' = "serving"
  /\ request' = NoRequest
  /\ at' = 0
  /\ result' = NoResult
  /\ UNCHANGED cfg

Next ==
  \/ Load
  \/ \E s \in Service, p \in Path, b \in Body : Receive(s, p, b)
  \/ NextRule
  \/ MatchedRule
  \/ NoRule
  \/ Respond

Spec == Init /\ [][Next]_vars

-----------------------------------------------------------------------------
(* What the configuration means, without the order Resolve works in. *)

Covers(rule, service, path) ==
  /\ rule.service \in {Unset, service}
  /\ rule.paths = Unset \/ path \in rule.paths

Covering(config, service, path) ==
  {i \in DOMAIN config.rules : Covers(config.rules[i], service, path)}

(* The rule that decides about a service and path, 0 for none. *)
FirstCovering(config, service, path) ==
  LET covering == Covering(config, service, path)
  IN  IF covering = {} THEN 0
      ELSE CHOOSE i \in covering : \A j \in covering : i <= j

Deciding(service, path) == FirstCovering(cfg, service, path)

Rule == cfg.rules[Deciding(request.service, request.path)]
Decided == Deciding(request.service, request.path) # 0

(* The answers a configuration allows to a request. *)
Allowed(config, req) ==
  LET first == FirstCovering(config, req.service, req.path)
      rule == config.rules[first]
  IN  IF first = 0 THEN {DefaultAnswer(config)}
      ELSE {Answer(outcome, rule.consentRequired, RuleScheme(config, rule)) :
              outcome \in Claims(rule, req)}

(* The scan hides behind one step of the interface. *)
Resolving == INSTANCE Resolution WITH Request <- Requests

-----------------------------------------------------------------------------

(* Every variable has its type. *)
TypeOK ==
  /\ cfg \in Config
  /\ phase \in {"parse", "rejected", "serving", "matching", "done"}
  /\ request \in Requests \cup {NoRequest}
  /\ at \in 0 .. Len(cfg.rules) + 1
  /\ result.status \in {"none", "ok", "bad request", "unresolved"}
  /\ (result.status # "none") = (phase = "done")

(* Whether consent is required, and how owners are named, is what the      *)
(* first rule that covers the service and path says, or the default: it    *)
(* never depends on the body or the facade, and a contract rule never says *)
(* no consent is needed (Resolve, Parse).                                  *)
GateFollowsConfig ==
  result.status = "ok" =>
    IF Decided
      THEN /\ result.consentRequired = Rule.consentRequired
           /\ Rule.type = "contract" => result.consentRequired
           /\ result.scheme \in Scheme
           /\ Rule.scheme # Unset => result.scheme = Rule.scheme
      ELSE /\ result.consentRequired = cfg.defaultConsentRequired
           /\ result.scheme \in Scheme

(* A matched request is answered without claims only if its collection is  *)
(* an empty array, never because an owner could not be found (the Matcher  *)
(* contract, matcher.go).                                                  *)
NoClaimsOnlyForNoItems ==
  (result.status = "ok" /\ Decided) =>
    (result.claims = <<>> <=>
       /\ Rule.type \in {"json", "contract"}
       /\ request.body.kind = "array"
       /\ request.body.items = <<>>)

(* A body harms only the rules that need it: the request is bad exactly if *)
(* its body cannot be decoded and the deciding rule reads it, and a rule   *)
(* that reads the path or nothing answers whatever the body is             *)
(* (lazyPayload, BadRequestError).                                         *)
BodyHarmsOnlyReaders ==
  phase = "done" =>
    /\ result.status = "bad request" <=>
         /\ Decided
         /\ Rule.type \in {"json", "contract"}
         /\ request.body.kind = "undecodable"
    /\ result.status = "unresolved" =>
         /\ Decided
         /\ Rule.type # "static"
         /\ Rule.type = "path" => request.path \notin OwnerInPath

(* Resolve keeps its interface's promise: whatever rules it passes over on *)
(* the way, the whole answer is one that the first rule covering the       *)
(* request gives to it, or the default, and no request leaves a trace for  *)
(* the next one (Resolver, ConfigResolver.Resolve).                        *)
ResolutionSpec == Resolving!Spec

(* A configuration in which a rule can never be reached is rejected: the   *)
(* comment of rejectDeadRules says so.  It does not hold: only a misplaced *)
(* catch-all is.                                                           *)
EveryRuleReachable ==
  phase = "serving" =>
    \A i \in DOMAIN cfg.rules :
      \E s \in Service, p \in Path : Deciding(s, p) = i

(* No claims are returned when no consent is required: the comment on      *)
(* ResolveResult.Claims says so.  It does not hold: a rule's claims are    *)
(* returned whatever its flag.                                             *)
NoClaimsWithoutConsent ==
  result.status = "ok" /\ ~result.consentRequired => result.claims = <<>>

=============================================================================
