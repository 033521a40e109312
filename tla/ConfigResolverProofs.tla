------------------------ MODULE ConfigResolverProofs ------------------------
(***************************************************************************)
(* What the configured resolver answers, for every configuration, request  *)
(* and body.  Resolve passes over rules one at a time, so the invariant    *)
(* that carries the proofs is that no rule before the one it looks at      *)
(* covers the request; the rule it stops at is then the deciding one.      *)
(***************************************************************************)
EXTENDS ConfigResolver, TLAPS

(* A configuration that serves was accepted, and the rules that were       *)
(* passed over do not cover the request.                                   *)
Progress ==
  /\ cfg \in Config
  /\ at \in Nat
  /\ phase \in {"parse", "rejected", "serving", "matching", "done"}
  /\ phase \in {"serving", "matching", "done"} => Accepted(cfg)
  /\ phase \in {"matching", "done"} => request \in Requests
  /\ phase = "matching" =>
       /\ at >= 1
       /\ at <= Len(cfg.rules) + 1
       /\ \A i \in DOMAIN cfg.rules :
            i < at => ~Covers(cfg.rules[i], request.service, request.path)
  /\ phase # "done" => result = NoResult

(* Matching and covering are the same: one skips unset fields, the other   *)
(* allows them (compiledRule.matches).                                     *)
LEMMA MatchesCovers ==
  ASSUME NEW rule, NEW req
  PROVE  Matches(rule, req) <=> Covers(rule, req.service, req.path)
  BY DEF Matches, Covers

(* The rule at which the scan stops is the deciding one. *)
LEMMA StopsAtDeciding ==
  ASSUME Progress, phase = "matching", at <= Len(cfg.rules),
         Matches(cfg.rules[at], request)
  PROVE  /\ Deciding(request.service, request.path) = at
         /\ at \in DOMAIN cfg.rules
         /\ at # 0
<1> DEFINE covering == Covering(cfg, request.service, request.path)
           least == CHOOSE i \in covering : \A j \in covering : i <= j
<1>1. DOMAIN cfg.rules = 1 .. Len(cfg.rules) /\ Len(cfg.rules) \in Nat
  BY ConfigAssumption DEF Progress
<1>2. at \in DOMAIN cfg.rules /\ at # 0
  BY <1>1 DEF Progress
<1>3. Covers(cfg.rules[at], request.service, request.path)
  BY MatchesCovers
<1>4. at \in covering
  BY <1>2, <1>3 DEF Covering
<1>5. \A j \in covering : at <= j
  BY <1>1 DEF Covering, Progress
<1>6. least \in covering /\ \A j \in covering : least <= j
  BY <1>4, <1>5
<1>7. covering \subseteq Nat
  BY <1>1 DEF Covering
<1>8. least = at
  <2> HIDE DEF least, covering
  <2> QED BY <1>4, <1>5, <1>6, <1>7
<1> QED BY <1>2, <1>4, <1>8 DEF Deciding, FirstCovering

(* If the scan ends, nothing covers the request. *)
LEMMA NothingDecides ==
  ASSUME Progress, phase = "matching", at > Len(cfg.rules)
  PROVE  ~Decided
<1>1. DOMAIN cfg.rules = 1 .. Len(cfg.rules) /\ Len(cfg.rules) \in Nat
  BY ConfigAssumption DEF Progress
<1>2. Covering(cfg, request.service, request.path) = {}
  BY <1>1 DEF Progress, Covering
<1> QED BY <1>2 DEF Decided, Deciding, FirstCovering

(* An empty collection, and nothing else, makes an empty list of claims. *)
LEMMA EmptyList ==
  ASSUME NEW items \in Seq({"good", "bad"})
  PROVE  [i \in DOMAIN items |-> "item"] = <<>> <=> items = <<>>
<1>1. DOMAIN [i \in DOMAIN items |-> "item"] = 1 .. Len(items)
  OBVIOUS
<1>2. ASSUME items = <<>> PROVE [i \in DOMAIN items |-> "item"] = <<>>
  BY <1>2
<1>3. ASSUME [i \in DOMAIN items |-> "item"] = <<>> PROVE items = <<>>
  <2>1. 1 .. Len(items) = {}
    BY <1>1, <1>3
  <2>2. Len(items) = 0
    <3>1. \A n \in Nat : 1 .. n = {} => n = 0
      <4>1. \A n \in Nat : n # 0 => 1 \in 1 .. n
        OBVIOUS
      <4> QED BY <4>1, Zenon
    <3>2. Len(items) \in Nat
      OBVIOUS
    <3> QED BY <2>1, <3>1, <3>2, Zenon
  <2> QED BY <2>2
<1> QED BY <1>2, <1>3

(* What a matcher returns, by the type of its rule, the path and the body. *)
LEMMA Outcomes ==
  ASSUME NEW rule, NEW req \in Requests, NEW outcome \in Claims(rule, req),
         rule.type \in {"path", "json", "static", "contract"}
  PROVE  /\ outcome.status \in {"ok", "bad request", "unresolved"}
         /\ outcome.status = "bad request" <=>
              rule.type \in {"json", "contract"} /\ Undecodable(req.body)
         /\ outcome.status = "unresolved" =>
              /\ rule.type # "static"
              /\ rule.type = "path" => req.path \notin OwnerInPath
         /\ outcome.status = "ok" =>
              (outcome.claims = <<>> <=>
                 /\ rule.type \in {"json", "contract"}
                 /\ req.body.kind = "array"
                 /\ req.body.items = <<>>)
<1> DEFINE body == req.body
           listed == [i \in DOMAIN body.items |-> "item"]
<1>1. /\ body \in Body /\ body.items \in Seq({"good", "bad"})
      /\ body.kind = "object" => body.items # <<>>
  <2>1. body \in Body
    BY DEF Requests
  <2>2. Len(<<>>) # 1
    OBVIOUS
  <2> HIDE DEF body
  <2>3. body.items \in Seq({"good", "bad"})
    BY <2>1, BodyAssumption
  <2>4. body.kind = "object" => Len(body.items) = 1
    BY <2>1, BodyAssumption
  <2>5. body.kind = "object" => body.items # <<>>
    BY <2>2, <2>4, Zenon
  <2> QED BY <2>1, <2>3, <2>5
<1>2. listed = <<>> <=> body.items = <<>>
  BY <1>1, EmptyList
<1>3. \/ PerItem(rule, body) = Refusal("unresolved")
      \/ /\ PerItem(rule, body) = [status |-> "ok", claims |-> listed]
         /\ body.kind \in {"array", "object"}
  BY DEF PerItem, Collection
<1>4. CASE rule.type \in {"static", "path"}
  <2>1. outcome = WholeClaim(rule, req)
    BY <1>4 DEF Claims, Reads
  <2> QED BY <1>4, <2>1 DEF WholeClaim, Whole, Refusal
<1>5. CASE rule.type \in {"json", "contract"}
  <2>1. outcome \in ItemClaims(rule, body)
    BY <1>5 DEF Claims, Reads
  <2>2. CASE Undecodable(body)
    <3>1. outcome = Refusal("bad request")
      BY <2>1, <2>2 DEF ItemClaims
    <3> QED BY <1>5, <2>2, <3>1 DEF Refusal
  <2>3. CASE ~Undecodable(body)
    <3>1. outcome \in {PerItem(rule, body), Refusal("unresolved")}
      BY <2>1, <2>3 DEF ItemClaims
    <3>2. CASE outcome = Refusal("unresolved")
      BY <1>5, <2>3, <3>2 DEF Refusal
    <3>3. CASE /\ outcome = [status |-> "ok", claims |-> listed]
               /\ body.kind \in {"array", "object"}
      <4> HIDE DEF listed
      <4> QED BY <1>1, <1>2, <1>5, <2>3, <3>3
    <3> QED BY <1>3, <3>1, <3>2, <3>3
  <2> QED BY <2>2, <2>3
<1> QED BY <1>4, <1>5

-----------------------------------------------------------------------------

(* What an accepted configuration says of a rule. *)
LEMMA AcceptedRule ==
  ASSUME cfg \in Config, Accepted(cfg), NEW i \in DOMAIN cfg.rules
  PROVE  LET rule == cfg.rules[i]
         IN  /\ rule.type \in {"path", "json", "static", "contract"}
             /\ rule.type = "contract" => rule.consentRequired
             /\ RuleScheme(cfg, rule) \in Scheme
  BY DEF Accepted, Buildable, Contradictory, ValidScheme

(* What Resolve answers with when the rule at which it stops matches. *)
LEMMA MatchedAnswer ==
  ASSUME Progress, MatchedRule
  PROVE  /\ Progress'
         /\ GateFollowsConfig'
         /\ NoClaimsOnlyForNoItems'
         /\ BodyHarmsOnlyReaders'
<1> DEFINE rule == cfg.rules[at]
<1>1. /\ phase = "matching" /\ at <= Len(cfg.rules)
      /\ Matches(rule, request)
      /\ phase' = "done"
      /\ cfg' = cfg /\ request' = request /\ at' = at
  BY DEF MatchedRule
<1>2. PICK outcome \in Claims(rule, request) :
        result' = Answer(outcome, rule.consentRequired, RuleScheme(cfg, rule))
  BY DEF MatchedRule
<1>3. /\ Deciding(request.service, request.path) = at
      /\ at \in DOMAIN cfg.rules
      /\ at # 0
  BY <1>1, StopsAtDeciding
<1>4. Decided /\ Rule = rule
  BY <1>3 DEF Decided, Rule
<1>5. Decided' = Decided /\ Rule' = Rule
  BY <1>1 DEF Decided, Rule, Deciding
<1>6. cfg \in Config /\ Accepted(cfg) /\ request \in Requests
  BY <1>1 DEF Progress
<1>7. /\ rule.type \in {"path", "json", "static", "contract"}
      /\ rule.type = "contract" => rule.consentRequired
      /\ RuleScheme(cfg, rule) \in Scheme
  BY <1>3, <1>6, AcceptedRule
<1> HIDE DEF rule
<1>8. /\ outcome.status \in {"ok", "bad request", "unresolved"}
      /\ outcome.status = "bad request" <=>
           rule.type \in {"json", "contract"} /\ Undecodable(request.body)
      /\ outcome.status = "unresolved" =>
           /\ rule.type # "static"
           /\ rule.type = "path" => request.path \notin OwnerInPath
      /\ outcome.status = "ok" =>
           (outcome.claims = <<>> <=>
              /\ rule.type \in {"json", "contract"}
              /\ request.body.kind = "array"
              /\ request.body.items = <<>>)
  BY <1>6, <1>7, Outcomes
<1>9. result'.status = outcome.status
  BY <1>2 DEF Answer
<1>10. outcome.status = "ok" =>
         /\ result'.claims = outcome.claims
         /\ result'.consentRequired = rule.consentRequired
         /\ result'.scheme = RuleScheme(cfg, rule)
  BY <1>2 DEF Answer
<1>11. Progress'
  BY <1>1 DEF Progress
<1>12. GateFollowsConfig'
  <2> SUFFICES ASSUME outcome.status = "ok"
               PROVE  /\ result'.consentRequired = rule.consentRequired
                      /\ rule.type = "contract" => result'.consentRequired
                      /\ result'.scheme \in Scheme
                      /\ rule.scheme # Unset => result'.scheme = rule.scheme
    BY <1>4, <1>5, <1>9 DEF GateFollowsConfig
  <2> QED BY <1>7, <1>10 DEF RuleScheme
<1>13. NoClaimsOnlyForNoItems'
  BY <1>1, <1>4, <1>5, <1>8, <1>9, <1>10 DEF NoClaimsOnlyForNoItems
<1>14. BodyHarmsOnlyReaders'
  BY <1>1, <1>4, <1>5, <1>8, <1>9 DEF BodyHarmsOnlyReaders, Undecodable
<1> QED BY <1>11, <1>12, <1>13, <1>14

(* What Resolve answers with when no rule matches. *)
LEMMA DefaultAnswered ==
  ASSUME Progress, NoRule
  PROVE  /\ Progress'
         /\ GateFollowsConfig'
         /\ NoClaimsOnlyForNoItems'
         /\ BodyHarmsOnlyReaders'
<1>1. /\ phase = "matching" /\ at > Len(cfg.rules)
      /\ phase' = "done"
      /\ cfg' = cfg /\ request' = request /\ at' = at
  BY DEF NoRule
<1>2. /\ result'.status = "ok"
      /\ result'.consentRequired = cfg.defaultConsentRequired
      /\ result'.scheme = DefaultScheme(cfg)
  BY DEF NoRule, DefaultAnswer
<1>3. ~Decided /\ Decided' = Decided
  BY <1>1, NothingDecides DEF Decided, Deciding
<1>4. DefaultScheme(cfg) \in Scheme
  BY <1>1 DEF Progress, Accepted, ValidScheme
<1>5. Progress'
  BY <1>1 DEF Progress
<1>6. GateFollowsConfig'
  BY <1>1, <1>2, <1>3, <1>4 DEF GateFollowsConfig
<1>7. NoClaimsOnlyForNoItems'
  BY <1>3 DEF NoClaimsOnlyForNoItems
<1>8. BodyHarmsOnlyReaders'
  BY <1>2, <1>3 DEF BodyHarmsOnlyReaders
<1> QED BY <1>5, <1>6, <1>7, <1>8

-----------------------------------------------------------------------------

(* The inductive invariant: how far the scan is, and what was answered. *)
ResolverInv ==
  /\ Progress
  /\ GateFollowsConfig
  /\ NoClaimsOnlyForNoItems
  /\ BodyHarmsOnlyReaders

(* While nothing is answered, nothing is claimed of the answer. *)
LEMMA NoAnswerYet ==
  ASSUME result = NoResult, phase # "done"
  PROVE  GateFollowsConfig /\ NoClaimsOnlyForNoItems /\ BodyHarmsOnlyReaders
<1>1. result.status = "none"
  BY DEF NoResult
<1> QED BY <1>1 DEF GateFollowsConfig, NoClaimsOnlyForNoItems,
                    BodyHarmsOnlyReaders

(* It holds initially. *)
LEMMA ResolverInit == Init => ResolverInv
<1> SUFFICES ASSUME Init PROVE ResolverInv
  OBVIOUS
<1>1. Progress
  BY DEF Init, Progress
<1> QED BY <1>1, NoAnswerYet DEF Init, ResolverInv

(* Every step preserves it. *)
LEMMA ResolverStep == ResolverInv /\ [Next]_vars => ResolverInv'
<1> SUFFICES ASSUME ResolverInv, [Next]_vars PROVE ResolverInv'
  OBVIOUS
<1> USE DEF ResolverInv
<1>1. ASSUME result' = NoResult, phase' # "done", Progress'
      PROVE  ResolverInv'
  <2>1. result'.status = "none"
    BY <1>1 DEF NoResult
  <2> QED BY <1>1, <2>1 DEF GateFollowsConfig, NoClaimsOnlyForNoItems,
                            BodyHarmsOnlyReaders
<1>2. CASE Load
  <2>1. Progress'
    BY <1>2 DEF Load, Progress
  <2> QED BY <1>1, <1>2, <2>1 DEF Load, Progress
<1>3. ASSUME NEW s \in Service, NEW p \in Path, NEW b \in Body,
             Receive(s, p, b)
      PROVE  ResolverInv'
  <2>1. request' \in Requests
    BY <1>3 DEF Receive, Requests
  <2>2. Len(cfg.rules) \in Nat /\ DOMAIN cfg.rules = 1 .. Len(cfg.rules)
    BY ConfigAssumption DEF Progress
  <2>3. Progress'
    BY <1>3, <2>1, <2>2 DEF Receive, Progress
  <2> QED BY <1>1, <1>3, <2>3 DEF Receive, Progress
<1>4. CASE NextRule
  <2>1. ~Covers(cfg.rules[at], request.service, request.path)
    BY <1>4, MatchesCovers DEF NextRule
  <2>2. Len(cfg.rules) \in Nat /\ DOMAIN cfg.rules = 1 .. Len(cfg.rules)
    BY ConfigAssumption DEF Progress
  <2>3. Progress'
    BY <1>4, <2>1, <2>2 DEF NextRule, Progress
  <2> QED BY <1>1, <1>4, <2>3 DEF NextRule, Progress
<1>5. CASE MatchedRule
  BY <1>5, MatchedAnswer
<1>6. CASE NoRule
  BY <1>6, DefaultAnswered
<1>7. CASE Respond
  <2>1. Progress'
    BY <1>7 DEF Respond, Progress
  <2> QED BY <1>1, <1>7, <2>1 DEF Respond
<1>8. CASE UNCHANGED vars
  BY <1>8 DEF vars, Progress, GateFollowsConfig, NoClaimsOnlyForNoItems,
              BodyHarmsOnlyReaders, Decided, Rule, Deciding
<1> QED BY <1>2, <1>3, <1>4, <1>5, <1>6, <1>7, <1>8 DEF Next

(* The scan of Resolve keeps it, whatever is configured and requested. *)
THEOREM ResolverInvariant == Spec => []ResolverInv
<1>1. Init => ResolverInv
  BY ResolverInit
<1>2. ResolverInv /\ [Next]_vars => ResolverInv'
  BY ResolverStep
<1> QED BY <1>1, <1>2, PTL DEF Spec

(* Whether consent is required and how owners are named follows from the   *)
(* configuration and the request's service and path alone (Parse,          *)
(* Resolve).                                                               *)
THEOREM GateIsConfigured == Spec => []GateFollowsConfig
<1>1. ResolverInv => GateFollowsConfig
  BY DEF ResolverInv
<1> QED BY <1>1, ResolverInvariant, PTL

(* A rule answers without claims for an empty array only (claimsPerItem).  *)
THEOREM NoClaimsNoItems == Spec => []NoClaimsOnlyForNoItems
<1>1. ResolverInv => NoClaimsOnlyForNoItems
  BY DEF ResolverInv
<1> QED BY <1>1, ResolverInvariant, PTL

(* A body that cannot be decoded fails the rules that read it and no other *)
(* (lazyPayload).                                                          *)
THEOREM OnlyReadersHarmed == Spec => []BodyHarmsOnlyReaders
<1>1. ResolverInv => BodyHarmsOnlyReaders
  BY DEF ResolverInv
<1> QED BY <1>1, ResolverInvariant, PTL

(* Every step keeps the types: a rule is only looked at within the list.   *)
LEMMA TypeStep == ResolverInv /\ TypeOK /\ [Next]_vars => TypeOK'
<1> SUFFICES ASSUME ResolverInv, TypeOK, [Next]_vars PROVE TypeOK'
  OBVIOUS
<1>1. /\ Len(cfg.rules) \in Nat /\ DOMAIN cfg.rules = 1 .. Len(cfg.rules)
      /\ cfg \in Config /\ at \in 0 .. Len(cfg.rules) + 1
  BY ConfigAssumption DEF TypeOK
<1>2. NoResult.status = "none"
  BY DEF NoResult
<1>3. CASE Load
  BY <1>3 DEF Load, TypeOK
<1>4. ASSUME NEW s \in Service, NEW p \in Path, NEW b \in Body,
             Receive(s, p, b)
      PROVE  TypeOK'
  <2>1. /\ phase = "serving" /\ phase' = "matching" /\ at' = 1
        /\ request' = [service |-> s, path |-> p, body |-> b]
        /\ UNCHANGED <<cfg, result>>
    BY <1>4 DEF Receive
  <2>2. 1 \in 0 .. Len(cfg.rules) + 1
    BY <1>1
  <2> QED BY <2>1, <2>2 DEF TypeOK, Requests
<1>5. CASE NextRule
  <2>1. /\ at <= Len(cfg.rules) /\ at' = at + 1
        /\ UNCHANGED <<cfg, phase, request, result>>
    BY <1>5 DEF NextRule
  <2>2. at + 1 \in 0 .. Len(cfg.rules) + 1
    BY <1>1, <2>1
  <2> QED BY <2>1, <2>2 DEF TypeOK
<1>6. CASE MatchedRule
  <2> DEFINE rule == cfg.rules[at]
  <2>1. phase = "matching" /\ at \in DOMAIN cfg.rules
    BY <1>1, <1>6 DEF MatchedRule, ResolverInv, Progress
  <2>2. PICK outcome \in Claims(rule, request) :
          result' = Answer(outcome, rule.consentRequired,
                           RuleScheme(cfg, rule))
    BY <1>6 DEF MatchedRule
  <2>3. /\ rule.type \in {"path", "json", "static", "contract"}
        /\ request \in Requests
    BY <1>1, <2>1, AcceptedRule DEF ResolverInv, Progress
  <2>4. outcome.status \in {"ok", "bad request", "unresolved"}
    BY <2>3, Outcomes
  <2>5. result'.status = outcome.status
    BY <2>2 DEF Answer
  <2> QED BY <1>6, <2>4, <2>5 DEF MatchedRule, TypeOK
<1>7. CASE NoRule
  BY <1>7 DEF NoRule, DefaultAnswer, TypeOK
<1>8. CASE Respond
  <2>1. /\ phase' = "serving" /\ at' = 0 /\ cfg' = cfg
        /\ request' = NoRequest /\ result' = NoResult
    BY <1>8 DEF Respond
  <2>2. 0 \in 0 .. Len(cfg.rules) + 1
    BY <1>1
  <2> QED BY <1>2, <2>1, <2>2 DEF TypeOK
<1>9. CASE UNCHANGED vars
  BY <1>9 DEF vars, TypeOK
<1> QED BY <1>3, <1>4, <1>5, <1>6, <1>7, <1>8, <1>9 DEF Next

(* Every variable has its type: in particular the scan never looks further *)
(* than one past the last rule, and there is a result exactly when Resolve *)
(* has returned one.                                                       *)
THEOREM ResolverTypes == Spec => []TypeOK
<1>1. Init => TypeOK
  <2>1. ASSUME Init PROVE TypeOK
    <3>1. cfg \in Config /\ Len(cfg.rules) \in Nat
      BY <2>1, ConfigAssumption DEF Init
    <3> QED BY <2>1, <3>1 DEF Init, TypeOK, NoResult
  <2> QED BY <2>1
<1>2. ResolverInv /\ ResolverInv' /\ TypeOK /\ [Next]_vars => TypeOK'
  BY TypeStep
<1> QED BY <1>1, <1>2, ResolverInvariant, PTL DEF Spec


-----------------------------------------------------------------------------
(* The refinement: the scan hides behind one step of the interface. *)

(* The answer of the rule at which the scan stops is allowed. *)
LEMMA MatchedIsAllowed ==
  ASSUME Progress, MatchedRule
  PROVE  Resolving!Resolve
<1> DEFINE rule == cfg.rules[at]
<1>1. /\ phase = "matching" /\ phase' = "done"
      /\ at <= Len(cfg.rules)
      /\ Matches(rule, request)
      /\ cfg' = cfg /\ request' = request
  BY DEF MatchedRule
<1>2. PICK outcome \in Claims(rule, request) :
        result' = Answer(outcome, rule.consentRequired, RuleScheme(cfg, rule))
  BY DEF MatchedRule
<1>3. FirstCovering(cfg, request.service, request.path) = at /\ at # 0
  BY <1>1, StopsAtDeciding DEF Deciding
<1>4. result' \in Allowed(cfg, request)
  BY <1>2, <1>3 DEF Allowed
<1> QED BY <1>1, <1>4 DEF Resolving!Resolve

(* So is the default when the scan has passed over every rule. *)
LEMMA DefaultIsAllowed ==
  ASSUME Progress, NoRule
  PROVE  Resolving!Resolve
<1>1. FirstCovering(cfg, request.service, request.path) = 0
  BY NothingDecides DEF NoRule, Decided, Deciding
<1>2. result' \in Allowed(cfg, request)
  BY <1>1 DEF NoRule, Allowed
<1> QED BY <1>2 DEF NoRule, Resolving!Resolve

(* A step of the scan that passes over a rule is hidden; every other step  *)
(* is the step of the interface of the same name.                          *)
LEMMA ScanStep ==
  ResolverInv /\ [Next]_vars => [Resolving!Next]_(Resolving!vars)
<1> SUFFICES ASSUME ResolverInv, [Next]_vars
             PROVE  Resolving!Next \/ UNCHANGED Resolving!vars
  OBVIOUS
<1>1. CASE Load
  BY <1>1 DEF Load, Resolving!Load, Resolving!Next
<1>2. ASSUME NEW s \in Service, NEW p \in Path, NEW b \in Body,
             Receive(s, p, b)
      PROVE  Resolving!Next
  <2> DEFINE req == [service |-> s, path |-> p, body |-> b]
  <2>1. req \in Requests
    BY DEF Requests
  <2>2. Resolving!Ask(req)
    BY <1>2 DEF Receive, Resolving!Ask
  <2> QED BY <2>1, <2>2 DEF Resolving!Next
<1>3. CASE NextRule
  BY <1>3 DEF NextRule, Resolving!vars
<1>4. CASE MatchedRule
  BY <1>4, MatchedIsAllowed DEF ResolverInv, Resolving!Next
<1>5. CASE NoRule
  BY <1>5, DefaultIsAllowed DEF ResolverInv, Resolving!Next
<1>6. CASE Respond
  BY <1>6 DEF Respond, Resolving!Return, Resolving!Next
<1>7. CASE UNCHANGED vars
  BY <1>7 DEF vars, Resolving!vars
<1> QED BY <1>1, <1>2, <1>3, <1>4, <1>5, <1>6, <1>7 DEF Next

(* Whatever is configured and asked, Resolve answers with what the first   *)
(* rule that covers the request allows, or the default, and the request    *)
(* before it leaves no trace: the resolver keeps the promise of its        *)
(* interface.                                                              *)
THEOREM ResolverKeepsPromise == Spec => ResolutionSpec
<1>1. Init => Resolving!Init
  BY DEF Init, Resolving!Init
<1> QED
  BY <1>1, ScanStep, ResolverInvariant, PTL
     DEF Spec, ResolutionSpec, Resolving!Spec
=============================================================================
