-------------------------- MODULE ContractMatcher ---------------------------
(***************************************************************************)
(* The contract matcher: contractMatcher.Claims of                         *)
(* src/internal/resolver/contract_matcher.go, run by concurrent requests   *)
(* over one ResourceCache, against a facade whose contracts are signed and *)
(* terminated, and whose catalog changes, meanwhile.                       *)
(*                                                                         *)
(* A request's collection is a sequence of items; an item stands for the   *)
(* owner and the URI it carries.  A collection that is not an array is a   *)
(* sequence of one.  The facade's history is given by constants: when each *)
(* contract is signed and, as in ResourceCache, what its offering lists    *)
(* and what declares PII at each instant.                                  *)
(***************************************************************************)
EXTENDS ResourceCache, FiniteSetsExt

CONSTANTS
  Listing,    \* every contract, in the order the facade lists them
  Policy,     \* contract -> its policies: what each permits and prohibits
  SignedAt,   \* contract -> the instants at which it is signed
  Item,       \* the data items of the payloads
  Malformed,  \* the items without an owner or without a URI
  URI,        \* item -> the requested object's URI
  Query       \* the requests: what their body and parties are

ASSUME ListingAssumption ==
  /\ Listing \in Seq(Contract)
  /\ \A c \in Contract : \E i \in 1 .. Len(Listing) : Listing[i] = c

ASSUME QueryAssumption ==
  \A q \in Query :
    /\ q.body \in {"undecodable", "absent", "misshapen", "collection"}
    /\ q.parties \in BOOLEAN
    /\ q.items \in Seq(Item)

VARIABLES
  stage,      \* how far Claims has come for each request
  query,      \* the request
  contracts,  \* what SignedContracts returned, in the order of Listing
  byID,       \* the memo: contract id -> PII resource, for one request
  claims,     \* the claims built so far
  began       \* when the request arrived (the handler's start)

requestVars == <<stage, query, contracts, byID, claims, began>>
allVars == <<vars, requestVars>>

NoQuery == [body |-> "absent", parties |-> FALSE, items |-> <<>>]

-----------------------------------------------------------------------------
(* Policies *)

(* targets: plain URI equality with some rule's asset target. *)
Permits(c, uri) ==
  \E i \in DOMAIN Policy[c] : uri \in Policy[c][i].permission

(* Whatever policy of the contract prohibits, the contract prohibits. *)
Prohibits(c, uri) ==
  \E i \in DOMAIN Policy[c] : uri \in Policy[c][i].prohibition

(* Wrong on purpose: only the permitting policy's own prohibitions count. *)
FindPolicyForTarget(cs, uri) ==
  LET able == {i \in DOMAIN Listing :
                 /\ Listing[i] \in cs
                 /\ \E n \in DOMAIN Policy[Listing[i]] :
                      /\ uri \in Policy[Listing[i]][n].permission
                      /\ uri \notin Policy[Listing[i]][n].prohibition}
  IN  IF able = {} THEN Nil ELSE Listing[Min(able)]

(* findContractForTarget: the first, as the facade lists them, that permits*)
(* the URI and prohibits it nowhere, or Nil.                               *)
FindContractForTarget(cs, uri) ==
  LET able == {i \in DOMAIN Listing :
                 /\ Listing[i] \in cs
                 /\ Permits(Listing[i], uri)
                 /\ ~Prohibits(Listing[i], uri)}
  IN  IF able = {} THEN Nil ELSE Listing[Min(able)]

(* firstPIIResource: of the resources read, the first that declared PII.   *)
FirstPIIResource(read) ==
  IF read.pii = {} THEN Nil ELSE Listed(read)[Min(read.pii)]

(* Client.SignedContracts: an unverified pair has no contracts. *)
SignedContracts(verified) ==
  IF verified THEN {c \in Contract : now \in SignedAt[c]} ELSE {}

-----------------------------------------------------------------------------

MatcherInit ==
  /\ Init
  /\ stage = [r \in Request |-> "idle"]
  /\ query = [r \in Request |-> NoQuery]
  /\ contracts = [r \in Request |-> {}]
  /\ byID = [r \in Request |-> [c \in {} |-> FirstPIIResource(NoResources)]]
  /\ claims = [r \in Request |-> <<>>]
  /\ began = [r \in Request |-> 0]

(* Wrong on purpose: a refusal carries the claims built before it. *)
RefuseWithClaims(r) ==
  /\ stage' = [stage EXCEPT ![r] = "refused"]
  /\ UNCHANGED claims

(* A request that fails answers nothing: its claims are dropped. *)
Refuse(r) ==
  /\ stage' = [stage EXCEPT ![r] = "refused"]
  /\ claims' = [claims EXCEPT ![r] = <<>>]

(* Claims is called.  An undecodable or absent body, or no consumer, fails *)
(* before the facade is asked anything.                                    *)
Arrive(r, q) ==
  /\ stage[r] = "idle"
  /\ query' = [query EXCEPT ![r] = q]
  /\ began' = [began EXCEPT ![r] = now]
  /\ IF q.body \in {"undecodable", "absent"} \/ ~q.parties
       THEN Refuse(r)
       ELSE stage' = [stage EXCEPT ![r] = "verifying"] /\ UNCHANGED claims
  /\ UNCHANGED <<vars, contracts, byID>>

(* The facade answers /verify: the contracts signed at this instant.  None *)
(* is an error, and so is a body without the configured collection.        *)
Verify(r) ==
  /\ stage[r] = "verifying"
  /\ \E verified \in BOOLEAN :
       LET cs == SignedContracts(verified)
       IN  IF cs = {} \/ query[r].body = "misshapen"
             THEN Refuse(r) /\ UNCHANGED contracts
             ELSE /\ stage' = [stage EXCEPT ![r] = "claiming"]
                  /\ contracts' = [contracts EXCEPT ![r] = cs]
                  /\ UNCHANGED claims
  /\ UNCHANGED <<vars, query, byID, began>>

VerifyFails(r) ==
  /\ stage[r] = "verifying"
  /\ Refuse(r)
  /\ UNCHANGED <<vars, query, contracts, byID, began>>

(* The item whose claim comes next, and the contract that governs it. *)
Pending(r) == Len(claims[r]) < Len(query[r].items)
NextItem(r) == query[r].items[Len(claims[r]) + 1]
Governing(r) == FindContractForTarget(contracts[r], URI[NextItem(r)])

AppendClaim(r, resource) ==
  claims' = [claims EXCEPT ![r] =
    Append(@, [item |-> NextItem(r), governing |-> Governing(r),
               resource |-> resource])]

(* claimForItem is about to build the next claim. *)
AtItem(r) == stage[r] = "claiming" /\ pc[r] = "idle" /\ Pending(r)

(* Wrong on purpose: whether a contract was found is not looked at. *)
UnclaimableIfMalformed(r) == NextItem(r) \in Malformed

(* No owner, no URI, or no contract that governs it: one bad item refuses  *)
(* the whole collection.                                                   *)
Unclaimable(r) == NextItem(r) \in Malformed \/ Governing(r) = Nil

RefuseItem(r) ==
  /\ AtItem(r)
  /\ Unclaimable(r)
  /\ Refuse(r)
  /\ UNCHANGED <<vars, query, contracts, byID, began>>

(* pii: the request has already resolved this contract. *)
Memoized(r) == Governing(r) \in DOMAIN byID[r]

ClaimMemoized(r) ==
  /\ AtItem(r)
  /\ ~Unclaimable(r)
  /\ Memoized(r)
  /\ AppendClaim(r, byID[r][Governing(r)])
  /\ UNCHANGED <<vars, stage, query, contracts, byID, began>>

AskResources(r) ==
  /\ AtItem(r)
  /\ ~Unclaimable(r)
  /\ ~Memoized(r)
  /\ DataResources(r, Governing(r))
  /\ UNCHANGED requestVars

(* Wrong on purpose: a contract without an id is remembered too. *)
RememberAll(memo, c, resource) ==
  [k \in DOMAIN memo \cup {ID(c)} |->
     IF k = ID(c) THEN resource ELSE memo[k]]

(* Wrong on purpose: no memo. *)
RememberNothing(memo, c, resource) == memo

(* What pii remembers: the answer, under the contract's id if it has one. *)
Remember(memo, c, resource) ==
  IF ID(c) = Nil THEN memo
  ELSE [k \in DOMAIN memo \cup {ID(c)} |->
          IF k = ID(c) THEN resource ELSE memo[k]]

(* DataResources returns: the rest of pii, and the claim. *)
ClaimResources(r) ==
  /\ stage[r] = "claiming"
  /\ pc[r] = "answered"
  /\ LET resource == FirstPIIResource(resources[r])
     IN  /\ AppendClaim(r, resource)
         /\ byID' = [byID EXCEPT ![r] = Remember(@, asked[r], resource)]
  /\ Return(r)
  /\ UNCHANGED <<stage, query, contracts, began>>

(* DataResources returns an error: Claims fails with it. *)
ResourcesFail(r) ==
  /\ stage[r] = "claiming"
  /\ pc[r] = "failed"
  /\ Refuse(r)
  /\ Return(r)
  /\ UNCHANGED <<query, contracts, byID, began>>

Answer(r) ==
  /\ stage[r] = "claiming"
  /\ pc[r] = "idle"
  /\ ~Pending(r)
  /\ stage' = [stage EXCEPT ![r] = "answered"]
  /\ UNCHANGED <<vars, query, contracts, byID, claims, began>>

(* The response has gone out; the goroutine and its memo are gone. *)
Leave(r) ==
  /\ stage[r] \in {"answered", "refused"}
  /\ stage' = [stage EXCEPT ![r] = "idle"]
  /\ query' = [query EXCEPT ![r] = NoQuery]
  /\ contracts' = [contracts EXCEPT ![r] = {}]
  /\ byID' = [byID EXCEPT ![r] = [c \in {} |-> FirstPIIResource(NoResources)]]
  /\ claims' = [claims EXCEPT ![r] = <<>>]
  /\ began' = [began EXCEPT ![r] = 0]
  /\ UNCHANGED vars

(* The cache works on the request's call. *)
CacheStep(r) == CallStep(r) /\ UNCHANGED requestVars

(* Time passes, here and at the facade. *)
TimePasses == Tick /\ UNCHANGED requestVars

RequestStep(r) ==
  \/ Verify(r)
  \/ VerifyFails(r)
  \/ RefuseItem(r)
  \/ ClaimMemoized(r)
  \/ AskResources(r)
  \/ CacheStep(r)
  \/ ClaimResources(r)
  \/ ResourcesFail(r)
  \/ Answer(r)

MatcherNext ==
  \/ \E r \in Request :
       \/ \E q \in Query : Arrive(r, q)
       \/ RequestStep(r)
       \/ Leave(r)
  \/ TimePasses

MatcherSpec == MatcherInit /\ [][MatcherNext]_allVars

(* What the code schedules.  A goroutine that can run does; the facade may *)
(* never answer, but http.Client's timeout ends every GET: only the timers *)
(* VerifyFails and FacadeFails are fair, not the facade's answers.         *)
Fairness ==
  \A r \in Request :
    /\ WF_allVars(VerifyFails(r))
    /\ WF_allVars(RefuseItem(r) \/ ClaimMemoized(r) \/ AskResources(r))
    /\ WF_allVars((LoadHit(r) \/ LoadMiss(r) \/ Store(r)) /\ CacheStep(r))
    /\ WF_allVars(FacadeFails(r) /\ CacheStep(r))
    /\ WF_allVars(ClaimResources(r) \/ ResourcesFail(r))
    /\ WF_allVars(Answer(r))

FairMatcherSpec == MatcherSpec /\ Fairness

-----------------------------------------------------------------------------

PIIResource == Resource \cup {Nil}
Claim == [item : Item, governing : Contract, resource : PIIResource]

(* Every variable has its type; a contract without an id is never a key of *)
(* the memo.                                                               *)
MatcherTypeOK ==
  /\ TypeOK
  /\ stage \in [Request -> {"idle", "verifying", "claiming", "answered",
                            "refused"}]
  /\ query \in [Request -> Query \cup {NoQuery}]
  /\ contracts \in [Request -> SUBSET Contract]
  /\ \A r \in Request : /\ DOMAIN byID[r] \subseteq Key
                        /\ byID[r] \in [DOMAIN byID[r] -> PIIResource]
  /\ claims \in [Request -> Seq(Claim)]
  /\ began \in [Request -> Nat]

(* What a contract grants: what some policy permits and none prohibits. *)
Granted(c) ==
  LET permitted == UNION {Policy[c][i].permission : i \in DOMAIN Policy[c]}
      prohibited == UNION {Policy[c][i].prohibition : i \in DOMAIN Policy[c]}
  IN  permitted \ prohibited

ClaimsOf(r) == {claims[r][i] : i \in DOMAIN claims[r]}

(* Only a grant governs: the contract behind a claim was signed at some    *)
(* instant after the request arrived, and grants the item's URI even when  *)
(* the permission and the prohibition sit in different policies            *)
(* (SignedContracts, findContractForTarget).                               *)
GovernedByGrant ==
  \A r \in Request : \A claim \in ClaimsOf(r) :
    /\ \E t \in began[r] .. now : t \in SignedAt[claim.governing]
    /\ URI[claim.item] \in Granted(claim.governing)

(* Within one response a contract with an id names one resource, although  *)
(* the cache entry may expire and the catalog change between two of its    *)
(* items (perRequestResources).                                            *)
OneResourcePerContract ==
  \A r \in Request : \A one, other \in ClaimsOf(r) :
    (one.governing = other.governing /\ one.governing \notin Unkeyed) =>
      one.resource = other.resource

(* What the first PII resource of c can be in a reading that began at t:   *)
(* one its offering listed then, which declared PII at some instant of the *)
(* reading, while none listed before it did at every one; or Nil, if each  *)
(* was without PII at some instant.  The instants may differ: the GETs do  *)
(* not read one state of the catalog.                                      *)
FirstPIIOf(c, resource, t, until) ==
  LET listed == Offers[c][t]
      Declares(i) ==
        \E u \in Window(t, until) : u \in Declared[listed[i]]
      DeclaresNot(i) ==
        \E u \in Window(t, until) : u \notin Declared[listed[i]]
  IN  IF resource = Nil
        THEN \A i \in DOMAIN listed : DeclaresNot(i)
        ELSE \E i \in DOMAIN listed :
               /\ resource = listed[i]
               /\ Declares(i)
               /\ \A j \in 1 .. i - 1 : DeclaresNot(j)

(* A claim says what some reading of the governing contract's catalog says *)
(* that began no longer than a TTL and a fetch before the request arrived: *)
(* it never names another contract's resource or one past that age, and it *)
(* is owner-level only if nothing listed declared PII throughout, never    *)
(* because a GET failed, some self-description was left unread, or an      *)
(* entry had gone stale (pii, cachingLookup, DataResources).               *)
ClaimsCurrent ==
  \A r \in Request : \A claim \in ClaimsOf(r) : \E t \in 0 .. now :
    /\ t >= began[r] - (Lifetime + MaxLag)
    /\ FirstPIIOf(claim.governing, claim.resource, t, now)

(* All or nothing: an answer has one claim for every item, in order, all   *)
(* of them well-formed, so no claims means no items; a refusal has none    *)
(* (claimsPerItem).                                                        *)
AnsweredCompletely ==
  \A r \in Request :
    /\ stage[r] = "answered" =>
         /\ query[r].body = "collection" /\ query[r].parties
         /\ [i \in DOMAIN claims[r] |-> claims[r][i].item] = query[r].items
         /\ \A claim \in ClaimsOf(r) : claim.item \notin Malformed
    /\ stage[r] = "refused" => claims[r] = <<>>

(* The matcher uses the cache as the cache's specification allows, so that *)
(* whatever is proved of the cache alone holds under the matcher.          *)
UsesCache == Spec

(* Every request gets an answer or a refusal, even if the facade never     *)
(* answers again (http.Client.Timeout, Claims).                            *)
Responds ==
  \A r \in Request :
    stage[r] \in {"verifying", "claiming"} ~>
      stage[r] \in {"answered", "refused"}

=============================================================================
