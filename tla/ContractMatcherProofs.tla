----------------------- MODULE ContractMatcherProofs ------------------------
(***************************************************************************)
(* The contract matcher uses the resource cache as the cache's own         *)
(* specification allows, so every theorem about the cache holds of it      *)
(* under any number of concurrent requests and any history of the facade.  *)
(* On that rests the invariant of Claims itself, MatcherInv: what has been *)
(* claimed, remembered and asked for so far is right for the request,      *)
(* whatever the other requests, the cache and the facade do in between.    *)
(***************************************************************************)
EXTENDS ContractMatcher, ResourceCacheProofs, WellFoundedInduction

(* A set of numbers with a member has a least one, and Min finds it. *)
LEMMA MinIsMember ==
  ASSUME NEW S \in SUBSET Nat, S # {}
  PROVE  Min(S) \in S /\ \A n \in S : Min(S) <= n
<1>1. \E m \in S : \A n \in S : ~ <<n, m>> \in OpToRel(<, Nat)
  BY NatLessThanWellFounded, WFMin, Zenon
<1>2. ASSUME NEW m \in S, NEW n \in S, ~ <<n, m>> \in OpToRel(<, Nat)
      PROVE  ~ n < m
  BY <1>2, Zenon DEF OpToRel
<1>3. PICK least \in S : \A n \in S : ~ n < least
  BY <1>1, <1>2, Zenon
<1>4. \A n \in S : least <= n
  BY <1>3
<1> QED BY <1>4 DEF Min

(* What governs is one of the contracts that were listed, and grants the   *)
(* URI (findContractForTarget).                                            *)
LEMMA GoverningGrants ==
  ASSUME NEW cs, NEW uri, FindContractForTarget(cs, uri) # Nil
  PROVE  LET c == FindContractForTarget(cs, uri)
         IN  /\ c \in Contract /\ c \in cs
             /\ Permits(c, uri) /\ ~Prohibits(c, uri)
<1> DEFINE able == {i \in DOMAIN Listing : /\ Listing[i] \in cs
                                           /\ Permits(Listing[i], uri)
                                           /\ ~Prohibits(Listing[i], uri)}
<1>1. able # {}
  BY DEF FindContractForTarget
<1>2. DOMAIN Listing = 1 .. Len(Listing) /\ Len(Listing) \in Nat
  BY ListingAssumption
<1>3. able \in SUBSET Nat
  BY <1>2
<1>4. Min(able) \in able
  BY <1>1, <1>3, MinIsMember
<1>5. FindContractForTarget(cs, uri) = Listing[Min(able)]
  BY <1>1 DEF FindContractForTarget
<1>6. \A i \in DOMAIN Listing : Listing[i] \in Contract
  BY ListingAssumption
<1> HIDE DEF able
<1>7. Min(able) \in DOMAIN Listing
  BY <1>4 DEF able
<1> QED BY <1>4, <1>5, <1>6, <1>7 DEF able

-----------------------------------------------------------------------------

(* A step of the matcher is a step of the cache, or leaves it alone. *)
LEMMA MatcherStepIsCacheStep == [MatcherNext]_allVars => [Next]_vars
<1> SUFFICES ASSUME [MatcherNext]_allVars PROVE [Next]_vars
  OBVIOUS
<1>1. ASSUME NEW r \in Request, NEW q \in Query, Arrive(r, q)
      PROVE  UNCHANGED vars
  BY <1>1 DEF Arrive, vars
<1>2. ASSUME NEW r \in Request, RequestStep(r)
      PROVE  [Next]_vars
  <2>1. CASE Verify(r)
    BY <2>1 DEF Verify, vars
  <2>2. CASE VerifyFails(r)
    BY <2>2 DEF VerifyFails, vars
  <2>3. CASE RefuseItem(r)
    BY <2>3 DEF RefuseItem, vars
  <2>4. CASE ClaimMemoized(r)
    BY <2>4 DEF ClaimMemoized, vars
  <2>5. CASE AskResources(r)
    <3>1. Governing(r) # Nil
      BY <2>5 DEF AskResources, Unclaimable
    <3>2. Governing(r) \in Contract
      BY <3>1, GoverningGrants DEF Governing
    <3> QED BY <2>5, <3>2 DEF AskResources, Next
  <2>6. CASE CacheStep(r)
    BY <2>6 DEF CacheStep, Next
  <2>7. CASE ClaimResources(r)
    BY <2>7 DEF ClaimResources, Next
  <2>8. CASE ResourcesFail(r)
    BY <2>8 DEF ResourcesFail, Next
  <2>9. CASE Answer(r)
    BY <2>9 DEF Answer, vars
  <2> QED BY <1>2, <2>1, <2>2, <2>3, <2>4, <2>5, <2>6, <2>7, <2>8, <2>9
          DEF RequestStep
<1>3. ASSUME NEW r \in Request, Leave(r)
      PROVE  UNCHANGED vars
  BY <1>3 DEF Leave, vars
<1>4. CASE TimePasses
  BY <1>4 DEF TimePasses, Next
<1>5. CASE UNCHANGED allVars
  BY <1>5 DEF allVars, vars
<1> QED BY <1>1, <1>2, <1>3, <1>4, <1>5 DEF MatcherNext

(* The matcher never calls the cache but as its specification allows:      *)
(* claimForItem calls pii for a contract that was found, and for one at a  *)
(* time (contractMatcher.Claims).                                          *)
THEOREM MatcherUsesCache == MatcherSpec => UsesCache
<1>1. MatcherInit => Init
  BY DEF MatcherInit
<1>2. [MatcherNext]_allVars => [Next]_vars
  BY MatcherStepIsCacheStep
<1> QED BY <1>1, <1>2, PTL DEF MatcherSpec, UsesCache, Spec

(* So under the matcher, too, what a call carries and what the map holds   *)
(* is the contract's own and is bounded in age (cachingLookup).            *)
THEOREM CacheUnderMatcher == MatcherSpec => [](TypeOK /\ OwnResources /\ Ages)
<1>1. IInv => TypeOK /\ OwnResources /\ Ages
  BY DEF IInv
<1> QED BY <1>1, MatcherUsesCache, CacheInvariant, PTL DEF UsesCache

-----------------------------------------------------------------------------
(* What holds of one request at every step of Claims.                      *)

(* How old a read the request may be answered from.                        *)
Horizon(r) == began[r] - (Lifetime + MaxLag)

(* A resource, or its absence, that ClaimsCurrent allows for a contract.   *)
Current(r, c, resource) ==
  \E t \in 0 .. now :
    t >= Horizon(r) /\ FirstPIIOf(c, resource, t, now)

(* Where a request is, and what it has not got there yet.                  *)
Progress(r) ==
  /\ began[r] <= now
  /\ stage[r] # "claiming" => pc[r] = "idle"
  /\ stage[r] \in {"idle", "verifying"} => DOMAIN byID[r] = {}
  /\ stage[r] \in {"idle", "verifying", "refused"} => claims[r] = <<>>
  /\ stage[r] = "verifying" =>
       query[r].body \in {"misshapen", "collection"} /\ query[r].parties
  /\ stage[r] \in {"claiming", "answered"} =>
       /\ query[r].body = "collection" /\ query[r].parties
       /\ Len(claims[r]) <= Len(query[r].items)
       /\ \A c \in contracts[r] : \E t \in began[r] .. now : t \in SignedAt[c]
  /\ stage[r] = "answered" => Len(claims[r]) = Len(query[r].items)

(* The i-th claim is for the i-th item, by the contract that governs it.   *)
Claimed(r) ==
  \A i \in DOMAIN claims[r] :
    LET claim == claims[r][i]
    IN  /\ claim.item = query[r].items[i]
        /\ claim.item \notin Malformed
        /\ claim.governing # Nil
        /\ claim.governing = FindContractForTarget(contracts[r],
                                                   URI[claim.item])
        /\ Current(r, claim.governing, claim.resource)
        /\ claim.governing \notin Unkeyed =>
             /\ claim.governing \in DOMAIN byID[r]
             /\ claim.resource = byID[r][claim.governing]

Remembered(r) == \A k \in DOMAIN byID[r] : Current(r, k, byID[r][k])

(* A call is about what governs the next item, which the memo has not got, *)
(* and what it carries is recent enough for the request.                   *)
Calling(r) ==
  /\ pc[r] # "idle" =>
       /\ Pending(r)
       /\ ~Unclaimable(r)
       /\ asked[r] = Governing(r)
       /\ ~Memoized(r)
  /\ pc[r] \in {"reading", "answered"} =>
       resources[r].asOf <= now /\ resources[r].asOf >= Horizon(r)

RequestOK(r) == Progress(r) /\ Claimed(r) /\ Remembered(r) /\ Calling(r)

(* MatcherTypeOK, with the memos as one set of functions.                  *)
Memo == UNION {[ids -> PIIResource] : ids \in SUBSET Key}

Typed ==
  /\ TypeOK
  /\ stage \in [Request -> {"idle", "verifying", "claiming", "answered",
                            "refused"}]
  /\ query \in [Request -> Query \cup {NoQuery}]
  /\ contracts \in [Request -> SUBSET Contract]
  /\ byID \in [Request -> Memo]
  /\ claims \in [Request -> Seq(Claim)]
  /\ began \in [Request -> Nat]

MatcherInv == IInv /\ Typed /\ \A r \in Request : RequestOK(r)

(* The state of a request is left as it is.                                *)
Same(q) ==
  /\ stage'[q] = stage[q] /\ query'[q] = query[q]
  /\ contracts'[q] = contracts[q] /\ byID'[q] = byID[q]
  /\ claims'[q] = claims[q] /\ began'[q] = began[q]
  /\ pc'[q] = pc[q] /\ asked'[q] = asked[q] /\ resources'[q] = resources[q]

(* What a step of request r establishes.                                   *)
Stepped(r) ==
  /\ Typed'
  /\ RequestOK(r)'
  /\ now' = now
  /\ \A q \in Request \ {r} : Same(q)

LEMMA MemoType ==
  ASSUME NEW m
  PROVE  m \in Memo <=>
           DOMAIN m \subseteq Key /\ m \in [DOMAIN m -> PIIResource]
BY DEF Memo

(* What a reading allowed it allows when more time has passed.             *)
LEMMA AllowedPersists ==
  ASSUME NEW c, NEW resource, NEW t \in Nat,
         NEW a \in Nat, NEW b \in Nat, a <= b,
         FirstPIIOf(c, resource, t, a)
  PROVE  FirstPIIOf(c, resource, t, b)
<1>1. Window(t, a) \subseteq Window(t, b)
  BY DEF Window
<1> QED BY <1>1 DEF FirstPIIOf

LEMMA CurrentPersists ==
  ASSUME MatcherInv, NEW r \in Request, began'[r] = began[r],
         now' \in Nat, now' >= now
  PROVE  \A c, resource : Current(r, c, resource) => Current(r, c, resource)'
<1>1. now \in Nat /\ Horizon(r)' = Horizon(r)
  BY DEF MatcherInv, Typed, TypeOK, Horizon
<1>2. ASSUME NEW c, NEW resource, Current(r, c, resource)
      PROVE  \E t \in 0 .. now' :
               t >= Horizon(r) /\ FirstPIIOf(c, resource, t, now')
  <2>1. PICK t \in 0 .. now :
          t >= Horizon(r) /\ FirstPIIOf(c, resource, t, now)
    BY <1>2 DEF Current
  <2>2. FirstPIIOf(c, resource, t, now')
    BY <1>1, <2>1, AllowedPersists
  <2>3. t \in 0 .. now'
    BY <1>1
  <2> QED BY <2>1, <2>2, <2>3
<1> QED BY <1>1, <1>2 DEF Current

LEMMA RequestTypes ==
  ASSUME MatcherInv, NEW r \in Request
  PROVE  /\ now \in Nat /\ began[r] \in Nat
         /\ query[r].items \in Seq(Item)
         /\ claims[r] \in Seq(Claim)
         /\ byID[r] \in Memo
         /\ Horizon(r) \in Int
         /\ resources[r] \in Resources
<1> USE DEF MatcherInv, Typed, TypeOK
<1>1. query[r].items \in Seq(Item)
  <2>1. CASE query[r] \in Query
    BY <2>1, QueryAssumption
  <2>2. CASE query[r] = NoQuery
    BY <2>2 DEF NoQuery
  <2> QED BY <2>1, <2>2
<1>2. Horizon(r) \in Int
  BY LifetimeType DEF Horizon
<1> QED BY <1>1, <1>2

(* A request that is left alone stays right while time passes.             *)
LEMMA OthersKeep ==
  ASSUME MatcherInv, NEW q \in Request, Same(q), now' \in Nat, now' >= now
  PROVE  RequestOK(q)'
<1> USE DEF MatcherInv, RequestOK, Same
<1>1. began[q] \in Nat /\ now \in Nat
  BY DEF Typed, TypeOK
<1>2. Progress(q)'
  <2>1. began[q] .. now \subseteq began[q] .. now'
    BY <1>1
  <2> QED BY <1>1, <2>1 DEF Progress
<1>3. \A c, resource : Current(q, c, resource) => Current(q, c, resource)'
  BY CurrentPersists
<1>4. Claimed(q)'
  BY <1>3 DEF Claimed
<1>5. Remembered(q)'
  BY <1>3 DEF Remembered
<1>6. Calling(q)'
  BY <1>1, RequestTypes
     DEF Resources, Calling, Pending, Unclaimable, Memoized, Governing,
         NextItem, Horizon
<1> QED BY <1>2, <1>4, <1>5, <1>6

-----------------------------------------------------------------------------
(* The steps of a request                                                  *)

LEMMA ArriveStep ==
  ASSUME MatcherInv, NEW r \in Request, NEW q \in Query, Arrive(r, q)
  PROVE  Stepped(r)
<1>1. /\ stage[r] = "idle" /\ pc[r] = "idle"
      /\ claims[r] = <<>> /\ DOMAIN byID[r] = {}
  BY DEF Arrive, MatcherInv, RequestOK, Progress
<1>2. /\ query' = [query EXCEPT ![r] = q]
      /\ began' = [began EXCEPT ![r] = now]
      /\ UNCHANGED <<now, items, pc, asked, resources, contracts, byID>>
  BY DEF Arrive, vars
<1>3. PICK to \in {"verifying", "refused"} :
        /\ stage' = [stage EXCEPT ![r] = to]
        /\ claims' = [claims EXCEPT ![r] = <<>>]
        /\ to = "verifying" =>
             q.body \notin {"undecodable", "absent"} /\ q.parties
  <2>1. CASE Refuse(r) /\ (q.body \in {"undecodable", "absent"} \/ ~q.parties)
    BY <2>1 DEF Refuse
  <2>2. CASE ~(q.body \in {"undecodable", "absent"} \/ ~q.parties)
    <3>1. stage' = [stage EXCEPT ![r] = "verifying"] /\ claims' = claims
      BY <2>2 DEF Arrive
    <3>2. claims = [claims EXCEPT ![r] = <<>>]
      BY <1>1 DEF MatcherInv, Typed
    <3> QED BY <2>2, <3>1, <3>2
  <2> QED BY <2>1, <2>2 DEF Arrive
<1>4. Typed'
  <2>1. <<>> \in Seq(Claim)
    OBVIOUS
  <2>2. TypeOK'
    BY <1>2 DEF MatcherInv, Typed, TypeOK
  <2>3. claims' \in [Request -> Seq(Claim)]
    BY <1>3, <2>1 DEF MatcherInv, Typed
  <2>4. stage' \in [Request -> {"idle", "verifying", "claiming", "answered",
                                "refused"}]
    BY <1>3 DEF MatcherInv, Typed
  <2>5. /\ query' \in [Request -> Query \cup {NoQuery}]
        /\ began' \in [Request -> Nat]
    BY <1>2 DEF MatcherInv, Typed, TypeOK
  <2> QED BY <1>2, <2>2, <2>3, <2>4, <2>5 DEF MatcherInv, Typed
<1>5. \A p \in Request \ {r} : Same(p)
  BY <1>2, <1>3 DEF MatcherInv, Typed, Same
<1>6. /\ stage'[r] \in {"verifying", "refused"} /\ query'[r] = q
      /\ stage'[r] = "verifying" =>
           q.body \in {"misshapen", "collection"} /\ q.parties
      /\ began'[r] = now /\ now' = now /\ now \in Nat
      /\ pc'[r] = "idle" /\ claims'[r] = <<>> /\ DOMAIN byID'[r] = {}
  BY <1>1, <1>2, <1>3, QueryAssumption DEF MatcherInv, Typed, TypeOK
<1>7. RequestOK(r)'
  BY <1>6 DEF RequestOK, Progress, Claimed, Remembered, Calling
<1> QED BY <1>2, <1>4, <1>5, <1>7 DEF Stepped

(* Whatever refuses a request drops its claims and ends its call.          *)
LEMMA RefuseStep ==
  ASSUME MatcherInv, NEW r \in Request, Refuse(r), TypeOK',
         UNCHANGED <<now, query, contracts, byID, began>>, pc'[r] = "idle",
         \A q \in Request \ {r} : /\ pc'[q] = pc[q] /\ asked'[q] = asked[q]
                                 /\ resources'[q] = resources[q]
  PROVE  Stepped(r)
<1>1. /\ stage' = [stage EXCEPT ![r] = "refused"]
      /\ claims' = [claims EXCEPT ![r] = <<>>]
  BY DEF Refuse
<1>2. Typed'
  <2>1. <<>> \in Seq(Claim)
    OBVIOUS
  <2> QED BY <1>1, <2>1 DEF MatcherInv, Typed
<1>3. \A q \in Request \ {r} : Same(q)
  BY <1>1 DEF MatcherInv, Typed, Same
<1>4. /\ stage'[r] = "refused" /\ claims'[r] = <<>>
      /\ byID'[r] = byID[r] /\ began'[r] = began[r]
  BY <1>1 DEF MatcherInv, Typed
<1>5. RequestOK(r)'
  <2>1. Remembered(r)'
    BY <1>4 DEF MatcherInv, RequestOK, Remembered, Current, Horizon
  <2> QED BY <1>4, <2>1
          DEF MatcherInv, RequestOK, Progress, Claimed, Calling
<1> QED BY <1>2, <1>3, <1>5 DEF Stepped


LEMMA VerifyStep ==
  ASSUME MatcherInv, IInv', NEW r \in Request, Verify(r)
  PROVE  Stepped(r)
<1>1. /\ stage[r] = "verifying" /\ pc[r] = "idle" /\ claims[r] = <<>>
      /\ DOMAIN byID[r] = {}
      /\ query[r].body \in {"misshapen", "collection"} /\ query[r].parties
      /\ began[r] <= now /\ began[r] \in Nat /\ now \in Nat
      /\ query[r].items \in Seq(Item)
  BY RequestTypes DEF Verify, MatcherInv, RequestOK, Progress
<1>2. UNCHANGED <<now, pc, asked, resources, query, byID, began>> /\ TypeOK'
  BY DEF Verify, vars, IInv
<1>3. CASE Refuse(r) /\ UNCHANGED contracts
  BY <1>1, <1>2, <1>3, RefuseStep
<1>4. ASSUME NEW verified \in BOOLEAN, NEW cs, cs = SignedContracts(verified),
             query[r].body # "misshapen",
             stage' = [stage EXCEPT ![r] = "claiming"],
             contracts' = [contracts EXCEPT ![r] = cs], UNCHANGED claims
      PROVE  Stepped(r)
  <2>1. cs \in SUBSET Contract /\ \A c \in cs : now \in SignedAt[c]
    BY <1>4 DEF SignedContracts
  <2>2. Typed'
    BY <1>2, <1>4, <2>1 DEF MatcherInv, Typed
  <2>3. \A q \in Request \ {r} : Same(q)
    BY <1>2, <1>4 DEF MatcherInv, Typed, Same
  <2>4. /\ stage'[r] = "claiming" /\ contracts'[r] = cs
        /\ pc'[r] = "idle" /\ claims'[r] = <<>> /\ DOMAIN byID'[r] = {}
        /\ query'[r].body = "collection" /\ query'[r].parties
        /\ query'[r].items \in Seq(Item)
        /\ began'[r] = began[r] /\ now' = now
    BY <1>1, <1>2, <1>4 DEF MatcherInv, Typed
  <2>5. \A c \in contracts'[r] : \E t \in began'[r] .. now' : t \in SignedAt[c]
    BY <1>1, <2>1, <2>4
  <2>6. Progress(r)'
    BY <1>1, <2>4, <2>5 DEF Progress
  <2>7. RequestOK(r)'
    BY <2>4, <2>6 DEF RequestOK, Claimed, Remembered, Calling
  <2> QED BY <1>2, <2>2, <2>3, <2>7 DEF Stepped
<1> QED BY <1>3, <1>4 DEF Verify

(* A claim is appended: for the next item, by what governs it, current,    *)
(* and remembered if the contract has an id.                               *)
LEMMA ClaimStep ==
  ASSUME MatcherInv, TypeOK', NEW r \in Request,
         NEW resource \in PIIResource, NEW memo \in Memo,
         stage[r] = "claiming", Pending(r), ~Unclaimable(r),
         AppendClaim(r, resource), byID' = [byID EXCEPT ![r] = memo],
         Current(r, Governing(r), resource),
         \A k \in DOMAIN byID[r] : k \in DOMAIN memo /\ memo[k] = byID[r][k],
         Governing(r) \notin Unkeyed =>
           Governing(r) \in DOMAIN memo /\ memo[Governing(r)] = resource,
         \A k \in DOMAIN memo : Current(r, k, memo[k]),
         UNCHANGED <<now, stage, query, contracts, began>>, pc'[r] = "idle",
         \A q \in Request \ {r} : /\ pc'[q] = pc[q] /\ asked'[q] = asked[q]
                                 /\ resources'[q] = resources[q]
  PROVE  Stepped(r)
<1> DEFINE done == Len(claims[r])
           claim == [item |-> NextItem(r), governing |-> Governing(r),
                     resource |-> resource]
<1>1. /\ claims[r] \in Seq(Claim) /\ done \in Nat
      /\ query[r].items \in Seq(Item) /\ Len(query[r].items) \in Nat
      /\ done < Len(query[r].items)
  BY RequestTypes DEF Pending
<1>2. NextItem(r) \in Item /\ NextItem(r) = query[r].items[done + 1]
  BY <1>1 DEF NextItem
<1>3. /\ Governing(r) # Nil /\ Governing(r) \in Contract
      /\ NextItem(r) \notin Malformed
      /\ Governing(r) = FindContractForTarget(contracts[r], URI[NextItem(r)])
  BY GoverningGrants DEF Unclaimable, Governing
<1>4. claim \in Claim
  BY <1>2, <1>3 DEF Claim
<1>5. claims' = [claims EXCEPT ![r] = Append(claims[r], claim)]
  BY DEF AppendClaim
<1> HIDE DEF claim
<1>6. /\ Append(claims[r], claim) \in Seq(Claim)
      /\ Len(Append(claims[r], claim)) = done + 1
      /\ DOMAIN Append(claims[r], claim) = 1 .. (done + 1)
      /\ \A i \in 1 .. done : Append(claims[r], claim)[i] = claims[r][i]
      /\ Append(claims[r], claim)[done + 1] = claim
      /\ DOMAIN claims[r] = 1 .. done
  BY <1>1, <1>4
<1>7. claims' \in [Request -> Seq(Claim)] /\ byID' \in [Request -> Memo]
  BY <1>5, <1>6 DEF MatcherInv, Typed
<1>8. Typed'
  BY <1>7 DEF MatcherInv, Typed
<1>9. \A q \in Request \ {r} : Same(q)
  BY <1>5 DEF MatcherInv, Typed, Same
<1>10. claims'[r] = Append(claims[r], claim) /\ byID'[r] = memo
  BY <1>5 DEF MatcherInv, Typed
<1>11. \A c, pii : Current(r, c, pii) => Current(r, c, pii)'
  BY CurrentPersists DEF MatcherInv, Typed, TypeOK
<1>12. Progress(r)'
  BY <1>1, <1>6, <1>10 DEF MatcherInv, RequestOK, Progress
<1>13. Claimed(r)'
  <2> SUFFICES ASSUME NEW i \in 1 .. (done + 1)
               PROVE LET it == claims'[r][i]
                     IN  /\ it.item = query[r].items[i]
                         /\ it.item \notin Malformed
                         /\ it.governing # Nil
                         /\ it.governing = FindContractForTarget(contracts[r],
                                                                 URI[it.item])
                         /\ Current(r, it.governing, it.resource)
                         /\ it.governing \notin Unkeyed =>
                              /\ it.governing \in DOMAIN memo
                              /\ it.resource = memo[it.governing]
    BY <1>6, <1>10, <1>11 DEF Claimed
  <2>1. CASE i = done + 1
    <3>1. /\ claims'[r][i] = claim /\ claim.item = NextItem(r)
          /\ claim.governing = Governing(r) /\ claim.resource = resource
      BY <1>6, <1>10, <2>1 DEF claim
    <3> QED BY <1>2, <1>3, <2>1, <3>1
  <2>2. CASE i \in 1 .. done
    <3>1. claims'[r][i] = claims[r][i]
      BY <1>6, <1>10, <2>2
    <3> QED BY <1>6, <2>2, <3>1 DEF MatcherInv, RequestOK, Claimed
  <2> QED BY <1>1, <2>1, <2>2
<1>14. Remembered(r)'
  BY <1>10, <1>11 DEF Remembered
<1>15. Calling(r)'
  BY DEF Calling
<1> QED BY <1>8, <1>9, <1>12, <1>13, <1>14, <1>15 DEF Stepped, RequestOK


LEMMA ClaimMemoizedStep ==
  ASSUME MatcherInv, IInv', NEW r \in Request, ClaimMemoized(r)
  PROVE  Stepped(r)
<1> DEFINE resource == byID[r][Governing(r)]
<1>1. /\ stage[r] = "claiming" /\ pc[r] = "idle" /\ Pending(r)
      /\ ~Unclaimable(r) /\ Governing(r) \in DOMAIN byID[r]
      /\ AppendClaim(r, resource)
      /\ UNCHANGED <<now, pc, asked, resources>>
      /\ UNCHANGED <<stage, query, contracts, byID, began>>
  BY DEF ClaimMemoized, AtItem, Memoized, vars
<1>2. byID[r] \in Memo /\ byID \in [Request -> Memo]
  BY DEF MatcherInv, Typed
<1>3. resource \in PIIResource
  BY <1>1, <1>2, MemoType
<1>4. \A k \in DOMAIN byID[r] : Current(r, k, byID[r][k])
  BY DEF MatcherInv, RequestOK, Remembered
<1>5. /\ byID' = [byID EXCEPT ![r] = byID[r]]
      /\ Current(r, Governing(r), resource)
  BY <1>1, <1>2, <1>4
<1>6. TypeOK' /\ pc'[r] = "idle"
  BY <1>1 DEF IInv
<1> HIDE DEF resource
<1>7. byID[r][Governing(r)] = resource
  BY DEF resource
<1> QED BY <1>1, <1>2, <1>3, <1>4, <1>5, <1>6, <1>7, ClaimStep

(* What firstPIIResource makes of a complete and recent reading.           *)
LEMMA FirstPIICurrent ==
  ASSUME NEW r, NEW c \in Contract, NEW read \in Resources,
         read.of = c, read.asOf <= now, read.asOf >= Horizon(r),
         Complete(read, now), now \in Nat
  PROVE  /\ FirstPIIResource(read) \in PIIResource
         /\ Current(r, c, FirstPIIResource(read))
<1> DEFINE t == read.asOf
           listed == Offers[c][t]
           resource == FirstPIIResource(read)
<1>1. /\ Listed(read) = listed /\ listed \in Seq(Resource)
      /\ Len(listed) \in Nat /\ read.got \in Nat /\ t \in Nat
  BY ListedType DEF Listed, Resources
<1>2. read.got = Len(listed) /\ read.pii \subseteq 1 .. Len(listed)
  BY <1>1 DEF Complete, AsRead, Unread
<1>3. DOMAIN listed = 1 .. Len(listed)
  BY <1>1
<1>4. ASSUME NEW i \in 1 .. Len(listed)
      PROVE  \E u \in Window(t, now) :
               i \in read.pii <=> u \in Declared[listed[i]]
  BY <1>1, <1>2 DEF Complete, AsRead
<1> HIDE DEF listed
<1>5. CASE read.pii = {}
  <2>1. resource = Nil
    BY <1>5 DEF FirstPIIResource
  <2>2. \A i \in DOMAIN listed :
          \E u \in Window(t, now) : u \notin Declared[listed[i]]
    BY <1>3, <1>4, <1>5
  <2> HIDE DEF resource
  <2>3. FirstPIIOf(c, resource, t, now)
    BY <2>1, <2>2 DEF FirstPIIOf, listed
  <2> QED BY <1>1, <2>1, <2>3 DEF Current, PIIResource, resource
<1>6. CASE read.pii # {}
  <2> DEFINE i == Min(read.pii)
  <2>1. i \in read.pii /\ \A n \in read.pii : i <= n
    <3>1. read.pii \in SUBSET Nat
      BY DEF Resources
    <3> QED BY <1>6, <3>1, MinIsMember
  <2>2. resource = listed[i]
    BY <1>1, <1>6 DEF FirstPIIResource
  <2> HIDE DEF i, resource
  <2>3. i \in DOMAIN listed /\ i \in 1 .. Len(listed)
    BY <1>2, <1>3, <2>1
  <2>4. resource \in Resource /\ resource # Nil
    BY <1>1, <2>2, <2>3, NilAssumption
  <2>5. \E u \in Window(t, now) : u \in Declared[listed[i]]
    BY <1>4, <2>1, <2>3
  <2>6. ASSUME NEW j \in 1 .. i - 1
        PROVE  \E u \in Window(t, now) : u \notin Declared[listed[j]]
    <3>1. j \in 1 .. Len(listed) /\ j < i /\ j \in Nat /\ i \in Nat
      BY <1>1, <2>3
    <3>2. j \notin read.pii
      BY <2>1, <3>1
    <3> QED BY <1>4, <3>1, <3>2
  <2>7. FirstPIIOf(c, resource, t, now)
    BY <2>2, <2>3, <2>4, <2>5, <2>6 DEF FirstPIIOf, listed
  <2> QED BY <1>1, <2>4, <2>7 DEF Current, PIIResource, resource
<1> QED BY <1>5, <1>6

LEMMA ClaimResourcesStep ==
  ASSUME MatcherInv, IInv', NEW r \in Request, ClaimResources(r)
  PROVE  Stepped(r)
<1> DEFINE resource == FirstPIIResource(resources[r])
           memo == Remember(byID[r], asked[r], resource)
<1>1. /\ stage[r] = "claiming" /\ pc[r] = "answered"
      /\ AppendClaim(r, resource)
      /\ byID' = [byID EXCEPT ![r] = memo]
      /\ pc' = [pc EXCEPT ![r] = "idle"]
      /\ asked' = [asked EXCEPT ![r] = Nil]
      /\ resources' = [resources EXCEPT ![r] = NoResources]
      /\ UNCHANGED <<now, stage, query, contracts, began>>
  BY DEF ClaimResources, Return
<1>2. /\ Pending(r) /\ ~Unclaimable(r) /\ asked[r] = Governing(r)
      /\ Governing(r) \notin DOMAIN byID[r]
      /\ resources[r].asOf >= Horizon(r) /\ resources[r].asOf <= now
      /\ resources[r].of = asked[r] /\ Complete(resources[r], now)
  BY <1>1 DEF MatcherInv, IInv, OwnResources, Readings, RequestOK, Calling,
              Memoized
<1>3. Governing(r) \in Contract
  BY <1>2, GoverningGrants DEF Governing, Unclaimable
<1>4. resource \in PIIResource /\ Current(r, Governing(r), resource)
  BY <1>2, <1>3, RequestTypes, FirstPIICurrent
<1> HIDE DEF resource
<1>5. byID[r] \in Memo /\ \A k \in DOMAIN byID[r] : Current(r, k, byID[r][k])
  BY DEF MatcherInv, RequestOK, Remembered, Typed
<1>6. /\ DOMAIN byID[r] \subseteq Key
      /\ byID[r] \in [DOMAIN byID[r] -> PIIResource]
  BY <1>5, MemoType
<1>7. CASE Governing(r) \in Unkeyed
  <2>1. memo = byID[r]
    BY <1>2, <1>7 DEF Remember, ID
  <2> HIDE DEF memo
  <2> QED BY <1>1, <1>2, <1>4, <1>5, <1>7, <2>1, ClaimStep
          DEF MatcherInv, Typed, IInv, TypeOK
<1>8. CASE Governing(r) \notin Unkeyed
  <2>1. memo = [k \in DOMAIN byID[r] \cup {Governing(r)} |->
                  IF k = Governing(r) THEN resource ELSE byID[r][k]]
    BY <1>2, <1>3, <1>8, NilAssumption DEF Remember, ID
  <2> HIDE DEF memo
  <2>2. /\ DOMAIN memo = DOMAIN byID[r] \cup {Governing(r)}
        /\ memo[Governing(r)] = resource
        /\ \A k \in DOMAIN byID[r] : memo[k] = byID[r][k]
    BY <1>2, <2>1
  <2>3. memo \in Memo
    <3>1. DOMAIN memo \subseteq Key
      BY <1>3, <1>6, <1>8, <2>2 DEF Key
    <3>2. memo \in [DOMAIN memo -> PIIResource]
      BY <1>4, <1>6, <2>1
    <3> QED BY <3>1, <3>2, MemoType
  <2>4. \A k \in DOMAIN memo : Current(r, k, memo[k])
    BY <1>4, <1>5, <2>2
  <2>5. /\ TypeOK' /\ pc'[r] = "idle"
        /\ \A q \in Request \ {r} : /\ pc'[q] = pc[q] /\ asked'[q] = asked[q]
                                    /\ resources'[q] = resources[q]
    BY <1>1 DEF MatcherInv, Typed, IInv, TypeOK
  <2> QED BY <1>1, <1>2, <1>4, <2>2, <2>3, <2>4, <2>5, ClaimStep
<1> QED BY <1>7, <1>8

LEMMA FailingStep ==
  ASSUME MatcherInv, IInv', NEW r \in Request,
         VerifyFails(r) \/ RefuseItem(r) \/ ResourcesFail(r)
  PROVE  Stepped(r)
<1>1. TypeOK /\ TypeOK'
  BY DEF IInv, MatcherInv
<1>2. CASE VerifyFails(r)
  <2>1. Refuse(r) /\ UNCHANGED <<now, pc, asked, resources>> /\ pc[r] = "idle"
    BY <1>2 DEF VerifyFails, vars, MatcherInv, RequestOK, Progress
  <2> QED BY <1>1, <1>2, <2>1, RefuseStep DEF VerifyFails
<1>3. CASE RefuseItem(r)
  <2>1. Refuse(r) /\ UNCHANGED <<now, pc, asked, resources>> /\ pc[r] = "idle"
    BY <1>3 DEF RefuseItem, AtItem, vars
  <2> QED BY <1>1, <1>3, <2>1, RefuseStep DEF RefuseItem
<1>4. CASE ResourcesFail(r)
  <2>1. /\ Refuse(r) /\ UNCHANGED now
        /\ pc' = [pc EXCEPT ![r] = "idle"]
        /\ asked' = [asked EXCEPT ![r] = Nil]
        /\ resources' = [resources EXCEPT ![r] = NoResources]
    BY <1>4 DEF ResourcesFail, Return
  <2>2. /\ pc'[r] = "idle"
        /\ \A q \in Request \ {r} : /\ pc'[q] = pc[q] /\ asked'[q] = asked[q]
                                    /\ resources'[q] = resources[q]
    BY <1>1, <2>1 DEF TypeOK
  <2> QED BY <1>1, <1>4, <2>1, <2>2, RefuseStep DEF ResourcesFail
<1> QED BY <1>2, <1>3, <1>4


LEMMA AskStep ==
  ASSUME MatcherInv, IInv', NEW r \in Request, AskResources(r)
  PROVE  Stepped(r)
<1>1. /\ stage[r] = "claiming" /\ pc[r] = "idle" /\ Pending(r)
      /\ ~Unclaimable(r) /\ ~Memoized(r)
      /\ pc' = [pc EXCEPT ![r] = IF Bypass(Governing(r))
                                   THEN "fetching" ELSE "loading"]
      /\ asked' = [asked EXCEPT ![r] = Governing(r)]
      /\ UNCHANGED <<now, resources>>
      /\ UNCHANGED <<stage, query, contracts, byID, claims, began>>
  BY DEF AskResources, AtItem, DataResources, requestVars
<1>2. Typed'
  BY <1>1 DEF MatcherInv, Typed, IInv
<1>3. \A q \in Request \ {r} : Same(q)
  BY <1>1 DEF MatcherInv, Typed, TypeOK, Same
<1>4. pc'[r] \in {"fetching", "loading"} /\ asked'[r] = Governing(r)
  BY <1>1 DEF MatcherInv, Typed, TypeOK
<1>5. Progress(r)' /\ Claimed(r)' /\ Remembered(r)'
  BY <1>1, <1>4 DEF MatcherInv, RequestOK, Progress, Claimed, Remembered,
                    Current, Horizon
<1>6. Calling(r)'
  BY <1>1, <1>4 DEF Calling, Pending, Unclaimable, Memoized, Governing,
                    NextItem
<1> QED BY <1>1, <1>2, <1>3, <1>5, <1>6 DEF Stepped, RequestOK

(* Whatever the map answers is at most a TTL and a fetch old, and a read   *)
(* the facade answers is as of now (load, DataResources).                  *)
LEMMA ReadIsRecent ==
  ASSUME MatcherInv, NEW r \in Request,
         LoadHit(r) \/ FacadeAnswers(r)
  PROVE  resources'[r].asOf <= now /\ resources'[r].asOf >= Horizon(r)
<1>1. /\ now \in Nat /\ began[r] \in Nat /\ began[r] <= now
      /\ Lifetime \in Nat /\ MaxLag \in Nat /\ TTL \in Int
      /\ Horizon(r) = began[r] - (Lifetime + MaxLag)
  BY RequestTypes, LifetimeType, TimeAssumption
     DEF MatcherInv, RequestOK, Progress, Horizon
<1>2. TypeOK /\ EntryAges /\ Calls
  BY DEF MatcherInv, IInv, Ages
<1>3. CASE LoadHit(r)
  <2> DEFINE k == ID(asked[r])
  <2>1. /\ k \in DOMAIN items /\ ~(now > items[k].expires)
        /\ resources'[r] = items[k].resources
        /\ ~Bypass(asked[r])
    BY <1>2, <1>3 DEF LoadHit, Hit, Expired, Calls, TypeOK
  <2>2. TTL = Lifetime
    BY <1>1, <2>1 DEF Bypass, Lifetime
  <2> HIDE DEF k
  <2>3. /\ items[k].resources.asOf \in Nat /\ items[k].expires \in Nat
        /\ items[k].resources.asOf <= now
        /\ items[k].expires - items[k].resources.asOf <= TTL + MaxLag
    BY <1>2, <2>1 DEF TypeOK, Entry, Resources, EntryAges
  <2> QED BY <1>1, <2>1, <2>2, <2>3
<1>4. CASE FacadeAnswers(r)
  <2>1. resources'[r].asOf = now
    BY <1>2, <1>4 DEF FacadeAnswers, TypeOK
  <2> QED BY <1>1, <2>1
<1> QED BY <1>3, <1>4

LEMMA CacheStepStep ==
  ASSUME MatcherInv, IInv', NEW r \in Request, CacheStep(r)
  PROVE  Stepped(r)
<1>1. /\ UNCHANGED <<stage, query, contracts, byID, claims, began>>
      /\ CallStep(r)
  BY DEF CacheStep, requestVars
<1>2. TypeOK /\ TypeOK'
  BY DEF MatcherInv, IInv
<1>3. /\ pc[r] # "idle" /\ now' = now /\ asked' = asked
      /\ \A q \in Request \ {r} :
           pc'[q] = pc[q] /\ resources'[q] = resources[q]
  BY <1>1, <1>2 DEF CallStep, LoadHit, LoadMiss, FacadeAnswers, GetResource,
                    FacadeFails, Fetching, Store, TypeOK
<1>4. stage[r] = "claiming"
  BY <1>3 DEF MatcherInv, RequestOK, Progress
<1>5. Typed'
  BY <1>1, <1>2 DEF MatcherInv, Typed
<1>6. \A q \in Request \ {r} : Same(q)
  BY <1>1, <1>3 DEF Same
<1>7. Progress(r)' /\ Claimed(r)' /\ Remembered(r)'
  BY <1>1, <1>3, <1>4 DEF MatcherInv, RequestOK, Progress, Claimed,
                          Remembered, Current, Horizon
<1>8. pc'[r] \in {"reading", "answered"} =>
        resources'[r].asOf <= now /\ resources'[r].asOf >= Horizon(r)
  <2>1. CASE LoadHit(r) \/ FacadeAnswers(r)
    BY <2>1, ReadIsRecent
  <2>2. CASE LoadMiss(r) \/ FacadeFails(r)
    <3>1. pc'[r] \in {"fetching", "failed"}
      BY <1>2, <2>2 DEF LoadMiss, FacadeFails, TypeOK
    <3> QED BY <3>1
  <2>3. CASE Store(r)
    BY <2>3 DEF Store, MatcherInv, RequestOK, Calling
  <2>4. CASE GetResource(r)
    <3>1. /\ pc[r] = "reading" /\ resources[r] \in Resources
          /\ resources'[r] = WithNext(resources[r])
      BY <1>2, <2>4 DEF GetResource, TypeOK
    <3>2. resources'[r].asOf = resources[r].asOf
      BY <3>1, WithNextType
    <3> QED BY <3>1, <3>2 DEF MatcherInv, RequestOK, Calling
  <2> QED BY <1>1, <2>1, <2>2, <2>3, <2>4 DEF CallStep
<1>9. Calling(r)'
  <2>1. /\ Pending(r) /\ ~Unclaimable(r) /\ asked[r] = Governing(r)
        /\ ~Memoized(r)
    BY <1>3 DEF MatcherInv, RequestOK, Calling
  <2>2. /\ Pending(r)' /\ ~Unclaimable(r)' /\ asked'[r] = Governing(r)'
        /\ ~Memoized(r)' /\ Horizon(r)' = Horizon(r)
    BY <1>1, <1>3, <2>1 DEF Pending, Unclaimable, Memoized, Governing,
                            NextItem, Horizon
  <2> QED BY <1>3, <1>8, <2>2 DEF Calling
<1> QED BY <1>3, <1>5, <1>6, <1>7, <1>9 DEF Stepped, RequestOK

LEMMA AnswerStep ==
  ASSUME MatcherInv, IInv', NEW r \in Request, Answer(r)
  PROVE  Stepped(r)
<1>1. /\ stage[r] = "claiming" /\ pc[r] = "idle" /\ ~Pending(r)
      /\ stage' = [stage EXCEPT ![r] = "answered"]
      /\ UNCHANGED <<now, items, pc, asked, resources>>
      /\ UNCHANGED <<query, contracts, byID, claims, began>>
  BY DEF Answer, vars
<1>2. Typed'
  BY <1>1 DEF MatcherInv, Typed, IInv
<1>3. \A q \in Request \ {r} : Same(q)
  BY <1>1 DEF MatcherInv, Typed, Same
<1>4. stage'[r] = "answered"
  BY <1>1 DEF MatcherInv, Typed
<1>5. Len(claims[r]) = Len(query[r].items)
  <2>1. claims[r] \in Seq(Claim) /\ query[r].items \in Seq(Item)
    BY RequestTypes
  <2>2. Len(claims[r]) <= Len(query[r].items)
    BY <1>1 DEF MatcherInv, RequestOK, Progress
  <2> QED BY <1>1, <2>1, <2>2 DEF Pending
<1>6. Progress(r)' /\ Claimed(r)' /\ Remembered(r)' /\ Calling(r)'
  BY <1>1, <1>4, <1>5 DEF MatcherInv, RequestOK, Progress, Claimed, Remembered,
                          Calling, Current, Horizon
<1> QED BY <1>1, <1>2, <1>3, <1>6 DEF Stepped, RequestOK

LEMMA LeaveStep ==
  ASSUME MatcherInv, IInv', NEW r \in Request, Leave(r)
  PROVE  Stepped(r)
<1> DEFINE empty == [c \in {} |-> FirstPIIResource(NoResources)]
<1>1. /\ stage[r] \in {"answered", "refused"}
      /\ stage' = [stage EXCEPT ![r] = "idle"]
      /\ query' = [query EXCEPT ![r] = NoQuery]
      /\ contracts' = [contracts EXCEPT ![r] = {}]
      /\ byID' = [byID EXCEPT ![r] = empty]
      /\ claims' = [claims EXCEPT ![r] = <<>>]
      /\ began' = [began EXCEPT ![r] = 0]
      /\ UNCHANGED <<now, items, pc, asked, resources>>
  BY DEF Leave, vars
<1>2. <<>> \in Seq(Claim) /\ {} \in SUBSET Contract /\ DOMAIN empty = {}
  OBVIOUS
<1>3. empty \in Memo
  BY MemoType
<1> HIDE DEF empty
<1>4. Typed'
  <2>1. contracts' \in [Request -> SUBSET Contract]
    BY <1>1, <1>2 DEF MatcherInv, Typed
  <2>2. byID' \in [Request -> Memo] /\ claims' \in [Request -> Seq(Claim)]
    BY <1>1, <1>2, <1>3 DEF MatcherInv, Typed
  <2>3. query' \in [Request -> Query \cup {NoQuery}]
    BY <1>1 DEF MatcherInv, Typed
  <2> QED BY <1>1, <2>1, <2>2, <2>3 DEF MatcherInv, Typed, IInv
<1>5. \A q \in Request \ {r} : Same(q)
  BY <1>1 DEF MatcherInv, Typed, Same
<1>6. /\ stage'[r] = "idle" /\ pc'[r] = "idle" /\ claims'[r] = <<>>
      /\ DOMAIN byID'[r] = {} /\ began'[r] = 0 /\ now' = now /\ now \in Nat
  BY <1>1, <1>2, RequestTypes
     DEF MatcherInv, Typed, RequestOK, Progress
<1>7. RequestOK(r)'
  BY <1>6 DEF RequestOK, Progress, Claimed, Remembered, Calling
<1> QED BY <1>1, <1>4, <1>5, <1>7 DEF Stepped

-----------------------------------------------------------------------------
(* The invariant                                                           *)

LEMMA InitMatcherInv == MatcherInit => MatcherInv
<1> SUFFICES ASSUME MatcherInit PROVE MatcherInv
  OBVIOUS
<1> DEFINE empty == [c \in {} |-> FirstPIIResource(NoResources)]
<1>1. IInv
  BY InitIInv DEF MatcherInit
<1>2. now = 0 /\ pc = [r \in Request |-> "idle"]
  BY DEF MatcherInit, Init
<1>3. /\ stage = [r \in Request |-> "idle"]
      /\ query = [r \in Request |-> NoQuery]
      /\ contracts = [r \in Request |-> {}]
      /\ byID = [r \in Request |-> empty]
      /\ claims = [r \in Request |-> <<>>]
      /\ began = [r \in Request |-> 0]
  BY DEF MatcherInit
<1>4. <<>> \in Seq(Claim) /\ {} \in SUBSET Contract /\ DOMAIN empty = {}
  OBVIOUS
<1>5. empty \in Memo
  BY MemoType
<1> HIDE DEF empty
<1>6. Typed
  <2>1. contracts \in [Request -> SUBSET Contract]
    BY <1>3, <1>4
  <2>2. byID \in [Request -> Memo] /\ claims \in [Request -> Seq(Claim)]
    BY <1>3, <1>4, <1>5
  <2> QED BY <1>1, <1>3, <2>1, <2>2 DEF IInv, Typed
<1>7. ASSUME NEW r \in Request PROVE RequestOK(r)
  <2>1. /\ stage[r] = "idle" /\ pc[r] = "idle" /\ claims[r] = <<>>
        /\ DOMAIN byID[r] = {} /\ began[r] = 0
    BY <1>2, <1>3, <1>4
  <2> QED BY <1>2, <2>1 DEF RequestOK, Progress, Claimed, Remembered, Calling
<1> QED BY <1>1, <1>6, <1>7 DEF MatcherInv

LEMMA RequestStepped ==
  ASSUME MatcherInv, IInv', NEW r \in Request,
         \/ \E q \in Query : Arrive(r, q)
         \/ RequestStep(r)
         \/ Leave(r)
  PROVE  Stepped(r)
<1>1. CASE \E q \in Query : Arrive(r, q)
  BY <1>1, ArriveStep
<1>2. CASE RequestStep(r)
  BY <1>2, VerifyStep, FailingStep, ClaimMemoizedStep, AskStep, CacheStepStep,
     ClaimResourcesStep, AnswerStep DEF RequestStep
<1>3. CASE Leave(r)
  BY <1>3, LeaveStep
<1> QED BY <1>1, <1>2, <1>3

LEMMA NextMatcherInv == MatcherInv /\ [MatcherNext]_allVars => MatcherInv'
<1> SUFFICES ASSUME MatcherInv, [MatcherNext]_allVars PROVE MatcherInv'
  OBVIOUS
<1>1. IInv'
  BY MatcherStepIsCacheStep, NextIInv DEF MatcherInv
<1>2. ASSUME NEW r \in Request, Stepped(r)
      PROVE  MatcherInv'
  <2>1. Typed' /\ RequestOK(r)' /\ now' = now
    BY <1>2 DEF Stepped
  <2>2. now' \in Nat /\ now' >= now
    BY <2>1 DEF Typed, TypeOK
  <2>3. \A q \in Request \ {r} : RequestOK(q)'
    BY <1>2, <2>2, OthersKeep DEF Stepped
  <2> QED BY <1>1, <2>1, <2>3 DEF MatcherInv
<1>3. ASSUME now' >= now, now' \in Nat, UNCHANGED requestVars,
             UNCHANGED <<pc, asked, resources>>
      PROVE  MatcherInv'
  <2>1. Typed'
    BY <1>1, <1>3 DEF MatcherInv, Typed, IInv, requestVars
  <2>2. \A q \in Request : Same(q)
    BY <1>3 DEF Same, requestVars
  <2>3. \A q \in Request : RequestOK(q)'
    BY <1>3, <2>2, OthersKeep
  <2> QED BY <1>1, <2>1, <2>3 DEF MatcherInv
<1>4. CASE TimePasses
  <2>1. now' = now + 1 /\ now \in Nat
    BY <1>4 DEF TimePasses, Tick, MatcherInv, Typed, TypeOK
  <2> QED BY <1>3, <1>4, <2>1 DEF TimePasses, Tick
<1>5. CASE UNCHANGED allVars
  BY <1>3, <1>5 DEF allVars, vars, MatcherInv, Typed, TypeOK
<1>6. ASSUME NEW r \in Request,
             \/ \E q \in Query : Arrive(r, q)
             \/ RequestStep(r)
             \/ Leave(r)
      PROVE  MatcherInv'
  BY <1>1, <1>2, <1>6, RequestStepped
<1> QED BY <1>4, <1>5, <1>6 DEF MatcherNext

(* What holds of every request at every step of Claims, among others in    *)
(* flight, while entries expire and the catalog changes (contractMatcher). *)
THEOREM MatcherInvariant == MatcherSpec => []MatcherInv
BY InitMatcherInv, NextMatcherInv, PTL DEF MatcherSpec

(* Every variable has its type, and no contract without an id is ever a    *)
(* key of the memo (perRequestResources).                                  *)
THEOREM MatcherTypes == MatcherSpec => []MatcherTypeOK
<1>1. ASSUME MatcherInv PROVE MatcherTypeOK
  <2>1. ASSUME NEW r \in Request
        PROVE  /\ DOMAIN byID[r] \subseteq Key
               /\ byID[r] \in [DOMAIN byID[r] -> PIIResource]
    <3>1. byID[r] \in Memo
      BY <1>1 DEF MatcherInv, Typed
    <3> QED BY <3>1, MemoType
  <2> QED BY <1>1, <2>1 DEF MatcherInv, Typed, MatcherTypeOK
<1> QED BY <1>1, MatcherInvariant, PTL

(* What FindContractForTarget asks for is what the contract grants.        *)
LEMMA GrantedIffPermitted ==
  ASSUME NEW c, NEW uri
  PROVE  uri \in Granted(c) <=> Permits(c, uri) /\ ~Prohibits(c, uri)
BY DEF Granted, Permits, Prohibits

(* Only a grant governs: a claim's contract was signed at some instant     *)
(* after the request arrived, and permits the item's URI without           *)
(* prohibiting it in any policy (SignedContracts, findContractForTarget).  *)
THEOREM OnlyGrantsGovern == MatcherSpec => []GovernedByGrant
<1>1. ASSUME MatcherInv PROVE GovernedByGrant
  <2> SUFFICES ASSUME NEW r \in Request, NEW i \in DOMAIN claims[r]
               PROVE  LET claim == claims[r][i]
                      IN  /\ \E t \in began[r] .. now :
                               t \in SignedAt[claim.governing]
                          /\ URI[claim.item] \in Granted(claim.governing)
    BY DEF GovernedByGrant, ClaimsOf
  <2> DEFINE claim == claims[r][i]
  <2>1. /\ claim.governing # Nil
        /\ claim.governing = FindContractForTarget(contracts[r],
                                                   URI[claim.item])
    BY <1>1 DEF MatcherInv, RequestOK, Claimed
  <2>2. /\ claim.governing \in contracts[r]
        /\ URI[claim.item] \in Granted(claim.governing)
    BY <2>1, GoverningGrants, GrantedIffPermitted
  <2>3. stage[r] \in {"claiming", "answered"}
    BY <1>1 DEF MatcherInv, Typed, RequestOK, Progress
  <2>4. \A c \in contracts[r] : \E t \in began[r] .. now : t \in SignedAt[c]
    BY <1>1, <2>3 DEF MatcherInv, RequestOK, Progress
  <2> QED BY <2>2, <2>4
<1> QED BY <1>1, MatcherInvariant, PTL

(* Within one response a contract with an id names one resource, whatever  *)
(* the cache and the catalog do between two items (perRequestResources).   *)
THEOREM OneResource == MatcherSpec => []OneResourcePerContract
<1>1. MatcherInv => OneResourcePerContract
  BY DEF MatcherInv, RequestOK, Claimed, OneResourcePerContract, ClaimsOf
<1> QED BY <1>1, MatcherInvariant, PTL

(* A claim says what some reading of the governing contract's catalog says *)
(* that began at most a TTL and a fetch before the request arrived; it is  *)
(* owner-level only if every resource listed then was without PII at some  *)
(* instant of the reading (pii, cachingLookup, DataResources).             *)
THEOREM ClaimsAreCurrent == MatcherSpec => []ClaimsCurrent
<1>1. MatcherInv => ClaimsCurrent
  BY DEF MatcherInv, RequestOK, Claimed, ClaimsCurrent, ClaimsOf, Current,
         Horizon
<1> QED BY <1>1, MatcherInvariant, PTL

(* All or nothing: an answer claims every item, in order, and a refusal    *)
(* none (claimsPerItem).                                                   *)
THEOREM AllOrNothing == MatcherSpec => []AnsweredCompletely
<1>1. ASSUME MatcherInv PROVE AnsweredCompletely
  <2> SUFFICES ASSUME NEW r \in Request, stage[r] = "answered"
               PROVE  /\ query[r].body = "collection" /\ query[r].parties
                      /\ [i \in DOMAIN claims[r] |-> claims[r][i].item]
                           = query[r].items
                      /\ \A claim \in ClaimsOf(r) : claim.item \notin Malformed
    BY <1>1 DEF AnsweredCompletely, MatcherInv, RequestOK, Progress
  <2>1. /\ claims[r] \in Seq(Claim) /\ query[r].items \in Seq(Item)
        /\ Len(claims[r]) = Len(query[r].items)
    BY <1>1, RequestTypes DEF MatcherInv, RequestOK, Progress
  <2>2. \A i \in DOMAIN claims[r] : /\ claims[r][i].item = query[r].items[i]
                                    /\ claims[r][i].item \notin Malformed
    BY <1>1 DEF MatcherInv, RequestOK, Claimed
  <2>3. [i \in DOMAIN claims[r] |-> claims[r][i].item] = query[r].items
    BY <2>1, <2>2
  <2> QED BY <1>1, <2>2, <2>3 DEF ClaimsOf, MatcherInv, RequestOK, Progress
<1> QED BY <1>1, MatcherInvariant, PTL
=============================================================================
