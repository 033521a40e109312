# A formal model of consent-owner-resolver

consent-owner-resolver answers, on the synchronous path of every proxied API
call, one question of a gateway plugin: does this payload need a consent check,
and if so, whose consent and for which data resource? A wrong answer is quiet:
an owner that is missing from the claims is an owner nobody asks. These modules
state what the answer depends on, and what concurrent requests, a slow or
failing consent-facade, a stale cache and an unlucky configuration cannot do to
it.

`src/...:n` below is line n of the repository's file.

## 1. Inventory

### The parts

| Part | Source | State it keeps | Operations |
|---|---|---|---|
| Process lifecycle | `main.go` | settings, listener, the server, `serveErr` | load configuration, serve, signal, shut down within 5 s |
| HTTP handler | `internal/api/handler.go` | per response: `statusRecorder` | `/resolve` (method, authorization, size, decode, answer or error class), `/health`, `/metrics`, `instrument` |
| Metrics | `internal/api/metrics.go` | counters by route, status and failure class, under one mutex | `observe`, `observeFailure` with its cap, `writeTo` |
| Logging and request ids | `internal/api/logging.go`, `requestid.go` | none | redaction, error class, header |
| Config resolver | `internal/resolver/config.go`, `types.go` | the compiled rules, immutable after `Parse` | `Parse`, `Resolve` |
| Path, json and static matchers | `internal/resolver/matcher.go`, `items.go` | none | `Claims` |
| JSON pointers and body decoding | `internal/resolver/jsonpointer.go` | per request: the decoded body | `lazyPayload.JSON`, `getJSONPointer`, `joinPointer` |
| Contract matcher | `internal/resolver/contract_matcher.go`, `items.go` | per request: the signed contracts, the memo `byID` | `Claims`, `claimForItem`, `pii`, `findContractForTarget` |
| Resource cache | `internal/resolver/contract_cache.go` | contract id -> resources and expiry, under a mutex, shared by all requests | `DataResources`, `load`, `store`, `sweepExpired` |
| Facade client | `internal/contract/client.go` | none (an `http.Client` with a timeout) | `SignedContracts`, `DataResources` (1+N GETs), `localize` |
| consent-facade | external | contracts, their state, the catalog | `GET /verify`, offerings and data resources |

### How they interact

A request's goroutine runs handler -> `Resolve` -> the first matching rule's
matcher, and returns through the same calls. Only a contract rule leaves the
process: `SignedContracts` once per request, never cached, then `DataResources`
once per governing contract, through the per-request memo and the shared cache.
Requests meet in two places only, the cache's map and the metrics' counters,
each behind a mutex that is never held during a call to the facade. The facade
changes on its own: contracts are signed and terminated, the catalog is
republished.

### What is hard

* Fetches overlap and finish in any order, with the cache unlocked between the
  miss and the store (`contract_cache.go:92-99`).
* The cache's clock starts at the store and not at the read it stores, and an
  expired entry stays in the map until some store sweeps it.
* Two cache layers with different lives, the memo and the cache, over a facade
  that changes between any two reads.
* One of several GETs, or one of several items, fails after others succeeded.
* The facade does not answer; only the client's timeout ends a call.
* First-match rules, defaults that are filled in, fields that are left out.
* Counters under two separate acquisitions of a mutex; a server that shuts down
  under requests that may take longer than its budget, because they read a body,
  call the facade or wait for a scrape.

`PROJECT.json` lists these hazards one by one, at the line where each bites.

### What makes each part correct

* Resource cache: nobody gets another contract's resources; an answer is never
  older than a TTL and a fetch; nothing that is live is lost; the map stays
  bounded; a race of two fetches moves an entry back by a bounded amount only.
* Contract matcher: only a contract that was signed after the request arrived,
  and that grants the URI, governs; within a response a contract names one
  resource; a claim says what a recent reading of the catalog says, though it is
  read in several GETs; all items or none.
* Config resolver: the first rule that covers the request decides, and alone
  with the configuration it fixes `consentRequired` and the scheme; no claims
  means no items; an undecodable body harms only the rules that read it.
* Handler and metrics: every counter is the number of responses it says it
  counts; no failure is lost, whatever the cap; a scrape shows one instant; a
  scraper that reads slowly delays everybody and stops nobody for ever.
* Lifecycle: `run` ends after a signal or a failure, its status is true, and a
  request that fits the shutdown's budget is answered; configured numbers become
  the limits they were meant to be.
* Facade client: an answer is NOT one version of the catalog, since it is read in
  1+N GETs; but it is complete, each part of it was served since the offering
  was read, at the URL its reference is rewritten to or where redirects led from
  there, and a PII resource that stays declared is found.
* JSON pointers: a selector points back at the item it was made from, whatever
  characters the keys hold, and an answer leaves no item out.

## 2. The modules

| Module | Models | Extends |
|---|---|---|
| `ContractLookup` | abstract: what `DataResources` of the `contractLookup` interface promises | |
| `ResourceCache` | the cache, its concurrent callers and the facade's answers and failures | |
| `ResourceCacheProofs` | theorems about it | `ResourceCache` |
| `ContractMatcher` | `contractMatcher.Claims` for concurrent requests over one `ResourceCache` | `ResourceCache` |
| `ContractMatcherProofs` | theorems about it | `ContractMatcher`, `ResourceCacheProofs` |
| `ConfigResolver` | `Parse`, `Resolve`, the matchers and the lazy body | |
| `Resolution` | abstract: what `Resolve` of the `Resolver` interface promises | |
| `ConfigResolverProofs` | theorems about it | `ConfigResolver` |
| `Metrics` | the counters, their mutex, and a scrape in the steps others wait between | |
| `Serving` | the handler: concurrent requests to the three routes, `instrument` | `Metrics` |
| `ServingProofs` | theorems about both: the mutex, the labels, monotony | `Serving` |
| `CounterProofs` | theorems about both: what the counters count, and pages | `ServingProofs` |
| `Settings` | how configured numbers become limits, at the width of an int | |
| `Lifecycle` | `main`, `run`, the serving goroutine, signal, shutdown, connections | `Settings` |
| `LifecycleProofs` | theorems about both | `Lifecycle` |
| `FacadeClient` | `DataResources` GET by GET against a catalog that is republished | |
| `FacadeClientProofs` | theorems about it | `FacadeClient` |
| `JsonPointer` | `getJSONPointer`, `joinPointer`, `pointerString` | |
| `ItemClaims` | `claimsPerItem` on decoded bodies, with the selectors | `JsonPointer` |
| `ItemClaimsProofs` | theorems about both | `ItemClaims` |
| `MC...` | the small instances TLC checks | |

`PROJECT.json` maps every definition to the lines it stands for. Operators
whose comment begins with "Wrong on purpose" belong to no specification: each
is a bug the code could have had, named as the mutation that breaks a property,
so that every property is known to be able to fail.

### ResourceCache

`now` is the clock, `items` is `cachingLookup.items`; for every request, `pc`
says where its call is, `asked` is the contract the call is about and
`resources` what it has read. `load` and `store` hold the mutex from beginning
to end, so each is one action (`LoadHit`, `LoadMiss`, `Store`, the sweep being
part of `Store`). Between them the call is `fetching`, until the facade answers
the first GET, for the offering (`FacadeAnswers`), and then `reading`: one action
for each of the other N GETs (`GetResource`), until all resources listed are read
(`Store`) or any GET failed (`FacadeFails`). Meanwhile every other request may
take any step and the catalog may change, between any two GETs.

The catalog is a constant but arbitrary function of time: `Offers` says what the
offering of a contract lists at each instant, `Declared` at which instants a
resource declares PII. What a call has read is abstracted to where it comes from
(`Resources`): the contract, the instant of the first GET, how many of the
resources listed then have been read since, and which of them declared PII when
they were. `Readings` says what that is worth: each resource is as it was at an
instant of its own, within `MaxLag` of the listing. A resource is read in one
step, at one instant; where the GET is sent, and redirects that spread it over
several requests, are `FacadeClient`'s. A contract without an id (`Unkeyed`)
bypasses the cache, and a TTL of zero or less, which is how a negative
`resourceCacheTtlMs` arrives here, bypasses it for every contract.

The one assumption about time is `MaxLag`: from a fetch's first answer to its
store at most `MaxLag` passes. Every GET is bounded by `http.Client.Timeout`
(`client.go:144`), so with N resources in an offering it is N times that; the
Go scheduler's own delays are taken to be part of it. `RollbackBounded`,
`Ages` and `LookupSpec` depend on it; the mutation `TickWithoutTimeout`, a client
without a timeout, breaks the first.

### ContractLookup

The promise of the interface, in five actions: a call is asked, is answered with
the contract's own resources, or fails with nothing. An answer holds all of what
the offering listed at an instant at most `Staleness` ago, each resource as it
was at an instant of its own, at most `MaxLag` later (`Findings`).
`ResourceCache` refines it with `Staleness` = TTL + `MaxLag`: `loading`,
`fetching` and `reading` are all `asked`, the map is hidden, and only an answer
shows what it carries.

### ContractMatcher

One action per step a request takes that another could see or interleave with:
`Arrive` (the checks of `Claims` before any call), `Verify` and `VerifyFails`
(`SignedContracts`, the empty case, the shape of the body), then for each item
`RefuseItem`, `ClaimMemoized`, or `AskResources`, the steps of the cache's call,
and `ClaimResources` or `ResourcesFail`; at the end `Answer` and `Leave`. The
cache's actions are those of `ResourceCache`, conjoined with what they leave
alone, and `UsesCache` says that the matcher's behaviours are behaviours of the
cache's specification.

The facade's history is constant but arbitrary: `SignedAt` gives the instants at
which each contract is signed, `Offers` and `Declared` are those of the cache,
and `Listing` is the order in which `/verify` lists contracts. Reading the facade
at `now` is then a function of `now`, and a contract may be terminated, signed or
republished between any two steps. `FirstPIIResource` is the first of the
resources read that declared PII, in the order of the offering. An item is a
value that stands for the owner and the URI in it; `Malformed` items lack one of
them.

`ClaimsCurrent` is worded for several GETs. The catalog need never have been in
one state that a claim describes (finding 3), so it asks for a reading, begun no
longer than a TTL and a fetch before the request, in which each resource is as it
was at some instant of that reading (`FirstPIIOf`): what a claim names was listed
and declared PII, nothing listed before it did so throughout, and an owner-level
claim is made only if nothing listed did.

### ConfigResolver

`Load` is `Parse`: `Accepted` lists every reason it has to reject a
configuration. A request is received, the rules are passed over one at a time
(`NextRule`), the first match answers (`MatchedRule`) or none does (`NoRule`). A
rule is a record of the fields Parse and Resolve look at; a path pattern is the
set of paths it matches; `complete` says that the fields its matcher needs are
there and its patterns compile. A body is what decoding it, and looking for its
collection, yields: `none`, `undecodable`, `opaque`, `shapeless` (no collection
at the pointer), `object` or `array`, with items that have what the rule wants
of them or not. What the contract matcher does with the facade is
`ContractMatcher`'s; here it may also refuse.

### Resolution

The promise of the `Resolver` interface: a configuration is accepted or not, a
request is asked, answered in one step (`Resolve`) with something `Allowed`, and
returned. `ConfigResolver` refines it: `at` is hidden, `NextRule` is a stutter,
and `MatchedRule` and `NoRule` are both `Resolve`. It allows what the first rule
covering the service and path may answer, under that rule's flag and scheme, or
the default; `FirstCovering` is a least element of a set of positions and knows
nothing of a scan. So `ResolutionSpec` relates whole answers to configurations,
where `GateFollowsConfig` relates two fields, and says besides that neither the
scan nor an earlier request leaves anything behind.

### Metrics and Serving

A request goes from `idle` through `serving` (the route and method), `admitted`
(authorized, about to read the body), `failed` and `logged` (a resolver error,
before and after it is counted) to `served`, where `instrument` counts it
(`Count`). What a client brings is a record of what the handler tests; what the
resolver answers is a choice. Of an error the handler looks at the text before
the first `": "`, and at whether it is a `BadRequestError`.

`sent` is the status on the wire and `recorder` the one `statusRecorder` holds:
net/http sends the first `WriteHeader` and the recorder keeps the last, so a
handler that went on after a refusal would make the counters differ from what
clients saw. `CountersMatchResponses` compares them with `sent`.

`mu` is the mutex, where it is held across steps. `observe` and `observeFailure`
hold it for one action. `writeTo` holds it from `StartScrape` to `EndScrape`,
and writes its three sections to the client in between; each write may fail, is
latched, and what follows writes nothing. Durations are small numbers, and the
counters of a Go map are bags.

Two things stay within the code's bounds without ever being reached by it: all
error messages of today's resolvers have a prefix, and there are fewer of them
than `maxFailureClasses`. The model takes both as the backstops the code means
them to be, with messages without a prefix and a cap of one.

### Settings and Lifecycle

`Settings` multiplies milliseconds into a `time.Duration` as Go does, at a width
of 2 * `Half`; a product beyond it wraps, also to a negative timeout, which
`http.Client` takes for none. `Lifecycle` loads the configured numbers (`Load`),
serves, and selects between the server's answer and the context
(`ServerEnds`, `Drain`); `Drained`, `BudgetExpires` and `Join` are the ends of
the shutdown. Go's `select` takes either branch when both are ready, and so does
the model. A connection is `new` until its headers are read or
`readHeaderTimeout` gives it up, and `idle` between requests. A request in flight
is `reading` its body, to `readTimeout` after it began; then `calling` the facade,
`n` times for at most the client's timeout, or, if that overflowed, any time at
all; then `counting`: it waits for the metrics' mutex, which a scrape may hold
(`Waits`). Each phase may end at any instant up to its last. net/http is external;
the module's comment lists what is kept of it.

A unit of time is longer than the interval at which `Shutdown` looks again
(500 ms), timers are exact, and the clock begins when the process serves. One
thing the model shows that is no error: a connection accepted just before the
signal and never used may take the whole budget, because `readHeaderTimeout` and
`shutdownTimeout` are both 5 s.

There is no property about `writeTimeout`. The write deadline is set when the
headers are read and is 15 s, as is `readTimeout`; the body, the calls and the
wait for the mutex all count against it, and nothing in the code relates their
sum to it. An answer may therefore be lost to the deadline however small the
client's timeout is, and the only true statement, that a request whose phases
together fit the deadline meets it, says nothing. `OnlySlowRequestsCut` has the
same phases and is about the shutdown's budget, of which the code does promise
something: what has come to the end of its waiting is not cut off.

### FacadeClient

One call of `DataResources`, one action per GET (`GetOffering`, `GetResource`,
`GetFails`), `Unlocalizable` where `localize` refuses a URL or what it makes of
it is no URL, and `Publish` at any point: the facade serves the next version of
its catalog.

`localize` appends the path of a reference, percent-decoded, to the text of the
client's base, and refuses only an empty path and `/`. So URLs are values, and
two constants say what happens to them: `PathOf` is the path of a reference, if
it has one, and `Join` what base and path read as when they are asked. Mostly
that is the same path at the client's own host; but a path that was escaped may
read as another path, and a relative one may change the host or make no URL.
`http.Client` then follows redirects, to wherever they lead (`Follow`), up to
`MaxRequests` requests. Hence no property says which host is asked: with an
arbitrary `Join` and redirects, the code promises nothing of the kind. What it
does promise is about the answer, whatever was asked: `AnswerGrounded` says that
each resource is one served for its reference, at the localized URL or where
redirects that were served meanwhile lead from there (`Documents`, `Leads`), and
that it is known by the id of its document or by the reference itself, never by
the address it was read at. `begun` is the version at which the call began,
`listed` the one that listed the references.

`ResourceCache` and `ContractMatcher` keep the GETs apart too, but not where they
are sent. A resource that stays declared is in the answer (`StablePIIFound`); an
answer without one may still mix two versions that each declare one (finding 3).

### JsonPointer and ItemClaims

The characters are what escaping is about, so here, and only here, strings are
sequences of characters. `Unescape`, `Escape` and `Split` are the code's
`ReplaceAll`s and `Split` in the code's order, written as recursive functions
over positions, which can be reasoned about; `Char` is the alphabet. `Atoi`
accepts a sign and leading zeros, as Go's does, so an index may be written in
more ways than RFC 6901 allows; `Itoa` writes any natural number. `Value` is the
decoded JSON values, closed under members and elements, and `Bodies` are those
that requests carry. `ItemClaims` is the loop of `claimsPerItem` under the json
matcher, one action per item. The same loop under the contract matcher is in
`ContractMatcher`.

## 3. What the runs check

| Run | Instance | Question |
|---|---|---|
| `cache` | 2 requests, 3 contracts with and 2 without an id, TTL 2, threshold 2, `MaxLag` 1, a catalog that changes twice, time to 5; 655 000 states | `TypeOK`, `OwnResources`, `Ages`, `KeepsLive`, `SweepBounds`, `RollbackBounded`, and that the cache implements `ContractLookup` |
| `matcher` | 2 requests, 3 contracts, 6 kinds of query, TTL 1, threshold 1, time to 3; 1 180 000 states | `MatcherTypeOK`, `GovernedByGrant`, `OneResourcePerContract`, `ClaimsCurrent`, `AnsweredCompletely`, `UsesCache` |
| `matcher_live` | as above, 3 kinds of query, time to 1; 58 000 states | every request is answered or refused (`Responds`) |
| `resolver` | every configuration of at most 2 rules out of 14, 3 default schemes, 3 states of `contractService`; every request; 69 000 states | `TypeOK`, `GateFollowsConfig`, `NoClaimsOnlyForNoItems`, `BodyHarmsOnlyReaders`, and that the scan implements `Resolution` (`ResolutionSpec`) |
| `dead_rules` | as `resolver` | finding 1 |
| `claims_without_consent` | as `resolver` | finding 2 |
| `serving` | 3 symmetric requests, 8 kinds of input, a cap of 1 class, bounds 1 and 2, durations 1 to 3; 601 000 states | `TypeOK`, `CountersMatchResponses`, `FailuresAccounted`, `ClassesBounded`, `ScrapeIsSnapshot`, `CountersOnlyGrow` |
| `serving_live` | 2 requests, durations 1 and 3; 18 000 states | every request is answered and counted (`Served`) |
| `lifecycle` | 2 connections, 0, 1 or 3 calls a request, waits of 0 or 2, 5 configurations, numbers of 6 bits, header timeout 2, read timeout 3, budget 2, time to 7; 176 000 states | `TypeOK`, `ExitTellsTheTruth`, `OnlySlowRequestsCut`, `LimitsAsConfigured`, `Stops` |
| `facade` | every sequence of 3 versions out of 8, 12 URLs, 4 offerings, at most 3 requests a GET; 73 000 states | `TypeOK`, `AnswerGrounded`, `StablePIIFound` |
| `torn_read` | as `facade` | finding 3 |
| `item_claims` | keys of `~`, `/` and digits, collections of up to 11 items, at any of them or at the root; 8 000 states | `SelectorPointsBack`, `EveryItemClaimed`, `KeysAddressable` |

### Bounds, and why they are enough

* Two requests: every hazard of the cache is a race of a call with the map or
  with one other call. The proofs remove this bound, and those of the matcher.
* Three keys over a threshold of two: stores below, at and above the threshold,
  with and without anything to sweep. Two contracts without an id, because one
  entry shared by two of them is what the bypass prevents.
* TTL 2 and time to 5: an entry is stored, lives through its last instant,
  expires, is still in the map, and is swept or overwritten. The offering lists
  one resource, then another before it, and the first stops declaring PII, so
  that GETs of one fetch fall on both sides of each change. `MaxLag` 1 leaves
  room for a fetch to be overtaken. `MaxTime` only stops the clock; calls go on
  at the last instant.
* In the matcher, contract `a` is signed at 0 and 1 only and `u` from 2 on. `b`
  offers `q` alone at first and `q` before `p` later; `q` declares PII at two
  instants that are not adjacent, `p` always. With time to 3, each change falls
  before, between and after the GETs of some request, so a claim may name `q`,
  name `p`, or be owner-level while `p` is declared. `b` permits and, in another
  policy, prohibits the same URI. Queries have an empty collection, two items of
  one contract (for the memo), a good item followed by one that nothing governs,
  a malformed item, a body without a collection, and no consumer.
* The fourteen rules hold each type of matcher, catch-alls, both kinds of
  selection and both together, an explicit, a defaulted and an unknown scheme,
  and every reason for rejection. Two rules suffice for order, since Resolve
  looks at one at a time; the proofs remove the bound.
* Three requests in `serving`: one whose page is being written, one that waits
  for the mutex with a failure, one that waits with a response. Two error
  prefixes and the class without one stand against a cap of one, so classes are
  known, new below the cap, new at it, and folded. Durations fall within both
  buckets, one and none. The proofs remove these bounds.
* In `lifecycle` numbers are of 6 bits and a millisecond is 4, so a configured
  number may be negative, zero, fit, or wrap to either sign; each of the five
  configurations sets three of them. A body (3) alone may outlast the budget (2),
  three calls of the longest timeout that fits do, and a scrape may last as long
  as it.
  Time to 7 leaves room for a signal in every phase of a request, and after
  every phase; `Signal` is guarded so that its budget ends within the bound.
* Three versions in `facade`: one before, between and after the GETs of an
  offering and two resources. The eight differ in which resource is personal
  data; in resources without an id, under references whose paths, decoded and
  appended, read as another path and as another host; in a reference without a
  path, or with one that makes no URL; in an offering that is gone; and in an offering and a resource that have moved to
  another host. One version redirects a resource to itself, until the client
  gives up.
* Eleven items in `item_claims`, because the eleventh has an index of two
  digits. The keys hold every order of `~`, `/`, `0` and `1` that unescaping in
  the wrong order would confuse.
* A deadlock is not an error in `resolver` (a rejected configuration ends the
  process), in `serving` (each goroutine ends with its request) and in
  `lifecycle` (the process ends). Elsewhere deadlock is checked.

### Fairness

`FairMatcherSpec` assumes what the Go scheduler and the client's timers give: a
goroutine that can run does (the item loop, `load`, `store`, what follows an
answer), and every GET ends by its timeout (`VerifyFails`, `FacadeFails`). It
assumes no fairness of the facade: `Verify`, `FacadeAnswers` and `GetResource`,
which need its answers, may never be taken. Time itself need not pass for
`Responds`, and new requests need not come. The mutation without a timeout on the
first GET breaks it.

`Serving`'s `FairSpec` assumes that a handler that can run does, that `Resolve`
returns (what `Responds` shows), and that a write to a client ends, because the
client reads or because the server's `WriteTimeout` fails it: weak fairness. The
steps that take the mutex have strong fairness: it is released again and again,
and `sync.Mutex` hands itself over to whoever has waited a millisecond
(its starvation mode). Without the deferred unlock `Served` fails.

`Lifecycle`'s assumes that `run` and the serving goroutine run, that time passes,
and that timers fire: what is due is done (`Timed`), whether a connection is
given up, a body cut short, a call timed out or the mutex released. It assumes
nothing of a handler whose facade call no timeout ends, nor of clients; what
stops the process then is the shutdown's budget, and without one `Stops` fails.

### Findings

1. `rejectDeadRules` "fails a config in which a rule can never be reached"
   (`config.go:237`). It fails one in which a catch-all is not last. Two rules
   with the same match, or a rule whose paths an earlier one covers, are
   accepted, and the later one is never reached. The counterexample TLC finds has
   two rules for one service.
2. `ResolveResult.Claims` is "Empty when ConsentRequired is false"
   (`types.go:143-144`). A path, json or static rule with
   `consentRequired: false` returns its claims along with that flag.
3. The contract matcher makes an owner-level claim for a contract that "declares
   no PII resource" (`contract_matcher.go:197`), by which it means an answer of
   `DataResources` without one. The offering and its resources are read in GETs
   of their own (`client.go:248`), so an answer may hold none although every
   version of the catalog declares one: the catalog is republished between two
   GETs, and what was personal data no longer is, but something else is.
   `StablePIIFound` and `ClaimsCurrent` are what remains true.

## 4. What is proved

All proofs are checked by TLAPS to the last leaf. They are for any sets of
requests, contracts and connections, any TTL (also zero and negative), any
threshold, cap, timeouts, width and catalogs, and without a bound on the size of
a map, from the assumptions on constants the modules declare: numbers are
numbers, `Unkeyed` contracts are contracts, `Nil` and `None` are no value, a
listing lists contracts, an offering lists resources at every instant, a variable
that is unset or does not parse is no number, a header is to be read no later
than its request's body, a URL has a path or none and base and path read as a URL
or none, a client sends at least one request, the bounds of the histogram are
sorted, `Nil` is not an error's prefix, the rules of a configuration are a list,
a body that is not an array is one item, a catalog is a sequence of versions, the
defaults of the settings fit the width, the characters escaping and numbers are
written with are characters, `NotFound` is neither a value nor a number, and the
members of a decoded value are values under keys that are texts. `MatcherInv`,
`CounterInv` and `ClaimsOfItems` were checked by TLC over all reachable states of
the runs' instances before they were proved.

**The cache** (`ResourceCacheProofs`). The inductive invariant is `IInv == TypeOK
/\ OwnResources /\ Calls /\ Ages /\ Readings`. `OwnResources` alone is not
inductive: a store puts what the call carries under the id of what it asked, so
it needs to know (`Calls`) that a call that carries something is about a
contract, and that only a keyed contract is looked up. `Readings` is about the
catalog: each resource that was read, of those the offering listed, was as it was
at an instant within `MaxLag` of the listing. It is kept by a GET because `Ages`
says that the fetch is not older than that (`AsReadGrows`), by everything else
because an instant that has been does not go away (`AsReadPersists`); what is
stored is complete because `Store` waits for the last GET. `Ages` relates the
three instants of an entry: read, now and expiry. An entry expires at most TTL
from now and at most TTL + `MaxLag` after its read; hence a hit, which is not
past the expiry, is at most TTL + `MaxLag` old, and an entry that is replaced by
an older read is replaced by one at most `MaxLag` older.

* `CacheInvariant`, and from it `TypeCorrect`, `NoCrosstalk`, `AgesBounded`.
* `LiveEntriesKept`, `RollbacksBounded`, `PastThresholdAllLive`: the action
  properties, each from the invariant and the one action that changes the map.
* `CacheKeepsPromise`: initial states map to initial states of `ContractLookup`,
  and every step to a step of it or a stutter. That a complete reading is one of
  the `Findings` the interface allows is `ReadingIsFinding`.

**The matcher** (`ContractMatcherProofs`). `MatcherUsesCache`: a matcher step is
a cache step or leaves the cache alone. The one step that needs an argument is
`AskResources`: what governs an item is the least element of a set of positions
in the listing, and that it exists rests on the well-foundedness of `<`. From
it and the cache's invariant, `CacheUnderMatcher`.

On that rests the matcher's own invariant, `MatcherInv == IInv /\ Typed /\ \A r :
RequestOK(r)`: the cache's invariant, the types, and for each request `Progress`
(where it is, and that each contract it holds was signed since it arrived),
`Claimed` (each claim is for the item at its place, by the contract that governs
it, agrees with the memo, and names something `Current`), `Remembered` (so does
the memo) and `Calling` (a call is about what governs the next item, the memo
does not have it, and what the call carries is recent). None of the properties is
inductive without the others. That a claim is current needs that what the call
carries is, and that is where the two caches meet: a hit is current because the
cache's `Ages` bounds its age when the call asks, and the call asks after the
request arrived; a memoized resource because it was, when it was stored, and the
request's arrival does not move. From there to the resource a claim names is
`FirstPIICurrent`: the first position found to declare PII is one that did at its
instant, and each before it did not, at its own. That one contract names one
resource needs that every claim about a keyed contract agrees with the memo, so
that a call about a memoized contract, which would overwrite it, must be
excluded. Each step is proved for the request that takes it (`Stepped`), once and
for all for the others (`OthersKeep`), and for time (a request is left alone
while the clock advances). `OnlyGrantsGovern`, `OneResource`, `ClaimsAreCurrent`,
`AllOrNothing` and `MatcherTypes` follow from it, for any number of requests.
`GoverningGrants` and `GrantedIffPermitted` relate `findContractForTarget`, which
looks at positions, to what a policy grants, which does not.

**The resolver** (`ConfigResolverProofs`). `ResolverInvariant`: no rule before
`at` covers the request, so the rule at which the scan stops is the least one
that covers it, which is how `Deciding` is defined. `GateIsConfigured`,
`NoClaimsNoItems` and `OnlyReadersHarmed` follow, for every configuration,
request and body; and `ResolverTypes`, the type invariant, which needs that the
scan never runs past the end of the rules. `ResolverKeepsPromise` is the
refinement of `Resolution`: a step over a rule that does not match is a stutter
(`ScanStep`); the rule at which the scan stops is the first that covers the
request, so its answer is allowed (`MatchedIsAllowed`), and where the scan ends
nothing covers it (`DefaultIsAllowed`).

**The HTTP binding** (`ServingProofs`). The invariant is `ServingInv ==
TypeOK /\ Causes /\ Counts /\ Classes`. `TypeOK` says who holds the mutex:
exactly the request that is writing a page (`ServingTypes`). `Counts` says that
counters are positive and buckets numbers, so that an increment grows them
(`CountersNeverReset`). The cap is not inductive as `ClassesBounded` states it:
the overflow class may be counted before or after the others, so `Classes` bounds
the classes without it, by the cap, and `ClassLabelsBounded` adds it again. That
needs the cardinality of finite sets (`WithinCap`).

**What the counters count** (`CounterProofs`). `CounterInv` adds to `ServingInv`
what relates counters to requests. Every counter is the cardinality of a set of
responses (`RouteOK`, `FailuresCounted`), a step that counts adds one member to
that set, and the set is finite because only requests that have arrived are in
it (`FinitelyMany`), although `Request` need not be. `ResponseOK` says that the
recorder holds what went out on the wire, so that `instrument` counts that; this
is the conjunct a handler that wrote twice would break. `Series` says that a
route's requests by status add up to its count; sums over a bag are cardinalities
too, of the set of its occurrences (`Total` in `Metrics`; the library's
`BagCardinality` is recursive, and cannot be reasoned about here), so
`TotalOfIncrement` is again about one more member. `PageOK` says that what has
been written of a page is what the counters are *now*: it is kept because nobody
counts while the mutex is held, which `TypeOK` says of a request that is
scraping (`CountKeepsPages`). From these, `CountersAreResponses`,
`NoFailureLost`, and `ScrapesAreSnapshots`: the buckets are cumulative because
the bounds are sorted and a duration within one is within the next, and a 422 is
the answer to an error that was counted before it was sent.

**The facade client** (`FacadeClientProofs`). `Reading` says of a call under way
what `AnswerGrounded` says of an answer: the references are those of an offering
served between `begun` and `listed`, and each resource read so far was served
between then and now (`Grounded`, which a republication does not undo, since
versions are only added). `Following` says of a GET that has been redirected that
redirects lead from the URL it was to ask to the one it asks next (`LeadsOn`,
`LeadsGrows`); so what answers it is among the `Documents` of its reference.
`AnswersGrounded` and `StableFound` follow: an answer has a resource for every
reference, so one for which only declared documents were served is in it,
declared. Nothing is assumed of `Join` and the redirects.

**The process** (`LifecycleProofs`). The argument is about instants. A signal is
acted on in the instant it comes (`Urgent`), so the budget counts from it
(`Clock`). No timer is overslept, so what is in flight is due now or later
(`Conns`); when the budget ends, what is cut off was due at its end or after it
(`FastRequestsSurvive`). The channel holds the one answer of the server, and
`Server` relates it to the server's state, from which `ExitIsTrue`. The three
phases of a request, and a new connection, enter their state in one way
(`EnterIInv`): due no earlier than now. `LimitsMeant` rests on `WrapFits`: a
number that fits is left as it is. Width and unit are arbitrary.

**Pointers and items** (`ItemClaimsProofs`). These are about recursive functions
over characters of any key, pointer or index, so they need induction over
numbers. The library states it for an operator, which the provers cannot
instantiate; `Induction` states it for a set: what holds of 0, and of n + 1 when
it holds of n, holds of all, because the least number outside the set cannot
exist (`WFMin`, from the well-foundedness of `<`). `TextInduction` and
`SeqInduction` are the same for sequences, extended at their end.

* `UnescapeEscape`: unescaping `~1` and then `~0` in what was escaped the other
  way round gives the key back, and the escaped key has no `/`. The argument
  follows both replacements character by character: what one more character
  adds to an escaped text, and what unescaping makes of that.
* Hence splitting a pointer with a token joined to it gives the pointer's tokens
  and that one (`SplitJoined`, `KeysOfJoined`), and following it is following the
  pointer and then one step (`FollowNext`): `JoinedPointerFinds`, and, by
  induction over a path of keys, `PathAddressable`.
* `AtoiItoa`: the decimal digits of an index are read back as the index
  (`ItoaNext`, `DecimalNext`), so two items have different selectors.
* `ClaimsOfItemsInvariant`: the claims built so far are those of the first items,
  in order. `SelectorPointsBackInvariant` and `KeysAddressableInvariant` follow
  with the facts above, for bodies of any depth and collections of any length.
  `EveryItemClaimedInvariant` needs one thing more, that the walk accounts for
  every item it has passed (`Accounted`).

**Only model-checked**: liveness (`Responds`, `Served`, `Stops`), for which TLAPS
has no rules here (`ENABLED`, weak and strong fairness). Every invariant, action
property and refinement of the passing runs is a theorem.

## 5. What is not modelled

* Wording of logs, headers and errors, redaction, request ids, the exposition
  format, the OpenAPI document, build and release scripts: no behaviour the
  properties are about. Of logging, the error class is modelled, because it
  labels a metric.
* JSON itself and regular expressions, by their outcomes only; a configuration
  that does not decode is outside `Config`.
* How `SignedContracts` puts the participants into a path, and base64url with or
  without padding.
* The write deadline and `idleTimeout`: `Lifecycle` says when a handler returns,
  not what the client still receives. The reason is given with the module.
* Which host the facade client asks: `Join` and the redirects are arbitrary.
* A GET of a resource takes one instant in `ResourceCache`; that its redirects
  are answered at several is in `FacadeClient` only.
* The sum of durations is kept, but no property is about floating point.

## 6. Plan

Done: all the components above, their runs, and the proofs of section 4. Left,
in this order:

1. `FacadeClient`'s redirects under `ResourceCache`, whose `GetResource` takes one
   instant, so that the age of what is cached covers a redirected GET.
2. Rules for `ENABLED` and fairness, should the provers gain them: `Responds`
   first, whose measure is the items left and the phase of the call.
