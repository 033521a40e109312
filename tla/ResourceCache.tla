--------------------------- MODULE ResourceCache ----------------------------
(***************************************************************************)
(* The resource cache: cachingLookup of                                    *)
(* src/internal/resolver/contract_cache.go around the facade client's      *)
(* DataResources (src/internal/contract/client.go), shared by every        *)
(* request in flight.                                                      *)
(*                                                                         *)
(* load and store hold the mutex, so each is one action; the facade is     *)
(* called between them with the mutex released, so the fetches of several  *)
(* requests overlap, finish in any order and may fail at any GET.  A fetch *)
(* is 1 + N GETs, each an action: the service offering, then the           *)
(* self-description of every data resource it lists; the catalog, given by *)
(* constants as a function of time, may change between any two of them.    *)
(***************************************************************************)
EXTENDS Integers, Sequences, FiniteSets, Functions

CONSTANTS
  Request,         \* the goroutines that call DataResources
  Contract,        \* the contracts the facade serves
  Unkeyed,         \* the contracts it serves without an id
  Nil,             \* the empty contract id, and "no contract"
  TTL,             \* resourceCacheTTLMs, in ticks; zero or less: no caching
  SweepThreshold,  \* the entry count at which a store sweeps
  MaxLag,          \* longest time from a fetch's first GET to its store
  MaxTime,         \* bound of the clock (only to keep the state space finite)
  Resource,        \* the data resources of the catalog
  Offers,          \* contract, instant -> the resources its offering lists
  Declared         \* resource -> the instants at which it declares PII

ASSUME UnkeyedAssumption == Unkeyed \subseteq Contract
ASSUME NilAssumption == Nil \notin Contract \cup Resource
ASSUME TimeAssumption == TTL \in Int /\ MaxLag \in Nat /\ MaxTime \in Nat
ASSUME ThresholdAssumption == SweepThreshold \in Nat
ASSUME OffersAssumption ==
  Offers \in [Contract -> [0 .. MaxTime -> Seq(Resource)]]

VARIABLES
  now,        \* the clock
  items,      \* contract id -> entry; what c.mu guards
  pc,         \* where each request's DataResources call is
  asked,      \* ct, the contract the call is about
  resources   \* what the call has read, or nil

vars == <<now, items, pc, asked, resources>>

Key == Contract \ Unkeyed

(* []DataResource: the contract it is for, the instant its offering was    *)
(* read, how many of the resources listed then have been read since, and   *)
(* the positions of those that declared PII (containsPII) when read.       *)
Resources == [of : Contract \cup {Nil}, asOf : 0 .. MaxTime,
              got : Nat, pii : SUBSET Nat]
NoResources == [of |-> Nil, asOf |-> 0, got |-> 0, pii |-> {}]
Listed(read) == Offers[read.of][read.asOf]
Entry == [resources : Resources, expires : Nat]

(* Contracts with an id stand for it. *)
ID(c) == IF c \in Unkeyed THEN Nil ELSE c

(* Wrong on purpose, for the mutants: contracts without an id are cached.  *)
BypassWithoutIDCheck(c) == TTL <= 0

(* newCachingLookup leaves the client bare when the TTL disables caching;  *)
(* DataResources passes a contract without an id straight through.         *)
Bypass(c) == TTL <= 0 \/ ID(c) = Nil

(* now.After(entry.expires): an entry still answers at its last instant. *)
Expired(entry, t) == t > entry.expires

(* Wrong on purpose: sweeps entries at their last instant, which load still*)
(* answers.                                                                *)
SweepExpiring(cache, t) ==
  Restrict(cache, {k \in DOMAIN cache : t < cache[k].expires})

(* sweepExpired *)
SweepExpired(cache, t) ==
  Restrict(cache, {k \in DOMAIN cache : ~Expired(cache[k], t)})

(* Wrong on purpose: sweeps one entry too late. *)
KeptAboveThreshold(cache, t) ==
  IF Cardinality(DOMAIN cache) > SweepThreshold
    THEN SweepExpired(cache, t)
    ELSE cache

(* What a store keeps of the map: all of it below the threshold. *)
Kept(cache, t) ==
  IF Cardinality(DOMAIN cache) >= SweepThreshold
    THEN SweepExpired(cache, t)
    ELSE cache

(* The map after store(id, rs) at instant t. *)
Stored(cache, id, rs, t) ==
  LET kept == Kept(cache, t)
  IN  [k \in DOMAIN kept \cup {id} |->
         IF k = id THEN [resources |-> rs, expires |-> t + TTL] ELSE kept[k]]

-----------------------------------------------------------------------------

Init ==
  /\ now = 0
  /\ items = [k \in {} |-> [resources |-> NoResources, expires |-> 0]]
  /\ pc = [r \in Request |-> "idle"]
  /\ asked = [r \in Request |-> Nil]
  /\ resources = [r \in Request |-> NoResources]

(* A request calls DataResources for c. *)
DataResources(r, c) ==
  /\ pc[r] = "idle"
  /\ pc' = [pc EXCEPT ![r] = IF Bypass(c) THEN "fetching" ELSE "loading"]
  /\ asked' = [asked EXCEPT ![r] = c]
  /\ UNCHANGED <<now, items, resources>>

(* Wrong on purpose: load does not look at the clock. *)
HitAtAnyAge(c) == ID(c) \in DOMAIN items

(* load: the entry is there and has not expired. *)
Hit(c) == ID(c) \in DOMAIN items /\ ~Expired(items[ID(c)], now)

(* Wrong on purpose: a hit renews the entry it answers from. *)
LoadHitRenewing(r) ==
  /\ pc[r] = "loading"
  /\ Hit(asked[r])
  /\ pc' = [pc EXCEPT ![r] = "answered"]
  /\ resources' = [resources EXCEPT ![r] = items[ID(asked[r])].resources]
  /\ items' = [items EXCEPT ![ID(asked[r])].expires = now + TTL]
  /\ UNCHANGED <<now, asked>>

(* load, under the mutex. *)
LoadHit(r) ==
  /\ pc[r] = "loading"
  /\ Hit(asked[r])
  /\ pc' = [pc EXCEPT ![r] = "answered"]
  /\ resources' = [resources EXCEPT ![r] = items[ID(asked[r])].resources]
  /\ UNCHANGED <<now, items, asked>>

LoadMiss(r) ==
  /\ pc[r] = "loading"
  /\ ~Hit(asked[r])
  /\ pc' = [pc EXCEPT ![r] = "fetching"]
  /\ UNCHANGED <<now, items, asked, resources>>

(* The facade answers the first GET: the service offering as of now.  A    *)
(* contract that names no offering needs no GET, and lists nothing.        *)
FacadeAnswers(r) ==
  /\ pc[r] = "fetching"
  /\ pc' = [pc EXCEPT ![r] = "reading"]
  /\ resources' = [resources EXCEPT ![r] =
                     [of |-> asked[r], asOf |-> now, got |-> 0, pii |-> {}]]
  /\ UNCHANGED <<now, items, asked>>

(* The loop over offering.DataResources has more to dereference. *)
Unread(read) == read.got < Len(Listed(read))

(* The next data resource, with its self-description as it is now. *)
WithNext(read) ==
  LET i == read.got + 1
  IN  [read EXCEPT !.got = i,
                   !.pii = IF now \in Declared[Listed(read)[i]]
                             THEN @ \cup {i} ELSE @]

(* The facade answers the next of the other N GETs. *)
GetResource(r) ==
  /\ pc[r] = "reading"
  /\ Unread(resources[r])
  /\ resources' = [resources EXCEPT ![r] = WithNext(@)]
  /\ UNCHANGED <<now, items, pc, asked>>

(* Some GET is outstanding. *)
Fetching(r) ==
  pc[r] = "fetching" \/ (pc[r] = "reading" /\ Unread(resources[r]))

(* Wrong on purpose: a failed fetch answers, with no resources. *)
FacadeFailureAnswers(r) ==
  /\ Fetching(r)
  /\ pc' = [pc EXCEPT ![r] = "answered"]
  /\ resources' = [resources EXCEPT ![r] = NoResources]
  /\ UNCHANGED <<now, items, asked>>

(* Wrong on purpose: no timeout until the facade has begun to answer. *)
FacadeFailsOnceAnswering(r) ==
  /\ pc[r] = "reading" /\ Unread(resources[r])
  /\ pc' = [pc EXCEPT ![r] = "failed"]
  /\ resources' = [resources EXCEPT ![r] = NoResources]
  /\ UNCHANGED <<now, items, asked>>

(* Any of the 1+N GETs fails or times out: the call returns nil and the    *)
(* error, and leaves the cache alone.                                      *)
FacadeFails(r) ==
  /\ Fetching(r)
  /\ pc' = [pc EXCEPT ![r] = "failed"]
  /\ resources' = [resources EXCEPT ![r] = NoResources]
  /\ UNCHANGED <<now, items, asked>>

(* The last GET has answered: store, under the mutex, and answer. *)
Store(r) ==
  /\ pc[r] = "reading"
  /\ ~Unread(resources[r])
  /\ pc' = [pc EXCEPT ![r] = "answered"]
  /\ items' = IF Bypass(asked[r])
                THEN items
                ELSE Stored(items, ID(asked[r]), resources[r], now)
  /\ UNCHANGED <<now, asked, resources>>

(* The caller takes what DataResources returned. *)
Return(r) ==
  /\ pc[r] \in {"answered", "failed"}
  /\ pc' = [pc EXCEPT ![r] = "idle"]
  /\ asked' = [asked EXCEPT ![r] = Nil]
  /\ resources' = [resources EXCEPT ![r] = NoResources]
  /\ UNCHANGED <<now, items>>

(* Wrong on purpose: a client without a timeout. *)
TickWithoutTimeout ==
  /\ now < MaxTime
  /\ now' = now + 1
  /\ UNCHANGED <<items, pc, asked, resources>>

(* Time passes.  Each of a fetch's GETs is bounded by http.Client.Timeout, *)
(* so a fetch that was answered completes, one way or the other, within    *)
(* MaxLag.                                                                 *)
Tick ==
  /\ now < MaxTime
  /\ \A r \in Request :
       pc[r] = "reading" => now - resources[r].asOf < MaxLag
  /\ now' = now + 1
  /\ UNCHANGED <<items, pc, asked, resources>>

CallStep(r) ==
  \/ LoadHit(r)
  \/ LoadMiss(r)
  \/ FacadeAnswers(r)
  \/ GetResource(r)
  \/ FacadeFails(r)
  \/ Store(r)

Next ==
  \/ \E r \in Request :
       \/ \E c \in Contract : DataResources(r, c)
       \/ CallStep(r)
       \/ Return(r)
  \/ Tick

Spec == Init /\ [][Next]_vars

-----------------------------------------------------------------------------

(* Every variable has its type; the only keys of the map are contract ids: *)
(* the empty id of DataResources' bypass never becomes one.                *)
TypeOK ==
  /\ now \in 0 .. MaxTime
  /\ DOMAIN items \subseteq Key
  /\ IsFiniteSet(DOMAIN items)
  /\ items \in [DOMAIN items -> Entry]
  /\ pc \in [Request -> {"idle", "loading", "fetching", "reading",
                         "answered", "failed"}]
  /\ asked \in [Request -> Contract \cup {Nil}]
  /\ resources \in [Request -> Resources]

(* No contract is ever given the resources of another: an entry holds what *)
(* was read for its key, and a call carries what was read for the contract *)
(* it was asked about, however many calls, keyed and unkeyed, are in       *)
(* flight (DataResources, load, store).                                    *)
OwnResources ==
  /\ \A k \in DOMAIN items \ {Nil} : items[k].resources.of = k
  /\ \A r \in Request :
       pc[r] \in {"reading", "answered"} => resources[r].of = asked[r]

(* Nothing that load would still answer is lost: a store, with or without  *)
(* a sweep, keeps every entry that is not past its TTL, and never shortens *)
(* the life of the entry it overwrites (store, sweepExpired).              *)
KeepsLiveStep ==
  \A k \in DOMAIN items :
    items[k].expires >= now =>
      /\ k \in DOMAIN items'
      /\ items'[k].expires >= items[k].expires

KeepsLive == [][KeepsLiveStep]_vars

(* Past the threshold the map holds live entries only: a store that leaves *)
(* more than SweepThreshold entries leaves no expired one (store), so the  *)
(* map is bounded by the threshold or by the contracts stored within a TTL.*)
SweepStep ==
  (items' # items /\ Cardinality(DOMAIN items') > SweepThreshold) =>
    \A k \in DOMAIN items' : items'[k].expires >= now

SweepBounds == [][SweepStep]_vars

(* Two calls that miss at once may store in either order, so an entry can  *)
(* be replaced by an older read; but never by one more than MaxLag older,  *)
(* the longest a fetch can be under way (DataResources, and the timeout of *)
(* http.Client).                                                           *)
RollbackStep ==
  \A k \in DOMAIN items \cap DOMAIN items' :
    items'[k].resources.asOf >= items[k].resources.asOf - MaxLag

RollbackBounded == [][RollbackStep]_vars

(* The cache keeps the promise of the interface it decorates: an answer is *)
(* about the contract asked for, complete, and its offering was read at    *)
(* most a TTL and a fetch before it is given, the resources it lists within*)
(* a fetch of the offering.                                                *)
Lifetime == IF TTL > 0 THEN TTL ELSE 0

LookupPC ==
  [r \in Request |-> IF pc[r] \in {"loading", "fetching", "reading"}
                       THEN "asked" ELSE pc[r]]

LookupAnswer ==
  [r \in Request |-> IF pc[r] = "answered" THEN resources[r] ELSE NoResources]

Lookup ==
  INSTANCE ContractLookup WITH Staleness <- Lifetime + MaxLag,
                               pc <- LookupPC, answer <- LookupAnswer

LookupSpec == Lookup!Spec

-----------------------------------------------------------------------------

(* How old the things are that a call or the map holds: a read under way   *)
(* is at most MaxLag old, and an entry expires at most TTL + MaxLag after  *)
(* its read and TTL from now (DataResources, store).                       *)
CallAges ==
  \A r \in Request :
    pc[r] = "reading" =>
      resources[r].asOf <= now /\ now - resources[r].asOf <= MaxLag

EntryAges ==
  \A k \in DOMAIN items :
    /\ items[k].resources.asOf <= now
    /\ items[k].expires <= now + TTL
    /\ items[k].expires - items[k].resources.asOf <= TTL + MaxLag

Ages == CallAges /\ EntryAges

(* A call is about a contract, carries nothing before the facade or the    *)
(* map answered it, and looks the map up only for a keyed contract.        *)
(* With TypeOK, OwnResources and Ages it is inductive.                     *)
Calls ==
  \A r \in Request :
    /\ pc[r] = "idle" => asked[r] = Nil
    /\ pc[r] # "idle" => asked[r] \in Contract
    /\ pc[r] = "loading" => ~Bypass(asked[r])
    /\ pc[r] \in {"idle", "loading", "fetching", "failed"} =>
         resources[r] = NoResources

(* What is read of a listed resource is what it declared at some instant   *)
(* up to now and within MaxLag of the offering; an entry and an answer hold*)
(* a reading of every resource listed (the loop of DataResources).         *)
Window(t, until) == {u \in t .. until : u - t <= MaxLag}

AsRead(read, until) ==
  /\ read.got <= Len(Listed(read))
  /\ read.pii \subseteq 1 .. read.got
  /\ \A i \in 1 .. read.got : \E u \in Window(read.asOf, until) :
       i \in read.pii <=> u \in Declared[Listed(read)[i]]

Complete(read, until) == AsRead(read, until) /\ ~Unread(read)

Readings ==
  /\ \A k \in DOMAIN items : Complete(items[k].resources, now)
  /\ \A r \in Request :
       /\ pc[r] = "reading" => AsRead(resources[r], now)
       /\ pc[r] = "answered" => Complete(resources[r], now)

IInv == TypeOK /\ OwnResources /\ Calls /\ Ages /\ Readings

=============================================================================
