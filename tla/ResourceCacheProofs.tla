------------------------ MODULE ResourceCacheProofs -------------------------
(***************************************************************************)
(* Proofs about the resource cache, for every set of requests and          *)
(* contracts, every TTL, threshold and lag.                                *)
(***************************************************************************)
EXTENDS ResourceCache, FiniteSetTheorems, TLAPS

(* The instants at which an entry was stored and will expire are naturals. *)
LEMMA LifetimeType ==
  /\ TTL \in Int /\ MaxLag \in Nat
  /\ ~(TTL <= 0) => TTL \in Nat /\ Lifetime = TTL
  /\ Lifetime \in Nat
BY TimeAssumption DEF Lifetime

(* What a store keeps is a part of the map, with its values. *)
LEMMA KeptIsPart ==
  ASSUME NEW cache, NEW t
  PROVE  /\ DOMAIN Kept(cache, t) \subseteq DOMAIN cache
         /\ \A k \in DOMAIN Kept(cache, t) : Kept(cache, t)[k] = cache[k]
BY DEF Kept, SweepExpired, Restrict

(* A sweep is of the expired entries only. *)
LEMMA KeptKeepsLive ==
  ASSUME NEW cache, NEW t, NEW k \in DOMAIN cache, ~Expired(cache[k], t)
  PROVE  k \in DOMAIN Kept(cache, t)
BY DEF Kept, SweepExpired, Restrict

(* The map after a store has the keys that were kept and the stored one;   *)
(* the latter has the new entry, the others theirs.                        *)
LEMMA StoredKeys ==
  ASSUME NEW cache, NEW id, NEW rs, NEW t
  PROVE  DOMAIN Stored(cache, id, rs, t) = DOMAIN Kept(cache, t) \cup {id}
BY DEF Stored

LEMMA StoredEntry ==
  ASSUME NEW cache, NEW id, NEW rs, NEW t
  PROVE  Stored(cache, id, rs, t)[id] =
           [resources |-> rs, expires |-> t + TTL]
BY DEF Stored

LEMMA StoredOthers ==
  ASSUME NEW cache, NEW id, NEW rs, NEW t,
         NEW k \in DOMAIN Stored(cache, id, rs, t) \ {id}
  PROVE  k \in DOMAIN cache /\ Stored(cache, id, rs, t)[k] = cache[k]
BY KeptIsPart DEF Stored

-----------------------------------------------------------------------------

(* The next self-description read leaves the contract and the instant of   *)
(* the offering alone.                                                     *)
LEMMA WithNextType ==
  ASSUME NEW read \in Resources
  PROVE  /\ WithNext(read) \in Resources
         /\ WithNext(read).of = read.of
         /\ WithNext(read).asOf = read.asOf
         /\ WithNext(read).got = read.got + 1
         /\ WithNext(read).pii =
              IF now \in Declared[Listed(read)[read.got + 1]]
                THEN read.pii \cup {read.got + 1} ELSE read.pii
<1>1. read.got + 1 \in Nat /\ read.pii \cup {read.got + 1} \in SUBSET Nat
  BY DEF Resources
<1> QED
  BY <1>1 DEF WithNext, Resources

(* The invariant but for Readings, which needs it but which it does not    *)
(* need.                                                                   *)
Core == TypeOK /\ OwnResources /\ Calls /\ Ages

LEMMA InitCore == Init => Core
<1> SUFFICES ASSUME Init PROVE Core
  OBVIOUS
<1>1. DOMAIN items = {} /\ IsFiniteSet(DOMAIN items)
  BY FS_EmptySet DEF Init
<1>2. TypeOK
  BY <1>1, TimeAssumption DEF Init, TypeOK, Resources, NoResources
<1>3. OwnResources /\ Calls
  BY <1>1 DEF Init, OwnResources, Calls
<1>4. Ages
  BY <1>1 DEF Init, Ages, CallAges, EntryAges
<1> QED
  BY <1>2, <1>3, <1>4 DEF Core

(* A call that bypasses the cache has no key, so a call that stores has    *)
(* one, and its id is the contract itself.                                 *)
LEMMA StoringCall ==
  ASSUME NEW c \in Contract, ~Bypass(c)
  PROVE  ID(c) = c /\ c \in Key /\ TTL \in Nat /\ TTL > 0
BY TimeAssumption DEF Bypass, ID, Key

LEMMA StoreCore ==
  ASSUME Core, NEW r \in Request, Store(r)
  PROVE  Core'
<1> USE DEF Core
<1>1. /\ pc[r] = "reading" /\ pc' = [pc EXCEPT ![r] = "answered"]
      /\ now' = now /\ asked' = asked /\ resources' = resources
      /\ asked[r] \in Contract
  BY DEF Store, Calls
<1>2. CASE Bypass(asked[r])
  <2>1. items' = items
    BY <1>2 DEF Store
  <2>2. TypeOK'
    BY <1>1, <2>1 DEF TypeOK
  <2>3. OwnResources' /\ Calls'
    BY <1>1, <2>1 DEF TypeOK, OwnResources, Calls, Bypass, ID
  <2>4. Ages'
    BY <1>1, <2>1 DEF TypeOK, Ages, CallAges, EntryAges
  <2> QED
    BY <2>2, <2>3, <2>4
<1>3. CASE ~Bypass(asked[r])
  <2> DEFINE ct == asked[r]
             fresh == resources[r]
  <2>1. /\ ID(asked[r]) = ct /\ ct \in Key /\ ct # Nil
        /\ TTL \in Nat /\ MaxLag \in Nat
    BY <1>1, <1>3, StoringCall, NilAssumption, TimeAssumption DEF Key
  <2>2. items' = Stored(items, ct, fresh, now)
    BY <1>3, <2>1 DEF Store
  <2>3. /\ DOMAIN items' \subseteq DOMAIN items \cup {ct}
        /\ items'[ct] = [resources |-> fresh, expires |-> now + TTL]
        /\ \A k \in DOMAIN items' \ {ct} :
             k \in DOMAIN items /\ items'[k] = items[k]
    <3> HIDE DEF ct, fresh
    <3>1. DOMAIN Stored(items, ct, fresh, now) =
            DOMAIN Kept(items, now) \cup {ct}
      BY StoredKeys
    <3>2. Stored(items, ct, fresh, now)[ct] =
            [resources |-> fresh, expires |-> now + TTL]
      BY StoredEntry
    <3>3. \A k \in DOMAIN Stored(items, ct, fresh, now) \ {ct} :
            k \in DOMAIN items /\ Stored(items, ct, fresh, now)[k] = items[k]
      BY StoredOthers
    <3>4. DOMAIN Kept(items, now) \subseteq DOMAIN items
      BY KeptIsPart
    <3> QED
      BY <2>2, <3>1, <3>2, <3>3, <3>4
  <2>4. /\ fresh \in Resources /\ fresh.of = ct
        /\ fresh.asOf \in Nat /\ now \in Nat
        /\ fresh.asOf <= now /\ now - fresh.asOf <= MaxLag
    BY <1>1 DEF TypeOK, OwnResources, Ages, CallAges, Resources
  <2>5. items' \in [DOMAIN items' -> Entry]
    <3>1. items' = [k \in DOMAIN items' |-> items'[k]]
      BY <2>2 DEF Stored
    <3>2. ASSUME NEW k \in DOMAIN items' PROVE items'[k] \in Entry
      BY <2>1, <2>3, <2>4 DEF TypeOK, Entry
    <3> QED
      BY <3>1, <3>2
  <2>6. TypeOK'
    <3>1. IsFiniteSet(DOMAIN items \cup {ct})
      BY FS_AddElement DEF TypeOK
    <3>2. IsFiniteSet(DOMAIN items')
      BY <2>3, <3>1, FS_Subset
    <3> QED
      BY <1>1, <2>1, <2>3, <2>5, <3>2 DEF TypeOK
  <2>7. OwnResources'
    BY <1>1, <2>1, <2>3, <2>4 DEF TypeOK, OwnResources
  <2>8. Calls'
    BY <1>1 DEF TypeOK, Calls, Bypass, ID
  <2>9. Ages'
    <3>1. ASSUME NEW k \in DOMAIN items'
          PROVE  /\ items'[k].resources.asOf <= now'
                 /\ items'[k].expires <= now' + TTL
                 /\ items'[k].expires - items'[k].resources.asOf
                      <= TTL + MaxLag
      <4>1. CASE k = ct
        BY <1>1, <2>1, <2>3, <2>4, <4>1
      <4>2. CASE k # ct
        BY <1>1, <2>3, <4>2 DEF Ages, EntryAges
      <4> QED
        BY <4>1, <4>2
    <3> QED
      BY <1>1, <3>1 DEF TypeOK, Ages, CallAges, EntryAges
  <2> QED
    BY <2>6, <2>7, <2>8, <2>9
<1> QED
  BY <1>2, <1>3

LEMMA NextCore == Core /\ [Next]_vars => Core'
<1> SUFFICES ASSUME Core, [Next]_vars PROVE Core'
  OBVIOUS
<1> USE TimeAssumption DEF Core
<1>1. ASSUME NEW r \in Request, NEW c \in Contract, DataResources(r, c)
      PROVE  Core'
  BY <1>1, NilAssumption
  DEF DataResources, TypeOK, OwnResources, Calls, Ages, CallAges, EntryAges,
      Bypass, ID
<1>2. ASSUME NEW r \in Request, LoadHit(r) PROVE Core'
  <2>1. /\ asked[r] \in Contract /\ ~Bypass(asked[r])
        /\ ID(asked[r]) = asked[r] /\ asked[r] # Nil
        /\ asked[r] \in DOMAIN items
        /\ resources' =
             [resources EXCEPT ![r] = items[asked[r]].resources]
    BY <1>2, StoringCall, NilAssumption DEF LoadHit, Hit, Calls
  <2>2. items[asked[r]] \in Entry
    BY <2>1 DEF TypeOK
  <2>3. TypeOK'
    BY <1>2, <2>1, <2>2 DEF LoadHit, TypeOK, Entry
  <2>4. OwnResources'
    BY <1>2, <2>1 DEF LoadHit, TypeOK, OwnResources
  <2>5. Calls' /\ Ages'
    BY <1>2, <2>1
    DEF LoadHit, TypeOK, Calls, Ages, CallAges, EntryAges, Bypass, ID
  <2> QED
    BY <2>3, <2>4, <2>5
<1>3. ASSUME NEW r \in Request, LoadMiss(r) PROVE Core'
  BY <1>3
  DEF LoadMiss, TypeOK, OwnResources, Calls, Ages, CallAges, EntryAges,
      Bypass, ID
<1>4. ASSUME NEW r \in Request, FacadeAnswers(r) PROVE Core'
  <2>1. asked[r] \in Contract /\ now \in Nat
    BY <1>4 DEF FacadeAnswers, TypeOK, Calls
  <2>2. TypeOK'
    BY <1>4, <2>1 DEF FacadeAnswers, TypeOK, Resources
  <2>3. OwnResources' /\ Calls'
    BY <1>4, <2>1 DEF FacadeAnswers, TypeOK, OwnResources, Calls, Bypass, ID
  <2>4. Ages'
    BY <1>4, <2>1 DEF FacadeAnswers, TypeOK, Ages, CallAges, EntryAges
  <2> QED
    BY <2>2, <2>3, <2>4
<1>5. ASSUME NEW r \in Request, FacadeFails(r) PROVE Core'
  BY <1>5
  DEF FacadeFails, Fetching, TypeOK, OwnResources, Calls, Ages, CallAges,
      EntryAges, Bypass, ID, Resources, NoResources
<1>6. ASSUME NEW r \in Request, Store(r) PROVE Core'
  BY <1>6, StoreCore
<1>7. ASSUME NEW r \in Request, Return(r) PROVE Core'
  BY <1>7
  DEF Return, TypeOK, OwnResources, Calls, Ages, CallAges, EntryAges,
      Bypass, ID, Resources, NoResources
<1>8. CASE Tick
  <2>1. /\ now' = now + 1 /\ items' = items /\ pc' = pc
        /\ asked' = asked /\ resources' = resources /\ now \in Nat
        /\ now' \in 0 .. MaxTime
    BY <1>8 DEF Tick, TypeOK
  <2>2. TypeOK' /\ OwnResources' /\ Calls'
    BY <2>1 DEF TypeOK, OwnResources, Calls, Bypass, ID
  <2>3. CallAges'
    <3> SUFFICES ASSUME NEW r \in Request, pc'[r] = "reading"
                 PROVE  /\ resources'[r].asOf <= now'
                        /\ now' - resources'[r].asOf <= MaxLag
      BY DEF CallAges
    <3>1. pc[r] = "reading" /\ resources[r].asOf \in Nat
      BY <2>1 DEF TypeOK, Resources
    <3> QED
      BY <1>8, <2>1, <3>1 DEF Tick, Ages, CallAges
  <2>4. EntryAges'
    <3> SUFFICES ASSUME NEW k \in DOMAIN items
                 PROVE  /\ items[k].resources.asOf <= now + 1
                        /\ items[k].expires <= now + 1 + TTL
                        /\ items[k].expires - items[k].resources.asOf
                             <= TTL + MaxLag
      BY <2>1 DEF EntryAges
    <3>1. items[k].resources.asOf \in Nat /\ items[k].expires \in Nat
      BY DEF TypeOK, Entry, Resources
    <3> QED
      BY <2>1, <3>1 DEF Ages, EntryAges
  <2> QED
    BY <2>1, <2>2, <2>3, <2>4 DEF Ages
<1>9. CASE UNCHANGED vars
  BY <1>9
  DEF vars, TypeOK, OwnResources, Calls, Ages, CallAges, EntryAges,
      Bypass, ID
<1>10. ASSUME NEW r \in Request, GetResource(r) PROVE Core'
  <2> DEFINE read == WithNext(resources[r])
  <2>1. /\ read \in Resources
        /\ read.of = resources[r].of /\ read.asOf = resources[r].asOf
    BY WithNextType DEF TypeOK
  <2> HIDE DEF read
  <2>2. /\ resources' = [resources EXCEPT ![r] = read]
        /\ UNCHANGED <<now, items, pc, asked>> /\ pc[r] = "reading"
    BY <1>10 DEF GetResource, read
  <2>3. TypeOK'
    BY <2>1, <2>2 DEF TypeOK
  <2>4. OwnResources' /\ Calls'
    BY <2>1, <2>2 DEF TypeOK, OwnResources, Calls, Bypass, ID
  <2>5. Ages'
    BY <2>1, <2>2 DEF TypeOK, Ages, CallAges, EntryAges
  <2> QED
    BY <2>3, <2>4, <2>5
<1> QED
  BY <1>1, <1>2, <1>3, <1>4, <1>5, <1>6, <1>7, <1>8, <1>9, <1>10
  DEF Next, CallStep

-----------------------------------------------------------------------------
(* What has been read, of the catalog as it changes.                       *)

LEMMA ListedType ==
  ASSUME NEW read \in Resources, read.of \in Contract
  PROVE  Listed(read) \in Seq(Resource) /\ Len(Listed(read)) \in Nat
<1>1. Offers[read.of] \in [0 .. MaxTime -> Seq(Resource)]
  BY OffersAssumption
<1>2. Listed(read) \in Seq(Resource)
  BY <1>1 DEF Resources, Listed
<1> QED
  BY <1>2

(* A reading stays one while time passes.                                  *)
LEMMA AsReadPersists ==
  ASSUME NEW read, NEW t \in Nat, NEW u \in Nat, t <= u,
         read.asOf \in Nat, AsRead(read, t)
  PROVE  AsRead(read, u)
<1>1. Window(read.asOf, t) \subseteq Window(read.asOf, u)
  BY DEF Window
<1> QED
  BY <1>1 DEF AsRead

(* One more GET makes a reading of one more resource.                      *)
LEMMA AsReadGrows ==
  ASSUME Core, NEW read \in Resources, read.of \in Contract,
         AsRead(read, now), Unread(read),
         read.asOf <= now, now - read.asOf <= MaxLag
  PROVE  AsRead(WithNext(read), now)
<1> DEFINE n == read.got + 1
           next == WithNext(read)
<1>1. /\ next.asOf = read.asOf /\ next.got = n
      /\ next.pii = IF now \in Declared[Listed(read)[n]]
                      THEN read.pii \cup {n} ELSE read.pii
      /\ Listed(next) = Listed(read)
  BY WithNextType DEF Listed
<1>2. /\ read.got \in Nat /\ read.asOf \in Nat /\ now \in Nat
      /\ Len(Listed(read)) \in Nat
  BY ListedType DEF Resources, Core, TypeOK
<1>3. /\ read.pii \subseteq 1 .. read.got /\ n <= Len(Listed(read))
      /\ \A i \in 1 .. read.got : \E u \in Window(read.asOf, now) :
           i \in read.pii <=> u \in Declared[Listed(read)[i]]
  BY <1>2 DEF AsRead, Unread
<1>4. now \in Window(read.asOf, now)
  BY <1>2 DEF Window
<1> HIDE DEF next
<1>5. next.pii \subseteq 1 .. n
  BY <1>1, <1>2, <1>3
<1>6. ASSUME NEW i \in 1 .. n
      PROVE  \E u \in Window(read.asOf, now) :
               i \in next.pii <=> u \in Declared[Listed(read)[i]]
  <2>1. CASE i = n
    <3>1. n \notin read.pii
      BY <1>2, <1>3
    <3> QED
      BY <1>1, <1>4, <2>1, <3>1
  <2>2. CASE i # n
    <3>1. i \in 1 .. read.got
      BY <1>2, <2>2
    <3>2. i \in next.pii <=> i \in read.pii
      BY <1>1, <2>2
    <3> QED
      BY <1>3, <3>1, <3>2
  <2> QED
    BY <2>1, <2>2
<1>7. AsRead(next, now)
  BY <1>1, <1>3, <1>5, <1>6 DEF AsRead
<1> QED
  BY <1>7 DEF next

(* What the invariant says of one request, and of one entry.               *)
RequestReadings(r) ==
  /\ pc[r] = "reading" => AsRead(resources[r], now)
  /\ pc[r] = "answered" => Complete(resources[r], now)

LEMMA NextReadings == IInv /\ [Next]_vars => Readings'
<1> SUFFICES ASSUME IInv, [Next]_vars PROVE Readings'
  OBVIOUS
<1>1. Core /\ Readings
  BY DEF IInv, Core
<1>2. now \in Nat /\ now' \in Nat /\ now <= now'
  BY <1>1 DEF Core, TypeOK, Next, CallStep, vars, DataResources, LoadHit,
              LoadMiss, FacadeAnswers, GetResource, FacadeFails, Store,
              Return, Tick
<1>3. ASSUME NEW r \in Request, pc[r] = "reading" \/ pc[r] = "answered"
      PROVE  /\ resources[r] \in Resources /\ resources[r].of \in Contract
             /\ resources[r].asOf \in Nat
  BY <1>1, <1>3 DEF Core, TypeOK, OwnResources, Calls, Resources
<1>4. ASSUME NEW k \in DOMAIN items
      PROVE  /\ items[k].resources \in Resources
             /\ items[k].resources.asOf \in Nat
  BY <1>1 DEF Core, TypeOK, Entry, Resources
<1>5. ASSUME NEW k \in DOMAIN items
      PROVE  Complete(items[k].resources, now')
  BY <1>1, <1>2, <1>4, AsReadPersists DEF Readings, Complete
<1>6. ASSUME NEW q \in Request, pc'[q] = pc[q],
             resources'[q] = resources[q]
      PROVE  RequestReadings(q)'
  BY <1>1, <1>2, <1>3, <1>6, AsReadPersists
     DEF Readings, RequestReadings, Complete
<1>7. ASSUME UNCHANGED <<pc, items, resources>> PROVE Readings'
  BY <1>5, <1>6, <1>7 DEF Readings, RequestReadings
<1>8. ASSUME NEW r \in Request, UNCHANGED items, RequestReadings(r)',
             \A q \in Request \ {r} :
               pc'[q] = pc[q] /\ resources'[q] = resources[q]
      PROVE  Readings'
  BY <1>5, <1>6, <1>8 DEF Readings, RequestReadings
<1>9. ASSUME NEW r \in Request, UNCHANGED items,
             pc'[r] \notin {"reading", "answered"},
             \A q \in Request \ {r} :
               pc'[q] = pc[q] /\ resources'[q] = resources[q]
      PROVE  Readings'
  BY <1>8, <1>9 DEF RequestReadings
<1>10. ASSUME NEW r \in Request, NEW c \in Contract, DataResources(r, c)
       PROVE  Readings'
  <2>1. /\ pc'[r] \notin {"reading", "answered"} /\ items' = items
        /\ \A q \in Request \ {r} :
             pc'[q] = pc[q] /\ resources'[q] = resources[q]
    BY <1>1, <1>10 DEF DataResources, Core, TypeOK
  <2> QED
    BY <1>9, <2>1
<1>11. ASSUME NEW r \in Request, LoadHit(r) PROVE Readings'
  <2>1. /\ ID(asked[r]) \in DOMAIN items /\ now' = now
        /\ resources'[r] = items[ID(asked[r])].resources
        /\ pc'[r] = "answered" /\ items' = items
        /\ \A q \in Request \ {r} :
             pc'[q] = pc[q] /\ resources'[q] = resources[q]
    BY <1>1, <1>11 DEF LoadHit, Hit, Core, TypeOK
  <2>2. RequestReadings(r)'
    BY <1>5, <2>1 DEF RequestReadings
  <2> QED
    BY <1>8, <2>1, <2>2
<1>12. ASSUME NEW r \in Request, LoadMiss(r)
       PROVE  Readings'
  <2>1. /\ pc'[r] \notin {"reading", "answered"} /\ items' = items
        /\ \A q \in Request \ {r} :
             pc'[q] = pc[q] /\ resources'[q] = resources[q]
    BY <1>1, <1>12 DEF LoadMiss, Core, TypeOK
  <2> QED
    BY <1>9, <2>1
<1>13. ASSUME NEW r \in Request, FacadeAnswers(r) PROVE Readings'
  <2>1. /\ resources'[r] = [of |-> asked[r], asOf |-> now, got |-> 0,
                            pii |-> {}]
        /\ pc'[r] = "reading" /\ items' = items
        /\ asked[r] \in Contract /\ now \in 0 .. MaxTime
        /\ \A q \in Request \ {r} :
             pc'[q] = pc[q] /\ resources'[q] = resources[q]
    BY <1>1, <1>13 DEF FacadeAnswers, Core, TypeOK, Calls
  <2>2. /\ resources'[r] \in Resources /\ resources'[r].of \in Contract
        /\ resources'[r].got = 0 /\ resources'[r].pii = {}
    BY <2>1 DEF Resources
  <2>3. Len(Listed(resources'[r])) \in Nat
    BY <2>2, ListedType
  <2>4. AsRead(resources'[r], now')
    BY <2>2, <2>3 DEF AsRead
  <2>5. RequestReadings(r)'
    BY <2>1, <2>4 DEF RequestReadings
  <2> QED
    BY <1>8, <2>1, <2>5
<1>14. ASSUME NEW r \in Request, GetResource(r) PROVE Readings'
  <2>1. /\ pc[r] = "reading" /\ Unread(resources[r])
        /\ resources'[r] = WithNext(resources[r])
        /\ pc' = pc /\ items' = items /\ now' = now
        /\ \A q \in Request \ {r} : resources'[q] = resources[q]
    BY <1>1, <1>14 DEF GetResource, Core, TypeOK
  <2>2. /\ AsRead(resources[r], now) /\ resources[r].asOf <= now
        /\ now - resources[r].asOf <= MaxLag
    BY <1>1, <2>1 DEF Readings, Core, Ages, CallAges
  <2>3. AsRead(resources'[r], now')
    BY <1>1, <1>3, <2>1, <2>2, AsReadGrows
  <2>4. RequestReadings(r)'
    BY <2>1, <2>3 DEF RequestReadings
  <2> QED
    BY <1>8, <2>1, <2>4
<1>15. ASSUME NEW r \in Request, FacadeFails(r)
       PROVE  Readings'
  <2>1. /\ pc'[r] \notin {"reading", "answered"} /\ items' = items
        /\ \A q \in Request \ {r} :
             pc'[q] = pc[q] /\ resources'[q] = resources[q]
    BY <1>1, <1>15 DEF FacadeFails, Core, TypeOK
  <2> QED
    BY <1>9, <2>1
<1>16. ASSUME NEW r \in Request, Store(r) PROVE Readings'
  <2>1. /\ pc[r] = "reading" /\ pc'[r] = "answered" /\ now' = now
        /\ ~Unread(resources[r]) /\ resources' = resources
        /\ \A q \in Request \ {r} : pc'[q] = pc[q]
    BY <1>1, <1>16 DEF Store, Core, TypeOK
  <2>2. Complete(resources[r], now)
    BY <1>1, <2>1 DEF Readings, Complete
  <2>3. ASSUME NEW k \in DOMAIN items'
        PROVE  \/ k \in DOMAIN items /\ items'[k] = items[k]
               \/ items'[k].resources = resources[r]
    <3>1. CASE Bypass(asked[r])
      BY <1>16, <3>1 DEF Store
    <3>2. CASE ~Bypass(asked[r])
      <4> DEFINE id == ID(asked[r])
                 fresh == resources[r]
      <4>1. items' = Stored(items, id, fresh, now)
        BY <1>16, <3>2 DEF Store
      <4> HIDE DEF id, fresh
      <4>2. CASE k = id
        <5>1. items'[k] = [resources |-> fresh, expires |-> now + TTL]
          BY <4>1, <4>2, StoredEntry
        <5> QED
          BY <5>1 DEF fresh
      <4>3. CASE k # id
        BY <4>1, <4>3, StoredOthers
      <4> QED
        BY <4>2, <4>3
    <3> QED
      BY <3>1, <3>2
  <2>4. ASSUME NEW k \in DOMAIN items'
        PROVE  Complete(items'[k].resources, now')
    BY <1>5, <2>1, <2>2, <2>3
  <2>5. ASSUME NEW q \in Request PROVE RequestReadings(q)'
    <3>1. CASE q = r
      BY <2>1, <2>2, <3>1 DEF RequestReadings
    <3>2. CASE q # r
      BY <1>6, <2>1, <3>2
    <3> QED
      BY <3>1, <3>2
  <2> QED
    BY <2>4, <2>5 DEF Readings, RequestReadings
<1>17. ASSUME NEW r \in Request, Return(r)
       PROVE  Readings'
  <2>1. /\ pc'[r] \notin {"reading", "answered"} /\ items' = items
        /\ \A q \in Request \ {r} :
             pc'[q] = pc[q] /\ resources'[q] = resources[q]
    BY <1>1, <1>17 DEF Return, Core, TypeOK
  <2> QED
    BY <1>9, <2>1
<1>18. CASE Tick
  BY <1>7, <1>18 DEF Tick
<1>19. CASE UNCHANGED vars
  BY <1>7, <1>19 DEF vars
<1> QED
  BY <1>10, <1>11, <1>12, <1>13, <1>14, <1>15, <1>16, <1>17, <1>18, <1>19
  DEF Next, CallStep

LEMMA InitIInv == Init => IInv
<1>1. Init => Readings
  BY DEF Init, Readings
<1> QED
  BY <1>1, InitCore DEF Core, IInv

LEMMA NextIInv == IInv /\ [Next]_vars => IInv'
BY NextCore, NextReadings DEF Core, IInv

(* The inductive invariant holds of every behaviour of the cache. *)
THEOREM CacheInvariant == Spec => []IInv
BY InitIInv, NextIInv, PTL DEF Spec

(* The types of the state, for any number of requests and contracts. *)
THEOREM TypeCorrect == Spec => []TypeOK
BY CacheInvariant, PTL DEF IInv

(* No contract's resources are ever handed out, or cached, as another's. *)
THEOREM NoCrosstalk == Spec => []OwnResources
BY CacheInvariant, PTL DEF IInv

(* What is under way or cached is never older than its bound. *)
THEOREM AgesBounded == Spec => []Ages
BY CacheInvariant, PTL DEF IInv

-----------------------------------------------------------------------------

(* The one action that changes the map. *)
LEMMA OnlyStoreWrites ==
  ASSUME [Next]_vars, items' # items
  PROVE  \E r \in Request : Store(r) /\ ~Bypass(asked[r])
BY DEF Next, CallStep, vars, DataResources, LoadHit, LoadMiss, FacadeAnswers,
       GetResource, FacadeFails, Store, Return, Tick

(* What a store does to the map, in terms of the call that stores. *)
LEMMA StoreStep ==
  ASSUME IInv, NEW r \in Request, Store(r), ~Bypass(asked[r])
  PROVE  /\ items' = Stored(items, asked[r], resources[r], now)
         /\ now' = now /\ now \in Nat /\ TTL \in Nat
         /\ resources[r].asOf \in Nat
         /\ now - resources[r].asOf <= MaxLag
<1>1. asked[r] \in Contract
  BY DEF Store, IInv, Calls
<1>2. ID(asked[r]) = asked[r] /\ TTL \in Nat
  BY <1>1, StoringCall
<1> QED
  BY <1>2 DEF Store, IInv, TypeOK, Ages, CallAges, Resources

(* No step drops an entry that load would still answer, or lets it expire  *)
(* sooner.                                                                 *)
THEOREM LiveEntriesKept == Spec => KeepsLive
<1>1. IInv /\ [Next]_vars => KeepsLiveStep
  <2> SUFFICES ASSUME IInv, [Next]_vars, NEW k \in DOMAIN items,
                      items[k].expires >= now
               PROVE  /\ k \in DOMAIN items'
                      /\ items'[k].expires >= items[k].expires
    BY DEF KeepsLiveStep
  <2>1. items[k].expires \in Nat /\ now \in Nat
    BY DEF IInv, TypeOK, Entry
  <2>2. CASE items' = items
    BY <2>1, <2>2
  <2>3. CASE items' # items
    <3>1. PICK r \in Request : Store(r) /\ ~Bypass(asked[r])
      BY <2>3, OnlyStoreWrites
    <3> DEFINE c == asked[r]
               fresh == resources[r]
    <3>2. /\ items' = Stored(items, c, fresh, now)
          /\ now \in Nat /\ TTL \in Nat
      BY <3>1, StoreStep
    <3> HIDE DEF c, fresh
    <3>3. k \in DOMAIN Kept(items, now)
      BY <2>1, KeptKeepsLive DEF Expired
    <3>4. DOMAIN items' = DOMAIN Kept(items, now) \cup {c}
      BY <3>2, StoredKeys
    <3>5. CASE k = c
      <4>1. items'[k] = [resources |-> fresh, expires |-> now + TTL]
        BY <3>2, <3>5, StoredEntry
      <4>2. items[k].expires <= now + TTL
        BY DEF IInv, Ages, EntryAges
      <4> QED
        BY <2>1, <3>2, <3>3, <3>4, <4>1, <4>2
    <3>6. CASE k # c
      <4>1. items'[k] = items[k]
        BY <3>2, <3>3, <3>4, <3>6, StoredOthers
      <4> QED
        BY <2>1, <3>3, <3>4, <4>1
    <3> QED
      BY <3>5, <3>6
  <2> QED
    BY <2>2, <2>3
<1> QED
  BY <1>1, CacheInvariant, PTL DEF Spec, KeepsLive

(* A store never replaces an entry by a read more than MaxLag older. *)
THEOREM RollbacksBounded == Spec => RollbackBounded
<1>1. IInv /\ [Next]_vars => RollbackStep
  <2> SUFFICES ASSUME IInv, [Next]_vars,
                      NEW k \in DOMAIN items \cap DOMAIN items'
               PROVE  items'[k].resources.asOf
                        >= items[k].resources.asOf - MaxLag
    BY DEF RollbackStep
  <2>1. /\ items[k].resources.asOf \in Nat /\ MaxLag \in Nat
        /\ items[k].resources.asOf <= now
    BY TimeAssumption DEF IInv, TypeOK, Ages, EntryAges, Entry, Resources
  <2>2. CASE items' = items
    BY <2>1, <2>2
  <2>3. CASE items' # items
    <3>1. PICK r \in Request : Store(r) /\ ~Bypass(asked[r])
      BY <2>3, OnlyStoreWrites
    <3> DEFINE c == asked[r]
               fresh == resources[r]
    <3>2. /\ items' = Stored(items, c, fresh, now) /\ now \in Nat
          /\ fresh.asOf \in Nat /\ now - fresh.asOf <= MaxLag
      BY <3>1, StoreStep
    <3> HIDE DEF c, fresh
    <3>3. CASE k = c
      <4>1. items'[k] = [resources |-> fresh, expires |-> now + TTL]
        BY <3>2, <3>3, StoredEntry
      <4> QED
        BY <2>1, <3>2, <4>1
    <3>4. CASE k # c
      <4>1. items'[k] = items[k]
        BY <3>2, <3>4, StoredOthers
      <4> QED
        BY <2>1, <4>1
    <3> QED
      BY <3>3, <3>4
  <2> QED
    BY <2>2, <2>3
<1> QED
  BY <1>1, CacheInvariant, PTL DEF Spec, RollbackBounded

(* Past the threshold, a store leaves no expired entry behind. *)
THEOREM PastThresholdAllLive == Spec => SweepBounds
<1>1. IInv /\ [Next]_vars => SweepStep
  <2> SUFFICES ASSUME IInv, [Next]_vars, items' # items,
                      Cardinality(DOMAIN items') > SweepThreshold,
                      NEW k \in DOMAIN items'
               PROVE  items'[k].expires >= now
    BY DEF SweepStep
  <2>1. PICK r \in Request : Store(r) /\ ~Bypass(asked[r])
    BY OnlyStoreWrites
  <2> DEFINE c == asked[r]
             fresh == resources[r]
  <2>2. /\ items' = Stored(items, c, fresh, now)
        /\ now \in Nat /\ TTL \in Nat
    BY <2>1, StoreStep
  <2> HIDE DEF c, fresh
  <2>3. DOMAIN items' = DOMAIN Kept(items, now) \cup {c}
    BY <2>2, StoredKeys
  <2>4. Cardinality(DOMAIN items) >= SweepThreshold
    <3> SUFFICES ASSUME ~(Cardinality(DOMAIN items) >= SweepThreshold)
                 PROVE  FALSE
      OBVIOUS
    <3>1. DOMAIN items' = DOMAIN items \cup {c}
      BY <2>3 DEF Kept
    <3>2. IsFiniteSet(DOMAIN items)
      BY DEF IInv, TypeOK
    <3>3. Cardinality(DOMAIN items) \in Nat
      BY <3>2, FS_CardinalityType
    <3>4. Cardinality(DOMAIN items \cup {c}) =
            IF c \in DOMAIN items THEN Cardinality(DOMAIN items)
                                  ELSE Cardinality(DOMAIN items) + 1
      BY <3>2, FS_AddElement
    <3> QED
      BY <3>1, <3>3, <3>4, ThresholdAssumption
  <2>5. CASE k = c
    <3>1. items'[k] = [resources |-> fresh, expires |-> now + TTL]
      BY <2>2, <2>5, StoredEntry
    <3> QED
      BY <2>2, <3>1
  <2>6. CASE k # c
    <3>1. k \in DOMAIN items /\ items'[k] = items[k]
      BY <2>2, <2>6, StoredOthers
    <3>2. k \in DOMAIN SweepExpired(items, now)
      BY <2>3, <2>4, <2>6 DEF Kept
    <3>3. ~Expired(items[k], now)
      BY <3>2 DEF SweepExpired, Restrict
    <3>4. items[k].expires \in Nat
      BY <3>1 DEF IInv, TypeOK, Entry
    <3> QED
      BY <2>2, <3>1, <3>3, <3>4 DEF Expired
  <2> QED
    BY <2>5, <2>6
<1> QED
  BY <1>1, CacheInvariant, PTL DEF Spec, SweepBounds

-----------------------------------------------------------------------------
(* The cache implements the lookup it decorates. *)

LEMMA InitRefines == Init => Lookup!Init
<1> SUFFICES ASSUME Init PROVE Lookup!Init
  OBVIOUS
<1>1. LookupPC = [r \in Request |-> "idle"]
  BY DEF Init, LookupPC
<1>2. LookupAnswer = [r \in Request |-> NoResources]
  BY DEF Init, LookupAnswer
<1> QED
  BY <1>1, <1>2 DEF Init, Lookup!Init, Lookup!NoResources, NoResources

(* A step that moves one request to a phase of its call, and changes only  *)
(* what that request carries, moves that request only in the lookup.       *)
LEMMA MappedStep ==
  ASSUME IInv, NEW r \in Request, NEW to,
         pc' = [pc EXCEPT ![r] = to],
         \A q \in Request \ {r} : resources'[q] = resources[q]
  PROVE  /\ LookupPC' =
              [LookupPC EXCEPT ![r] =
                 IF to \in {"loading", "fetching", "reading"}
                   THEN "asked" ELSE to]
         /\ LookupAnswer' =
              [LookupAnswer EXCEPT ![r] =
                 IF to = "answered" THEN resources'[r] ELSE NoResources]
<1>1. pc'[r] = to /\ \A q \in Request \ {r} : pc'[q] = pc[q]
  BY DEF IInv, TypeOK
<1>2. LookupPC' =
        [LookupPC EXCEPT ![r] =
           IF to \in {"loading", "fetching", "reading"}
             THEN "asked" ELSE to]
  BY <1>1 DEF LookupPC
<1>3. LookupAnswer' =
        [LookupAnswer EXCEPT ![r] =
           IF to = "answered" THEN resources'[r] ELSE NoResources]
  BY <1>1 DEF LookupAnswer
<1> QED
  BY <1>2, <1>3

(* A complete reading is one of the findings the lookup may answer.        *)
LEMMA ReadingIsFinding ==
  ASSUME IInv, NEW read \in Resources, read.of \in Contract,
         Complete(read, now)
  PROVE  /\ read = [of |-> read.of, asOf |-> read.asOf,
                    got |-> Len(Listed(read)), pii |-> read.pii]
         /\ read.pii \in Lookup!Findings(Listed(read), read.asOf)
<1> DEFINE n == Len(Listed(read))
<1>1. read.got \in Nat /\ n \in Nat /\ read.asOf \in Nat /\ now \in Nat
  BY ListedType DEF Resources, IInv, TypeOK
<1>2. read.got = n
  BY <1>1 DEF Complete, AsRead, Unread
<1>3. read.pii \in SUBSET (1 .. n)
  BY <1>2 DEF Complete, AsRead
<1>4. ASSUME NEW i \in 1 .. n
      PROVE  \E u \in read.asOf .. now :
               /\ u - read.asOf <= MaxLag
               /\ i \in read.pii <=> u \in Declared[Listed(read)[i]]
  BY <1>2 DEF Complete, AsRead, Window
<1>5. read.pii \in Lookup!Findings(Listed(read), read.asOf)
  BY <1>3, <1>4 DEF Lookup!Findings
<1> QED
  BY <1>2, <1>5 DEF Resources

(* A complete answer of the right contract and age is one of the lookup.   *)
LEMMA MappedAnswer ==
  ASSUME IInv, NEW r \in Request, asked[r] \in Contract,
         LookupPC[r] = "asked", asked' = asked, now' = now,
         pc' = [pc EXCEPT ![r] = "answered"],
         \A q \in Request \ {r} : resources'[q] = resources[q],
         resources'[r] \in Resources,
         resources'[r].of = asked[r],
         Complete(resources'[r], now),
         resources'[r].asOf <= now,
         now - resources'[r].asOf <= Lifetime + MaxLag
  PROVE  Lookup!Answer(r)
<1>1. /\ LookupPC' = [LookupPC EXCEPT ![r] = "answered"]
      /\ LookupAnswer' = [LookupAnswer EXCEPT ![r] = resources'[r]]
  BY MappedStep
<1> DEFINE t == resources'[r].asOf
           listed == Offers[asked[r]][t]
           found == resources'[r].pii
<1>2. t \in 0 .. now
  BY DEF Resources, IInv, TypeOK
<1>3. Listed(resources'[r]) = listed
  BY DEF Listed
<1>4. /\ resources'[r] = [of |-> asked[r], asOf |-> t,
                          got |-> Len(listed), pii |-> found]
      /\ found \in Lookup!Findings(listed, t)
  BY <1>3, ReadingIsFinding
<1> HIDE DEF t, listed, found
<1>5. \E f \in Lookup!Findings(listed, t) :
        LookupAnswer' = [LookupAnswer EXCEPT ![r] =
                           [of |-> asked[r], asOf |-> t,
                            got |-> Len(listed), pii |-> f]]
  BY <1>1, <1>4
<1>6. now - t <= Lifetime + MaxLag
  BY DEF t
<1>7. \E u \in 0 .. now :
        /\ now - u <= Lifetime + MaxLag
        /\ \E f \in Lookup!Findings(Offers[asked[r]][u], u) :
             LookupAnswer' = [LookupAnswer EXCEPT ![r] =
                                [of |-> asked[r], asOf |-> u,
                                 got |-> Len(Offers[asked[r]][u]),
                                 pii |-> f]]
  BY <1>2, <1>5, <1>6 DEF listed
<1> QED
  BY <1>1, <1>7 DEF Lookup!Answer

LEMMA NextRefines == IInv /\ [Next]_vars => [Lookup!Next]_(Lookup!vars)
<1> SUFFICES ASSUME IInv, [Next]_vars PROVE [Lookup!Next]_(Lookup!vars)
  OBVIOUS
<1> USE LifetimeType
<1>1. ASSUME NEW r \in Request, NEW c \in Contract, DataResources(r, c)
      PROVE  Lookup!Ask(r, c)
  <2>1. /\ LookupPC[r] = "idle"
        /\ LookupAnswer' = LookupAnswer
    BY <1>1 DEF DataResources, LookupPC, LookupAnswer, IInv, TypeOK
  <2>2. LookupPC' = [LookupPC EXCEPT ![r] = "asked"]
    BY <1>1 DEF DataResources, LookupPC, IInv, TypeOK
  <2> QED
    BY <1>1, <2>1, <2>2 DEF DataResources, Lookup!Ask
<1>2. ASSUME NEW r \in Request, LoadHit(r)
      PROVE  Lookup!Answer(r)
  <2>1. /\ asked[r] \in Contract /\ ~Bypass(asked[r])
        /\ ID(asked[r]) = asked[r] /\ asked[r] # Nil /\ TTL \in Nat
        /\ ~(TTL <= 0)
    BY <1>2, StoringCall, NilAssumption DEF LoadHit, IInv, Calls
  <2>2. /\ asked[r] \in DOMAIN items
        /\ ~Expired(items[asked[r]], now)
        /\ resources' =
             [resources EXCEPT ![r] = items[asked[r]].resources]
    BY <1>2, <2>1 DEF LoadHit, Hit
  <2>3. resources'[r] = items[asked[r]].resources
    BY <2>2 DEF IInv, TypeOK
  <2>4. /\ items[asked[r]].resources \in Resources
        /\ items[asked[r]].resources.asOf \in Nat
        /\ items[asked[r]].expires \in Nat /\ now \in Nat
    BY <2>2 DEF IInv, TypeOK, Entry, Resources
  <2>5. /\ items[asked[r]].resources.of = asked[r]
        /\ items[asked[r]].resources.asOf <= now
        /\ items[asked[r]].expires - items[asked[r]].resources.asOf
             <= TTL + MaxLag
    BY <2>1, <2>2 DEF IInv, OwnResources, Ages, EntryAges
  <2>6. now - items[asked[r]].resources.asOf <= Lifetime + MaxLag
    BY <2>1, <2>2, <2>4, <2>5 DEF Expired
  <2>7. /\ LookupPC[r] = "asked"
        /\ pc' = [pc EXCEPT ![r] = "answered"]
        /\ asked' = asked /\ now' = now
        /\ \A q \in Request \ {r} : resources'[q] = resources[q]
    BY <1>2, <2>2 DEF LoadHit, LookupPC, IInv, TypeOK
  <2>8. Complete(items[asked[r]].resources, now)
    BY <2>2 DEF IInv, Readings
  <2> QED
    BY <2>1, <2>3, <2>4, <2>5, <2>6, <2>7, <2>8, MappedAnswer
<1>3. ASSUME NEW r \in Request, LoadMiss(r) PROVE UNCHANGED Lookup!vars
  <2>1. LookupPC' = LookupPC /\ LookupAnswer' = LookupAnswer
    BY <1>3 DEF LoadMiss, LookupPC, LookupAnswer, IInv, TypeOK
  <2> QED
    BY <1>3, <2>1 DEF LoadMiss, Lookup!vars
<1>4. ASSUME NEW r \in Request, FacadeAnswers(r)
      PROVE  UNCHANGED Lookup!vars
  <2>1. LookupPC' = LookupPC /\ LookupAnswer' = LookupAnswer
    BY <1>4 DEF FacadeAnswers, LookupPC, LookupAnswer, IInv, TypeOK
  <2> QED
    BY <1>4, <2>1 DEF FacadeAnswers, Lookup!vars
<1>5. ASSUME NEW r \in Request, FacadeFails(r) PROVE Lookup!Fail(r)
  <2>1. LookupPC[r] = "asked" /\ LookupAnswer' = LookupAnswer
    BY <1>5 DEF FacadeFails, Fetching, LookupPC, LookupAnswer, IInv, TypeOK
  <2>2. LookupPC' = [LookupPC EXCEPT ![r] = "failed"]
    BY <1>5 DEF FacadeFails, LookupPC, IInv, TypeOK
  <2> QED
    BY <1>5, <2>1, <2>2 DEF FacadeFails, Lookup!Fail
<1>6. ASSUME NEW r \in Request, Store(r) PROVE Lookup!Answer(r)
  <2>1. /\ LookupPC[r] = "asked"
        /\ pc' = [pc EXCEPT ![r] = "answered"]
        /\ asked' = asked /\ now' = now /\ resources' = resources
    BY <1>6 DEF Store, LookupPC
  <2>2. /\ resources[r] \in Resources /\ resources[r].of = asked[r]
        /\ resources[r].asOf <= now /\ now - resources[r].asOf <= MaxLag
        /\ resources[r].asOf \in Nat /\ now \in Nat
    BY <1>6 DEF Store, IInv, TypeOK, OwnResources, Ages, CallAges, Resources
  <2>3. now - resources[r].asOf <= Lifetime + MaxLag
    BY <2>2
  <2>4. Complete(resources[r], now) /\ asked[r] \in Contract
    BY <1>6 DEF Store, IInv, Readings, Complete, Calls
  <2> QED
    BY <2>1, <2>2, <2>3, <2>4, MappedAnswer
<1>7. ASSUME NEW r \in Request, Return(r) PROVE Lookup!Return(r)
  <2>1. LookupPC[r] \in {"answered", "failed"}
    BY <1>7 DEF Return, LookupPC
  <2>2. LookupPC' = [LookupPC EXCEPT ![r] = "idle"]
    BY <1>7 DEF Return, LookupPC, IInv, TypeOK
  <2>3. LookupAnswer' = [LookupAnswer EXCEPT ![r] = NoResources]
    BY <1>7 DEF Return, LookupAnswer, IInv, TypeOK
  <2> QED
    BY <1>7, <2>1, <2>2, <2>3
    DEF Return, Lookup!Return, Lookup!NoResources, NoResources
<1>8. ASSUME Tick PROVE Lookup!Tick
  <2>1. LookupPC' = LookupPC /\ LookupAnswer' = LookupAnswer
    BY <1>8 DEF Tick, LookupPC, LookupAnswer
  <2> QED
    BY <1>8, <2>1 DEF Tick, Lookup!Tick
<1>9. ASSUME UNCHANGED vars PROVE UNCHANGED Lookup!vars
  BY <1>9 DEF vars, Lookup!vars, LookupPC, LookupAnswer
<1>10. ASSUME NEW r \in Request, GetResource(r)
      PROVE  UNCHANGED Lookup!vars
  <2>1. LookupPC' = LookupPC /\ LookupAnswer' = LookupAnswer
    BY <1>10 DEF GetResource, LookupPC, LookupAnswer, IInv, TypeOK
  <2> QED
    BY <1>10, <2>1 DEF GetResource, Lookup!vars
<1> QED
  BY <1>1, <1>2, <1>3, <1>4, <1>5, <1>6, <1>7, <1>8, <1>9, <1>10
  DEF Next, CallStep, Lookup!Next

(* Every answer is about the contract asked for and at most a TTL and a    *)
(* fetch old: the cache keeps the promise of the interface.                *)
THEOREM CacheKeepsPromise == Spec => LookupSpec
BY InitRefines, NextRefines, CacheInvariant, PTL
   DEF Spec, LookupSpec, Lookup!Spec

=============================================================================
