---------------------------- MODULE ServingProofs ---------------------------
(***************************************************************************)
(* The mutex, the label sets and the monotony of the counters, for any     *)
(* number of concurrent requests, any inputs, error messages and durations,*)
(* and any cap.                                                            *)
(***************************************************************************)
EXTENDS Serving, FiniteSetTheorems, TLAPS

(* The maps of the metrics count: every entry of a bag is positive, every  *)
(* bucket a number.                                                        *)
Counts ==
  /\ IsABag(requests)
  /\ IsABag(failures)
  /\ IsABag(requestCount)
  /\ \A route \in DOMAIN bucketCounts :
       bucketCounts[route] \in [DOMAIN Bounds -> Nat]

(* The resolver's errors, and that one waits to be counted where it says.  *)
Causes ==
  /\ cause \in [Request -> [prefix : Prefix \cup {"", Nil},
                            badRequest : BOOLEAN]]
  /\ \A r \in Request :
       pc[r] = "failed" => cause[r].prefix \in Prefix \cup {""}

(* The classes counted are those of messages, and without the overflow     *)
(* class they are within the cap.                                          *)
Classes ==
  /\ BagToSet(failures) \subseteq Prefix \cup {Unspecified, Overflow}
  /\ IsFiniteSet(BagToSet(failures))
  /\ Cardinality(BagToSet(failures) \ {Overflow}) <= MaxFailureClasses

ServingInv == TypeOK /\ Causes /\ Counts /\ Classes

-----------------------------------------------------------------------------
(* Counters *)

(* One more occurrence leaves a bag a bag, with every count at least as    *)
(* high.                                                                   *)
LEMMA AddOne ==
  ASSUME NEW bag, IsABag(bag), NEW x
  PROVE  /\ IsABag(Increment(bag, x))
         /\ BagToSet(Increment(bag, x)) = BagToSet(bag) \cup {x}
         /\ bag \sqsubseteq Increment(bag, x)
  BY DEF IsABag, Increment, BagToSet, SetToBag, (+), \sqsubseteq

LEMMA SameBag == ASSUME NEW bag, IsABag(bag) PROVE bag \sqsubseteq bag
  BY DEF IsABag, \sqsubseteq

(* What a step of the metrics may do to the counters. *)
Grown ==
  /\ requests \sqsubseteq requests'
  /\ failures \sqsubseteq failures'
  /\ requestCount \sqsubseteq requestCount'
  /\ \A route \in DOMAIN bucketCounts :
       \A i \in DOMAIN Bounds :
         bucketCounts[route][i] <= bucketCounts'[route][i]

LEMMA SameCounters ==
  ASSUME Counts, UNCHANGED counters PROVE Counts' /\ Grown
<1>1. Counts'
  BY DEF Counts, counters
<1>2. \A route \in DOMAIN bucketCounts : \A i \in DOMAIN Bounds :
        bucketCounts[route][i] \in Nat
  BY DEF Counts
<1> QED BY <1>1, <1>2, SameBag DEF Counts, Grown, counters

LEMMA ObserveGrows ==
  ASSUME Counts, NEW route, NEW status, NEW seconds,
         Observe(route, status, seconds)
  PROVE  Counts' /\ Grown /\ failures' = failures
<1>1. /\ IsABag(requests') /\ requests \sqsubseteq requests'
      /\ IsABag(requestCount') /\ requestCount \sqsubseteq requestCount'
      /\ failures' = failures
  BY AddOne DEF Counts, Observe
<1>2. \A x : Buckets(x) \in [DOMAIN Bounds -> Nat]
  BY DEF Buckets, Counts
<1>3. bucketCounts' = [x \in DOMAIN bucketCounts \cup {route} |->
        [i \in DOMAIN Bounds |->
           Buckets(x)[i]
             + (IF x = route /\ seconds <= Bounds[i] THEN 1 ELSE 0)]]
  BY DEF Observe
<1>4. \A x \in DOMAIN bucketCounts' :
        /\ bucketCounts'[x] \in [DOMAIN Bounds -> Nat]
        /\ \A i \in DOMAIN Bounds : Buckets(x)[i] <= bucketCounts'[x][i]
  <2> SUFFICES ASSUME NEW x \in DOMAIN bucketCounts'
               PROVE  /\ bucketCounts'[x] \in [DOMAIN Bounds -> Nat]
                      /\ \A i \in DOMAIN Bounds :
                           Buckets(x)[i] <= bucketCounts'[x][i]
    OBVIOUS
  <2>1. bucketCounts'[x] = [i \in DOMAIN Bounds |->
          Buckets(x)[i] + (IF x = route /\ seconds <= Bounds[i] THEN 1 ELSE 0)]
    BY <1>3
  <2>2. \A i \in DOMAIN Bounds : Buckets(x)[i] \in Nat
    BY <1>2
  <2>3. \A i \in DOMAIN Bounds :
          /\ bucketCounts'[x][i] \in Nat
          /\ Buckets(x)[i] <= bucketCounts'[x][i]
    BY <2>1, <2>2
  <2> QED BY <2>1, <2>3
<1>5. \A x \in DOMAIN bucketCounts :
        x \in DOMAIN bucketCounts' /\ Buckets(x) = bucketCounts[x]
  BY <1>3 DEF Buckets
<1>6. Counts'
  BY <1>1, <1>4 DEF Counts
<1>7. failures \sqsubseteq failures'
  BY <1>1, SameBag DEF Counts
<1>8. Grown
  <2>1. \A x \in DOMAIN bucketCounts : \A i \in DOMAIN Bounds :
          bucketCounts[x][i] <= bucketCounts'[x][i]
    BY <1>4, <1>5
  <2> QED BY <1>1, <1>7, <2>1 DEF Grown
<1> QED BY <1>1, <1>6, <1>8

(* A set within the cap, but for one element, stays so if what is added is *)
(* known, is that element, or finds the set below the cap.                 *)
LEMMA WithinCap ==
  ASSUME NEW known, IsFiniteSet(known), NEW class, NEW overflow,
         NEW cap \in Nat, Cardinality(known \ {overflow}) <= cap,
         class \in known \/ class = overflow \/ Cardinality(known) < cap
  PROVE  /\ IsFiniteSet(known \cup {class})
         /\ Cardinality((known \cup {class}) \ {overflow}) <= cap
<1> DEFINE rest == known \ {overflow}
<1>1. IsFiniteSet(known \cup {class})
  BY FS_AddElement
<1>2. IsFiniteSet(rest) /\ Cardinality(rest) <= Cardinality(known)
  BY FS_Subset
<1>3. Cardinality(known) \in Nat /\ Cardinality(rest) \in Nat
  BY <1>2, FS_CardinalityType
<1>4. Cardinality((known \cup {class}) \ {overflow}) <= cap
  <2>1. CASE class \in known \/ class = overflow
    <3>1. (known \cup {class}) \ {overflow} = rest
      BY <2>1
    <3> QED BY <3>1
  <2>2. CASE class \notin known /\ class # overflow
    <3>1. (known \cup {class}) \ {overflow} = rest \cup {class}
      BY <2>2
    <3>2. Cardinality(rest \cup {class}) = Cardinality(rest) + 1
      BY <1>2, <2>2, FS_AddElement
    <3> HIDE DEF rest
    <3> QED BY <1>2, <1>3, <2>2, <3>1, <3>2
  <2> QED BY <2>1, <2>2
<1> QED BY <1>1, <1>4

(* The cap: a class that is new is counted as itself below it and under the*)
(* overflow class at it.                                                   *)
LEMMA FailureCounted ==
  ASSUME Counts, Classes, NEW class \in Prefix \cup {Unspecified},
         ObserveFailure(class)
  PROVE  /\ Counts' /\ Grown
         /\ BagToSet(failures') \subseteq Prefix \cup {Unspecified, Overflow}
         /\ IsFiniteSet(BagToSet(failures'))
         /\ Cardinality(BagToSet(failures') \ {Overflow})
              <= MaxFailureClasses
<1> DEFINE known == BagToSet(failures)
           counted == CountedClass(class)
           rest == known \ {Overflow}
<1>1. /\ failures' = Increment(failures, counted)
      /\ UNCHANGED <<requests, bucketCounts, requestCount>>
  BY DEF ObserveFailure
<1>2. /\ IsABag(failures') /\ failures \sqsubseteq failures'
      /\ BagToSet(failures') = known \cup {counted}
  BY <1>1, AddOne DEF Counts
<1>3. Counts'
  BY <1>1, <1>2 DEF Counts
<1>4. Grown
  <2>1. \A route \in DOMAIN bucketCounts : \A i \in DOMAIN Bounds :
          bucketCounts[route][i] \in Nat
    BY DEF Counts
  <2> QED BY <1>1, <1>2, <2>1, SameBag DEF Counts, Grown
<1>5. /\ IsFiniteSet(known)
      /\ Cardinality(rest) <= MaxFailureClasses
  BY DEF Classes
<1>6. \/ counted \in known
      \/ counted = Overflow
      \/ Cardinality(known) < MaxFailureClasses
  <2>1. Cardinality(known) \in Nat
    BY <1>5, FS_CardinalityType
  <2> QED BY <2>1, CapAssumption DEF CountedClass
<1>7. counted \in Prefix \cup {Unspecified, Overflow}
  BY DEF CountedClass
<1>8. /\ IsFiniteSet(known \cup {counted})
      /\ Cardinality((known \cup {counted}) \ {Overflow})
           <= MaxFailureClasses
  BY <1>5, <1>6, WithinCap, CapAssumption
<1>9. known \subseteq Prefix \cup {Unspecified, Overflow}
  BY DEF Classes
<1> HIDE DEF known, counted
<1> QED BY <1>2, <1>3, <1>4, <1>7, <1>8, <1>9
-----------------------------------------------------------------------------
(* Requests and the mutex *)

(* A step of a handler that leaves the metrics alone.                      *)
LEMMA HandleStep ==
  ASSUME TypeOK, Causes, NEW r \in Request,
         Handle(r) \/ \E i \in Input : Arrive(r, i)
  PROVE  TypeOK' /\ Causes' /\ UNCHANGED metricsVars
<1>1. CASE \E i \in Input : Arrive(r, i)
  <2>1. PICK i \in Input : Arrive(r, i)
    BY <1>1
  <2>2. /\ pc[r] = "idle"
        /\ pc' = [pc EXCEPT ![r] = "serving"]
        /\ input' = [input EXCEPT ![r] = i]
        /\ UNCHANGED <<metricsVars, cause, sent, recorder, elapsed>>
    BY <2>1 DEF Arrive, Goto
  <2>3. UNCHANGED mu
    BY <2>2 DEF metricsVars
  <2>4. /\ pc' \in [Request -> Label]
        /\ input' \in [Request -> Input \cup {NoInput}]
    BY <2>2 DEF TypeOK, Label
  <2>5. \A q \in Request : mu' = q <=>
          pc'[q] \in {"requests", "durations", "failures", "scraped"}
    BY <2>2, <2>3 DEF TypeOK
  <2>6. Causes'
    BY <2>2 DEF TypeOK, Causes
  <2> QED BY <2>2, <2>3, <2>4, <2>5, <2>6 DEF TypeOK
<1>2. ASSUME NEW status \in Status, Refuse(r, status),
             pc[r] \in {"serving", "admitted", "logged"}
      PROVE  TypeOK' /\ Causes' /\ UNCHANGED metricsVars
  <2>1. /\ pc' = [pc EXCEPT ![r] = "served"]
        /\ recorder' = [recorder EXCEPT ![r] = status]
        /\ sent' = [sent EXCEPT ![r] = IF @ = 0 THEN status ELSE @]
        /\ UNCHANGED <<metricsVars, input, cause, elapsed>>
    BY <1>2 DEF Refuse, WriteHeader, Goto
  <2>2. UNCHANGED mu
    BY <2>1 DEF metricsVars
  <2>3. pc' \in [Request -> Label]
    BY <2>1 DEF TypeOK, Label
  <2>4. \A q \in Request : mu' = q <=>
          pc'[q] \in {"requests", "durations", "failures", "scraped"}
    BY <1>2, <2>1, <2>2 DEF TypeOK
  <2>5. /\ recorder' \in [Request -> Status \cup {0}]
        /\ sent' \in [Request -> Status \cup {0}]
    BY <2>1 DEF TypeOK
  <2>6. Causes'
    BY <2>1 DEF TypeOK, Causes
  <2> QED BY <2>1, <2>2, <2>3, <2>4, <2>5, <2>6 DEF TypeOK
<1>3. CASE Health(r)
  BY <1>2, <1>3 DEF Health, Serves, Status
<1>4. CASE WrongMethod(r)
  BY <1>2, <1>4 DEF WrongMethod, Serves, Status
<1>5. CASE Unauthorized(r)
  BY <1>2, <1>5 DEF Unauthorized, Serves, Status
<1>6. CASE Admit(r)
  <2>1. /\ pc[r] = "serving"
        /\ pc' = [pc EXCEPT ![r] = "admitted"]
        /\ UNCHANGED <<metricsVars, input, cause, sent, recorder, elapsed>>
    BY <1>6 DEF Admit, Serves, Goto
  <2>2. UNCHANGED mu
    BY <2>1 DEF metricsVars
  <2>3. pc' \in [Request -> Label]
    BY <2>1 DEF TypeOK, Label
  <2>4. \A q \in Request : mu' = q <=>
          pc'[q] \in {"requests", "durations", "failures", "scraped"}
    BY <2>1, <2>2 DEF TypeOK
  <2>5. Causes'
    BY <2>1 DEF TypeOK, Causes
  <2> QED BY <2>1, <2>2, <2>3, <2>4, <2>5 DEF TypeOK
<1>7. CASE RejectBody(r)
  <2>1. pc[r] = "admitted" /\ (Refuse(r, 413) \/ Refuse(r, 400))
    BY <1>7 DEF RejectBody
  <2>2. 413 \in Status /\ 400 \in Status
    BY DEF Status
  <2> QED BY <1>2, <2>1, <2>2
<1>8. CASE Resolves(r)
  BY <1>2, <1>8 DEF Resolves, Status
<1>9. CASE ResolveFails(r)
  <2>1. TypeOK' /\ UNCHANGED metricsVars
    BY <1>9 DEF TypeOK, ResolveFails, Goto, Label, metricsVars
  <2>2. Causes'
    <3>1. PICK prefix \in Prefix \cup {""}, badRequest \in BOOLEAN :
            cause' = [cause EXCEPT ![r] =
                        [prefix |-> prefix, badRequest |-> badRequest]]
      BY <1>9 DEF ResolveFails
    <3>2. pc' = [pc EXCEPT ![r] = "failed"]
      BY <1>9 DEF ResolveFails, Goto
    <3>3. [prefix |-> prefix, badRequest |-> badRequest]
            \in [prefix : Prefix \cup {"", Nil}, badRequest : BOOLEAN]
      BY <3>1
    <3>4. cause' \in [Request -> [prefix : Prefix \cup {"", Nil},
                                 badRequest : BOOLEAN]]
      BY <3>1, <3>3 DEF Causes
    <3>5. ASSUME NEW q \in Request, pc'[q] = "failed"
          PROVE  cause'[q].prefix \in Prefix \cup {""}
      <4>1. CASE q = r
        BY <3>1, <4>1 DEF Causes
      <4>2. CASE q # r
        BY <3>1, <3>2, <3>5, <4>2 DEF TypeOK, Causes
      <4> QED BY <4>1, <4>2
    <3> QED BY <3>4, <3>5 DEF Causes
  <2> QED BY <2>1, <2>2
<1>10. CASE AnswerFailure(r)
  <2>1. pc[r] = "logged" /\ (Refuse(r, 400) \/ Refuse(r, 422))
    BY <1>10 DEF AnswerFailure
  <2>2. 400 \in Status /\ 422 \in Status
    BY DEF Status
  <2> QED BY <1>2, <2>1, <2>2
<1> QED BY <1>1, <1>3, <1>4, <1>5, <1>6, <1>7, <1>8, <1>9, <1>10 DEF Handle

(* A step of a scrape: the mutex is held from the first to the last.       *)
LEMMA ScrapeStep ==
  ASSUME TypeOK, Causes, NEW r \in Request, Scrape(r) \/ StartScrape(r)
  PROVE  TypeOK' /\ Causes' /\ UNCHANGED counters
<1>1. CASE StartScrape(r)
  BY <1>1, NobodyAssumption
  DEF TypeOK, Causes, StartScrape, LockForWrite, Serves, Goto, Label
<1>2. CASE ScrapeRequests(r)
  <2>1. /\ pc[r] = "requests"
        /\ pc' = [pc EXCEPT ![r] = "durations"]
        /\ UNCHANGED <<input, cause, elapsed, counters, mu>>
        /\ recorder' = [recorder EXCEPT ![r] = 200]
        /\ sent' = [sent EXCEPT ![r] = IF @ = 0 THEN 200 ELSE @]
    BY <1>2 DEF ScrapeRequests, PrintRequests, Printf, WriteHeader, Goto
  <2>2. /\ pc' \in [Request -> Label]
        /\ \A q \in Request : mu' = q <=>
             pc'[q] \in {"requests", "durations", "failures", "scraped"}
    BY <2>1 DEF TypeOK, Label
  <2>3. /\ recorder' \in [Request -> Status \cup {0}]
        /\ sent' \in [Request -> Status \cup {0}]
    BY <2>1 DEF TypeOK, Status
  <2>4. Causes'
    BY <2>1 DEF TypeOK, Causes
  <2> QED BY <2>1, <2>2, <2>3, <2>4 DEF TypeOK
<1>3. CASE ScrapeDurations(r)
  BY <1>3 DEF TypeOK, Causes, ScrapeDurations, PrintDurations, Printf,
              Goto, Label
<1>4. CASE ScrapeFailures(r)
  BY <1>4 DEF TypeOK, Causes, ScrapeFailures, PrintFailures, Printf,
              Goto, Label
<1>5. CASE EndScrape(r)
  BY <1>5, NobodyAssumption
  DEF TypeOK, Causes, EndScrape, Unlock, Goto, Label
<1> QED BY <1>1, <1>2, <1>3, <1>4, <1>5 DEF Scrape

LEMMA SameClasses ==
  ASSUME Classes, failures' = failures PROVE Classes'
  BY DEF Classes

-----------------------------------------------------------------------------

LEMMA InitStep == Init => ServingInv
<1> SUFFICES ASSUME Init PROVE ServingInv
  OBVIOUS
<1>1. BagToSet(failures) = {}
  BY DEF Init, MetricsInit, EmptyBag, SetToBag, BagToSet
<1>2. Classes
  BY <1>1, FS_EmptySet, CapAssumption DEF Classes
<1>3. Counts
  BY DEF Init, MetricsInit, EmptyBag, SetToBag, Counts, IsABag
<1>4. TypeOK
  BY NobodyAssumption DEF Init, MetricsInit, TypeOK, Label
<1>5. Causes
  BY DEF Init, Causes, NoError
<1> QED BY <1>2, <1>3, <1>4, <1>5 DEF ServingInv

(* Every step keeps the invariant, and no counter goes back in it.         *)
LEMMA NextStep ==
  ASSUME ServingInv, [Next]_vars PROVE ServingInv' /\ Grown
<1> USE DEF ServingInv
<1>1. ASSUME NEW r \in Request, Handle(r) \/ \E i \in Input : Arrive(r, i)
      PROVE  ServingInv' /\ Grown
  <2>1. TypeOK' /\ Causes' /\ UNCHANGED metricsVars
    BY <1>1, HandleStep
  <2>2. UNCHANGED counters /\ failures' = failures
    BY <2>1 DEF metricsVars, counters
  <2> QED BY <2>1, <2>2, SameCounters, SameClasses
<1>2. ASSUME NEW r \in Request, Scrape(r) \/ StartScrape(r)
      PROVE  ServingInv' /\ Grown
  <2>1. TypeOK' /\ Causes' /\ UNCHANGED counters
    BY <1>2, ScrapeStep
  <2>2. failures' = failures
    BY <2>1 DEF counters
  <2> QED BY <2>1, <2>2, SameCounters, SameClasses
<1>3. ASSUME NEW r \in Request, CountFailure(r) PROVE ServingInv' /\ Grown
  <2>1. TypeOK' /\ Causes'
    BY <1>3 DEF TypeOK, Causes, CountFailure, ObserveFailure, Goto, Label
  <2>2. ErrorClass(cause[r]) \in Prefix \cup {Unspecified}
    BY <1>3 DEF Causes, CountFailure, ErrorClass
  <2>3. ObserveFailure(ErrorClass(cause[r]))
    BY <1>3 DEF CountFailure
  <2> QED BY <2>1, <2>2, <2>3, FailureCounted DEF Classes
<1>4. ASSUME NEW r \in Request, Count(r) PROVE ServingInv' /\ Grown
  <2>1. PICK seconds \in Seconds :
          /\ Observe(input[r].route,
                     IF recorder[r] = 0 THEN 200 ELSE recorder[r], seconds)
          /\ elapsed' = [elapsed EXCEPT ![r] = seconds]
    BY <1>4 DEF Count
  <2>2. TypeOK' /\ Causes'
    BY <1>4, <2>1 DEF TypeOK, Causes, Count, Observe, Goto, Label
  <2>3. Counts' /\ Grown /\ failures' = failures
    BY <2>1, ObserveGrows
  <2> QED BY <2>2, <2>3, SameClasses
<1>5. CASE UNCHANGED vars
  <2>1. UNCHANGED counters /\ failures' = failures /\ TypeOK' /\ Causes'
    BY <1>5 DEF vars, metricsVars, requestVars, counters, TypeOK, Causes
  <2> QED BY <2>1, SameCounters, SameClasses
<1> QED BY <1>1, <1>2, <1>3, <1>4, <1>5 DEF Next, Acquire

(* Every state of the HTTP binding satisfies the invariant.                *)
THEOREM ServingInvariant == Spec => []ServingInv
<1>1. ServingInv /\ [Next]_vars => ServingInv'
  BY NextStep
<1> QED BY <1>1, InitStep, PTL DEF Spec

(* The types, and that the mutex is held by the one scrape that is being   *)
(* written: no two scrapers, and nobody after the page, its write failed   *)
(* or not.                                                                 *)
THEOREM ServingTypes == Spec => []TypeOK
<1>1. ServingInv => TypeOK
  BY DEF ServingInv
<1> QED BY <1>1, ServingInvariant, PTL

(* Whatever resolvers say in their errors, the failure labels are theirs,  *)
(* the one for messages without a prefix and the overflow class, and never *)
(* more than the cap and one.                                              *)
THEOREM ClassLabelsBounded == Spec => []ClassesBounded
<1>1. ASSUME ServingInv PROVE ClassesBounded
  <2> DEFINE known == BagToSet(failures)
             rest == known \ {Overflow}
  <2>1. /\ IsFiniteSet(known)
        /\ Cardinality(rest) <= MaxFailureClasses
        /\ known \subseteq Prefix \cup {Unspecified, Overflow}
    BY <1>1 DEF ServingInv, Classes
  <2>2. IsFiniteSet(rest)
    BY <2>1, FS_Subset
  <2>3. Cardinality(rest \cup {Overflow}) = Cardinality(rest) + 1
    BY <2>2, FS_AddElement
  <2>4. /\ IsFiniteSet(rest \cup {Overflow})
        /\ Cardinality(rest) \in Nat
    BY <2>2, FS_AddElement, FS_CardinalityType
  <2>5. Cardinality(known) <= Cardinality(rest \cup {Overflow})
    <3>1. known \in SUBSET (rest \cup {Overflow})
      OBVIOUS
    <3> QED BY <2>4, <3>1, FS_Subset
  <2>6. Cardinality(known) \in Nat
    BY <2>1, FS_CardinalityType
  <2>7. Cardinality(known) <= MaxFailureClasses + 1
    <3> HIDE DEF rest, known
    <3> QED BY <2>1, <2>3, <2>4, <2>5, <2>6, CapAssumption
  <2> QED BY <2>1, <2>7 DEF ClassesBounded
<1> QED BY <1>1, ServingInvariant, PTL

(* No series disappears and no counter goes back, in any step.             *)
THEOREM CountersNeverReset == Spec => CountersOnlyGrow
<1>1. ServingInv /\ [Next]_vars => [Grown]_vars
  BY NextStep
<1>2. [][Grown]_vars => CountersOnlyGrow
  BY PTL DEF Grown, CountersOnlyGrow
<1> QED BY <1>1, <1>2, ServingInvariant, PTL DEF Spec
=============================================================================
