------------------------------ MODULE Metrics -------------------------------
(***************************************************************************)
(* The counters of src/internal/api/metrics.go: requests by route and      *)
(* status, a latency histogram by route, resolve failures by error class.  *)
(* One mutex guards them all.  observe and observeFailure hold it for one  *)
(* step; writeTo holds it while it WRITES to the client that scrapes, so   *)
(* that everybody who has something to count waits for that client.        *)
(*                                                                         *)
(* The counters of a Go map are bags.  Durations are small numbers; a      *)
(* bound of the histogram is one too.                                      *)
(***************************************************************************)
EXTENDS Integers, Sequences, FiniteSets, Bags

CONSTANTS
  Request,            \* the goroutines that serve requests
  Nil,                \* nobody
  Bounds,             \* durationBuckets
  MaxFailureClasses,  \* maxFailureClasses
  Overflow            \* failureClassOverflow

ASSUME BoundsAssumption ==
  /\ Bounds \in Seq(Nat)
  /\ \A i, j \in DOMAIN Bounds : i <= j => Bounds[i] <= Bounds[j]

ASSUME CapAssumption == MaxFailureClasses \in Nat
ASSUME NobodyAssumption == Nil \notin Request

VARIABLES
  mu,           \* metrics.mu: who holds it across steps, or Nil
  requests,     \* bag of requestKeys
  failures,     \* bag of error classes
  bucketCounts, \* route -> the count of each bucket
  durationSum,  \* route -> the durations' sum
  requestCount, \* bag of routes
  page          \* what each scrape has written so far (a metricsWriter)

counters == <<requests, failures, bucketCounts, durationSum, requestCount>>
metricsVars == <<mu, counters, page>>

(* How often a bag holds an element, or a counter's value. *)
Times(e, bag) == IF BagIn(e, bag) THEN bag[e] ELSE 0

(* What a bag's counters add up to: how many occurrences there are in all. *)
Occurrences(bag) == UNION {{e} \X (1 .. bag[e]) : e \in BagToSet(bag)}
Total(bag) == Cardinality(Occurrences(bag))

(* A map's counter, incremented. *)
Increment(bag, e) == bag (+) SetToBag({e})

BlankPage ==
  [err |-> FALSE, requests |-> EmptyBag, buckets |-> EmptyBag,
   counts |-> EmptyBag, failures |-> EmptyBag]

MetricsInit ==
  /\ mu = Nil
  /\ requests = EmptyBag
  /\ failures = EmptyBag
  /\ bucketCounts = EmptyBag
  /\ durationSum = EmptyBag
  /\ requestCount = EmptyBag
  /\ page = [r \in Request |-> BlankPage]

(* Wrong on purpose: the route's buckets are made anew every time. *)
BucketsAnew(route) == [i \in DOMAIN Bounds |-> 0]

(* The route's buckets, made at its first observation. *)
Buckets(route) ==
  IF route \in DOMAIN bucketCounts THEN bucketCounts[route]
  ELSE [i \in DOMAIN Bounds |-> 0]

(* observe: buckets are cumulative, every bound the duration is within. *)
Observe(route, status, seconds) ==
  /\ mu = Nil
  /\ requests' = Increment(requests, [route |-> route, status |-> status])
  /\ requestCount' = Increment(requestCount, route)
  /\ durationSum' = [x \in DOMAIN durationSum \cup {route} |->
       (IF x \in DOMAIN durationSum THEN durationSum[x] ELSE 0)
         + (IF x = route THEN seconds ELSE 0)]
  /\ bucketCounts' = [x \in DOMAIN bucketCounts \cup {route} |->
       [i \in DOMAIN Bounds |->
          Buckets(x)[i]
            + (IF x = route /\ seconds <= Bounds[i] THEN 1 ELSE 0)]]
  /\ UNCHANGED <<mu, failures, page>>

(* Wrong on purpose: the cap is checked one class late. *)
ClassAboveCap(class) ==
  IF /\ class \notin BagToSet(failures)
     /\ Cardinality(BagToSet(failures)) > MaxFailureClasses
    THEN Overflow ELSE class

(* The class a failure is counted under: at the cap, a class that is not   *)
(* known yet is folded into the overflow class.                            *)
CountedClass(class) ==
  IF /\ class \notin BagToSet(failures)
     /\ Cardinality(BagToSet(failures)) >= MaxFailureClasses
    THEN Overflow ELSE class

ObserveFailure(class) ==
  /\ mu = Nil
  /\ failures' = Increment(failures, CountedClass(class))
  /\ UNCHANGED <<mu, requests, bucketCounts, durationSum, requestCount, page>>

-----------------------------------------------------------------------------
(* writeTo, in the steps another goroutine could wait between *)

(* Wrong on purpose: the counters are read without the mutex. *)
LockNothing(r) == UNCHANGED <<mu, counters, page>>

LockForWrite(r) ==
  /\ mu = Nil
  /\ mu' = r
  /\ UNCHANGED <<counters, page>>

(* printf: a section is written, or the write fails and is latched; after  *)
(* that nothing is written any more.                                       *)
Printf(r, written) ==
  /\ IF page[r].err
       THEN UNCHANGED page
       ELSE \E failed \in BOOLEAN :
              page' = [page EXCEPT ![r] =
                         IF failed THEN [@ EXCEPT !.err = TRUE] ELSE written]
  /\ UNCHANGED <<mu, counters>>

PrintRequests(r) == Printf(r, [page[r] EXCEPT !.requests = requests])

PrintDurations(r) ==
  Printf(r, [page[r] EXCEPT !.buckets = bucketCounts, !.counts = requestCount])

PrintFailures(r) == Printf(r, [page[r] EXCEPT !.failures = failures])

(* Wrong on purpose: an error returns without the deferred unlock. *)
UnlockUnlessFailed(r) ==
  /\ mu' = IF page[r].err THEN mu ELSE Nil
  /\ page' = [page EXCEPT ![r] = BlankPage]
  /\ UNCHANGED counters

(* The deferred unlock, whatever the writes did; the writer is gone. *)
Unlock(r) ==
  /\ mu' = Nil
  /\ page' = [page EXCEPT ![r] = BlankPage]
  /\ UNCHANGED counters
=============================================================================
