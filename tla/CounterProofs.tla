---------------------------- MODULE CounterProofs ---------------------------
(***************************************************************************)
(* What the counters count: responses by route, status and duration, and   *)
(* failures, one for one, and what a scrape therefore shows, for any number*)
(* of concurrent requests and scrapers, slow or failing.                   *)
(*                                                                         *)
(* A counter goes up in one step and the responses it counts are a set     *)
(* that gains one member in the same step; so the proofs are about sets    *)
(* that gain a member, which are finite because only requests that have    *)
(* arrived are in them.                                                    *)
(***************************************************************************)
EXTENDS ServingProofs

Routes == {"/resolve", "/health", "/metrics"}

(* The labels at which nothing has been sent yet.                          *)
Before == {"idle", "serving", "admitted", "failed", "logged", "requests"}

(* Only finitely many requests have arrived.                               *)
FinitelyMany == IsFiniteSet({r \in Request : pc[r] # "idle"})

(* What a handler has sent it has sent once, so that the recorder knows it;*)
(* and a 422 is the answer to an error of the resolver.                    *)
ResponseOK(r) ==
  /\ recorder[r] = sent[r]
  /\ sent[r] = 0 <=> pc[r] \in Before
  /\ pc[r] \in {"idle", "serving", "admitted"} => cause[r] = NoError
  /\ pc[r] \in {"failed", "logged"} => cause[r] # NoError
  /\ sent[r] = 422 => cause[r] # NoError

(* CountersMatchResponses, of one route.                                   *)
With(route, status) == {r \in Ended(route) : sent[r] = status}
Within(route, i) == {r \in Ended(route) : elapsed[r] <= Bounds[i]}

RouteOK(route) ==
  /\ Times(route, requestCount) = Cardinality(Ended(route))
  /\ \A status \in Status \cup {0} :
       Times([route |-> route, status |-> status], requests)
         = Cardinality(With(route, status))
  /\ \A i \in DOMAIN Bounds :
       Buckets(route)[i] = Cardinality(Within(route, i))

(* The requests counter of one route.                                      *)
OfRoute(bag, route) ==
  [k \in {x \in BagToSet(bag) : x.route = route} |-> bag[k]]

(* A route has buckets as soon as it has a count, and its requests by      *)
(* status add up to that count.                                            *)
Series ==
  /\ BagToSet(requestCount) = DOMAIN bucketCounts
  /\ BagToSet(requestCount) \subseteq Routes
  /\ \A route \in Routes :
       /\ IsFiniteSet(Occurrences(OfRoute(requests, route)))
       /\ Total(OfRoute(requests, route)) = Times(route, requestCount)

(* What has been written of a page is what the counters are: the mutex has *)
(* kept them from changing.                                                *)
IsPage(p) ==
  /\ p.err \in BOOLEAN
  /\ p = [err |-> p.err, requests |-> p.requests, buckets |-> p.buckets,
          counts |-> p.counts, failures |-> p.failures]

PageOK(r) ==
  /\ IsPage(page[r])
  /\ ~page[r].err =>
       /\ pc[r] \in {"durations", "failures", "scraped"} =>
            page[r].requests = requests
       /\ pc[r] \in {"failures", "scraped"} =>
            page[r].buckets = bucketCounts /\ page[r].counts = requestCount
       /\ pc[r] = "scraped" => page[r].failures = failures

(* No failure is lost, and the occurrences are finitely many.              *)
FailuresCounted ==
  IsFiniteSet(Occurrences(failures)) /\ FailuresAccounted

CounterInv ==
  /\ ServingInv
  /\ FinitelyMany
  /\ \A route \in Routes : RouteOK(route)
  /\ Series
  /\ FailuresCounted
  /\ page = [r \in Request |-> page[r]]
  /\ \A r \in Request : ResponseOK(r) /\ PageOK(r)

-----------------------------------------------------------------------------
(* Bags and their occurrences *)

LEMMA IncrementTimes ==
  ASSUME NEW bag, IsABag(bag), NEW e
  PROVE  /\ Increment(bag, e) =
              [x \in DOMAIN bag \cup {e} |->
                 IF x = e THEN Times(e, bag) + 1 ELSE bag[x]]
         /\ Times(e, bag) \in Nat
         /\ Times(e, Increment(bag, e)) = Times(e, bag) + 1
         /\ \A x : x # e => Times(x, Increment(bag, e)) = Times(x, bag)
<1>1. \A x \in DOMAIN bag : bag[x] \in Nat /\ bag[x] > 0
  BY DEF IsABag
<1>2. Times(e, bag) \in Nat /\ (e \in DOMAIN bag => Times(e, bag) = bag[e])
                            /\ (e \notin DOMAIN bag => Times(e, bag) = 0)
  BY <1>1 DEF Times, BagIn, BagToSet
<1>3. Increment(bag, e) =
        [x \in DOMAIN bag \cup {e} |->
           IF x = e THEN Times(e, bag) + 1 ELSE bag[x]]
  BY <1>1, <1>2 DEF Increment, SetToBag, (+)
<1>4. \A x : x # e => Times(x, Increment(bag, e)) = Times(x, bag)
  BY <1>3 DEF Times, BagIn, BagToSet
<1>5. Times(e, Increment(bag, e)) = Times(e, bag) + 1
  BY <1>3 DEF Times, BagIn, BagToSet
<1> QED BY <1>2, <1>3, <1>4, <1>5

LEMMA OccurrenceIs ==
  ASSUME NEW bag, NEW o
  PROVE  o \in Occurrences(bag) <=>
           \E e \in DOMAIN bag : \E n \in 1 .. bag[e] : o = <<e, n>>
BY DEF Occurrences, BagToSet

(* One more occurrence is one more element.                                *)
LEMMA TotalOfIncrement ==
  ASSUME NEW bag, IsABag(bag), IsFiniteSet(Occurrences(bag)), NEW e
  PROVE  /\ IsFiniteSet(Occurrences(Increment(bag, e)))
         /\ Total(Increment(bag, e)) = Total(bag) + 1
         /\ Total(bag) \in Nat
<1> DEFINE more == Increment(bag, e)
           new == <<e, Times(e, bag) + 1>>
<1>1. /\ more = [x \in DOMAIN bag \cup {e} |->
                   IF x = e THEN Times(e, bag) + 1 ELSE bag[x]]
      /\ Times(e, bag) \in Nat
  BY IncrementTimes
<1>2. \A x \in DOMAIN bag : bag[x] \in Nat /\ bag[x] > 0
  BY DEF IsABag
<1>3. /\ e \in DOMAIN bag => Times(e, bag) = bag[e]
      /\ e \notin DOMAIN bag => Times(e, bag) = 0
  BY DEF Times, BagIn, BagToSet
<1> HIDE DEF more
<1>4. new \notin Occurrences(bag)
  <2>1. ASSUME NEW x \in DOMAIN bag, NEW n \in 1 .. bag[x], new = <<x, n>>
        PROVE  FALSE
    BY <1>1, <1>2, <1>3, <2>1
  <2> QED BY <2>1, OccurrenceIs
<1>5. ASSUME NEW o
      PROVE  o \in Occurrences(more) <=> o \in Occurrences(bag) \/ o = new
  <2>1. ASSUME o \in Occurrences(more)
        PROVE  o \in Occurrences(bag) \/ o = new
    <3>1. PICK x \in DOMAIN more : \E n \in 1 .. more[x] : o = <<x, n>>
      BY <2>1, OccurrenceIs
    <3>2. PICK n \in 1 .. more[x] : o = <<x, n>>
      BY <3>1
    <3>3. CASE x # e
      <4>1. x \in DOMAIN bag /\ more[x] = bag[x]
        BY <1>1, <3>3
      <4> QED BY <3>2, <4>1, OccurrenceIs
    <3>4. CASE x = e
      <4>1. n \in 1 .. (Times(e, bag) + 1)
        BY <1>1, <3>2, <3>4
      <4>2. CASE n = Times(e, bag) + 1
        BY <3>2, <3>4, <4>2
      <4>3. CASE n \in 1 .. Times(e, bag)
        <5>1. e \in DOMAIN bag /\ n \in 1 .. bag[e]
          BY <1>3, <4>3
        <5> QED BY <3>2, <3>4, <5>1, OccurrenceIs
      <4> QED BY <1>1, <4>1, <4>2, <4>3
    <3> QED BY <3>3, <3>4
  <2>2. ASSUME o \in Occurrences(bag) PROVE o \in Occurrences(more)
    <3>1. PICK x \in DOMAIN bag : \E n \in 1 .. bag[x] : o = <<x, n>>
      BY <2>2, OccurrenceIs
    <3>2. x \in DOMAIN more /\ 1 .. bag[x] \subseteq 1 .. more[x]
      BY <1>1, <1>2, <1>3
    <3> QED BY <3>1, <3>2, OccurrenceIs
  <2>3. ASSUME o = new PROVE o \in Occurrences(more)
    <3>1. e \in DOMAIN more /\ Times(e, bag) + 1 \in 1 .. more[e]
      BY <1>1
    <3> QED BY <2>3, <3>1, OccurrenceIs
  <2> QED BY <2>1, <2>2, <2>3
<1>6. Occurrences(more) = Occurrences(bag) \cup {new}
  BY <1>5
<1> HIDE DEF new
<1>7. /\ IsFiniteSet(Occurrences(bag) \cup {new})
      /\ Cardinality(Occurrences(bag) \cup {new})
           = Cardinality(Occurrences(bag)) + 1
      /\ Cardinality(Occurrences(bag)) \in Nat
  BY <1>4, FS_AddElement, FS_CardinalityType
<1> QED BY <1>6, <1>7 DEF Total, more

-----------------------------------------------------------------------------
(* Steps that count nothing *)

(* The step is another request's. *)
Alone(q) ==
  /\ pc'[q] = pc[q] /\ input'[q] = input[q] /\ cause'[q] = cause[q]
  /\ sent'[q] = sent[q] /\ recorder'[q] = recorder[q]
  /\ elapsed'[q] = elapsed[q] /\ page'[q] = page[q]

(* r moves, and no response or failure is there to be counted. *)
Quiet(r) ==
  /\ UNCHANGED counters
  /\ \A q \in Request \ {r} : Alone(q)
  /\ page' = [q \in Request |-> page'[q]]
  /\ pc[r] # "done" /\ pc'[r] # "done"
  /\ (cause'[r] # NoError /\ pc'[r] # "failed")
       <=> (cause[r] # NoError /\ pc[r] # "failed")
  /\ ResponseOK(r)' /\ PageOK(r)'

LEMMA StillFinitelyMany ==
  ASSUME FinitelyMany, NEW r \in Request,
         \A q \in Request \ {r} : pc'[q] = pc[q]
  PROVE  FinitelyMany'
<1> DEFINE arrived == {q \in Request : pc[q] # "idle"}
<1>1. IsFiniteSet(arrived \cup {r})
  BY FS_AddElement DEF FinitelyMany
<1>2. {q \in Request : pc'[q] # "idle"} \subseteq arrived \cup {r}
  OBVIOUS
<1> QED BY <1>1, <1>2, FS_Subset DEF FinitelyMany

(* A request that is left alone is still right if the counters have not    *)
(* changed, or if it is not scraping.                                      *)
LEMMA AloneKeeps ==
  ASSUME NEW q \in Request, Alone(q), ResponseOK(q), PageOK(q),
         \/ UNCHANGED counters
         \/ pc[q] \notin {"requests", "durations", "failures", "scraped"}
  PROVE  ResponseOK(q)' /\ PageOK(q)'
<1>1. ResponseOK(q)'
  BY DEF Alone, ResponseOK
<1>2. PageOK(q)'
  BY DEF Alone, PageOK, counters
<1> QED BY <1>1, <1>2

LEMMA QuietKeeps ==
  ASSUME CounterInv, ServingInv', NEW r \in Request, Quiet(r)
  PROVE  CounterInv'
<1>1. FinitelyMany'
  BY StillFinitelyMany DEF CounterInv, Quiet, Alone
<1>2. ASSUME NEW route \in Routes PROVE RouteOK(route)'
  <2>1. Ended(route)' = Ended(route)
    BY DEF Ended, Quiet, Alone
  <2>2. ASSUME NEW status PROVE With(route, status)' = With(route, status)
    BY <2>1 DEF With, Ended, Quiet, Alone
  <2>3. ASSUME NEW i PROVE Within(route, i)' = Within(route, i)
    BY <2>1 DEF Within, Ended, Quiet, Alone
  <2>4. UNCHANGED <<requests, requestCount, bucketCounts>>
    BY DEF Quiet, counters
  <2>5. Buckets(route)' = Buckets(route)
    BY <2>4 DEF Buckets
  <2> QED BY <2>1, <2>2, <2>3, <2>4, <2>5 DEF CounterInv, RouteOK
<1>3. Series' /\ FailuresCounted'
  <2>1. UNCHANGED <<requests, requestCount, bucketCounts, failures>>
    BY DEF Quiet, counters
  <2>2. {q \in Request : cause'[q] # NoError /\ pc'[q] # "failed"}
          = {q \in Request : cause[q] # NoError /\ pc[q] # "failed"}
    BY DEF Quiet, Alone
  <2> QED BY <2>1, <2>2 DEF CounterInv, Series, FailuresCounted,
                            FailuresAccounted
<1>4. \A q \in Request : ResponseOK(q)' /\ PageOK(q)'
  BY AloneKeeps DEF CounterInv, Quiet
<1> QED BY <1>1, <1>2, <1>3, <1>4 DEF CounterInv, Quiet

LEMMA RefuseQuiet ==
  ASSUME CounterInv, NEW r \in Request, NEW status \in Status,
         Refuse(r, status), pc[r] \in {"serving", "admitted", "logged"},
         status = 422 => pc[r] = "logged"
  PROVE  Quiet(r)
<1>1. /\ pc' = [pc EXCEPT ![r] = "served"]
      /\ recorder' = [recorder EXCEPT ![r] = status]
      /\ sent' = [sent EXCEPT ![r] = IF @ = 0 THEN status ELSE @]
      /\ UNCHANGED <<metricsVars, input, cause, elapsed>>
  BY DEF Refuse, WriteHeader, Goto
<1>2. UNCHANGED counters /\ UNCHANGED page
  BY <1>1 DEF metricsVars
<1>3. /\ TypeOK /\ ResponseOK(r) /\ PageOK(r)
      /\ page = [q \in Request |-> page[q]]
  BY DEF CounterInv, ServingInv
<1>4. sent[r] = 0
  BY <1>3 DEF ResponseOK, Before
<1>5. /\ pc'[r] = "served" /\ recorder'[r] = status /\ sent'[r] = status
      /\ cause'[r] = cause[r] /\ status # 0
  BY <1>1, <1>3, <1>4 DEF TypeOK, Status
<1>6. \A q \in Request \ {r} : Alone(q)
  BY <1>1, <1>2, <1>3 DEF TypeOK, Alone
<1>7. ResponseOK(r)'
  BY <1>3, <1>5 DEF ResponseOK, Before
<1>8. PageOK(r)'
  BY <1>2, <1>3, <1>5 DEF PageOK
<1>9. page' = [q \in Request |-> page'[q]]
  BY <1>2, <1>3
<1> QED BY <1>2, <1>5, <1>6, <1>7, <1>8, <1>9 DEF Quiet


(* A move that sends nothing, by a request that holds no mutex.            *)
LEMMA MoveQuiet ==
  ASSUME CounterInv, NEW r \in Request, NEW label \in Label,
         pc' = [pc EXCEPT ![r] = label],
         UNCHANGED <<counters, page, sent, recorder, elapsed>>,
         \A q \in Request \ {r} : input'[q] = input[q] /\ cause'[q] = cause[q],
         pc[r] # "done", label # "done",
         pc[r] \in Before <=> label \in Before,
         label \notin {"durations", "failures", "scraped"},
         label \in {"idle", "serving", "admitted"} => cause'[r] = NoError,
         label \in {"failed", "logged"} => cause'[r] # NoError,
         sent[r] # 0 => cause'[r] = cause[r],
         (cause'[r] # NoError /\ label # "failed")
           <=> (cause[r] # NoError /\ pc[r] # "failed")
  PROVE  Quiet(r)
<1>1. /\ TypeOK /\ ResponseOK(r) /\ PageOK(r)
      /\ page = [q \in Request |-> page[q]]
  BY DEF CounterInv, ServingInv
<1>2. pc'[r] = label /\ \A q \in Request \ {r} : pc'[q] = pc[q]
  BY <1>1 DEF TypeOK
<1>3. \A q \in Request \ {r} : Alone(q)
  BY <1>2 DEF Alone
<1>4. ResponseOK(r)'
  BY <1>1, <1>2 DEF ResponseOK
<1>5. PageOK(r)'
  BY <1>1, <1>2 DEF PageOK
<1>6. page' = [q \in Request |-> page'[q]]
  BY <1>1
<1> QED BY <1>2, <1>3, <1>4, <1>5, <1>6 DEF Quiet

LEMMA HandleQuiet ==
  ASSUME CounterInv, NEW r \in Request,
         Handle(r) \/ \E i \in Input : Arrive(r, i)
  PROVE  Quiet(r)
<1>1. TypeOK /\ ResponseOK(r)
  BY DEF CounterInv, ServingInv
<1>2. CASE \E i \in Input : Arrive(r, i)
  <2>1. PICK i \in Input : Arrive(r, i)
    BY <1>2
  <2>2. /\ pc[r] = "idle"
        /\ pc' = [pc EXCEPT ![r] = "serving"]
        /\ input' = [input EXCEPT ![r] = i]
        /\ UNCHANGED <<metricsVars, cause, sent, recorder, elapsed>>
    BY <2>1 DEF Arrive, Goto
  <2>3. UNCHANGED <<counters, page>>
    BY <2>2 DEF metricsVars
  <2>4. \A q \in Request \ {r} : input'[q] = input[q]
    BY <1>1, <2>2 DEF TypeOK
  <2>5. cause'[r] = NoError
    BY <1>1, <2>2 DEF ResponseOK
  <2> QED BY <2>2, <2>3, <2>4, <2>5, MoveQuiet DEF Label, Before
<1>3. ASSUME NEW status \in Status, Refuse(r, status),
             pc[r] \in {"serving", "admitted", "logged"},
             status = 422 => pc[r] = "logged"
      PROVE  Quiet(r)
  BY <1>3, RefuseQuiet
<1>4. {200, 400, 401, 405, 413, 422} = Status
  BY DEF Status
<1>5. CASE Health(r)
  BY <1>3, <1>4, <1>5 DEF Health, Serves
<1>6. CASE WrongMethod(r)
  BY <1>3, <1>4, <1>6 DEF WrongMethod, Serves
<1>7. CASE Unauthorized(r)
  BY <1>3, <1>4, <1>7 DEF Unauthorized, Serves
<1>8. CASE Admit(r)
  <2>1. /\ pc[r] = "serving"
        /\ pc' = [pc EXCEPT ![r] = "admitted"]
        /\ UNCHANGED <<metricsVars, input, cause, sent, recorder, elapsed>>
    BY <1>8 DEF Admit, Serves, Goto
  <2>2. UNCHANGED <<counters, page>>
    BY <2>1 DEF metricsVars
  <2>3. cause'[r] = NoError
    BY <1>1, <2>1 DEF ResponseOK
  <2> QED BY <2>1, <2>2, <2>3, MoveQuiet DEF Label, Before
<1>9. CASE RejectBody(r)
  <2>1. pc[r] = "admitted" /\ (Refuse(r, 413) \/ Refuse(r, 400))
    BY <1>9 DEF RejectBody
  <2> QED BY <1>3, <1>4, <2>1
<1>10. CASE Resolves(r)
  BY <1>3, <1>4, <1>10 DEF Resolves
<1>11. CASE ResolveFails(r)
  <2>1. /\ pc[r] = "admitted"
        /\ pc' = [pc EXCEPT ![r] = "failed"]
        /\ UNCHANGED <<metricsVars, input, sent, recorder, elapsed>>
    BY <1>11 DEF ResolveFails, Goto
  <2>2. PICK prefix \in Prefix \cup {""}, badRequest \in BOOLEAN :
          cause' = [cause EXCEPT ![r] =
                      [prefix |-> prefix, badRequest |-> badRequest]]
    BY <1>11 DEF ResolveFails
  <2>3. [prefix |-> prefix, badRequest |-> badRequest] # NoError
    BY PrefixAssumption DEF NoError
  <2>4. cause'[r] # NoError /\ \A q \in Request \ {r} : cause'[q] = cause[q]
    BY <2>2, <2>3 DEF CounterInv, ServingInv, Causes
  <2>5. UNCHANGED <<counters, page>>
    BY <2>1 DEF metricsVars
  <2>6. cause[r] = NoError /\ sent[r] = 0
    BY <1>1, <2>1 DEF ResponseOK, Before
  <2> QED BY <2>1, <2>4, <2>5, <2>6, MoveQuiet DEF Label, Before
<1>12. CASE AnswerFailure(r)
  <2>1. pc[r] = "logged" /\ (Refuse(r, 400) \/ Refuse(r, 422))
    BY <1>12 DEF AnswerFailure
  <2> QED BY <1>3, <1>4, <2>1
<1> QED BY <1>2, <1>5, <1>6, <1>7, <1>8, <1>9, <1>10, <1>11, <1>12 DEF Handle

LEMMA PageSections ==
  ASSUME NEW p, IsPage(p)
  PROVE  /\ [p EXCEPT !.err = TRUE] =
              [err |-> TRUE, requests |-> p.requests, buckets |-> p.buckets,
               counts |-> p.counts, failures |-> p.failures]
         /\ \A x : [p EXCEPT !.requests = x] =
              [err |-> p.err, requests |-> x, buckets |-> p.buckets,
               counts |-> p.counts, failures |-> p.failures]
         /\ \A x, y : [p EXCEPT !.buckets = x, !.counts = y] =
              [err |-> p.err, requests |-> p.requests, buckets |-> x,
               counts |-> y, failures |-> p.failures]
         /\ \A x : [p EXCEPT !.failures = x] =
              [err |-> p.err, requests |-> p.requests, buckets |-> p.buckets,
               counts |-> p.counts, failures |-> x]
<1> DEFINE e == p.err
           q == p.requests
           b == p.buckets
           c == p.counts
           f == p.failures
<1>1. p = [err |-> e, requests |-> q, buckets |-> b, counts |-> c,
           failures |-> f]
  BY DEF IsPage
<1> HIDE DEF e, q, b, c, f
<1>2. /\ p.err = e /\ p.requests = q /\ p.buckets = b /\ p.counts = c
      /\ p.failures = f
  BY <1>1
<1>3. [p EXCEPT !.err = TRUE] =
        [err |-> TRUE, requests |-> q, buckets |-> b, counts |-> c,
         failures |-> f]
  <2>1. ASSUME NEW x PROVE [p EXCEPT !.err = x] =
          [err |-> x, requests |-> q, buckets |-> b, counts |-> c,
           failures |-> f]
    BY <1>1
  <2>2. PICK yes \in BOOLEAN : yes = TRUE
    OBVIOUS
  <2>3. [p EXCEPT !.err = yes] =
          [err |-> yes, requests |-> q, buckets |-> b, counts |-> c,
           failures |-> f]
    BY <2>1, Zenon
  <2> QED BY <1>1, <2>2, <2>3, SMT
<1>4. ASSUME NEW x PROVE [p EXCEPT !.requests = x] =
        [err |-> e, requests |-> x, buckets |-> b, counts |-> c,
         failures |-> f]
  BY <1>1
<1>5. ASSUME NEW x, NEW y PROVE [p EXCEPT !.buckets = x, !.counts = y] =
        [err |-> e, requests |-> q, buckets |-> x, counts |-> y,
         failures |-> f]
  <2>1. [p EXCEPT !.buckets = x, !.counts = y] =
          [[p EXCEPT !.buckets = x] EXCEPT !.counts = y]
    BY <1>1, Zenon
  <2>2. [p EXCEPT !.buckets = x] =
          [err |-> e, requests |-> q, buckets |-> x, counts |-> c,
           failures |-> f]
    BY <1>1
  <2>3. [[err |-> e, requests |-> q, buckets |-> x, counts |-> c,
          failures |-> f] EXCEPT !.counts = y] =
          [err |-> e, requests |-> q, buckets |-> x, counts |-> y,
           failures |-> f]
    OBVIOUS
  <2> QED BY <2>1, <2>2, <2>3, Zenon
<1>6. ASSUME NEW x PROVE [p EXCEPT !.failures = x] =
        [err |-> e, requests |-> q, buckets |-> b, counts |-> c,
         failures |-> x]
  BY <1>1
<1> QED BY <1>2, <1>3, <1>4, <1>5, <1>6

(* A page that is written on shows what it has shown, and the section that *)
(* is written, or is given up.                                             *)
LEMMA Printed ==
  ASSUME NEW r \in Request, NEW written, Printf(r, written),
         page = [q \in Request |-> page[q]], PageOK(r)
  PROVE  /\ page' = [q \in Request |-> page'[q]]
         /\ \A q \in Request \ {r} : page'[q] = page[q]
         /\ \/ page'[r] = page[r] /\ page[r].err
            \/ page'[r] = [page[r] EXCEPT !.err = TRUE]
            \/ page'[r] = written
<1>1. CASE page[r].err
  BY <1>1 DEF Printf
<1>2. CASE ~page[r].err
  <2>1. PICK failed \in BOOLEAN :
          page' = [page EXCEPT ![r] =
                     IF failed THEN [@ EXCEPT !.err = TRUE] ELSE written]
    BY <1>2 DEF Printf
  <2> QED BY <2>1
<1> QED BY <1>1, <1>2


(* A section of a scrape is written, or the write fails.                   *)
LEMMA PrintQuiet ==
  ASSUME CounterInv, NEW r \in Request, NEW written, NEW label,
         Printf(r, written),
         pc[r] \in {"requests", "durations", "failures"},
         label \in {"durations", "failures", "scraped"},
         pc' = [pc EXCEPT ![r] = label],
         UNCHANGED <<input, cause, elapsed>>,
         \A q \in Request \ {r} :
           sent'[q] = sent[q] /\ recorder'[q] = recorder[q],
         ResponseOK(r)', page'[r] = written => PageOK(r)'
  PROVE  Quiet(r)
<1>1. /\ TypeOK /\ ResponseOK(r) /\ PageOK(r)
      /\ page = [q \in Request |-> page[q]]
  BY DEF CounterInv, ServingInv
<1>2. pc'[r] = label /\ \A q \in Request \ {r} : pc'[q] = pc[q]
  BY <1>1 DEF TypeOK
<1>3. /\ page' = [q \in Request |-> page'[q]]
      /\ \A q \in Request \ {r} : page'[q] = page[q]
      /\ \/ page'[r] = page[r] /\ page[r].err
         \/ page'[r] = [page[r] EXCEPT !.err = TRUE]
         \/ page'[r] = written
  BY <1>1, Printed
<1>4. UNCHANGED counters
  BY DEF Printf
<1>5. \A q \in Request \ {r} : Alone(q)
  BY <1>2, <1>3 DEF Alone
<1>6. PageOK(r)'
  <2>1. CASE page'[r] = page[r] /\ page[r].err
    BY <1>1, <2>1 DEF PageOK
  <2>2. CASE page'[r] = [page[r] EXCEPT !.err = TRUE]
    <3>1. IsPage(page[r])
      BY <1>1 DEF PageOK
    <3>2. page'[r] = [err |-> TRUE, requests |-> page[r].requests,
                      buckets |-> page[r].buckets, counts |-> page[r].counts,
                      failures |-> page[r].failures]
      BY <2>2, <3>1, PageSections, Zenon
    <3> QED BY <3>2 DEF PageOK, IsPage
  <2> QED BY <1>3, <2>1, <2>2
<1> QED BY <1>2, <1>3, <1>4, <1>5, <1>6 DEF Quiet

LEMMA ScrapeQuiet ==
  ASSUME CounterInv, NEW r \in Request, Scrape(r) \/ StartScrape(r)
  PROVE  Quiet(r)
<1>1. /\ TypeOK /\ ResponseOK(r) /\ PageOK(r)
      /\ page = [q \in Request |-> page[q]]
  BY DEF CounterInv, ServingInv
<1>2. CASE StartScrape(r)
  <2>1. /\ pc[r] = "serving"
        /\ pc' = [pc EXCEPT ![r] = "requests"]
        /\ UNCHANGED <<counters, page, input, cause, sent, recorder, elapsed>>
    BY <1>2 DEF StartScrape, Serves, LockForWrite, Goto
  <2> QED BY <1>1, <2>1, MoveQuiet DEF Label, Before
<1>3. CASE ScrapeRequests(r)
  <2> DEFINE written == [page[r] EXCEPT !.requests = requests]
  <2>1. /\ pc[r] = "requests"
        /\ pc' = [pc EXCEPT ![r] = "durations"]
        /\ Printf(r, written)
        /\ UNCHANGED <<input, cause, elapsed>>
    BY <1>3 DEF ScrapeRequests, PrintRequests, Goto
  <2>2. /\ recorder' = [recorder EXCEPT ![r] = 200]
        /\ sent' = [sent EXCEPT ![r] = IF @ = 0 THEN 200 ELSE @]
    BY <1>3 DEF ScrapeRequests, WriteHeader
  <2>3. sent[r] = 0
    BY <1>1, <2>1 DEF ResponseOK, Before
  <2>4. recorder'[r] = 200 /\ sent'[r] = 200
    BY <1>1, <2>2, <2>3 DEF TypeOK
  <2>5. pc'[r] = "durations"
    BY <1>1, <2>1 DEF TypeOK
  <2>6. \A q \in Request \ {r} :
          sent'[q] = sent[q] /\ recorder'[q] = recorder[q]
    BY <1>1, <2>2 DEF TypeOK
  <2>7. UNCHANGED counters
    BY <2>1 DEF Printf
  <2>8. written = [err |-> page[r].err, requests |-> requests,
                   buckets |-> page[r].buckets, counts |-> page[r].counts,
                   failures |-> page[r].failures]
    BY <1>1, PageSections DEF PageOK
  <2>9. page'[r] = written => PageOK(r)'
    BY <1>1, <2>5, <2>7, <2>8 DEF PageOK, IsPage, counters
  <2>10. ResponseOK(r)'
    BY <2>4, <2>5 DEF ResponseOK, Before
  <2> HIDE DEF written
  <2> QED BY <2>1, <2>6, <2>9, <2>10, PrintQuiet
<1>4. CASE ScrapeDurations(r)
  <2> DEFINE written == [page[r] EXCEPT !.buckets = bucketCounts,
                                        !.counts = requestCount]
  <2>1. /\ pc[r] = "durations"
        /\ pc' = [pc EXCEPT ![r] = "failures"]
        /\ Printf(r, written)
        /\ UNCHANGED <<input, cause, sent, recorder, elapsed>>
    BY <1>4 DEF ScrapeDurations, PrintDurations, Goto
  <2>2. pc'[r] = "failures" /\ ResponseOK(r)'
    BY <1>1, <2>1 DEF ResponseOK, Before, TypeOK
  <2>3. UNCHANGED counters
    BY <2>1 DEF Printf
  <2>4. written = [err |-> page[r].err, requests |-> page[r].requests,
                   buckets |-> bucketCounts, counts |-> requestCount,
                   failures |-> page[r].failures]
    BY <1>1, PageSections DEF PageOK
  <2>5. page'[r] = written => PageOK(r)'
    BY <1>1, <2>1, <2>2, <2>3, <2>4 DEF PageOK, IsPage, counters
  <2> HIDE DEF written
  <2> QED BY <2>1, <2>2, <2>5, PrintQuiet
<1>5. CASE ScrapeFailures(r)
  <2> DEFINE written == [page[r] EXCEPT !.failures = failures]
  <2>1. /\ pc[r] = "failures"
        /\ pc' = [pc EXCEPT ![r] = "scraped"]
        /\ Printf(r, written)
        /\ UNCHANGED <<input, cause, sent, recorder, elapsed>>
    BY <1>5 DEF ScrapeFailures, PrintFailures, Goto
  <2>2. pc'[r] = "scraped" /\ ResponseOK(r)'
    BY <1>1, <2>1 DEF ResponseOK, Before, TypeOK
  <2>3. UNCHANGED counters
    BY <2>1 DEF Printf
  <2>4. written = [err |-> page[r].err, requests |-> page[r].requests,
                   buckets |-> page[r].buckets, counts |-> page[r].counts,
                   failures |-> failures]
    BY <1>1, PageSections DEF PageOK
  <2>5. page'[r] = written => PageOK(r)'
    BY <1>1, <2>1, <2>2, <2>3, <2>4 DEF PageOK, IsPage, counters
  <2> HIDE DEF written
  <2> QED BY <2>1, <2>2, <2>5, PrintQuiet
<1>6. CASE EndScrape(r)
  <2>1. /\ pc[r] = "scraped"
        /\ pc' = [pc EXCEPT ![r] = "served"]
        /\ page' = [page EXCEPT ![r] = BlankPage]
        /\ UNCHANGED <<counters, input, cause, sent, recorder, elapsed>>
    BY <1>6 DEF EndScrape, Unlock, Goto
  <2>2. /\ pc'[r] = "served" /\ page'[r] = BlankPage
        /\ page' = [q \in Request |-> page'[q]]
        /\ \A q \in Request \ {r} : pc'[q] = pc[q] /\ page'[q] = page[q]
    BY <1>1, <2>1 DEF TypeOK
  <2>3. ResponseOK(r)'
    BY <1>1, <2>1, <2>2 DEF ResponseOK, Before
  <2>4. PageOK(r)'
    BY <2>2 DEF PageOK, IsPage, BlankPage
  <2>5. \A q \in Request \ {r} : Alone(q)
    BY <2>1, <2>2 DEF Alone
  <2> QED BY <2>1, <2>2, <2>3, <2>4, <2>5 DEF Quiet
<1> QED BY <1>2, <1>3, <1>4, <1>5, <1>6 DEF Scrape

-----------------------------------------------------------------------------
(* Steps that count *)

(* Whoever takes the mutex finds no page being written.                    *)
LEMMA CountKeepsPages ==
  ASSUME CounterInv, mu = Nil, NEW r \in Request,
         UNCHANGED <<page, cause, sent, recorder>>,
         \A q \in Request \ {r} :
           pc'[q] = pc[q] /\ input'[q] = input[q] /\ elapsed'[q] = elapsed[q],
         \/ pc[r] = "failed" /\ pc'[r] = "logged"
         \/ pc[r] = "served" /\ pc'[r] = "done"
  PROVE  /\ FinitelyMany'
         /\ page' = [q \in Request |-> page'[q]]
         /\ \A q \in Request : ResponseOK(q)' /\ PageOK(q)'
<1>1. \A q \in Request :
        pc[q] \notin {"requests", "durations", "failures", "scraped"}
  BY NobodyAssumption DEF CounterInv, ServingInv, TypeOK
<1>2. \A q \in Request \ {r} : ResponseOK(q)' /\ PageOK(q)'
  BY <1>1, AloneKeeps DEF CounterInv, Alone
<1>3. ResponseOK(r)'
  BY DEF CounterInv, ResponseOK, Before
<1>4. PageOK(r)'
  BY DEF CounterInv, PageOK
<1>5. FinitelyMany'
  BY StillFinitelyMany DEF CounterInv
<1> QED BY <1>2, <1>3, <1>4, <1>5 DEF CounterInv

LEMMA CountFailureCounts ==
  ASSUME CounterInv, ServingInv', NEW r \in Request, CountFailure(r)
  PROVE  CounterInv'
<1> DEFINE failed == {q \in Request : cause[q] # NoError /\ pc[q] # "failed"}
           class == CountedClass(ErrorClass(cause[r]))
<1>1. /\ pc[r] = "failed" /\ mu = Nil
      /\ pc' = [pc EXCEPT ![r] = "logged"]
      /\ failures' = Increment(failures, class)
      /\ UNCHANGED <<requests, bucketCounts, requestCount, page>>
      /\ UNCHANGED <<input, cause, sent, recorder, elapsed>>
  BY DEF CountFailure, ObserveFailure, Goto
<1>2. pc'[r] = "logged" /\ \A q \in Request \ {r} : pc'[q] = pc[q]
  BY <1>1 DEF CounterInv, ServingInv, TypeOK
<1>3. /\ FinitelyMany' /\ page' = [q \in Request |-> page'[q]]
      /\ \A q \in Request : ResponseOK(q)' /\ PageOK(q)'
  BY <1>1, <1>2, CountKeepsPages
<1>4. ASSUME NEW route \in Routes PROVE RouteOK(route)'
  <2>1. Ended(route)' = Ended(route)
    BY <1>1, <1>2 DEF Ended
  <2>2. /\ \A status : With(route, status)' = With(route, status)
        /\ \A i : Within(route, i)' = Within(route, i)
    BY <1>1, <2>1 DEF With, Within
  <2>3. Buckets(route)' = Buckets(route)
    BY <1>1 DEF Buckets
  <2> QED BY <1>1, <2>1, <2>2, <2>3 DEF CounterInv, RouteOK
<1>5. Series'
  BY <1>1 DEF CounterInv, Series
<1>6. FailuresCounted'
  <2>1. /\ IsFiniteSet(Occurrences(failures))
        /\ IsABag(failures)
        /\ Total(failures) = Cardinality(failed)
    BY DEF CounterInv, FailuresCounted, FailuresAccounted, ServingInv, Counts
  <2>2. /\ IsFiniteSet(Occurrences(failures'))
        /\ Total(failures') = Total(failures) + 1
    BY <1>1, <2>1, TotalOfIncrement
  <2>3. cause[r] # NoError
    BY <1>1 DEF CounterInv, ResponseOK
  <2>4. {q \in Request : cause'[q] # NoError /\ pc'[q] # "failed"}
          = failed \cup {r} /\ r \notin failed
    BY <1>1, <1>2, <2>3
  <2>5. IsFiniteSet(failed)
    <3>1. failed \subseteq {q \in Request : pc[q] # "idle"}
      BY DEF CounterInv, ResponseOK
    <3> QED BY <3>1, FS_Subset DEF CounterInv, FinitelyMany
  <2>6. Cardinality(failed \cup {r}) = Cardinality(failed) + 1
    BY <2>4, <2>5, FS_AddElement
  <2> HIDE DEF failed
  <2> QED BY <2>1, <2>2, <2>4, <2>6 DEF FailuresCounted, FailuresAccounted
<1> QED BY <1>3, <1>4, <1>5, <1>6 DEF CounterInv

-----------------------------------------------------------------------------
(* Count: one response more, under its route, status and duration *)

LEMMA OfRouteIncrement ==
  ASSUME NEW bag, IsABag(bag), NEW key, NEW route
  PROVE  /\ IsABag(OfRoute(bag, route))
         /\ key.route = route =>
              OfRoute(Increment(bag, key), route)
                = Increment(OfRoute(bag, route), key)
         /\ key.route # route =>
              OfRoute(Increment(bag, key), route) = OfRoute(bag, route)
<1> DEFINE part == OfRoute(bag, route)
           more == Increment(bag, key)
<1>1. /\ DOMAIN part = {x \in DOMAIN bag : x.route = route}
      /\ \A x \in DOMAIN part : part[x] = bag[x]
      /\ part = [x \in DOMAIN part |-> bag[x]]
  BY DEF OfRoute, BagToSet
<1>2. IsABag(part)
  BY <1>1 DEF IsABag
<1>3. more = [x \in DOMAIN bag \cup {key} |->
                IF x = key THEN Times(key, bag) + 1 ELSE bag[x]]
  BY IncrementTimes
<1>4. Increment(part, key) =
        [x \in DOMAIN part \cup {key} |->
           IF x = key THEN Times(key, part) + 1 ELSE part[x]]
  BY <1>2, IncrementTimes
<1>5. OfRoute(more, route) =
        [x \in {y \in DOMAIN more : y.route = route} |-> more[x]]
  BY DEF OfRoute, BagToSet
<1> HIDE DEF part, more
<1>6. ASSUME key.route = route
      PROVE  OfRoute(more, route) = Increment(part, key)
  <2>1. {y \in DOMAIN more : y.route = route} = DOMAIN part \cup {key}
    BY <1>1, <1>3, <1>6
  <2>2. Times(key, part) = Times(key, bag)
    BY <1>1, <1>6 DEF Times, BagIn, BagToSet
  <2>3. \A x \in DOMAIN part \cup {key} :
          more[x] = IF x = key THEN Times(key, part) + 1 ELSE part[x]
    BY <1>1, <1>3, <2>2
  <2> QED BY <1>4, <1>5, <2>1, <2>3
<1>7. ASSUME key.route # route
      PROVE  OfRoute(more, route) = part
  <2>1. {y \in DOMAIN more : y.route = route} = DOMAIN part
    BY <1>1, <1>3, <1>7
  <2>2. \A x \in DOMAIN part : more[x] = part[x]
    BY <1>1, <1>3, <1>7
  <2> QED BY <1>1, <1>5, <2>1, <2>2
<1> QED BY <1>2, <1>6, <1>7 DEF part, more


LEMMA BucketsObserved ==
  ASSUME Counts, NEW route, NEW status, NEW seconds,
         Observe(route, status, seconds), NEW x, NEW i \in DOMAIN Bounds
  PROVE  /\ Buckets(x)[i] \in Nat
         /\ x = route /\ seconds <= Bounds[i] =>
              Buckets(x)'[i] = Buckets(x)[i] + 1
         /\ ~(x = route /\ seconds <= Bounds[i]) =>
              Buckets(x)'[i] = Buckets(x)[i]
<1>1. Buckets(x) \in [DOMAIN Bounds -> Nat]
  BY DEF Buckets, Counts
<1>2. bucketCounts' = [y \in DOMAIN bucketCounts \cup {route} |->
        [j \in DOMAIN Bounds |->
           Buckets(y)[j]
             + (IF y = route /\ seconds <= Bounds[j] THEN 1 ELSE 0)]]
  BY DEF Observe
<1>3. CASE x \in DOMAIN bucketCounts \cup {route}
  <2>1. Buckets(x)' = bucketCounts'[x]
    BY <1>2, <1>3 DEF Buckets
  <2>2. bucketCounts'[x][i] =
          Buckets(x)[i] + (IF x = route /\ seconds <= Bounds[i] THEN 1 ELSE 0)
    BY <1>2, <1>3
  <2> QED BY <1>1, <2>1, <2>2
<1>4. CASE x \notin DOMAIN bucketCounts \cup {route}
  <2>1. Buckets(x)' = [j \in DOMAIN Bounds |-> 0]
    BY <1>2, <1>4 DEF Buckets
  <2>2. Buckets(x) = [j \in DOMAIN Bounds |-> 0]
    BY <1>4 DEF Buckets
  <2> QED BY <1>1, <1>4, <2>1, <2>2
<1> QED BY <1>3, <1>4

LEMMA CountCounts ==
  ASSUME CounterInv, ServingInv', NEW r \in Request, Count(r)
  PROVE  CounterInv'
<1>1. TypeOK /\ Counts /\ ResponseOK(r)
  BY DEF CounterInv, ServingInv
<1>2. PICK route \in Routes : input[r].route = route
  <2>1. CASE input[r] \in Input
    BY <2>1, InputAssumption DEF Routes
  <2>2. CASE input[r] = NoInput
    <3>1. NoInput.route = "/health"
      BY DEF NoInput
    <3>2. input[r].route = "/health"
      BY <2>2, <3>1
    <3>3. "/health" \in Routes
      BY DEF Routes
    <3> QED BY <3>2, <3>3
  <2> QED BY <1>1, <2>1, <2>2 DEF TypeOK
<1> DEFINE key == [route |-> route, status |-> sent[r]]
<1>3. PICK seconds \in Seconds :
        /\ Observe(route, IF recorder[r] = 0 THEN 200 ELSE recorder[r],
                   seconds)
        /\ elapsed' = [elapsed EXCEPT ![r] = seconds]
  BY <1>2 DEF Count
<1>4. /\ pc[r] = "served"
      /\ pc' = [pc EXCEPT ![r] = "done"]
      /\ UNCHANGED <<input, cause, sent, recorder>>
  BY DEF Count, Goto
<1>5. recorder[r] = sent[r] /\ sent[r] # 0 /\ sent[r] \in Status
  BY <1>1, <1>4 DEF ResponseOK, TypeOK, Before
<1>6. Observe(route, sent[r], seconds)
  BY <1>3, <1>5
<1>7. /\ mu = Nil
      /\ requests' = Increment(requests, key)
      /\ requestCount' = Increment(requestCount, route)
      /\ DOMAIN bucketCounts' = DOMAIN bucketCounts \cup {route}
      /\ UNCHANGED <<failures, page>>
  BY <1>6 DEF Observe
<1>8. /\ pc'[r] = "done" /\ elapsed'[r] = seconds
      /\ \A q \in Request \ {r} : pc'[q] = pc[q] /\ elapsed'[q] = elapsed[q]
  BY <1>1, <1>3, <1>4 DEF TypeOK
<1>9. /\ FinitelyMany' /\ page' = [q \in Request |-> page'[q]]
      /\ \A q \in Request : ResponseOK(q)' /\ PageOK(q)'
  BY <1>4, <1>7, <1>8, CountKeepsPages
<1>10. /\ IsABag(requests) /\ IsABag(requestCount)
  BY <1>1 DEF Counts
<1>11. ASSUME NEW x \in Routes, x # route
       PROVE  RouteOK(x)'
  <2>1. Ended(x)' = Ended(x) /\ r \notin Ended(x)
    BY <1>4, <1>2, <1>8, <1>11 DEF Ended
  <2>2. Ended(x) \subseteq Request
    BY DEF Ended
  <2>3. /\ \A status : With(x, status)' = With(x, status)
        /\ \A i : Within(x, i)' = Within(x, i)
    BY <1>4, <1>8, <2>1, <2>2 DEF With, Within
  <2>4. Times(x, requestCount)' = Times(x, requestCount)
    BY <1>7, <1>10, <1>11, IncrementTimes
  <2>5. ASSUME NEW status
        PROVE  Times([route |-> x, status |-> status], requests)'
                 = Times([route |-> x, status |-> status], requests)
    <3>1. [route |-> x, status |-> status] # key
      BY <1>11
    <3> HIDE DEF key
    <3> QED BY <1>7, <1>10, <3>1, IncrementTimes
  <2>6. ASSUME NEW i \in DOMAIN Bounds PROVE Buckets(x)'[i] = Buckets(x)[i]
    BY <1>1, <1>6, <1>11, BucketsObserved
  <2> QED BY <2>1, <2>3, <2>4, <2>5, <2>6 DEF CounterInv, RouteOK
<1>12. RouteOK(route)'
  <2>1. Ended(route)' = Ended(route) \cup {r} /\ r \notin Ended(route)
    BY <1>4, <1>2, <1>8 DEF Ended
  <2>2. Ended(route) \subseteq Request /\ IsFiniteSet(Ended(route))
    <3>1. Ended(route) \subseteq {q \in Request : pc[q] # "idle"}
      BY DEF Ended
    <3> QED BY <3>1, FS_Subset DEF CounterInv, FinitelyMany, Ended
  <2>3. ASSUME NEW S, S \subseteq Ended(route)
        PROVE  Cardinality(S \cup {r}) = Cardinality(S) + 1
    <3>1. IsFiniteSet(S) /\ r \notin S
      BY <2>1, <2>2, <2>3, FS_Subset
    <3> QED BY <3>1, FS_AddElement
  <2>4. RouteOK(route)
    BY <1>2 DEF CounterInv
  <2>5. Times(route, requestCount)' = Cardinality(Ended(route)')
    <3>1. Times(route, requestCount') = Times(route, requestCount) + 1
      BY <1>7, <1>10, IncrementTimes
    <3> QED BY <2>1, <2>3, <2>4, <3>1 DEF RouteOK
  <2>6. ASSUME NEW status \in Status \cup {0}
        PROVE  Times([route |-> route, status |-> status], requests')
                 = Cardinality(With(route, status)')
    <3>1. Times([route |-> route, status |-> status], requests)
            = Cardinality(With(route, status))
      BY <2>4 DEF RouteOK
    <3>2. With(route, status) \subseteq Ended(route)
      BY DEF With
    <3>3. CASE status = sent[r]
      <4>1. With(route, status)' = With(route, status) \cup {r}
        BY <1>4, <2>1, <3>3 DEF With
      <4>2. Times(key, requests') = Times(key, requests) + 1
        BY <1>7, <1>10, IncrementTimes
      <4> QED BY <2>3, <3>1, <3>2, <3>3, <4>1, <4>2
    <3>4. CASE status # sent[r]
      <4>1. With(route, status)' = With(route, status)
        BY <1>4, <2>1, <3>4 DEF With
      <4>2. [route |-> route, status |-> status] # key
        BY <3>4
      <4> HIDE DEF key
      <4>3. Times([route |-> route, status |-> status], requests')
              = Times([route |-> route, status |-> status], requests)
        BY <1>7, <1>10, <4>2, IncrementTimes
      <4> QED BY <3>1, <4>1, <4>3
    <3> QED BY <3>3, <3>4
  <2>7. ASSUME NEW i \in DOMAIN Bounds
        PROVE  Buckets(route)'[i] = Cardinality(Within(route, i)')
    <3>1. Buckets(route)[i] = Cardinality(Within(route, i))
      BY <2>4 DEF RouteOK
    <3>2. Within(route, i) \subseteq Ended(route)
      BY DEF Within
    <3>3. CASE seconds <= Bounds[i]
      <4>1. Within(route, i)' = Within(route, i) \cup {r}
        BY <1>8, <2>1, <2>2, <3>3 DEF Within
      <4>2. Buckets(route)'[i] = Buckets(route)[i] + 1
        BY <1>1, <1>6, <3>3, BucketsObserved
      <4> QED BY <2>3, <3>1, <3>2, <4>1, <4>2
    <3>4. CASE ~(seconds <= Bounds[i])
      <4>1. Within(route, i)' = Within(route, i)
        BY <1>8, <2>1, <2>2, <3>4 DEF Within
      <4>2. Buckets(route)'[i] = Buckets(route)[i]
        BY <1>1, <1>6, <3>4, BucketsObserved
      <4> QED BY <3>1, <4>1, <4>2
    <3> QED BY <3>3, <3>4
  <2> QED BY <2>5, <2>6, <2>7 DEF RouteOK
<1>13. Series'
  <2>1. BagToSet(requestCount') = DOMAIN bucketCounts'
    BY <1>7, <1>10, AddOne DEF CounterInv, Series
  <2>2. BagToSet(requestCount') \subseteq Routes
    BY <1>2, <1>7, <1>10, AddOne DEF CounterInv, Series
  <2>3. ASSUME NEW x \in Routes
        PROVE  /\ IsFiniteSet(Occurrences(OfRoute(requests', x)))
               /\ Total(OfRoute(requests', x)) = Times(x, requestCount')
    <3>1. /\ IsFiniteSet(Occurrences(OfRoute(requests, x)))
          /\ Total(OfRoute(requests, x)) = Times(x, requestCount)
      BY DEF CounterInv, Series
    <3>2. CASE x = route
      <4>1. /\ IsABag(OfRoute(requests, x))
            /\ OfRoute(requests', x) = Increment(OfRoute(requests, x), key)
        BY <1>7, <1>10, <3>2, OfRouteIncrement
      <4>2. Times(x, requestCount') = Times(x, requestCount) + 1
        BY <1>7, <1>10, <3>2, IncrementTimes
      <4> HIDE DEF key
      <4> QED BY <3>1, <4>1, <4>2, TotalOfIncrement
    <3>3. CASE x # route
      <4>1. key.route # x
        BY <3>3
      <4> HIDE DEF key
      <4>2. OfRoute(requests', x) = OfRoute(requests, x)
        BY <1>7, <1>10, <4>1, OfRouteIncrement
      <4>3. Times(x, requestCount') = Times(x, requestCount)
        BY <1>7, <1>10, <3>3, IncrementTimes
      <4> QED BY <3>1, <4>2, <4>3
    <3> QED BY <3>2, <3>3
  <2> QED BY <2>1, <2>2, <2>3 DEF Series
<1>14. FailuresCounted'
  <2>1. {q \in Request : cause'[q] # NoError /\ pc'[q] # "failed"}
          = {q \in Request : cause[q] # NoError /\ pc[q] # "failed"}
    BY <1>4, <1>8
  <2> QED BY <1>7, <2>1 DEF CounterInv, FailuresCounted, FailuresAccounted
<1> QED BY <1>9, <1>11, <1>12, <1>13, <1>14 DEF CounterInv

-----------------------------------------------------------------------------

LEMMA InitCounterInv == Init => CounterInv
<1> SUFFICES ASSUME Init PROVE CounterInv
  OBVIOUS
<1>1. ServingInv
  BY InitStep
<1>2. /\ requests = EmptyBag /\ failures = EmptyBag /\ requestCount = EmptyBag
      /\ bucketCounts = EmptyBag /\ page = [r \in Request |-> BlankPage]
      /\ pc = [r \in Request |-> "idle"]
      /\ cause = [r \in Request |-> NoError]
      /\ sent = [r \in Request |-> 0] /\ recorder = [r \in Request |-> 0]
  BY DEF Init, MetricsInit
<1>3. DOMAIN EmptyBag = {} /\ Occurrences(EmptyBag) = {}
  BY DEF EmptyBag, SetToBag, Occurrences, BagToSet
<1>4. \A x : Times(x, EmptyBag) = 0
  BY <1>3 DEF Times, BagIn, BagToSet
<1>5. IsFiniteSet({}) /\ Cardinality({}) = 0
  BY FS_EmptySet
<1>6. FinitelyMany
  <2>1. {r \in Request : pc[r] # "idle"} = {}
    BY <1>2
  <2> QED BY <1>5, <2>1 DEF FinitelyMany
<1>7. ASSUME NEW route \in Routes PROVE RouteOK(route)
  <2>1. Ended(route) = {}
    BY <1>2 DEF Ended
  <2>2. /\ \A status : With(route, status) = {}
        /\ \A i : Within(route, i) = {}
    BY <2>1 DEF With, Within
  <2>3. Buckets(route) = [i \in DOMAIN Bounds |-> 0]
    BY <1>2, <1>3 DEF Buckets
  <2> QED BY <1>2, <1>4, <1>5, <2>1, <2>2, <2>3 DEF RouteOK
<1>8. Series
  <2>1. ASSUME NEW route PROVE OfRoute(EmptyBag, route) = EmptyBag
    BY <1>3 DEF OfRoute, BagToSet, EmptyBag, SetToBag
  <2> QED BY <1>2, <1>3, <1>4, <1>5, <2>1 DEF Series, Total, BagToSet
<1>9. FailuresCounted
  <2>1. {r \in Request : cause[r] # NoError /\ pc[r] # "failed"} = {}
    BY <1>2
  <2> QED BY <1>2, <1>3, <1>5, <2>1
          DEF FailuresCounted, FailuresAccounted, Total
<1>10. page = [r \in Request |-> page[r]]
  BY <1>2
<1>11. ASSUME NEW r \in Request PROVE ResponseOK(r) /\ PageOK(r)
  <2>1. /\ pc[r] = "idle" /\ cause[r] = NoError
        /\ sent[r] = 0 /\ recorder[r] = 0 /\ page[r] = BlankPage
    BY <1>2
  <2>2. ResponseOK(r)
    BY <2>1 DEF ResponseOK, Before
  <2>3. PageOK(r)
    BY <2>1 DEF PageOK, IsPage, BlankPage
  <2> QED BY <2>2, <2>3
<1> QED BY <1>1, <1>6, <1>7, <1>8, <1>9, <1>10, <1>11 DEF CounterInv

LEMMA NextCounterInv == CounterInv /\ [Next]_vars => CounterInv'
<1> SUFFICES ASSUME CounterInv, [Next]_vars PROVE CounterInv'
  OBVIOUS
<1>1. ServingInv'
  BY NextStep DEF CounterInv
<1>2. ASSUME NEW r \in Request,
             \/ Handle(r) \/ \E i \in Input : Arrive(r, i)
             \/ Scrape(r) \/ StartScrape(r)
      PROVE  CounterInv'
  <2>1. Quiet(r)
    BY <1>2, HandleQuiet, ScrapeQuiet
  <2> QED BY <1>1, <2>1, QuietKeeps
<1>3. ASSUME NEW r \in Request, CountFailure(r) PROVE CounterInv'
  BY <1>1, <1>3, CountFailureCounts
<1>4. ASSUME NEW r \in Request, Count(r) PROVE CounterInv'
  BY <1>1, <1>4, CountCounts
<1>5. CASE UNCHANGED vars
  <2>1. /\ UNCHANGED <<mu, requests, failures, bucketCounts, durationSum,
                       requestCount, page>>
        /\ UNCHANGED <<pc, input, cause, sent, recorder, elapsed>>
    BY <1>5 DEF vars, metricsVars, requestVars, counters
  <2>2. ASSUME NEW route \in Routes PROVE RouteOK(route)'
    BY <2>1, <2>2 DEF CounterInv, RouteOK, Ended, With, Within, Buckets
  <2>3. ASSUME NEW r \in Request PROVE ResponseOK(r)' /\ PageOK(r)'
    BY <2>1, <2>3 DEF CounterInv, ResponseOK, PageOK
  <2>4. FinitelyMany' /\ Series' /\ FailuresCounted'
    BY <2>1 DEF CounterInv, FinitelyMany, Series, FailuresCounted,
                FailuresAccounted
  <2> QED BY <1>1, <2>1, <2>2, <2>3, <2>4 DEF CounterInv
<1> QED BY <1>2, <1>3, <1>4, <1>5 DEF Next, Acquire

(* The counters and the responses they count move together, in every step  *)
(* of every request (instrument, observe, observeFailure, writeTo).        *)
THEOREM CounterInvariant == Spec => []CounterInv
BY InitCounterInv, NextCounterInv, PTL DEF Spec

(* Every request and every duration is counted once, under its route and   *)
(* the status that went out on the wire, whatever number of requests end   *)
(* at once and however long a scraper holds the mutex (instrument,         *)
(* statusRecorder, observe).                                               *)
THEOREM CountersAreResponses == Spec => []CountersMatchResponses
<1>1. CounterInv => CountersMatchResponses
  BY DEF CounterInv, RouteOK, With, Within, Routes, CountersMatchResponses
<1> QED BY <1>1, CounterInvariant, PTL

(* No failure is lost and none is counted twice, whatever its class and    *)
(* however full the map is (resolve, observeFailure).                      *)
THEOREM NoFailureLost == Spec => []FailuresAccounted
<1>1. CounterInv => FailuresAccounted
  BY DEF CounterInv, FailuresCounted
<1> QED BY <1>1, CounterInvariant, PTL


(* The buckets and the count of a route are cumulative: every one counts   *)
(* at least the requests of the one before it.                             *)
LEMMA BucketsCumulative ==
  ASSUME CounterInv, NEW route \in BagToSet(requestCount)
  PROVE  LET counts == Append(bucketCounts[route], requestCount[route])
         IN  \A i \in DOMAIN Bounds : counts[i] <= counts[i + 1]
<1>1. /\ route \in Routes /\ route \in DOMAIN bucketCounts
      /\ route \in DOMAIN requestCount
  BY DEF CounterInv, Series, BagToSet
<1>2. Bounds \in Seq(Nat) /\ Len(Bounds) \in Nat
  BY BoundsAssumption
<1>3. DOMAIN Bounds = 1 .. Len(Bounds)
  BY <1>2
<1>4. bucketCounts[route] \in [1 .. Len(Bounds) -> Nat]
  BY <1>1, <1>3 DEF CounterInv, ServingInv, Counts
<1>5. requestCount[route] = Cardinality(Ended(route))
  BY <1>1 DEF CounterInv, RouteOK, Times, BagIn, BagToSet
<1>6. ASSUME NEW i \in DOMAIN Bounds
      PROVE  bucketCounts[route][i] = Cardinality(Within(route, i))
  BY <1>1, <1>6 DEF CounterInv, RouteOK, Buckets
<1>7. IsFiniteSet(Ended(route))
  <2>1. Ended(route) \subseteq {r \in Request : pc[r] # "idle"}
    BY DEF Ended
  <2> QED BY <2>1, FS_Subset DEF CounterInv, FinitelyMany
<1>8. requestCount[route] \in Nat
  BY <1>5, <1>7, FS_CardinalityType
<1>9. ASSUME NEW i \in DOMAIN Bounds
      PROVE  /\ IsFiniteSet(Within(route, i))
             /\ Cardinality(Within(route, i)) <= Cardinality(Ended(route))
  <2>1. Within(route, i) \subseteq Ended(route)
    BY DEF Within
  <2> QED BY <1>7, <2>1, FS_Subset
<1>10. ASSUME NEW i \in DOMAIN Bounds, i + 1 \in DOMAIN Bounds
       PROVE  Cardinality(Within(route, i))
                <= Cardinality(Within(route, i + 1))
  <2>1. \A r \in Request : elapsed[r] \in Int
    BY SecondsAssumption DEF CounterInv, ServingInv, TypeOK
  <2>2. Bounds[i] \in Int /\ Bounds[i + 1] \in Int
    BY <1>2, <1>3, <1>10
  <2>3. Bounds[i] <= Bounds[i + 1]
    BY <1>3, <1>10, BoundsAssumption
  <2>4. Within(route, i) \subseteq Within(route, i + 1)
    BY <2>1, <2>2, <2>3 DEF Within, Ended
  <2> QED BY <1>9, <1>10, <2>4, FS_Subset
<1> DEFINE counts == Append(bucketCounts[route], requestCount[route])
<1>11. /\ \A i \in 1 .. Len(Bounds) : counts[i] = bucketCounts[route][i]
       /\ counts[Len(Bounds) + 1] = requestCount[route]
  <2>1. bucketCounts[route] \in Seq(Nat)
        /\ Len(bucketCounts[route]) = Len(Bounds)
    BY <1>2, <1>4
  <2> QED BY <1>2, <1>8, <2>1
<1>12. ASSUME NEW i \in DOMAIN Bounds PROVE counts[i] <= counts[i + 1]
  <2>1. i \in 1 .. Len(Bounds)
    BY <1>3
  <2> HIDE DEF counts
  <2>2. CASE i = Len(Bounds)
    BY <1>5, <1>6, <1>9, <1>11, <2>1, <2>2
  <2>3. CASE i + 1 \in 1 .. Len(Bounds)
    BY <1>3, <1>6, <1>10, <1>11, <2>1, <2>3
  <2> QED BY <1>2, <2>1, <2>2, <2>3
<1> QED BY <1>12

(* A response with 422 is an error that has been counted.                  *)
LEMMA UnresolvedAreFailures ==
  ASSUME CounterInv
  PROVE  Times([route |-> "/resolve", status |-> 422], requests)
           <= Total(failures)
<1> DEFINE failed == {r \in Request : cause[r] # NoError /\ pc[r] # "failed"}
<1>1. Times([route |-> "/resolve", status |-> 422], requests)
        = Cardinality(With("/resolve", 422))
  <2>1. "/resolve" \in Routes /\ 422 \in Status \cup {0}
    BY DEF Routes, Status
  <2> QED BY <2>1 DEF CounterInv, RouteOK
<1>2. Total(failures) = Cardinality(failed)
  BY DEF CounterInv, FailuresCounted, FailuresAccounted
<1>3. IsFiniteSet(failed)
  <2>1. failed \subseteq {r \in Request : pc[r] # "idle"}
    BY DEF CounterInv, ResponseOK
  <2> QED BY <2>1, FS_Subset DEF CounterInv, FinitelyMany
<1>4. With("/resolve", 422) \subseteq failed
  BY DEF With, Ended, CounterInv, ResponseOK
<1> QED BY <1>1, <1>2, <1>3, <1>4, FS_Subset

LEMMA PagesAreSnapshots == CounterInv => ScrapeIsSnapshot
<1> SUFFICES ASSUME CounterInv PROVE ScrapeIsSnapshot
  OBVIOUS
<1>1. ASSUME NEW r \in Request, pc[r] = "scraped", ~page[r].err
      PROVE  /\ page[r].requests = requests
             /\ page[r].buckets = bucketCounts
             /\ page[r].counts = requestCount
             /\ page[r].failures = failures
  BY <1>1 DEF CounterInv, PageOK
<1>2. ASSUME NEW r \in Request, pc[r] = "scraped", ~page[r].err,
             NEW route \in BagToSet(page[r].counts)
      PROVE  Total([k \in Listed(r, route) |-> page[r].requests[k]])
               = page[r].counts[route]
  <2>1. route \in BagToSet(requestCount) /\ route \in Routes
    BY <1>1, <1>2 DEF CounterInv, Series
  <2>2. Total(OfRoute(requests, route)) = Times(route, requestCount)
    BY <2>1 DEF CounterInv, Series
  <2>3. Times(route, requestCount) = requestCount[route]
    BY <2>1 DEF Times, BagIn
  <2>4. [k \in Listed(r, route) |-> page[r].requests[k]]
          = OfRoute(requests, route)
    BY <1>1, <1>2 DEF Listed, OfRoute
  <2> QED BY <1>1, <1>2, <2>2, <2>3, <2>4
<1>3. ASSUME NEW r \in Request, pc[r] = "scraped", ~page[r].err,
             NEW route \in BagToSet(page[r].counts)
      PROVE  LET counts == Append(page[r].buckets[route],
                                  page[r].counts[route])
             IN  \A i \in DOMAIN Bounds : counts[i] <= counts[i + 1]
  BY <1>1, <1>3, BucketsCumulative
<1>4. ASSUME NEW r \in Request, pc[r] = "scraped", ~page[r].err
      PROVE  Times([route |-> "/resolve", status |-> 422], page[r].requests)
               <= Total(page[r].failures)
  BY <1>1, <1>4, UnresolvedAreFailures
<1> QED BY <1>2, <1>3, <1>4 DEF ScrapeIsSnapshot

(* A page written to its end is consistent in itself, although requests    *)
(* end and failures are waiting while it is written: its buckets are       *)
(* cumulative and end in the count, which its statuses add up to, and it   *)
(* reports no more unresolved owners than failures (writeTo, resolve).     *)
THEOREM ScrapesAreSnapshots == Spec => []ScrapeIsSnapshot
BY PagesAreSnapshots, CounterInvariant, PTL
=============================================================================
