------------------------------ MODULE Serving -------------------------------
(***************************************************************************)
(* The HTTP binding, src/internal/api/handler.go: concurrent requests to   *)
(* /resolve, /health and /metrics, from the call of the instrumented       *)
(* handler to the request being counted.                                   *)
(*                                                                         *)
(* What a request brings is a record of what the handler tests: the        *)
(* method, the Authorization header, and what reading and decoding the     *)
(* body comes to.  What the resolver answers is a choice: claims, or an    *)
(* error, of which the handler looks at two things only, the text before   *)
(* the first ": " (empty if there is none) and whether it is a             *)
(* BadRequestError.                                                        *)
(***************************************************************************)
EXTENDS Metrics

CONSTANTS
  Input,        \* the requests clients make
  Prefix,       \* what resolver errors say before their first ": "
  Unspecified,  \* errorClassUnspecified
  Seconds       \* how long a request may take

ASSUME InputAssumption ==
  \A i \in Input :
    /\ i.route \in {"/resolve", "/health", "/metrics"}
    /\ i.method \in {"GET", "POST"}
    /\ i.authorization \in {"", "secret", "Bearer wrong", "Bearer secret"}
    /\ i.body \in {"decodes", "too large", "malformed"}

ASSUME PrefixAssumption == Nil \notin Prefix \cup {""}
ASSUME SecondsAssumption == Seconds \subseteq Nat

VARIABLES
  pc,         \* what each request is at
  input,      \* what it brought
  secured,    \* whether an AuthToken is configured
  cause,      \* the resolver's error, if it returned one
  sent,       \* the status on the wire, 0 before any
  recorder,   \* statusRecorder.status
  elapsed     \* how long it took, when it is counted

requestVars == <<pc, input, cause, sent, recorder, elapsed>>
vars == <<metricsVars, requestVars, secured>>

NoInput ==
  [route |-> "/health", method |-> "GET", authorization |-> "",
   body |-> "decodes"]
NoError == [prefix |-> Nil, badRequest |-> FALSE]

Init ==
  /\ MetricsInit
  /\ pc = [r \in Request |-> "idle"]
  /\ input = [r \in Request |-> NoInput]
  /\ secured \in BOOLEAN
  /\ cause = [r \in Request |-> NoError]
  /\ sent = [r \in Request |-> 0]
  /\ recorder = [r \in Request |-> 0]
  /\ elapsed = [r \in Request |-> 0]

Goto(r, label) == pc' = [pc EXCEPT ![r] = label]

(* statusRecorder.WriteHeader keeps the last status it is told; net/http   *)
(* sends the first and ignores the others.                                 *)
WriteHeader(r, status) ==
  /\ recorder' = [recorder EXCEPT ![r] = status]
  /\ sent' = [sent EXCEPT ![r] = IF @ = 0 THEN status ELSE @]

Arrive(r, i) ==
  /\ pc[r] = "idle"
  /\ input' = [input EXCEPT ![r] = i]
  /\ Goto(r, "serving")
  /\ UNCHANGED <<metricsVars, cause, sent, recorder, elapsed, secured>>

Serves(r, route) == pc[r] = "serving" /\ input[r].route = route

(* The scheme is required, and the whole secret. *)
Authorized(r) == secured => input[r].authorization = "Bearer secret"

(* Wrong on purpose: a refusal does not return. *)
RefusalGoesOn(r, status) ==
  /\ WriteHeader(r, status)
  /\ Goto(r, IF status = 401 THEN "admitted" ELSE "served")
  /\ UNCHANGED <<metricsVars, input, cause, elapsed, secured>>

(* writeError and return: the handler is done. *)
Refuse(r, status) ==
  /\ WriteHeader(r, status)
  /\ Goto(r, "served")
  /\ UNCHANGED <<metricsVars, input, cause, elapsed, secured>>

Health(r) == Serves(r, "/health") /\ Refuse(r, 200)

WrongMethod(r) ==
  \/ Serves(r, "/resolve") /\ input[r].method # "POST" /\ Refuse(r, 405)
  \/ Serves(r, "/metrics") /\ input[r].method # "GET" /\ Refuse(r, 405)

Unauthorized(r) ==
  /\ Serves(r, "/resolve")
  /\ input[r].method = "POST"
  /\ ~Authorized(r)
  /\ Refuse(r, 401)

Admit(r) ==
  /\ Serves(r, "/resolve")
  /\ input[r].method = "POST"
  /\ Authorized(r)
  /\ Goto(r, "admitted")
  /\ UNCHANGED <<metricsVars, input, cause, sent, recorder, elapsed, secured>>

(* MaxBytesReader under the decoder. *)
RejectBody(r) ==
  /\ pc[r] = "admitted"
  /\ input[r].body # "decodes"
  /\ Refuse(r, IF input[r].body = "too large" THEN 413 ELSE 400)

Resolves(r) ==
  /\ pc[r] = "admitted"
  /\ input[r].body = "decodes"
  /\ Refuse(r, 200)

ResolveFails(r) ==
  /\ pc[r] = "admitted"
  /\ input[r].body = "decodes"
  /\ \E prefix \in Prefix \cup {""}, badRequest \in BOOLEAN :
       cause' = [cause EXCEPT ![r] =
                   [prefix |-> prefix, badRequest |-> badRequest]]
  /\ Goto(r, "failed")
  /\ UNCHANGED <<metricsVars, input, sent, recorder, elapsed, secured>>

(* errorClass: a message without a prefix has a fixed class. *)
ErrorClass(error) ==
  IF error.prefix = "" THEN Unspecified ELSE error.prefix

(* Wrong on purpose: only what is not the caller's fault is counted. *)
CountUnlessBadRequest(r) ==
  /\ pc[r] = "failed"
  /\ IF cause[r].badRequest
       THEN UNCHANGED metricsVars
       ELSE ObserveFailure(ErrorClass(cause[r]))
  /\ Goto(r, "logged")
  /\ UNCHANGED <<input, cause, sent, recorder, elapsed, secured>>

CountFailure(r) ==
  /\ pc[r] = "failed"
  /\ ObserveFailure(ErrorClass(cause[r]))
  /\ Goto(r, "logged")
  /\ UNCHANGED <<input, cause, sent, recorder, elapsed, secured>>

AnswerFailure(r) ==
  /\ pc[r] = "logged"
  /\ Refuse(r, IF cause[r].badRequest THEN 400 ELSE 422)

-----------------------------------------------------------------------------
(* serveMetrics *)

StartScrape(r) ==
  /\ Serves(r, "/metrics")
  /\ input[r].method = "GET"
  /\ LockForWrite(r)
  /\ Goto(r, "requests")
  /\ UNCHANGED <<input, cause, sent, recorder, elapsed, secured>>

(* The first write sends the implicit 200, which Write records. *)
ScrapeRequests(r) ==
  /\ pc[r] = "requests"
  /\ PrintRequests(r)
  /\ WriteHeader(r, 200)
  /\ Goto(r, "durations")
  /\ UNCHANGED <<input, cause, elapsed, secured>>

ScrapeDurations(r) ==
  /\ pc[r] = "durations"
  /\ PrintDurations(r)
  /\ Goto(r, "failures")
  /\ UNCHANGED <<input, cause, sent, recorder, elapsed, secured>>

ScrapeFailures(r) ==
  /\ pc[r] = "failures"
  /\ PrintFailures(r)
  /\ Goto(r, "scraped")
  /\ UNCHANGED <<input, cause, sent, recorder, elapsed, secured>>

EndScrape(r) ==
  /\ pc[r] = "scraped"
  /\ Unlock(r)
  /\ Goto(r, "served")
  /\ UNCHANGED <<input, cause, sent, recorder, elapsed, secured>>

(* What instrument does once the handler has returned. *)
Count(r) ==
  /\ pc[r] = "served"
  /\ \E seconds \in Seconds :
       /\ Observe(input[r].route,
                  IF recorder[r] = 0 THEN 200 ELSE recorder[r], seconds)
       /\ elapsed' = [elapsed EXCEPT ![r] = seconds]
  /\ Goto(r, "done")
  /\ UNCHANGED <<input, cause, sent, recorder, secured>>

-----------------------------------------------------------------------------

(* The steps a goroutine can take by itself. *)
Handle(r) ==
  \/ Health(r)
  \/ WrongMethod(r)
  \/ Unauthorized(r)
  \/ Admit(r)
  \/ RejectBody(r)
  \/ Resolves(r)
  \/ ResolveFails(r)
  \/ AnswerFailure(r)

(* The writes to a client that may be slow. *)
Scrape(r) ==
  \/ ScrapeRequests(r)
  \/ ScrapeDurations(r)
  \/ ScrapeFailures(r)
  \/ EndScrape(r)

(* The steps that wait for the mutex. *)
Acquire(r) == CountFailure(r) \/ StartScrape(r) \/ Count(r)

Next ==
  \E r \in Request :
    \/ \E i \in Input : Arrive(r, i)
    \/ Handle(r)
    \/ Scrape(r)
    \/ Acquire(r)

Spec == Init /\ [][Next]_vars

(* A goroutine that can run does, and Resolve returns (it is bounded by    *)
(* the facade client's timeouts); a write ends, because the client reads   *)
(* or the server's WriteTimeout fails it; and sync.Mutex hands itself to   *)
(* whoever has waited long, so nobody waits for ever while it is released  *)
(* again and again.                                                        *)
Fairness ==
  \A r \in Request :
    /\ WF_vars(Handle(r))
    /\ WF_vars(Scrape(r))
    /\ SF_vars(Acquire(r))

FairSpec == Spec /\ Fairness

-----------------------------------------------------------------------------

Label ==
  {"idle", "serving", "admitted", "failed", "logged", "requests",
   "durations", "failures", "scraped", "served", "done"}
Status == {200, 400, 401, 405, 413, 422}

(* The types, and who holds the mutex across steps: the one scrape that is *)
(* being written (writeTo).                                                *)
TypeOK ==
  /\ pc \in [Request -> Label]
  /\ input \in [Request -> Input \cup {NoInput}]
  /\ sent \in [Request -> Status \cup {0}]
  /\ recorder \in [Request -> Status \cup {0}]
  /\ elapsed \in [Request -> Seconds \cup {0}]
  /\ mu \in Request \cup {Nil}
  /\ \A r \in Request :
       mu = r <=> pc[r] \in {"requests", "durations", "failures", "scraped"}

Ended(route) == {r \in Request : pc[r] = "done" /\ input[r].route = route}

(* Every counter is the number of responses it says it counts: by the      *)
(* status that went out, which is not the one the recorder holds if a      *)
(* handler writes twice, and by duration (instrument, statusRecorder,      *)
(* observe).                                                               *)
CountersMatchResponses ==
  \A route \in {"/resolve", "/health", "/metrics"} :
    /\ Times(route, requestCount) = Cardinality(Ended(route))
    /\ \A status \in Status \cup {0} :
         Times([route |-> route, status |-> status], requests)
           = Cardinality({r \in Ended(route) : sent[r] = status})
    /\ \A i \in DOMAIN Bounds :
         Buckets(route)[i]
           = Cardinality({r \in Ended(route) : elapsed[r] <= Bounds[i]})

(* No failure is lost, whatever its class and however full the map: the    *)
(* total over the classes is the number of resolver errors that are past   *)
(* the point where they are counted (resolve, observeFailure).             *)
FailuresAccounted ==
  Total(failures)
    = Cardinality({r \in Request : cause[r] # NoError /\ pc[r] # "failed"})

(* The label set of the failures is closed, and at most one above the cap, *)
(* for the overflow class (observeFailure, errorClass).                    *)
ClassesBounded ==
  /\ BagToSet(failures) \subseteq Prefix \cup {Unspecified, Overflow}
  /\ Cardinality(BagToSet(failures)) <= MaxFailureClasses + 1

(* The statuses of a page's requests for one route. *)
Listed(r, route) ==
  {k \in BagToSet(page[r].requests) : k.route = route}

(* A scrape is a snapshot, although other requests end while it is being   *)
(* written: on a page written to its end the buckets do not decrease and   *)
(* end in the count, which is the sum over the statuses; and no more       *)
(* unresolved owners are reported as responses than as failures, since a   *)
(* failure is counted first (writeTo, resolve).                            *)
ScrapeIsSnapshot ==
  \A r \in Request :
    pc[r] = "scraped" /\ ~page[r].err =>
      /\ \A route \in BagToSet(page[r].counts) :
           LET counts == Append(page[r].buckets[route], page[r].counts[route])
           IN  /\ \A i \in DOMAIN Bounds : counts[i] <= counts[i + 1]
               /\ Total([k \in Listed(r, route) |-> page[r].requests[k]])
                    = page[r].counts[route]
      /\ Times([route |-> "/resolve", status |-> 422], page[r].requests)
           <= Total(page[r].failures)

(* A series never disappears and a counter never goes back, as Prometheus  *)
(* requires of counters (observe, observeFailure).                         *)
CountersOnlyGrow ==
  [][/\ requests \sqsubseteq requests'
     /\ failures \sqsubseteq failures'
     /\ requestCount \sqsubseteq requestCount'
     /\ \A route \in DOMAIN bucketCounts :
          \A i \in DOMAIN Bounds :
            bucketCounts[route][i] <= bucketCounts'[route][i]]_vars

(* Every request is answered and counted, however slowly a scraper reads   *)
(* while its page holds the mutex (writeTo's deferred unlock, the server's *)
(* WriteTimeout).                                                          *)
Served == \A r \in Request : pc[r] = "serving" ~> pc[r] = "done"
=============================================================================
