----------------------------- MODULE Lifecycle ------------------------------
(***************************************************************************)
(* The process, src/main.go: main, run, the goroutine that serves, the     *)
(* signal, and the graceful shutdown under the requests in flight.         *)
(*                                                                         *)
(* net/http is external.  Of it the model keeps what run depends on: Serve *)
(* returns ErrServerClosed once Shutdown was called, or an error of the    *)
(* listener; Shutdown closes the listener and what is idle, and waits, to  *)
(* its context's deadline, for the connections that are new or have a      *)
(* request in flight; a new connection is given up after ReadHeaderTimeout,*)
(* and a body must be there ReadTimeout after its request began.           *)
(*                                                                         *)
(* A request is in flight through three phases: its body is read, it makes *)
(* some number of facade calls, each bounded by the client's timeout, and  *)
(* it waits for the metrics' mutex, which a scrape may hold while it       *)
(* writes.  Computing takes no time.  What the clients receive is not      *)
(* modelled: an answer written after WriteTimeout is lost, however long    *)
(* each phase took, and nothing in the code relates the phases to it.      *)
(*                                                                         *)
(* A unit of time is longer than the interval at which Shutdown looks again*)
(* (500 ms); timers are exact.  The clock begins when the process serves.  *)
(***************************************************************************)
EXTENDS Settings, Sequences

CONSTANTS
  Conn,             \* the connections clients open
  Calls,            \* how many facade calls a request may make
  Waits,            \* how long a scrape may make a request wait
  Configs,          \* contractService.timeoutMs and resourceCacheTtlMs, and
                    \* MAX_BODY_BYTES, as they may be configured
  ReadHeaderTimeout,
  ReadTimeout,
  ShutdownTimeout,
  None,             \* no instant
  MaxTime           \* bound of the clock (only to keep the states finite)

ASSUME TimeoutAssumption ==
  /\ {ReadHeaderTimeout, ReadTimeout, ShutdownTimeout} \subseteq Nat \ {0}
  /\ ReadHeaderTimeout <= ReadTimeout
  /\ MaxTime \in Nat
ASSUME NumbersAssumption ==
  /\ Calls \subseteq Nat
  /\ Waits \subseteq Nat
  /\ \A asked \in Configs :
       /\ asked.timeout \in Int
       /\ asked.ttl \in Int
       /\ asked.body \in Int \cup {Unset, Unparseable}
ASSUME NoneAssumption == None \notin Int

VARIABLES
  now,        \* the clock
  config,     \* the numbers as they were configured
  limits,     \* and what became of them
  main,       \* what main, or run, is at
  exit,       \* how the process ended
  server,     \* the goroutine that serves
  serveErr,   \* the channel it answers on
  cancelled,  \* when ctx was done, by SIGINT or SIGTERM
  drainEnd,   \* when the shutdown's budget ends, once there is one
  conn,       \* the state of each connection
  due,        \* when what it waits for ends at last, if it ever does
  cut         \* the connections a request of which was cut off

timeVars == <<now, config, limits>>
processVars == <<main, exit, server, serveErr, cancelled, drainEnd>>
connVars == <<conn, due, cut>>
vars == <<timeVars, processVars, connVars>>

Init ==
  /\ now = 0
  /\ config \in Configs
  /\ limits = [timeout |-> 0, ttl |-> 0, body |-> 0]
  /\ main = "starting"
  /\ exit = "none"
  /\ server = "none"
  /\ serveErr = <<>>
  /\ cancelled = None
  /\ drainEnd = None
  /\ conn = [c \in Conn |-> "none"]
  /\ due = [c \in Conn |-> None]
  /\ cut = {}

(* The phases of a request in flight. *)
InFlight == {"reading", "calling", "counting"}

(* run returns and main ends the process: whatever is in flight is cut. *)
Exit(how) ==
  /\ main' = "ended"
  /\ exit' = how
  /\ conn' = [c \in Conn |-> "none"]
  /\ cut' = cut \cup {c \in Conn : conn[c] \in InFlight}
  /\ UNCHANGED <<timeVars, server, cancelled, drainEnd, due>>

-----------------------------------------------------------------------------
(* main and run *)

(* The listener cannot be opened, or the configuration not be loaded. *)
FailToStart ==
  /\ main = "starting"
  /\ Exit("failure")
  /\ UNCHANGED serveErr

Load ==
  /\ main = "starting"
  /\ limits' = [timeout |-> ClientTimeout(config.timeout),
                ttl |-> ResourceCacheTTL(config.ttl),
                body |-> MaxBodyBytes(config.body)]
  /\ main' = "selecting"
  /\ server' = "starting"
  /\ UNCHANGED <<now, config, exit, serveErr, cancelled, drainEnd, connVars>>

(* select: the server's answer came first. *)
ServerEnds ==
  /\ main = "selecting"
  /\ serveErr # <<>>
  /\ Exit(IF Head(serveErr) = "failed" THEN "failure" ELSE "success")
  /\ serveErr' = Tail(serveErr)

CloseIdle ==
  /\ conn' = [c \in Conn |-> IF conn[c] = "idle" THEN "none" ELSE conn[c]]
  /\ UNCHANGED <<due, cut>>

(* Wrong on purpose: the shutdown uses the context that is already done. *)
DrainUnderCancelledContext ==
  /\ main = "selecting"
  /\ cancelled # None
  /\ main' = "draining"
  /\ drainEnd' = now
  /\ CloseIdle
  /\ UNCHANGED <<timeVars, exit, server, serveErr, cancelled>>

(* select: the context is done.  Shutdown begins. *)
Drain ==
  /\ main = "selecting"
  /\ cancelled # None
  /\ main' = "draining"
  /\ drainEnd' = now + ShutdownTimeout
  /\ CloseIdle
  /\ UNCHANGED <<timeVars, exit, server, serveErr, cancelled>>

Quiescent == \A c \in Conn : conn[c] \notin {"new"} \cup InFlight

(* Wrong on purpose: what the server answered is not asked for. *)
DrainedAndDone ==
  /\ main = "draining"
  /\ Quiescent
  /\ Exit("success")
  /\ UNCHANGED serveErr

(* Shutdown returns nil. *)
Drained ==
  /\ main = "draining"
  /\ Quiescent
  /\ main' = "joining"
  /\ UNCHANGED <<timeVars, exit, server, serveErr, cancelled, drainEnd,
                 connVars>>

(* Wrong on purpose: the shutdown has no budget. *)
NeverExpires == FALSE /\ UNCHANGED vars

(* Shutdown returns its context's error. *)
BudgetExpires ==
  /\ main = "draining"
  /\ now >= drainEnd
  /\ Exit("failure")
  /\ UNCHANGED serveErr

Join ==
  /\ main = "joining"
  /\ serveErr # <<>>
  /\ Exit(IF Head(serveErr) = "failed" THEN "failure" ELSE "success")
  /\ serveErr' = Tail(serveErr)

-----------------------------------------------------------------------------
(* The goroutine that serves *)

Closing == drainEnd # None
Running == exit = "none"

Answer(state, err) ==
  /\ server' = state
  /\ serveErr' = Append(serveErr, err)
  /\ UNCHANGED <<timeVars, main, exit, cancelled, drainEnd, connVars>>

Serve ==
  /\ Running /\ server = "starting" /\ ~Closing
  /\ server' = "serving"
  /\ UNCHANGED <<timeVars, main, exit, serveErr, cancelled, drainEnd,
                 connVars>>

(* ErrServerClosed becomes nil. *)
ServeCloses ==
  Running /\ server \in {"starting", "serving"} /\ Closing
    /\ Answer("closed", "nil")

ServeFails ==
  Running /\ server = "serving" /\ ~Closing /\ Answer("broken", "failed")

-----------------------------------------------------------------------------
(* The outside: the signal, the clients, the facade, the clock *)

(* The bound leaves the budget time to end. *)
Signal ==
  /\ Running /\ cancelled = None
  /\ now + ShutdownTimeout <= MaxTime
  /\ cancelled' = now
  /\ UNCHANGED <<timeVars, main, exit, server, serveErr, drainEnd, connVars>>

(* Connection c comes into a state, which ends at an instant at last. *)
Enter(c, state, instant) ==
  /\ conn' = [conn EXCEPT ![c] = state]
  /\ due' = [due EXCEPT ![c] = instant]
  /\ UNCHANGED <<timeVars, processVars, cut>>

Connect(c) ==
  /\ server = "serving" /\ Running /\ ~Closing
  /\ conn[c] = "none"
  /\ Enter(c, "new", now + ReadHeaderTimeout)

(* A request's headers are read.  Its body's deadline counts from where    *)
(* the request began: with a new connection, or now on a kept one.         *)
Request(c) ==
  LET began == IF conn[c] = "new" THEN due[c] - ReadHeaderTimeout ELSE now
  IN  /\ Running
      /\ conn[c] \in {"new", "idle"}
      /\ Enter(c, "reading", began + ReadTimeout)

GiveUp(c) ==
  /\ conn[c] = "new"
  /\ due[c] = now
  /\ conn' = [conn EXCEPT ![c] = "none"]
  /\ UNCHANGED <<timeVars, processVars, due, cut>>

(* The body is there, cannot be read or is not wanted; the calls begin, if *)
(* there are any.                                                          *)
BodyEnds(c) ==
  /\ conn[c] = "reading"
  /\ \E n \in Calls \cup {0} :
       Enter(c, "calling",
             IF Bounded(limits.timeout)
               THEN now + n * (limits.timeout \div Milli) ELSE None)

(* The calls have ended; the request is to be counted. *)
CallsEnd(c) ==
  /\ conn[c] = "calling"
  /\ \E wait \in Waits : Enter(c, "counting", now + wait)

(* The handler returns; a connection is not kept during a shutdown. *)
Respond(c) ==
  /\ conn[c] = "counting"
  /\ conn' = [conn EXCEPT ![c] = IF Closing THEN "none" ELSE "idle"]
  /\ UNCHANGED <<timeVars, processVars, due, cut>>

(* Whatever can be done at once, or at this instant at the latest. *)
Urgent ==
  \/ main \in {"starting", "joining"}
  \/ main = "selecting" /\ (cancelled # None \/ serveErr # <<>>)
  \/ main = "draining" /\ (Quiescent \/ now >= drainEnd)
  \/ server = "starting" \/ (server = "serving" /\ Closing)
  \/ \E c \in Conn : conn[c] \in {"new"} \cup InFlight /\ due[c] = now

Tick ==
  /\ Running /\ ~Urgent
  /\ now < MaxTime
  /\ now' = now + 1
  /\ UNCHANGED <<config, limits, processVars, connVars>>

-----------------------------------------------------------------------------

Run ==
  \/ Load
  \/ ServerEnds
  \/ Drain
  \/ Drained
  \/ BudgetExpires
  \/ Join

ServeLoop == Serve \/ ServeCloses

Timed(c) == GiveUp(c) \/ BodyEnds(c) \/ CallsEnd(c) \/ Respond(c)

Next ==
  \/ FailToStart
  \/ Run
  \/ ServeLoop
  \/ ServeFails
  \/ Signal
  \/ \E c \in Conn : Connect(c) \/ Request(c) \/ Timed(c)
  \/ Tick

Spec == Init /\ [][Next]_vars

(* The goroutines run, time passes, and timers fire: whatever is due is    *)
(* done.  A handler without a limit on its calls need never answer, nor a  *)
(* client send anything.                                                   *)
Fairness ==
  /\ WF_vars(Run)
  /\ WF_vars(ServeLoop)
  /\ WF_vars(Tick)
  /\ \A c \in Conn : WF_vars(due[c] = now /\ Timed(c))

FairSpec == Spec /\ Fairness

-----------------------------------------------------------------------------

(* The types; the channel is buffered for the one answer it gets. *)
TypeOK ==
  /\ now \in 0 .. MaxTime
  /\ limits \in [timeout : Int, ttl : Nat, body : Nat]
  /\ main \in {"starting", "selecting", "draining", "joining", "ended"}
  /\ exit \in {"none", "success", "failure"}
  /\ main = "ended" <=> exit # "none"
  /\ server \in {"none", "starting", "serving", "closed", "broken"}
  /\ serveErr \in {<<>>, <<"nil">>, <<"failed">>}
  /\ cancelled \in Nat \cup {None}
  /\ drainEnd \in Nat \cup {None}
  /\ conn \in [Conn -> {"none", "new", "idle"} \cup InFlight]
  /\ due \in [Conn -> Nat \cup {None}]
  /\ cut \subseteq Conn

(* A signal came as long ago as a shutdown may last. *)
BudgetUsed == cancelled # None /\ now >= cancelled + ShutdownTimeout

(* The exit status tells what happened, whichever of the signal, the       *)
(* server's failure and the budget won: success means that a signal asked  *)
(* for it, that the server did not fail and that nothing in flight was cut *)
(* off; failure means that the start or the server failed or that the      *)
(* budget was used up (run).                                               *)
ExitTellsTheTruth ==
  /\ exit = "success" =>
       /\ cancelled # None
       /\ server = "closed"
       /\ cut = {}
  /\ exit = "failure" =>
       \/ server \in {"none", "broken"}
       \/ BudgetUsed

(* A request is cut off only if the server failed, or if at the end of the *)
(* budget it was still entitled to wait: for its body, for its facade calls*)
(* or for a scrape to end.  A request that has come to the end of what it  *)
(* waited for survives a signal (run, Shutdown).                           *)
OnlySlowRequestsCut ==
  \A c \in cut :
    \/ server = "broken"
    \/ BudgetUsed /\ (due[c] = None \/ due[c] >= cancelled + ShutdownTimeout)

(* How long a facade call was meant to take at most. *)
MeantTimeout ==
  IF config.timeout <= 0 THEN DefaultTimeout ELSE config.timeout

(* Once it serves, the process has the limits its operator asked for:      *)
(* a positive number of bytes counts, and every number of milliseconds     *)
(* whose duration fits; none of these turns a limit off, and only a        *)
(* negative TTL the cache.  A duration that overflows is not covered.      *)
LimitsAsConfigured ==
  main = "selecting" =>
    /\ limits.body > 0
    /\ config.body \in Nat \ {0} => limits.body = config.body
    /\ Fits(MeantTimeout * Milli) => limits.timeout = MeantTimeout * Milli
    /\ Fits(config.ttl * Milli) =>
         /\ limits.ttl = 0 <=> config.ttl < 0
         /\ config.ttl > 0 => limits.ttl = config.ttl * Milli

(* A signal, or a failure of the server, ends the process, even while a    *)
(* handler waits for a facade call that no timeout ends (run's budget).    *)
Stops == (cancelled # None \/ server = "broken") ~> exit # "none"
=============================================================================
