--------------------------- MODULE LifecycleProofs --------------------------
(***************************************************************************)
(* The end of the process and the fate of its requests, for any number of  *)
(* connections, any timeouts, any configured numbers and any width of the  *)
(* integers.  The argument is about instants: a signal is acted on at once,*)
(* so the shutdown's budget counts from it; and no timer is overslept, so  *)
(* what is in flight is due now or later, if it is ever due.               *)
(***************************************************************************)
EXTENDS Lifecycle, TLAPS

(* The limits are what the code makes of the configured numbers. *)
Limits ==
  /\ config \in Configs
  /\ server # "none" =>
       limits = [timeout |-> ClientTimeout(config.timeout),
                 ttl |-> ResourceCacheTTL(config.ttl),
                 body |-> MaxBodyBytes(config.body)]

(* The instants of the signal and of the budget's end. *)
Clock ==
  /\ cancelled # None => cancelled <= now
  /\ main \in {"starting", "selecting"} =>
       drainEnd = None /\ (cancelled # None => cancelled = now)
  /\ drainEnd # None =>
       cancelled # None /\ drainEnd = cancelled + ShutdownTimeout
  /\ main \in {"draining", "joining"} => drainEnd # None

(* What the goroutine that serves has answered, and when it may. *)
Server ==
  /\ main = "starting" => server = "none"
  /\ main \in {"selecting", "draining", "joining"} => server # "none"
  /\ server \in {"none", "starting", "serving"} => serveErr = <<>>
  /\ server = "closed" => drainEnd # None
  /\ Running /\ server = "closed" => serveErr = <<"nil">>
  /\ Running /\ server = "broken" => serveErr = <<"failed">>

(* Connections and their timers. *)
Conns ==
  \A c \in Conn :
    /\ conn[c] \in {"new"} \cup InFlight => due[c] = None \/ due[c] >= now
    /\ conn[c] = "new" => due[c] # None
    /\ main = "starting" \/ main = "joining" \/ ~Running =>
         conn[c] = "none"
    /\ server = "none" => conn[c] = "none"
    /\ drainEnd # None => conn[c] # "idle"

(* Nothing is cut off before the end. *)
Fates ==
  /\ Running => cut = {}
  /\ ExitTellsTheTruth
  /\ OnlySlowRequestsCut

IInv == TypeOK /\ Limits /\ Clock /\ Server /\ Conns /\ Fates

-----------------------------------------------------------------------------
(* Numbers *)

(* A number that fits is left as it is, and none leaves the width. *)
LEMMA WrapFits ==
  /\ \A n \in Int : Wrap(n) \in Int
  /\ \A n \in Int : Fits(n) => Wrap(n) = n
<1>1. \A a \in Int : a % (2 * Half) \in Int
  BY WidthAssumption
<1>2. \A a \in Nat : a < 2 * Half => a % (2 * Half) = a
  BY WidthAssumption
<1>3. ASSUME NEW n \in Int PROVE Wrap(n) \in Int
  BY <1>1, WidthAssumption DEF Wrap
<1>4. ASSUME NEW n \in Int, Fits(n) PROVE Wrap(n) = n
  <2>1. n + Half \in Nat /\ n + Half < 2 * Half
    BY <1>4, WidthAssumption DEF Fits
  <2>2. (n + Half) % (2 * Half) = n + Half
    BY <1>2, <2>1
  <2> QED BY <2>2, WidthAssumption DEF Wrap
<1> QED BY <1>3, <1>4

(* The limits are numbers, and those that matter are as they were meant. *)
LEMMA LimitsTyped ==
  ASSUME NEW timeout \in Int, NEW ttl \in Int,
         NEW body \in Int \cup {Unset, Unparseable}
  PROVE  /\ ClientTimeout(timeout) \in Int
         /\ ResourceCacheTTL(ttl) \in Nat
         /\ MaxBodyBytes(body) \in Nat /\ MaxBodyBytes(body) > 0
<1>0. /\ DefaultTimeout \in Int /\ DefaultTTL \in Int
      /\ DefaultBody \in Nat /\ DefaultBody > 0
  BY DefaultAssumption
<1>1. \A n \in Int : Duration(n) \in Int
  BY WrapFits, WidthAssumption DEF Duration
<1>2. ClientTimeout(timeout) \in Int
  BY <1>0, <1>1 DEF ClientTimeout
<1>3. ResourceCacheTTL(ttl) \in Nat
  <2> DEFINE d == Duration(IF ttl = 0 THEN DefaultTTL ELSE ttl)
  <2>1. d \in Int
    BY <1>0, <1>1
  <2> HIDE DEF d
  <2>2. (IF d <= 0 THEN 0 ELSE d) \in Nat
    BY <2>1
  <2> QED BY <2>2 DEF ResourceCacheTTL, d
<1>4. MaxBodyBytes(body) \in Nat /\ MaxBodyBytes(body) > 0
  <2> DEFINE n == GetenvInt(body, 0)
  <2>1. n \in Int
    BY DEF GetenvInt
  <2> HIDE DEF n
  <2>2. LET b == IF n <= 0 THEN DefaultBody ELSE n IN b \in Nat /\ b > 0
    BY <1>0, <2>1
  <2> QED BY <2>2 DEF MaxBodyBytes, n
<1> QED BY <1>2, <1>3, <1>4

LEMMA LimitsKnown ==
  ASSUME Limits, server # "none"
  PROVE  /\ limits.timeout = ClientTimeout(config.timeout)
         /\ limits.timeout \in Int
         /\ limits.ttl \in Nat /\ limits.body \in Nat
         /\ MeantTimeout \in Nat /\ MeantTimeout > 0
         /\ Fits(MeantTimeout * Milli) =>
              limits.timeout = MeantTimeout * Milli
<1>1. /\ config.timeout \in Int /\ config.ttl \in Int
      /\ config.body \in Int \cup {Unset, Unparseable}
  BY NumbersAssumption DEF Limits
<1>2. /\ limits.timeout = ClientTimeout(config.timeout)
      /\ limits.ttl = ResourceCacheTTL(config.ttl)
      /\ limits.body = MaxBodyBytes(config.body)
  BY DEF Limits
<1>3. MeantTimeout \in Nat /\ MeantTimeout > 0
  BY <1>1, DefaultAssumption DEF MeantTimeout
<1>4. ClientTimeout(config.timeout) = Wrap(MeantTimeout * Milli)
  BY DEF ClientTimeout, MeantTimeout, Duration
<1>5. MeantTimeout * Milli \in Int
  <2>1. \A a, b \in Nat : a * b \in Int
    OBVIOUS
  <2>2. MeantTimeout \in Nat /\ Milli \in Nat
    BY <1>3, WidthAssumption
  <2> QED BY <2>1, <2>2
<1>6. Fits(MeantTimeout * Milli) => limits.timeout = MeantTimeout * Milli
  BY <1>2, <1>4, <1>5, WrapFits
<1>7. limits.timeout \in Int /\ limits.ttl \in Nat /\ limits.body \in Nat
  <2>1. /\ ClientTimeout(config.timeout) \in Int
        /\ ResourceCacheTTL(config.ttl) \in Nat
        /\ MaxBodyBytes(config.body) \in Nat
    BY <1>1, LimitsTyped
  <2> QED BY <1>2, <2>1
<1> QED BY <1>2, <1>3, <1>6, <1>7

(* A request's calls end after some time, never before it began. *)
LEMMA CallsTake ==
  ASSUME Limits, server # "none", Bounded(limits.timeout),
         NEW n \in Calls \cup {0}
  PROVE  n * (limits.timeout \div Milli) \in Nat
<1>1. limits.timeout \in Nat /\ n \in Nat /\ Milli \in Nat \ {0}
  BY LimitsKnown, NumbersAssumption, WidthAssumption DEF Bounded
<1>2. limits.timeout \div Milli \in Nat
  BY <1>1
<1> QED BY <1>1, <1>2

-----------------------------------------------------------------------------
(* The steps *)

LEMMA InitIInv == Init => IInv
<1> SUFFICES ASSUME Init PROVE IInv
  OBVIOUS
<1>1. TypeOK
  BY TimeoutAssumption DEF Init, TypeOK
<1>2. Limits /\ Clock /\ Server
  BY DEF Init, Limits, Clock, Server
<1>3. Conns /\ Fates
  BY DEF Init, Conns, Fates, ExitTellsTheTruth, OnlySlowRequestsCut,
         InFlight
<1> QED BY <1>1, <1>2, <1>3 DEF IInv

(* The process ends: with success only if nothing is in flight, with       *)
(* failure only for a reason, and what is cut off was due too late.        *)
LEMMA ExitIInv ==
  ASSUME IInv, NEW how \in {"success", "failure"}, Exit(how), Running,
         serveErr' = serveErr \/ (serveErr # <<>> /\ serveErr' = <<>>),
         how = "success" =>
           /\ cancelled # None /\ server = "closed"
           /\ \A c \in Conn : conn[c] \notin InFlight,
         how = "failure" => server \in {"none", "broken"} \/ BudgetUsed,
         \A c \in Conn :
           conn[c] \in InFlight => server = "broken" \/ BudgetUsed
  PROVE  IInv'
<1> USE DEF Exit, timeVars
<1>0. /\ cut = {} /\ cut' = {c \in Conn : conn[c] \in InFlight}
      /\ \A c \in Conn : conn'[c] = "none"
  BY DEF IInv, TypeOK, Fates
<1>1. TypeOK'
  <2>1. cut' \subseteq Conn
    BY <1>0
  <2>2. serveErr' \in {<<>>, <<"nil">>, <<"failed">>}
    BY DEF IInv, TypeOK
  <2> QED BY <2>1, <2>2 DEF IInv, TypeOK
<1>2. Limits'
  BY DEF IInv, Limits
<1>3. Clock'
  BY DEF IInv, Clock
<1>4. Server'
  <2>1. serveErr = <<>> => serveErr' = <<>>
    OBVIOUS
  <2> QED BY <2>1 DEF IInv, Server, Running
<1>5. Conns'
  BY <1>0 DEF IInv, Conns, Running, InFlight
<1>6. ExitTellsTheTruth'
  BY <1>0 DEF IInv, Fates, ExitTellsTheTruth, BudgetUsed, Running
<1>7. OnlySlowRequestsCut'
  <2> SUFFICES ASSUME NEW c \in cut', server # "broken"
               PROVE  /\ BudgetUsed
                      /\ due[c] = None
                           \/ due[c] >= cancelled + ShutdownTimeout
    BY DEF OnlySlowRequestsCut, BudgetUsed
  <2>1. c \in Conn /\ conn[c] \in InFlight
    BY <1>0
  <2>2. BudgetUsed
    BY <2>1
  <2>3. due[c] = None \/ due[c] >= now
    BY <2>1 DEF IInv, Conns
  <2>4. /\ now \in Int /\ cancelled \in Int /\ ShutdownTimeout \in Int
        /\ due[c] \in Int \cup {None}
    BY <2>2, TimeoutAssumption DEF IInv, TypeOK, BudgetUsed
  <2> QED BY <2>2, <2>3, <2>4 DEF BudgetUsed
<1>8. Fates'
  BY <1>6, <1>7 DEF Fates, Running
<1> QED BY <1>1, <1>2, <1>3, <1>4, <1>5, <1>8 DEF IInv

LEMMA FailToStartIInv == ASSUME IInv, FailToStart PROVE IInv'
<1>1. Running /\ server = "none" /\ \A c \in Conn : conn[c] = "none"
  BY DEF IInv, TypeOK, FailToStart, Running, Server, Conns
<1> QED BY <1>1, ExitIInv DEF FailToStart, InFlight

LEMMA ServerEndsIInv == ASSUME IInv, ServerEnds PROVE IInv'
<1>1. Running /\ server = "broken" /\ serveErr = <<"failed">>
  BY DEF IInv, TypeOK, ServerEnds, Running, Server, Clock
<1>2. Exit("failure") /\ serveErr' = <<>>
  BY <1>1 DEF ServerEnds
<1>3. serveErr # <<>>
  BY DEF ServerEnds
<1> QED BY <1>1, <1>2, <1>3, ExitIInv

(* The budget counts from the signal. *)
LEMMA BudgetExpiresIInv == ASSUME IInv, BudgetExpires PROVE IInv'
<1>1. Running /\ BudgetUsed
  BY DEF IInv, TypeOK, BudgetExpires, Running, Clock, BudgetUsed
<1> QED BY <1>1, ExitIInv DEF BudgetExpires

LEMMA JoinIInv == ASSUME IInv, Join PROVE IInv'
<1>1. /\ Running /\ cancelled # None
      /\ \A c \in Conn : conn[c] = "none"
  BY DEF IInv, TypeOK, Join, Running, Clock, Conns
<1>2. \/ server = "closed" /\ serveErr = <<"nil">>
      \/ server = "broken" /\ serveErr = <<"failed">>
  BY <1>1 DEF IInv, TypeOK, Join, Server
<1>3. CASE server = "closed" /\ serveErr = <<"nil">>
  <2>1. Exit("success") /\ serveErr' = <<>> /\ serveErr # <<>>
    BY <1>3 DEF Join
  <2> QED BY <1>1, <1>3, <2>1, ExitIInv DEF InFlight
<1>4. CASE server = "broken" /\ serveErr = <<"failed">>
  <2>1. Exit("failure") /\ serveErr' = <<>> /\ serveErr # <<>>
    BY <1>4 DEF Join
  <2> QED BY <1>1, <1>4, <2>1, ExitIInv DEF InFlight
<1> QED BY <1>2, <1>3, <1>4

(* A step that cuts nothing off and does not end the process keeps the     *)
(* properties of the end.                                                  *)
LEMMA FatesStay ==
  ASSUME IInv, Running, exit' = exit, cut' = cut
  PROVE  Fates'
BY DEF IInv, Fates, Running, ExitTellsTheTruth, OnlySlowRequestsCut

LEMMA LoadIInv == ASSUME IInv, Load PROVE IInv'
<1> USE DEF Load, connVars
<1>0. Running
  BY DEF IInv, TypeOK, Running
<1>1. limits' \in [timeout : Int, ttl : Nat, body : Nat]
  <2>1. /\ config.timeout \in Int /\ config.ttl \in Int
        /\ config.body \in Int \cup {Unset, Unparseable}
    BY NumbersAssumption DEF IInv, Limits
  <2> QED BY <2>1, LimitsTyped
<1>2. TypeOK'
  BY <1>1 DEF IInv, TypeOK
<1>3. Limits' /\ Clock' /\ Server'
  BY DEF IInv, Limits, Clock, Server, Running
<1>4. Conns'
  <2>1. \A c \in Conn : conn'[c] = "none"
    BY DEF IInv, Conns
  <2> QED BY <2>1 DEF Conns, InFlight
<1>5. Fates'
  BY <1>0, FatesStay
<1> QED BY <1>2, <1>3, <1>4, <1>5 DEF IInv

LEMMA DrainIInv == ASSUME IInv, Drain PROVE IInv'
<1> USE DEF Drain, CloseIdle, timeVars
<1>0. Running
  BY DEF IInv, TypeOK, Running
<1>1. \A c \in Conn :
        conn'[c] = IF conn[c] = "idle" THEN "none" ELSE conn[c]
  OBVIOUS
<1>2. TypeOK'
  <2>1. conn' \in [Conn -> {"none", "new", "idle"} \cup InFlight]
    BY DEF IInv, TypeOK
  <2>2. drainEnd' \in Nat
    BY TimeoutAssumption DEF IInv, TypeOK
  <2> QED BY <2>1, <2>2 DEF IInv, TypeOK
<1>3. Limits'
  BY DEF IInv, Limits
<1>4. Clock'
  <2>1. now + ShutdownTimeout # None
    BY NoneAssumption, TimeoutAssumption DEF IInv, TypeOK
  <2> QED BY <2>1 DEF IInv, Clock
<1>5. Server'
  BY <1>4 DEF IInv, Server, Running, Clock
<1>6. Conns'
  BY <1>0, <1>1 DEF IInv, Conns, Running, InFlight
<1>7. Fates'
  BY <1>0, FatesStay
<1> QED BY <1>2, <1>3, <1>4, <1>5, <1>6, <1>7 DEF IInv

(* The rest of what run and the serving goroutine do leaves the connections*)
(* and the clock alone.                                                    *)
LEMMA ProcessIInv ==
  ASSUME IInv,
         Drained \/ Serve \/ ServeCloses \/ ServeFails \/ Signal
  PROVE  IInv'
<1> USE DEF Drained, Serve, ServeCloses, ServeFails, Signal, Answer,
            timeVars, connVars, Closing
<1>0. /\ Running /\ exit' = exit
      /\ UNCHANGED <<now, config, limits, conn, due, cut>>
  BY DEF IInv, TypeOK, Running
<1>1. TypeOK'
  <2>1. serveErr' \in {<<>>, <<"nil">>, <<"failed">>}
    <3>1. CASE serveErr' = serveErr
      BY <3>1 DEF IInv, TypeOK
    <3>2. CASE serveErr' # serveErr
      <4>1. serveErr = <<>>
        BY <3>2 DEF IInv, Server
      <4>2. \/ serveErr' = Append(<<>>, "nil")
            \/ serveErr' = Append(<<>>, "failed")
        BY <3>2, <4>1
      <4> QED BY <4>2
    <3> QED BY <3>1, <3>2
  <2> QED BY <2>1 DEF IInv, TypeOK
<1>2. Limits'
  BY DEF IInv, Limits, Server, Running
<1>3. Clock'
  BY DEF IInv, TypeOK, Clock
<1>4. Server'
  <2>1. /\ Append(<<>>, "nil") = <<"nil">>
        /\ Append(<<>>, "failed") = <<"failed">>
    OBVIOUS
  <2>2. server \in {"starting", "serving"} => serveErr = <<>>
    BY DEF IInv, Server
  <2>3. CASE Drained \/ Serve \/ Signal
    BY <2>3 DEF IInv, TypeOK, Server, Running
  <2>4. CASE ServeCloses
    BY <2>1, <2>2, <2>4 DEF IInv, TypeOK, Server, Running
  <2>5. CASE ServeFails
    BY <2>1, <2>2, <2>5 DEF IInv, TypeOK, Server, Running
  <2> QED BY <2>3, <2>4, <2>5
<1>5. Conns'
  <2>1. main' = "joining" => \A c \in Conn : conn[c] = "none"
    BY <1>0 DEF IInv, TypeOK, Conns, Clock, Quiescent
  <2> QED BY <1>0, <2>1 DEF IInv, Conns, Running
<1>6. Fates'
  BY <1>0, FatesStay
<1> QED BY <1>1, <1>2, <1>3, <1>4, <1>5, <1>6 DEF IInv

(* A connection comes into a state it may still be in until an instant.    *)
LEMMA EnterIInv ==
  ASSUME IInv, NEW c \in Conn, NEW state \in {"new"} \cup InFlight,
         NEW instant \in Nat \cup {None}, Enter(c, state, instant), Running,
         server # "none", main \notin {"starting", "joining"},
         instant = None \/ instant >= now,
         state = "new" => instant # None
  PROVE  IInv'
<1> USE DEF Enter, timeVars, processVars
<1>1. TypeOK'
  BY DEF IInv, TypeOK
<1>2. Limits' /\ Clock' /\ Server'
  BY DEF IInv, Limits, Clock, Server, Running
<1>3. Conns'
  <2> SUFFICES ASSUME NEW d \in Conn PROVE Conns!(d)'
    BY DEF Conns
  <2>1. CASE d = c
    <3>1. conn'[d] = state /\ due'[d] = instant
      BY <2>1 DEF IInv, TypeOK
    <3> QED BY <3>1 DEF Running, InFlight
  <2>2. CASE d # c
    <3>1. conn'[d] = conn[d] /\ due'[d] = due[d]
      BY <2>2 DEF IInv, TypeOK
    <3> QED BY <3>1 DEF IInv, Conns, Running
  <2> QED BY <2>1, <2>2
<1>4. Fates'
  BY FatesStay
<1> QED BY <1>1, <1>2, <1>3, <1>4 DEF IInv

LEMMA ConnectIInv == ASSUME IInv, NEW c \in Conn, Connect(c) PROVE IInv'
<1>1. /\ Running /\ server = "serving" /\ drainEnd = None
      /\ Enter(c, "new", now + ReadHeaderTimeout)
  BY DEF Connect, Closing
<1>2. main # "starting" /\ main # "joining"
  BY <1>1 DEF IInv, Server, Clock
<1>3. /\ now + ReadHeaderTimeout \in Nat
      /\ now + ReadHeaderTimeout >= now
      /\ now + ReadHeaderTimeout # None
  BY TimeoutAssumption, NoneAssumption DEF IInv, TypeOK
<1> QED BY <1>1, <1>2, <1>3, EnterIInv

(* The body's deadline is never before that of the headers. *)
LEMMA RequestIInv == ASSUME IInv, NEW c \in Conn, Request(c) PROVE IInv'
<1> DEFINE began == IF conn[c] = "new" THEN due[c] - ReadHeaderTimeout
                    ELSE now
<1>1. /\ Running /\ conn[c] \in {"new", "idle"}
      /\ server # "none" /\ main # "starting" /\ main # "joining"
  BY DEF Request, IInv, Conns
<1>2. Enter(c, "reading", began + ReadTimeout)
  BY DEF Request
<1>3. /\ now \in Nat /\ ReadTimeout \in Nat /\ ReadHeaderTimeout \in Nat
      /\ ReadHeaderTimeout <= ReadTimeout
  BY TimeoutAssumption DEF IInv, TypeOK
<1>4. conn[c] = "new" => due[c] \in Nat /\ due[c] >= now
  BY DEF IInv, TypeOK, Conns
<1>5. began + ReadTimeout \in Nat /\ began + ReadTimeout >= now
  BY <1>3, <1>4
<1> HIDE DEF began
<1>6. "reading" \in InFlight /\ "reading" # "new"
  BY DEF InFlight
<1> QED BY <1>1, <1>2, <1>5, <1>6, EnterIInv

(* What is in flight belongs to a process that serves. *)
LEMMA InFlightRuns ==
  ASSUME IInv, NEW c \in Conn, conn[c] \in InFlight
  PROVE  Running /\ server # "none" /\ main \notin {"starting", "joining"}
BY DEF IInv, Conns, InFlight

LEMMA BodyEndsIInv == ASSUME IInv, NEW c \in Conn, BodyEnds(c) PROVE IInv'
<1>1. /\ Running /\ server # "none" /\ main \notin {"starting", "joining"}
      /\ "calling" \in InFlight /\ "calling" # "new"
  BY InFlightRuns DEF BodyEnds, InFlight
<1>2. PICK n \in Calls \cup {0} :
        Enter(c, "calling",
              IF Bounded(limits.timeout)
                THEN now + n * (limits.timeout \div Milli) ELSE None)
  BY DEF BodyEnds
<1>3. CASE Bounded(limits.timeout)
  <2> DEFINE takes == n * (limits.timeout \div Milli)
  <2>1. takes \in Nat
    BY <1>1, <1>3, CallsTake DEF IInv
  <2>2. Enter(c, "calling", now + takes)
    BY <1>2, <1>3
  <2> HIDE DEF takes
  <2>3. now + takes \in Nat /\ now + takes >= now
    BY <2>1 DEF IInv, TypeOK
  <2> QED BY <1>1, <2>2, <2>3, EnterIInv
<1>4. CASE ~Bounded(limits.timeout)
  <2>1. Enter(c, "calling", None)
    BY <1>2, <1>4
  <2> QED BY <1>1, <2>1, EnterIInv
<1> QED BY <1>3, <1>4

LEMMA CallsEndIInv == ASSUME IInv, NEW c \in Conn, CallsEnd(c) PROVE IInv'
<1>1. /\ Running /\ server # "none" /\ main \notin {"starting", "joining"}
      /\ "counting" \in InFlight /\ "counting" # "new"
  BY InFlightRuns DEF CallsEnd, InFlight
<1>2. PICK wait \in Waits : Enter(c, "counting", now + wait)
  BY DEF CallsEnd
<1>3. now + wait \in Nat /\ now + wait >= now
  BY NumbersAssumption DEF IInv, TypeOK
<1> QED BY <1>1, <1>2, <1>3, EnterIInv

(* A connection leaves what it was at. *)
LEMMA LeaveIInv ==
  ASSUME IInv, NEW c \in Conn, GiveUp(c) \/ Respond(c) PROVE IInv'
<1> USE DEF timeVars, processVars
<1>0. /\ Running /\ main \notin {"starting", "joining"}
      /\ server # "none" /\ UNCHANGED <<timeVars, processVars, due, cut>>
  BY DEF GiveUp, Respond, InFlight, IInv, Conns
<1>1. PICK next \in {"none", "idle"} :
        /\ conn' = [conn EXCEPT ![c] = next]
        /\ next = "idle" => drainEnd = None
  BY DEF GiveUp, Respond, Closing
<1>2. TypeOK'
  BY <1>0, <1>1 DEF IInv, TypeOK
<1>3. Limits' /\ Clock' /\ Server'
  BY <1>0 DEF IInv, Limits, Clock, Server, Running
<1>4. Conns'
  <2>1. \A d \in Conn : conn'[d] = IF d = c THEN next ELSE conn[d]
    BY <1>1 DEF IInv, TypeOK
  <2> QED BY <1>0, <1>1, <2>1 DEF IInv, Conns, Running, InFlight
<1>5. Fates'
  BY <1>0, FatesStay
<1> QED BY <1>2, <1>3, <1>4, <1>5 DEF IInv

(* Time passes no timer and no signal. *)
LEMMA TickIInv == ASSUME IInv, Tick PROVE IInv'
<1> USE DEF Tick, processVars, connVars
<1>0. /\ Running /\ now \in Nat /\ now' = now + 1
      /\ UNCHANGED <<config, limits, processVars, connVars>>
      /\ main # "starting"
      /\ main = "selecting" => cancelled = None
      /\ \A c \in Conn : conn[c] \in {"new"} \cup InFlight => due[c] # now
  BY DEF IInv, TypeOK, Urgent
<1>1. TypeOK'
  BY TimeoutAssumption DEF IInv, TypeOK
<1>2. Limits' /\ Server'
  BY <1>0 DEF IInv, Limits, Server, Running
<1>3. Clock'
  BY <1>0 DEF IInv, TypeOK, Clock
<1>4. Conns'
  <2>1. \A c \in Conn : conn[c] \in {"new"} \cup InFlight =>
          due[c] = None \/ due[c] >= now + 1
    BY <1>0 DEF IInv, TypeOK, Conns
  <2> QED BY <1>0, <2>1 DEF IInv, Conns, Running
<1>5. Fates'
  BY <1>0, FatesStay
<1> QED BY <1>1, <1>2, <1>3, <1>4, <1>5 DEF IInv

LEMMA StutterIInv == ASSUME IInv, UNCHANGED vars PROVE IInv'
<1> USE DEF vars, timeVars, processVars, connVars
<1>1. TypeOK' /\ Limits' /\ Clock' /\ Server'
  BY DEF IInv, TypeOK, Limits, Clock, Server, Running
<1>2. Conns'
  BY DEF IInv, Conns, Running
<1>3. Fates'
  BY DEF IInv, Fates, Running, ExitTellsTheTruth, OnlySlowRequestsCut,
         BudgetUsed
<1> QED BY <1>1, <1>2, <1>3 DEF IInv

LEMMA NextIInv == IInv /\ [Next]_vars => IInv'
<1> SUFFICES ASSUME IInv, [Next]_vars PROVE IInv'
  OBVIOUS
<1>1. CASE FailToStart
  BY <1>1, FailToStartIInv
<1>2. CASE Run
  BY <1>2, LoadIInv, ServerEndsIInv, DrainIInv, ProcessIInv,
     BudgetExpiresIInv, JoinIInv DEF Run
<1>3. CASE ServeLoop \/ ServeFails \/ Signal
  BY <1>3, ProcessIInv DEF ServeLoop
<1>4. ASSUME NEW c \in Conn,
             Connect(c) \/ Request(c) \/ Timed(c)
      PROVE  IInv'
  BY <1>4, ConnectIInv, RequestIInv, BodyEndsIInv, CallsEndIInv, LeaveIInv
  DEF Timed
<1>5. CASE Tick
  BY <1>5, TickIInv
<1>6. CASE UNCHANGED vars
  BY <1>6, StutterIInv
<1> QED BY <1>1, <1>2, <1>3, <1>4, <1>5, <1>6 DEF Next

-----------------------------------------------------------------------------

(* The inductive invariant of the process (main, run). *)
THEOREM LifecycleInvariant == Spec => []IInv
  BY InitIInv, NextIInv, PTL DEF Spec

(* The types; the channel never holds more than the one answer (run). *)
THEOREM LifecycleTypes == Spec => []TypeOK
<1>1. IInv => TypeOK
  BY DEF IInv
<1> QED BY <1>1, LifecycleInvariant, PTL

(* For any number of connections and any timeouts, the exit status is true *)
(* whatever the order of the signal, the failure and the budget (run).     *)
THEOREM ExitIsTrue == Spec => []ExitTellsTheTruth
<1>1. IInv => ExitTellsTheTruth
  BY DEF IInv, Fates
<1> QED BY <1>1, LifecycleInvariant, PTL

(* A request that within the budget comes to the end of what it waits for  *)
(* is never cut off by a signal (run, Shutdown).                           *)
THEOREM FastRequestsSurvive == Spec => []OnlySlowRequestsCut
<1>1. IInv => OnlySlowRequestsCut
  BY DEF IInv, Fates
<1> QED BY <1>1, LifecycleInvariant, PTL

(* At any width and for any numbers: what fits counts, and none that fits  *)
(* turns a limit off (NewClient, resourceCacheTTL, NewHandler).            *)
THEOREM LimitsMeant == Spec => []LimitsAsConfigured
<1>1. IInv => LimitsAsConfigured
  <2> SUFFICES ASSUME IInv, main = "selecting" PROVE LimitsAsConfigured
    BY DEF LimitsAsConfigured
  <2> DEFINE ttl == config.ttl
             meant == IF ttl = 0 THEN DefaultTTL ELSE ttl
  <2>0. Limits /\ server # "none"
    BY DEF IInv, Server
  <2>1. /\ ttl \in Int /\ config.timeout \in Int
        /\ config.body \in Int \cup {Unset, Unparseable}
    BY <2>0, NumbersAssumption DEF Limits
  <2>2. /\ limits.body > 0
        /\ config.body \in Nat \ {0} => limits.body = config.body
    <3>1. limits.body = MaxBodyBytes(config.body)
      BY <2>0 DEF Limits
    <3>2. MaxBodyBytes(config.body) > 0
      BY <2>1, LimitsTyped
    <3>3. config.body \in Nat \ {0} =>
            MaxBodyBytes(config.body) = config.body
      BY UnsetAssumption DEF MaxBodyBytes, GetenvInt
    <3> QED BY <3>1, <3>2, <3>3
  <2>3. Fits(MeantTimeout * Milli) => limits.timeout = MeantTimeout * Milli
    BY <2>0, LimitsKnown
  <2>4. limits.ttl = IF Wrap(meant * Milli) <= 0 THEN 0
                     ELSE Wrap(meant * Milli)
    BY <2>0 DEF Limits, ResourceCacheTTL, Duration
  <2>5. meant \in Int /\ Milli \in Nat /\ Milli > 0
    BY <2>1, DefaultAssumption, WidthAssumption
  <2>6. ASSUME Fits(ttl * Milli)
        PROVE  limits.ttl = IF meant * Milli <= 0 THEN 0 ELSE meant * Milli
    <3>1. meant * Milli \in Int /\ Fits(meant * Milli)
      BY <2>5, <2>6, DefaultAssumption
    <3> HIDE DEF meant
    <3>2. Wrap(meant * Milli) = meant * Milli
      BY <3>1, WrapFits
    <3> QED BY <2>4, <3>2
  <2>7. /\ meant * Milli <= 0 <=> meant < 0 \/ meant = 0
        /\ meant > 0 => meant * Milli > 0
    <3> HIDE DEF meant
    <3> QED BY <2>5
  <2>8. ttl > 0 => meant = ttl
    BY <2>1, DefaultAssumption
  <2>9. ASSUME Fits(ttl * Milli)
        PROVE  /\ limits.ttl = 0 <=> ttl < 0
               /\ ttl > 0 => limits.ttl = ttl * Milli
    <3>1. limits.ttl = IF meant * Milli <= 0 THEN 0 ELSE meant * Milli
      BY <2>6, <2>9
    <3>2. meant # 0 /\ (meant < 0 <=> ttl < 0)
      BY <2>1, DefaultAssumption
    <3> HIDE DEF meant
    <3>3. limits.ttl = 0 <=> ttl < 0
      BY <2>5, <2>7, <3>1, <3>2
    <3>4. ttl > 0 => limits.ttl = ttl * Milli
      BY <2>5, <2>7, <2>8, <3>1
    <3> QED BY <3>3, <3>4
  <2> QED BY <2>2, <2>3, <2>9 DEF LimitsAsConfigured
<1> QED BY <1>1, LifecycleInvariant, PTL
=============================================================================
