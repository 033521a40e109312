------------------------------ MODULE Settings ------------------------------
(***************************************************************************)
(* How the numbers of the environment and of the configuration become the  *)
(* limits the service works with, at the width of the code's integers: a   *)
(* number of milliseconds is multiplied into a time.Duration, which wraps. *)
(***************************************************************************)
EXTENDS Integers

CONSTANTS
  Half,             \* 2^63: an int and a Duration are -Half .. Half - 1
  Milli,            \* time.Millisecond, in a Duration's unit
  DefaultTimeout,   \* DefaultTimeoutMs
  DefaultTTL,       \* DefaultResourceCacheTTLMs
  DefaultBody,      \* defaultMaxBodyBytes
  Unset,            \* an environment variable that is not there, or empty
  Unparseable       \* one that is not an integer

ASSUME UnsetAssumption == {Unset, Unparseable} \cap Int = {}

ASSUME WidthAssumption == Half \in Nat \ {0} /\ Milli \in Nat \ {0}

(* What is left of an integer at the width. *)
Wrap(n) == ((n + Half) % (2 * Half)) - Half

Fits(n) == n \in -Half .. Half - 1

ASSUME DefaultAssumption ==
  /\ {DefaultTimeout, DefaultTTL, DefaultBody} \subseteq Nat \ {0}
  /\ Fits(DefaultTimeout * Milli) /\ Fits(DefaultTTL * Milli)

(* time.Duration(ms) * time.Millisecond *)
Duration(ms) == Wrap(ms * Milli)

(* Wrong on purpose: an unconfigured timeout stays zero, which is none. *)
TimeoutUnlessNegative(ms) ==
  Duration(IF ms < 0 THEN DefaultTimeout ELSE ms)

(* NewClient: the timeout of every facade call. *)
ClientTimeout(ms) == Duration(IF ms <= 0 THEN DefaultTimeout ELSE ms)

(* http.Client counts a timeout of zero or less as none. *)
Bounded(timeout) == timeout > 0

(* Wrong on purpose: a negative duration is a lifetime. *)
LifetimeUnlessZero(ms) == Duration(IF ms = 0 THEN DefaultTTL ELSE ms)

(* resourceCacheTTL, and newCachingLookup's reading of it: 0 is no cache. *)
ResourceCacheTTL(ms) ==
  LET ttl == Duration(IF ms = 0 THEN DefaultTTL ELSE ms)
  IN  IF ttl <= 0 THEN 0 ELSE ttl

(* getenvInt *)
GetenvInt(raw, fallback) ==
  IF raw \in {Unset, Unparseable} THEN fallback ELSE raw

(* settingsFromEnv and NewHandler: the cap of a request's body. *)
MaxBodyBytes(raw) ==
  LET n == GetenvInt(raw, 0)
  IN  IF n <= 0 THEN DefaultBody ELSE n
=============================================================================
