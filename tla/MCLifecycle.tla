---------------------------- MODULE MCLifecycle -----------------------------
(* The process on a small instance: two connections, requests of up to     *)
(* three facade calls, and numbers of six bits with four units to the      *)
(* millisecond, so that 8 ms become a negative duration and 17 ms a short  *)
(* one.                                                                    *)
EXTENDS Lifecycle

CONSTANTS c1, c2

MCConn == {c1, c2}

MCConfigs ==
  {[timeout |-> 0, ttl |-> 0, body |-> Unset],
   [timeout |-> 1, ttl |-> -1, body |-> -1],
   [timeout |-> 2, ttl |-> 3, body |-> 7],
   [timeout |-> 8, ttl |-> 8, body |-> Unparseable],
   [timeout |-> 17, ttl |-> 17, body |-> 0]}
=============================================================================
