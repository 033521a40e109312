----------------------------- MODULE Resolution -----------------------------
(***************************************************************************)
(* What the Resolver interface of src/internal/resolver/types.go promises  *)
(* its caller, whoever implements it: a configuration is accepted or       *)
(* rejected once, and under an accepted one a request is answered in one   *)
(* step with an answer its configuration allows.  Rules, their order and   *)
(* the matchers are the resolver's own.                                    *)
(***************************************************************************)
CONSTANTS
  Config,           \* the configurations that may be loaded
  Request,          \* the requests there may be
  NoRequest,        \* no request
  NoResult,         \* no answer
  Accepted(_),      \* whether a configuration is accepted
  Allowed(_, _)     \* the answers a configuration allows to a request

VARIABLES
  cfg,      \* the configuration
  phase,    \* "parse", "rejected", "serving", "matching" or "done"
  request,  \* the request being resolved
  result    \* what Resolve returned

vars == <<cfg, phase, request, result>>

Init ==
  /\ cfg \in Config
  /\ phase = "parse"
  /\ request = NoRequest
  /\ result = NoResult

Load ==
  /\ phase = "parse"
  /\ phase' = IF Accepted(cfg) THEN "serving" ELSE "rejected"
  /\ UNCHANGED <<cfg, request, result>>

Ask(req) ==
  /\ phase = "serving"
  /\ phase' = "matching"
  /\ request' = req
  /\ UNCHANGED <<cfg, result>>

Resolve ==
  /\ phase = "matching"
  /\ phase' = "done"
  /\ result' \in Allowed(cfg, request)
  /\ UNCHANGED <<cfg, request>>

Return ==
  /\ phase = "done"
  /\ phase' = "serving"
  /\ request' = NoRequest
  /\ result' = NoResult
  /\ UNCHANGED cfg

Next ==
  \/ Load
  \/ \E req \in Request : Ask(req)
  \/ Resolve
  \/ Return

Spec == Init /\ [][Next]_vars
=============================================================================
