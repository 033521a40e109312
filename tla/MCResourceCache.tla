-------------------------- MODULE MCResourceCache ---------------------------
(* The resource cache on a small instance: two requests, three contracts   *)
(* with an id (one more than the sweep threshold) and two without.  Every  *)
(* offering lists p at first and q before p later; p declares PII from the *)
(* first instant to the third only, q never.                               *)
EXTENDS ResourceCache, TLC

CONSTANTS r1, r2, c1, c2, c3, u1, u2, p, q

MCRequest == {r1, r2}
MCUnkeyed == {u1, u2}
MCContract == {c1, c2, c3} \cup MCUnkeyed
MCResource == {p, q}
MCOffers ==
  [c \in MCContract |->
     [t \in 0 .. MaxTime |-> IF t < 3 THEN <<p>> ELSE <<q, p>>]]
MCDeclared == p :> 1 .. 3 @@ q :> {}

Symmetry ==
  Permutations(MCRequest) \cup Permutations({c1, c2, c3})
    \cup Permutations(MCUnkeyed)
=============================================================================
