------------------------- MODULE MCContractMatcher --------------------------
(* The contract matcher on a small instance.  Contract a grants x; b       *)
(* permits x and y but prohibits x in another policy; u, which has no id,  *)
(* permits x and y.  a is terminated and u signed meanwhile.  a offers p,  *)
(* which always declares PII; b, first q alone and then q and p, where q   *)
(* declares PII at two instants that are not adjacent; u offers nothing.   *)
EXTENDS ContractMatcher, TLC

CONSTANTS r1, r2, a, b, u, ofX, ofY, ofZ, bad, x, y, z, p, q

MCRequest == {r1, r2}
MCUnkeyed == {u}
MCContract == {a, b, u}
MCListing == <<b, a, u>>
MCItem == {ofX, ofY, ofZ, bad}
MCMalformed == {bad}
MCURI == ofX :> x @@ ofY :> y @@ ofZ :> z @@ bad :> x

MCPolicy ==
  a :> <<[permission |-> {x}, prohibition |-> {}]>>
  @@ b :> <<[permission |-> {x, y}, prohibition |-> {}],
            [permission |-> {}, prohibition |-> {x}]>>
  @@ u :> <<[permission |-> {x, y}, prohibition |-> {}]>>

MCSignedAt == a :> {0, 1} @@ b :> 0 .. MaxTime @@ u :> 2 .. MaxTime

MCResource == {p, q}
MCOffers ==
  a :> [t \in 0 .. MaxTime |-> <<p>>]
  @@ b :> [t \in 0 .. MaxTime |-> IF t < 1 THEN <<q>> ELSE <<q, p>>]
  @@ u :> [t \in 0 .. MaxTime |-> <<>>]
MCDeclared == p :> 0 .. MaxTime @@ q :> {0, 2}

Collection(its) ==
  [body |-> "collection", parties |-> TRUE, items |-> its]

MCQuery ==
  {Collection(<<>>), Collection(<<ofY, ofY>>), Collection(<<ofX, ofZ>>),
   Collection(<<bad>>),
   [Collection(<<>>) EXCEPT !.body = "misshapen"],
   [Collection(<<ofX>>) EXCEPT !.parties = FALSE]}

(* For liveness, where symmetry is of no use: fewer requests to make. *)
MCLiveQuery ==
  {Collection(<<>>), Collection(<<ofY, ofY>>), Collection(<<ofX, bad>>)}

Symmetry == Permutations(MCRequest)
=============================================================================
