----------------------------- MODULE MCServing ------------------------------
(* The HTTP binding on a small instance: three requests, every kind of     *)
(* input, a cap of one failure class and two histogram bounds.             *)
EXTENDS Serving, TLC

CONSTANTS r1, r2, r3

MCRequest == {r1, r2, r3}
MCTwoRequests == {r1, r2}
MCBounds == <<1, 2>>

On(route, method) == [NoInput EXCEPT !.route = route, !.method = method]

MCInput ==
  {On("/health", "GET"), On("/metrics", "GET"), On("/metrics", "POST"),
   On("/resolve", "GET")}
    \cup {[On("/resolve", "POST") EXCEPT !.authorization = a] :
            a \in {"secret", "Bearer secret"}}
    \cup {[On("/resolve", "POST") EXCEPT !.authorization = "Bearer secret",
                                         !.body = b] :
            b \in {"too large", "malformed"}}

Symmetry == Permutations(MCRequest)
=============================================================================
