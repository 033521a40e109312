--------------------------- MODULE ContractLookup ---------------------------
(***************************************************************************)
(* What the DataResources half of the contractLookup interface             *)
(* (src/internal/resolver/contract_matcher.go) promises the matcher that   *)
(* calls it, whoever implements it: a call about a contract fails, or is   *)
(* answered with the catalog data resources of that very contract, as the  *)
(* facade served them at most Staleness instants before the answer.        *)
(*                                                                         *)
(* The data resources are abstracted to where they come from: the contract *)
(* they were dereferenced for, the instant its service offering was read,  *)
(* how many of the resources it lists were read, and which declared PII.   *)
(***************************************************************************)
EXTENDS Integers, Sequences

CONSTANTS
  Request,    \* the goroutines that serve resolve requests, one call each
  Contract,   \* the contracts the facade serves
  Nil,        \* no contract
  Staleness,  \* how old an answer may be
  MaxLag,     \* how long a dereferencing may take
  Offers,     \* contract, instant -> the resources its offering lists
  Declared,   \* resource -> the instants at which it declares PII
  MaxTime     \* bound of the clock (only to keep the state space finite)

VARIABLES
  now,        \* the clock
  pc,         \* what each request's call is doing
  asked,      \* the contract the call is about
  answer      \* the resources an answered call returns

vars == <<now, pc, asked, answer>>

NoResources == [of |-> Nil, asOf |-> 0, got |-> 0, pii |-> {}]

(* The ways the resources an offering listed at t may have been found to   *)
(* declare PII: each as it did at an instant of its own, while the         *)
(* dereferencing that began at t was under way.                            *)
Findings(listed, t) ==
  {found \in SUBSET (1 .. Len(listed)) :
     \A i \in 1 .. Len(listed) : \E u \in t .. now :
       /\ u - t <= MaxLag
       /\ i \in found <=> u \in Declared[listed[i]]}

Init ==
  /\ now = 0
  /\ pc = [r \in Request |-> "idle"]
  /\ asked = [r \in Request |-> Nil]
  /\ answer = [r \in Request |-> NoResources]

Ask(r, c) ==
  /\ pc[r] = "idle"
  /\ pc' = [pc EXCEPT ![r] = "asked"]
  /\ asked' = [asked EXCEPT ![r] = c]
  /\ UNCHANGED <<now, answer>>

(* The answer is about the contract asked for, all of what its offering    *)
(* listed, and recent enough.                                              *)
Answer(r) ==
  /\ pc[r] = "asked"
  /\ pc' = [pc EXCEPT ![r] = "answered"]
  /\ \E t \in 0 .. now :
       LET listed == Offers[asked[r]][t]
       IN  /\ now - t <= Staleness
           /\ \E found \in Findings(listed, t) :
                answer' = [answer EXCEPT ![r] =
                             [of |-> asked[r], asOf |-> t,
                              got |-> Len(listed), pii |-> found]]
  /\ UNCHANGED <<now, asked>>

(* A failure carries nothing. *)
Fail(r) ==
  /\ pc[r] = "asked"
  /\ pc' = [pc EXCEPT ![r] = "failed"]
  /\ UNCHANGED <<now, asked, answer>>

Return(r) ==
  /\ pc[r] \in {"answered", "failed"}
  /\ pc' = [pc EXCEPT ![r] = "idle"]
  /\ asked' = [asked EXCEPT ![r] = Nil]
  /\ answer' = [answer EXCEPT ![r] = NoResources]
  /\ UNCHANGED now

Tick ==
  /\ now < MaxTime
  /\ now' = now + 1
  /\ UNCHANGED <<pc, asked, answer>>

Next ==
  \/ \E r \in Request :
       \/ \E c \in Contract : Ask(r, c)
       \/ Answer(r)
       \/ Fail(r)
       \/ Return(r)
  \/ Tick

Spec == Init /\ [][Next]_vars
=============================================================================
