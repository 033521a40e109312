---------------------------- MODULE MCItemClaims ----------------------------
(* The walk over the data items on small bodies, whose keys hold the       *)
(* characters a pointer escapes, in every order that matters.              *)
EXTENDS ItemClaims

Str(text) == [kind |-> "string", text |-> text]
Obj(members) == [kind |-> "object", members |-> members]
Arr(elements) == [kind |-> "array", elements |-> elements]

Owner == <<"o">>
Resource1 == <<"r", "/">>

(* The keys: empty, plain, an index, and what unescaping could confuse. *)
Key ==
  {<<>>, <<"k">>, <<"0">>, <<"~">>, <<"/">>, <<"~", "1">>, <<"~", "0">>,
   <<"/", "~">>, <<"~", "~", "1">>}

Alice == Obj(Owner :> Str(<<"a">>) @@ Resource1 :> Str(<<"1">>))
Bob == Obj(Owner :> Str(<<"b">>) @@ Resource1 :> Str(<<"2">>))
Nobody == Obj(Owner :> Str(<<>>))
Unplaced == Obj(Owner :> Str(<<"c">>))

Collection ==
  {Arr(<<>>), Arr(<<Alice>>), Arr(<<Alice, Bob>>), Arr(<<Bob, Nobody>>),
   Arr(<<Alice, Unplaced>>), Arr(<<Bob, Alice, Alice>>),
   Arr([i \in 1 .. 11 |-> IF i = 11 THEN Bob ELSE Alice])}

(* The collection is the body, or lies under a key of it beside another, or*)
(* two keys deep.                                                          *)
MCBodies ==
  Collection \cup {Alice, Str(<<"s">>)}
    \cup {Obj(k :> c @@ <<"x">> :> Bob) : k \in Key, c \in Collection}
    \cup {Obj(k :> Obj(k :> Arr(<<Bob, Alice>>))) : k \in Key}

MCChar ==
  {"~", "/", "a", "b", "c", "k", "o", "r", "s", "x"} \cup ToSet(Digits)

(* The bodies, and what is in them. *)
MCValue ==
  MCBodies \cup Collection
    \cup {Alice, Bob, Nobody, Unplaced, Arr(<<Bob, Alice>>)}
    \cup {Obj(k :> Arr(<<Bob, Alice>>)) : k \in Key}
    \cup {Str(<<>>)} \cup {Str(<<c>>) : c \in {"a", "b", "c", "1", "2"}}

Escaped(k) == JoinPointer(<<>>, k)

MCMatchers ==
  [items : {<<>>, <<"k">>} \cup {Escaped(k) : k \in Key},
   itemsIsArray : BOOLEAN,
   ownerPtr : {Escaped(Owner)},
   resourcePtr : {<<>>, Escaped(Resource1)},
   resource : {<<>>}]
=============================================================================
