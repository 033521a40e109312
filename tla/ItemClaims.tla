----------------------------- MODULE ItemClaims -----------------------------
(***************************************************************************)
(* claimsPerItem of src/internal/resolver/items.go, as the json matcher of *)
(* matcher.go calls it on a decoded body: one claim per data item, each    *)
(* with the pointer at which its item was found.  (ConfigResolver knows    *)
(* only how this ends, and ContractMatcher walks the same items.)          *)
(***************************************************************************)
EXTENDS JsonPointer

CONSTANTS
  None,         \* no call
  Matchers,     \* the configured json matchers
  Value,        \* the decoded JSON values
  Bodies        \* the request bodies among them

ASSUME ValueAssumption ==
  /\ NotFound \notin Value
  /\ \A v \in Value :
       /\ IsObject(v) => /\ DOMAIN v.members \subseteq Text
                         /\ \A key \in DOMAIN v.members :
                              v.members[key] \in Value
       /\ IsArray(v) => v.elements \in Seq(Value)

ASSUME InputAssumption ==
  /\ Bodies \subseteq Value
  /\ \A matcher \in Matchers : /\ matcher.items \in Text
                                /\ matcher.itemsIsArray \in BOOLEAN

VARIABLES
  pc,           \* what the call is doing
  m,            \* the matcher called
  decoded,      \* the body it was given
  claims        \* those built so far

vars == <<pc, m, decoded, claims>>

Init ==
  /\ pc = "idle"
  /\ m = None
  /\ decoded = None
  /\ claims = <<>>

Root == GetJSONPointer(decoded, m.items)

(* The data items: the elements of the array at the pointer, or the value  *)
(* there.                                                                  *)
Items == IF m.itemsIsArray THEN Root.elements ELSE <<Root>>

(* Wrong on purpose: an item is selected within its collection. *)
SelectorWithin(i) ==
  IF m.itemsIsArray THEN JoinPointer(<<>>, Itoa(i - 1)) ELSE <<>>

Selector(i) ==
  IF m.itemsIsArray THEN JoinPointer(m.items, Itoa(i - 1)) ELSE m.items

-----------------------------------------------------------------------------

Call(matcher, body) ==
  /\ pc = "idle"
  /\ pc' = "called"
  /\ m' = matcher
  /\ decoded' = body
  /\ UNCHANGED claims

(* No data at the items pointer, or no array where one is configured. *)
NoItems ==
  /\ pc = "called"
  /\ Root = NotFound \/ (m.itemsIsArray /\ ~IsArray(Root))
  /\ pc' = "failed"
  /\ UNCHANGED <<m, decoded, claims>>

Walk ==
  /\ pc = "called"
  /\ Root # NotFound
  /\ m.itemsIsArray => IsArray(Root)
  /\ pc' = "claiming"
  /\ UNCHANGED <<m, decoded, claims>>

NextItem == Len(claims) + 1
Item == Items[NextItem]

(* The owner and, where the matcher reads it from the item, the resource. *)
ResourceOf(item) ==
  IF m.resourcePtr = <<>> THEN m.resource
  ELSE PointerString(item, m.resourcePtr)

Claimable(item) ==
  PointerString(item, m.ownerPtr) # NotFound /\ ResourceOf(item) # NotFound

ClaimForItem ==
  /\ pc = "claiming"
  /\ NextItem \in DOMAIN Items
  /\ Claimable(Item)
  /\ claims' = Append(claims,
                 [selector |-> Selector(NextItem),
                  ownerId |-> PointerString(Item, m.ownerPtr),
                  dataResource |-> ResourceOf(Item)])
  /\ UNCHANGED <<pc, m, decoded>>

(* Wrong on purpose: such an item ends the walk. *)
UnclaimableLast ==
  /\ pc = "claiming"
  /\ NextItem \in DOMAIN Items
  /\ ~Claimable(Item)
  /\ pc' = "answered"
  /\ UNCHANGED <<m, decoded, claims>>

(* One item without an owner or a resource fails the call. *)
Unclaimable ==
  /\ pc = "claiming"
  /\ NextItem \in DOMAIN Items
  /\ ~Claimable(Item)
  /\ pc' = "failed"
  /\ claims' = <<>>
  /\ UNCHANGED <<m, decoded>>

Answer ==
  /\ pc = "claiming"
  /\ NextItem \notin DOMAIN Items
  /\ pc' = "answered"
  /\ UNCHANGED <<m, decoded, claims>>

Return ==
  /\ pc \in {"answered", "failed"}
  /\ pc' = "idle"
  /\ m' = None
  /\ decoded' = None
  /\ claims' = <<>>

Next ==
  \/ \E matcher \in Matchers, body \in Bodies : Call(matcher, body)
  \/ NoItems
  \/ Walk
  \/ ClaimForItem
  \/ Unclaimable
  \/ Answer
  \/ Return

Spec == Init /\ [][Next]_vars

-----------------------------------------------------------------------------

(* Every claim's selector, read as a pointer into the whole body, finds an *)
(* item, and the owner and the resource read there are the claim's; no two *)
(* claims select the same item (claimsPerItem, joinPointer).               *)
SelectorPointsBack ==
  \A i \in DOMAIN claims :
    LET claim == claims[i]
        item == GetJSONPointer(decoded, claim.selector)
    IN  /\ item # NotFound
        /\ claim.ownerId = PointerString(item, m.ownerPtr)
        /\ claim.dataResource =
             IF m.resourcePtr = <<>> THEN m.resource
             ELSE PointerString(item, m.resourcePtr)
        /\ \A j \in DOMAIN claims \ {i} : claims[j].selector # claim.selector

(* The owners are answered for all of a collection or for none of it: an   *)
(* answer has a claim for each item, in their order, that selects it and   *)
(* has found its owner and resource; and a call that fails had no items, or*)
(* one without either (claimsPerItem, the Matcher contract).               *)
EveryItemClaimed ==
  /\ pc = "answered" =>
       /\ Len(claims) = Len(Items)
       /\ \A i \in DOMAIN Items :
            /\ GetJSONPointer(decoded, claims[i].selector) = Items[i]
            /\ claims[i].ownerId # NotFound
            /\ claims[i].dataResource # NotFound
  /\ pc = "failed" =>
       \/ Root = NotFound
       \/ m.itemsIsArray /\ ~IsArray(Root)
       \/ \E i \in DOMAIN Items : ~Claimable(Items[i])

(* The keys of a value, as a caller would name them. *)
Keys(v) ==
  IF IsObject(v) THEN DOMAIN v.members
  ELSE IF IsArray(v) THEN {Itoa(i - 1) : i \in DOMAIN v.elements} ELSE {}

(* The paths of keys there are, down to a depth of three. *)
Deeper(paths) ==
  paths \cup UNION {{Append(path, key) : key \in Keys(Follow(decoded, path))} :
                      path \in paths}
Paths == Deeper(Deeper(Deeper({<<>>})))

(* The pointer joined of the keys of a path. *)
PointerTo(path) ==
  FlattenSeq([i \in DOMAIN path |-> JoinPointer(<<>>, path[i])])

(* Whatever characters the keys of a body hold, the pointer joined of them *)
(* finds the value they lead to (joinPointer against getJSONPointer).      *)
KeysAddressable ==
  pc = "called" =>
    \A path \in Paths :
      GetJSONPointer(decoded, PointerTo(path)) = Follow(decoded, path)
=============================================================================
