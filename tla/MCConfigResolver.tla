-------------------------- MODULE MCConfigResolver --------------------------
(* The configured resolver on every configuration of at most two of the    *)
(* rules below, and every request for two services and two paths.          *)
EXTENDS ConfigResolver

CONSTANTS s1, s2, p1, p2

MCService == {s1, s2}
MCPath == {p1, p2}
MCOwnerInPath == {p1}
MCScheme == {"identifier", "email", "did"}

(* A static rule that covers everything, and what the others change of it. *)
Plain ==
  [service |-> Unset, paths |-> Unset, consentRequired |-> TRUE,
   scheme |-> Unset, type |-> "static", itemsIsArray |-> FALSE,
   complete |-> TRUE]

Rules ==
  {Plain,
   [Plain EXCEPT !.service = s1],
   [Plain EXCEPT !.service = s1, !.consentRequired = FALSE],
   [Plain EXCEPT !.paths = {p1}, !.scheme = "email"],
   [Plain EXCEPT !.paths = {p1}, !.scheme = "phone"],
   [Plain EXCEPT !.type = "path"],
   [Plain EXCEPT !.type = "path", !.service = s2, !.paths = {p1, p2}],
   [Plain EXCEPT !.type = "json"],
   [Plain EXCEPT !.type = "json", !.service = s1, !.itemsIsArray = TRUE],
   [Plain EXCEPT !.type = "json", !.paths = {p2}, !.itemsIsArray = TRUE,
                 !.consentRequired = FALSE],
   [Plain EXCEPT !.type = "contract", !.service = s1,
                 !.itemsIsArray = TRUE, !.scheme = "did"],
   [Plain EXCEPT !.type = "contract", !.service = s2,
                 !.consentRequired = FALSE],
   [Plain EXCEPT !.type = "json", !.complete = FALSE],
   [Plain EXCEPT !.type = "xml"]}

MCConfig ==
  [contractService : {"absent", "no url", "set"},
   defaultConsentRequired : BOOLEAN,
   scheme : {Unset, "did", "phone"},
   rules : UNION {[1 .. n -> Rules] : n \in 0 .. 2}]

MCBody ==
  [kind : {"none", "undecodable", "opaque", "shapeless"}, items : {<<>>}]
    \cup [kind : {"object"}, items : {<<"good">>, <<"bad">>}]
    \cup [kind : {"array"},
          items : {<<>>, <<"good">>, <<"good", "good">>, <<"good", "bad">>}]
=============================================================================
