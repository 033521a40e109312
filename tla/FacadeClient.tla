---------------------------- MODULE FacadeClient ----------------------------
(***************************************************************************)
(* DataResources of src/internal/contract/client.go, GET by GET, against a *)
(* catalog that is republished between any two of them.  (ResourceCache    *)
(* and ContractMatcher keep the GETs apart too, and leave out where they   *)
(* are sent.)  The client keeps no state, so one call says it all.         *)
(*                                                                         *)
(* localize appends the path of a URL, as url.Parse decodes it, to the text*)
(* of the client's base.  Join says what the result reads as when it is    *)
(* asked: mostly the same path at the client's own host, but a path that   *)
(* was escaped may read as another one, and a relative one as another host *)
(* or as no URL at all.  http.Client then follows redirects, wherever they *)
(* lead.  A query counts as part of the path.                              *)
(*                                                                         *)
(* A catalog is a sequence of versions: each says which documents are      *)
(* served, and which redirects, and at which URLs.  Every JSON object is a *)
(* document, for an offering as for a resource: a field that is not there  *)
(* is empty.                                                               *)
(***************************************************************************)
EXTENDS Integers, Sequences, SequencesExt

CONSTANTS
  Nil,          \* no path, no id, no offering, no URL
  URL,
  Path,         \* the paths, as url.Parse decodes them
  PathOf,       \* the path of a URL; Nil if it has none or does not parse
  Join,         \* what the client's base, followed by a path, reads as
  MaxRequests,  \* how many requests http.Client sends for one GET
  Catalogs,     \* the catalogs that may be published
  Offering      \* the serviceOffering of the contracts: URLs, or Nil

ASSUME NilAssumption == Nil \notin URL
ASSUME URLAssumption ==
  /\ PathOf \in [URL -> Path \cup {Nil}]
  /\ Join \in [Path -> URL \cup {Nil}]
ASSUME MaxRequestsAssumption == MaxRequests \in Nat \ {0}
ASSUME OfferingAssumption == Offering \subseteq URL \cup {Nil}

Document == [dataResources : Seq(URL), id : URL \cup {Nil}, pii : BOOLEAN]

Version(c) ==
  /\ DOMAIN c.served \subseteq URL
  /\ \A u \in DOMAIN c.served : c.served[u] \in Document
  /\ DOMAIN c.moved \subseteq URL \ DOMAIN c.served
  /\ \A u \in DOMAIN c.moved : c.moved[u] \in URL

ASSUME CatalogsAssumption ==
  \A c \in Catalogs :
    /\ Len(c) \in Nat \ {0}
    /\ DOMAIN c = 1 .. Len(c)
    /\ \A v \in DOMAIN c : Version(c[v])

VARIABLES
  catalog,    \* the catalog, in the order of its versions
  version,    \* the one that is served now
  pc,         \* what the call is doing
  offering,   \* the offering it dereferences
  location,   \* where a redirect has led the GET, or Nil
  hops,       \* how many redirects it has followed
  refs,       \* the resources the offering listed
  resources,  \* those read so far
  begun,      \* the version at which the call began
  listed      \* the version that listed its resources

getVars == <<location, hops>>
callVars == <<pc, offering, getVars, refs, resources, begun, listed>>
vars == <<catalog, version, callVars>>

Init ==
  /\ catalog \in Catalogs
  /\ version = 1
  /\ pc = "idle"
  /\ offering = Nil
  /\ location = Nil
  /\ hops = 0
  /\ refs = <<>>
  /\ resources = <<>>
  /\ begun = 0
  /\ listed = 0

(* localize: the URL to ask, or Nil for an error, here or in NewRequest. *)
Localize(url) == IF PathOf[url] = Nil THEN Nil ELSE Join[PathOf[url]]

(* The URL whose GET comes next, or is under way. *)
Pending ==
  IF pc = "listing" THEN offering ELSE refs[Len(resources) + 1]

Fetching == pc = "listing" \/ (pc = "reading" /\ Len(resources) < Len(refs))

(* Where the next request is sent. *)
Target == IF location = Nil THEN Localize(Pending) ELSE location

EndGet ==
  /\ location' = Nil
  /\ hops' = 0

(* Wrong on purpose: an error comes with what was read before it. *)
FailWithRest ==
  /\ pc' = "failed"
  /\ UNCHANGED resources
  /\ EndGet

Fail ==
  /\ pc' = "failed"
  /\ resources' = <<>>
  /\ EndGet

-----------------------------------------------------------------------------

(* A contract without an offering has no resources; nothing is asked. *)
Call(url) ==
  /\ pc = "idle"
  /\ offering' = url
  /\ begun' = version
  /\ pc' = IF url = Nil THEN "answered" ELSE "listing"
  /\ UNCHANGED <<catalog, version, getVars, refs, resources, listed>>

(* The next URL cannot be localized. *)
Unlocalizable ==
  /\ Fetching
  /\ Target = Nil
  /\ Fail
  /\ UNCHANGED <<catalog, version, offering, refs, begun, listed>>

Get ==
  /\ Fetching
  /\ Target # Nil
  /\ UNCHANGED <<catalog, version, offering, begun>>

(* http.Client follows a redirect, unless it has followed too many. *)
Follow ==
  /\ Get
  /\ Target \in DOMAIN catalog[version].moved
  /\ hops + 1 < MaxRequests
  /\ location' = catalog[version].moved[Target]
  /\ hops' = hops + 1
  /\ UNCHANGED <<pc, refs, resources, listed>>

GetOffering ==
  /\ Get
  /\ pc = "listing"
  /\ Target \in DOMAIN catalog[version].served
  /\ pc' = "reading"
  /\ refs' = catalog[version].served[Target].dataResources
  /\ listed' = version
  /\ EndGet
  /\ UNCHANGED resources

(* Wrong on purpose: a resource without an id gets the URL it was read at. *)
LocalizedID(id) == IF id = Nil THEN Target ELSE id

(* A resource without an id is known by the URL the offering lists. *)
CanonicalID(id) == IF id = Nil THEN Pending ELSE id

GetResource ==
  /\ Get
  /\ pc = "reading"
  /\ Target \in DOMAIN catalog[version].served
  /\ LET doc == catalog[version].served[Target]
     IN  resources' = Append(resources,
                             [id |-> CanonicalID(doc.id), pii |-> doc.pii])
  /\ EndGet
  /\ UNCHANGED <<pc, refs, listed>>

(* Wrong on purpose: a resource that cannot be read is left out. *)
GetFailsSoftly ==
  /\ Get
  /\ \/ pc = "listing" /\ Fail /\ UNCHANGED refs
     \/ /\ pc = "reading"
        /\ refs' = RemoveAt(refs, Len(resources) + 1)
        /\ EndGet
        /\ UNCHANGED <<pc, resources>>
  /\ UNCHANGED listed

(* getJSON: not found, another status, too many redirects, no answer in    *)
(* time, an answer that is too long or no JSON.  One GET that fails fails  *)
(* the call.                                                               *)
GetFails ==
  /\ Get
  /\ Fail
  /\ UNCHANGED <<refs, listed>>

Answer ==
  /\ pc = "reading"
  /\ ~Fetching
  /\ pc' = "answered"
  /\ UNCHANGED <<catalog, version, offering, getVars, refs, resources, begun,
                 listed>>

(* The caller has the answer; the next call begins anew. *)
Return ==
  /\ pc \in {"answered", "failed"}
  /\ pc' = "idle"
  /\ offering' = Nil
  /\ refs' = <<>>
  /\ resources' = <<>>
  /\ begun' = 0
  /\ listed' = 0
  /\ UNCHANGED <<catalog, version, getVars>>

(* The facade publishes its catalog anew. *)
Publish ==
  /\ version < Len(catalog)
  /\ version' = version + 1
  /\ UNCHANGED <<catalog, callVars>>

Next ==
  \/ \E url \in Offering : Call(url)
  \/ Unlocalizable
  \/ Follow
  \/ GetOffering
  \/ GetResource
  \/ GetFails
  \/ Answer
  \/ Return
  \/ Publish

Spec == Init /\ [][Next]_vars

-----------------------------------------------------------------------------

(* The types; what is read is no more than what was listed, and a call that*)
(* failed holds nothing.                                                   *)
TypeOK ==
  /\ catalog \in Catalogs
  /\ version \in DOMAIN catalog
  /\ pc \in {"idle", "listing", "reading", "answered", "failed"}
  /\ offering \in Offering \cup {Nil}
  /\ location \in URL \cup {Nil}
  /\ hops \in 0 .. MaxRequests - 1
  /\ refs \in Seq(URL)
  /\ resources \in Seq([id : URL, pii : BOOLEAN])
  /\ Len(resources) <= Len(refs)
  /\ pc = "failed" => resources = <<>>
  /\ begun \in 0 .. version
  /\ listed \in 0 .. version

(* The redirects of these versions lead out of no set that is closed under *)
(* them: from one URL they lead to another that is in every closed set.    *)
Closed(versions, urls) ==
  \A v \in versions : \A u \in urls \cap DOMAIN catalog[v].moved :
    catalog[v].moved[u] \in urls

Leads(versions, from, to) ==
  \A urls \in SUBSET URL :
    from \in urls /\ Closed(versions, urls) => to \in urls

(* What may be read for a reference, at a version, by a GET that has gone  *)
(* on since an earlier one.                                                *)
Documents(first, v, ref) ==
  {catalog[v].served[u] : u \in
    {w \in DOMAIN catalog[v].served : Leads(first .. v, Localize(ref), w)}}

Since == listed .. version

(* What was read for the i-th reference was there at some time since, at   *)
(* its URL or where this one has led.                                      *)
Grounded(i) ==
  \E v \in Since : \E doc \in Documents(listed, v, refs[i]) :
    /\ resources[i].pii = doc.pii
    /\ resources[i].id = IF doc.id = Nil THEN refs[i] ELSE doc.id

(* An answer has a resource for every reference of one version of the      *)
(* offering, in its order, and each is what was served for that reference  *)
(* at some time since, under the id its document or the offering gave it   *)
(* and never under the address it was read at (DataResources).             *)
AnswerGrounded ==
  pc = "answered" /\ offering # Nil =>
    /\ \E doc \in Documents(begun, listed, offering) :
         refs = doc.dataResources
    /\ Len(resources) = Len(refs)
    /\ \A i \in DOMAIN refs : Grounded(i)

DeclaresPII(first, v, ref) ==
  \E doc \in Documents(first, v, ref) : doc.pii

FoundPII == \E i \in DOMAIN resources : resources[i].pii

(* A resource that was listed when the offering was read, and was declared *)
(* as personal data by all that was served for it since, is found, whatever*)
(* else is republished or redirected meanwhile and whichever GETs fail: an *)
(* owner-level claim is never due to a failure (DataResources,             *)
(* firstPIIResource).                                                      *)
StablePIIFound ==
  pc = "answered" /\ offering # Nil /\ ~FoundPII =>
    \E list \in Documents(begun, listed, offering) :
      \A ref \in ToSet(list.dataResources) :
        \E v \in Since : \E doc \in Documents(listed, v, ref) : ~doc.pii

ListedBy(v) ==
  UNION {ToSet(doc.dataResources) : doc \in Documents(begun, v, offering)}

(* contract_matcher.go:197: an answer without personal data is for a       *)
(* contract that "declares no PII resource": there was an instant, since   *)
(* the offering was read, at which the catalog declared none.              *)
NoPIIMeansNoneDeclared ==
  pc = "answered" /\ offering # Nil /\ ~FoundPII =>
    \E v \in Since : \A ref \in ListedBy(v) : ~DeclaresPII(listed, v, ref)
=============================================================================
