------------------------- MODULE FacadeClientProofs -------------------------
(***************************************************************************)
(* What DataResources answers, for every catalog, however often and in     *)
(* whatever way it is republished, wherever its redirects lead and any     *)
(* number of resources.  The invariant that carries the proofs says of a   *)
(* call that is reading what AnswerGrounded says of one that has answered, *)
(* and of a GET under way that redirects have led it where it is.          *)
(***************************************************************************)
EXTENDS FacadeClient, TLAPS

(* The version from which on the redirects of the pending GET count. *)
First == IF pc = "listing" THEN begun ELSE listed

(* The references are those of the offering when it was read, and what was *)
(* read so far is grounded; before, nothing was read.                      *)
Reading ==
  /\ pc = "idle" => offering = Nil
  /\ pc \in {"idle", "listing"} => refs = <<>> /\ resources = <<>>
  /\ pc \in {"listing", "reading"} => offering # Nil
  /\ pc = "listing" => begun \in 1 .. version
  /\ pc = "answered" /\ offering # Nil => Len(resources) = Len(refs)
  /\ pc \in {"reading", "answered"} /\ offering # Nil =>
       /\ listed \in 1 .. version
       /\ \E doc \in Documents(begun, listed, offering) :
            refs = doc.dataResources
       /\ \A i \in DOMAIN resources : Grounded(i)

(* Redirects have led a GET to where it is from the URL it was to ask. *)
Following ==
  location # Nil =>
    Fetching /\ Leads(First .. version, Localize(Pending), location)

IInv == TypeOK /\ Reading /\ Following

(* The versions of a catalog. *)
LEMMA Versions ==
  ASSUME NEW c \in Catalogs, NEW v \in 1 .. Len(c)
  PROVE  /\ Len(c) \in Nat
         /\ v \in DOMAIN c
         /\ \A u \in DOMAIN c[v].served :
              /\ u \in URL
              /\ c[v].served[u].dataResources \in Seq(URL)
              /\ c[v].served[u].id \in URL \cup {Nil}
              /\ c[v].served[u].pii \in BOOLEAN
         /\ \A u \in DOMAIN c[v].moved : c[v].moved[u] \in URL
<1>1. Len(c) \in Nat /\ v \in DOMAIN c /\ Version(c[v])
  BY CatalogsAssumption
<1> QED BY <1>1 DEF Version, Document

(* What redirects lead to is led to by more of them, too. *)
LEMMA LeadsGrows ==
  ASSUME NEW fewer, NEW more, fewer \subseteq more, NEW from, NEW to,
         Leads(fewer, from, to)
  PROVE  Leads(more, from, to)
BY DEF Leads, Closed

(* Where a URL leads, one more redirect leads on. *)
LEMMA LeadsOn ==
  ASSUME NEW versions, NEW from, NEW via, Leads(versions, from, via),
         NEW v \in versions, via \in DOMAIN catalog[v].moved
  PROVE  Leads(versions, from, catalog[v].moved[via])
BY DEF Leads, Closed

LEMMA LeadsItself ==
  ASSUME NEW versions, NEW url PROVE Leads(versions, url, url)
BY DEF Leads

LEMMA InitIInv == Init => IInv
<1> SUFFICES ASSUME Init PROVE IInv
  OBVIOUS
<1>1. 1 \in DOMAIN catalog
  BY CatalogsAssumption DEF Init
<1>2. TypeOK
  BY <1>1, MaxRequestsAssumption DEF Init, TypeOK
<1> QED BY <1>2 DEF Init, IInv, Reading, Following

(* The next request goes to where redirects, if any, have led. *)
LEMMA TargetLed ==
  ASSUME IInv PROVE Leads(First .. version, Localize(Pending), Target)
<1>1. CASE location = Nil
  BY <1>1, LeadsItself DEF Target
<1>2. CASE location # Nil
  BY <1>2 DEF Target, IInv, Following
<1> QED BY <1>1, <1>2

LEMMA PendingURL ==
  ASSUME TypeOK, Fetching, pc = "reading"
  PROVE  /\ Len(resources) + 1 \in DOMAIN refs
         /\ Pending = refs[Len(resources) + 1]
         /\ Pending \in URL
<1>1. Len(resources) < Len(refs)
  BY DEF Fetching
<1>2. Len(resources) + 1 \in DOMAIN refs
  BY <1>1 DEF TypeOK
<1> QED BY <1>2 DEF TypeOK, Pending

LEMMA CallIInv ==
  ASSUME IInv, NEW url \in Offering, Call(url) PROVE IInv'
<1> USE DEF Call, getVars
<1>0. version \in Nat /\ version >= 1 /\ location = Nil
  BY CatalogsAssumption DEF IInv, TypeOK, Following, Fetching
<1>1. TypeOK'
  BY <1>0 DEF IInv, TypeOK
<1>2. Reading'
  BY <1>0 DEF IInv, Reading
<1>3. Following'
  BY <1>0 DEF Following
<1> QED BY <1>1, <1>2, <1>3 DEF IInv

(* A call that fails holds nothing. *)
LEMMA FailIInv ==
  ASSUME IInv, Unlocalizable \/ GetFails PROVE IInv'
<1> USE DEF Unlocalizable, GetFails, Get, Fail, EndGet
<1>0. /\ pc' = "failed" /\ resources' = <<>> /\ location' = Nil /\ hops' = 0
      /\ UNCHANGED <<catalog, version, offering, refs, begun, listed>>
  OBVIOUS
<1>1. TypeOK'
  <2>1. Len(resources') = 0 /\ Len(refs) \in Nat
    BY <1>0 DEF IInv, TypeOK
  <2>2. resources' \in Seq([id : URL, pii : BOOLEAN])
    BY <1>0
  <2> QED BY <1>0, <2>1, <2>2, MaxRequestsAssumption DEF IInv, TypeOK
<1>2. Reading' /\ Following'
  BY DEF Reading, Following
<1> QED BY <1>1, <1>2 DEF IInv

LEMMA FollowIInv ==
  ASSUME IInv, Follow PROVE IInv'
<1> DEFINE next == catalog[version].moved[Target]
<1>0. /\ Fetching /\ Target # Nil /\ Target \in DOMAIN catalog[version].moved
      /\ UNCHANGED <<catalog, version, offering, begun, pc, refs, resources,
                     listed>>
      /\ location' = next /\ hops' = hops + 1 /\ hops + 1 < MaxRequests
      /\ version \in 1 .. Len(catalog) /\ catalog \in Catalogs
      /\ version \in Nat
  BY CatalogsAssumption DEF Follow, Get, IInv, TypeOK
<1>1. next \in URL
  BY <1>0, Versions
<1>2. TypeOK'
  BY <1>0, <1>1, MaxRequestsAssumption DEF IInv, TypeOK
<1>3. Reading'
  <2>0. \A v, ref : Documents(listed, v, ref)' = Documents(listed, v, ref)
    BY <1>0 DEF Documents, Leads, Closed, Localize
  <2>1. \A i \in DOMAIN resources : Grounded(i) => Grounded(i)'
    BY <1>0, <2>0 DEF Grounded, Since
  <2>2. Documents(begun, listed, offering)'
          = Documents(begun, listed, offering)
    BY <1>0 DEF Documents, Leads, Closed, Localize
  <2> QED BY <1>0, <2>1, <2>2 DEF IInv, Reading
<1>4. Following'
  <2>1. version \in First .. version
    BY <1>0 DEF IInv, Reading, First, Fetching
  <2>2. Leads(First .. version, Localize(Pending), Target)
    BY TargetLed
  <2>3. Leads(First .. version, Localize(Pending), next)
    BY <1>0, <2>1, <2>2, LeadsOn
  <2>4. Leads(First .. version, Localize(Pending), location')
    BY <1>0, <2>3
  <2>5. Leads(First .. version, Localize(Pending), location)'
    BY <1>0, <2>4 DEF Leads, Closed, First, Pending, Localize
  <2> QED BY <1>0, <2>5 DEF Following, Fetching
<1> QED BY <1>2, <1>3, <1>4 DEF IInv

LEMMA GetOfferingIInv ==
  ASSUME IInv, GetOffering PROVE IInv'
<1> DEFINE doc == catalog[version].served[Target]
<1>0. /\ pc = "listing" /\ pc' = "reading"
      /\ UNCHANGED <<catalog, version, offering, begun, resources>>
      /\ listed' = version /\ location' = Nil /\ hops' = 0
      /\ Pending = offering /\ First = begun
      /\ Target \in DOMAIN catalog[version].served
      /\ refs' = doc.dataResources
      /\ resources = <<>> /\ offering # Nil
      /\ version \in 1 .. Len(catalog) /\ catalog \in Catalogs
  BY CatalogsAssumption
     DEF GetOffering, Get, EndGet, Pending, First, IInv, Reading, TypeOK
<1>1. refs' \in Seq(URL)
  BY <1>0, Versions
<1>2. TypeOK'
  <2>1. version \in Nat
    BY <1>0
  <2> QED BY <1>0, <1>1, <2>1, MaxRequestsAssumption DEF IInv, TypeOK
<1>3. doc \in Documents(begun, version, offering)
  <2>1. Leads(begun .. version, Localize(offering), Target)
    BY <1>0, TargetLed
  <2> QED BY <1>0, <2>1 DEF Documents
<1>4. Reading'
  <2>1. DOMAIN resources' = {}
    BY <1>0
  <2>2. version \in Nat /\ listed' \in 1 .. version'
    BY <1>0
  <2>3. doc \in Documents(begun, listed, offering)'
    BY <1>0, <1>3 DEF Documents, Leads, Closed, Localize
  <2> HIDE DEF doc
  <2> QED BY <1>0, <2>1, <2>2, <2>3 DEF Reading
<1>5. Following'
  BY <1>0 DEF Following
<1> QED BY <1>2, <1>4, <1>5 DEF IInv

LEMMA GetResourceIInv ==
  ASSUME IInv, GetResource PROVE IInv'
<1>n. PICK n \in Nat : n = Len(resources) + 1
  BY DEF IInv, TypeOK
<1> DEFINE doc == catalog[version].served[Target]
           read == [id |-> CanonicalID(doc.id), pii |-> doc.pii]
<1>0. /\ pc = "reading" /\ First = listed
      /\ UNCHANGED <<catalog, version, offering, begun, pc, refs, listed>>
      /\ location' = Nil /\ hops' = 0
      /\ n \in DOMAIN refs
      /\ Pending = refs[n] /\ Pending \in URL
      /\ Target \in DOMAIN catalog[version].served
      /\ resources' = Append(resources, read)
      /\ version \in 1 .. Len(catalog) /\ catalog \in Catalogs
  BY <1>n, PendingURL, CatalogsAssumption
     DEF GetResource, Get, EndGet, First, IInv, Reading, TypeOK
<1>1. doc.id \in URL \cup {Nil} /\ doc.pii \in BOOLEAN
  BY <1>0, Versions
<1>2. /\ read \in [id : URL, pii : BOOLEAN]
      /\ read.pii = doc.pii
      /\ read.id = IF doc.id = Nil THEN Pending ELSE doc.id
  <2> HIDE DEF doc
  <2> QED BY <1>0, <1>1, NilAssumption DEF CanonicalID
<1>3. /\ resources \in Seq([id : URL, pii : BOOLEAN])
      /\ refs \in Seq(URL) /\ Len(resources) <= Len(refs)
  BY DEF IInv, TypeOK
<1>4. doc \in Documents(listed, version, refs[n])
  <2>1. Leads(listed .. version, Localize(refs[n]), Target)
    BY <1>0, TargetLed
  <2> QED BY <1>0, <2>1 DEF Documents
<1> HIDE DEF read
<1>5. /\ resources' \in Seq([id : URL, pii : BOOLEAN])
      /\ Len(resources') = n /\ n <= Len(refs)
      /\ DOMAIN resources' = 1 .. n
      /\ resources'[n] = read
      /\ \A i \in DOMAIN resources : resources'[i] = resources[i]
  BY <1>n, <1>0, <1>2, <1>3
<1>6. TypeOK'
  BY <1>0, <1>5, MaxRequestsAssumption DEF IInv, TypeOK
<1>7. \A i \in DOMAIN resources' : Grounded(i)'
  <2> HIDE DEF doc
  <2>1. Since' = Since /\ refs' = refs /\ listed' = listed
    BY <1>0 DEF Since
  <2>2. \A v, ref : Documents(listed, v, ref)' = Documents(listed, v, ref)
    BY <1>0 DEF Documents, Leads, Closed, Localize
  <2>3. \A i \in DOMAIN resources : Grounded(i)'
    <3>1. \A i \in DOMAIN resources : Grounded(i)
      BY <1>0 DEF IInv, Reading
    <3>2. \A i \in DOMAIN resources : resources'[i] = resources[i]
      BY <1>5
    <3> QED BY <2>1, <2>2, <3>1, <3>2 DEF Grounded
  <2>4. Grounded(n)'
    <3>1. version \in Since
      BY <1>0 DEF Since, IInv, Reading
    <3> QED BY <1>0, <1>2, <1>4, <1>5, <2>1, <2>2, <3>1 DEF Grounded
  <2>5. \A i \in DOMAIN resources' : i \in DOMAIN resources \/ i = n
    BY <1>n, <1>3, <1>5
  <2> QED BY <2>3, <2>4, <2>5
<1>8. Reading'
  <2>1. Documents(begun, listed, offering)'
          = Documents(begun, listed, offering)
    BY <1>0 DEF Documents, Leads, Closed, Localize
  <2> QED BY <1>0, <1>7, <2>1 DEF IInv, Reading
<1>9. Following'
  BY <1>0 DEF Following
<1> QED BY <1>6, <1>8, <1>9 DEF IInv

LEMMA AnswerIInv ==
  ASSUME IInv, Answer PROVE IInv'
<1> USE DEF Answer, getVars
<1>0. location = Nil
  BY DEF IInv, Following
<1>1. TypeOK'
  BY DEF IInv, TypeOK
<1>2. Reading'
  <2>1. Len(resources) = Len(refs)
    BY DEF Fetching, IInv, TypeOK
  <2>2. \A i \in DOMAIN resources : Grounded(i)
    BY DEF IInv, Reading
  <2>3. \A i \in DOMAIN resources : Grounded(i)'
    BY <2>2 DEF Grounded, Since, Documents, Leads, Closed, Localize
  <2>4. Documents(begun, listed, offering)'
          = Documents(begun, listed, offering)
    BY DEF Documents, Leads, Closed, Localize
  <2> QED BY <2>1, <2>3, <2>4 DEF IInv, Reading
<1>3. Following'
  BY <1>0 DEF Following
<1> QED BY <1>1, <1>2, <1>3 DEF IInv

LEMMA ReturnIInv ==
  ASSUME IInv, Return PROVE IInv'
<1> USE DEF Return, getVars
<1>1. TypeOK'
  <2>1. /\ refs' = <<>> /\ resources' = <<>>
        /\ refs' \in Seq(URL)
        /\ resources' \in Seq([id : URL, pii : BOOLEAN])
    OBVIOUS
  <2>2. Len(resources') <= Len(refs')
    BY <2>1
  <2>3. version \in Nat
    BY CatalogsAssumption DEF IInv, TypeOK
  <2> QED BY <2>1, <2>2, <2>3 DEF IInv, TypeOK
<1>2. Following'
  BY DEF IInv, Following, Fetching
<1> QED BY <1>1, <1>2 DEF IInv, Reading

LEMMA PublishIInv ==
  ASSUME IInv, Publish PROVE IInv'
<1> USE DEF Publish, callVars, getVars
<1>0. version \in Nat /\ version' = version + 1 /\ catalog' = catalog
  BY CatalogsAssumption DEF IInv, TypeOK
<1>1. TypeOK'
  BY CatalogsAssumption DEF IInv, TypeOK
<1>2. Reading'
  <2>1. listed \in Nat /\ begun \in Nat
    BY DEF IInv, TypeOK
  <2>2. Since \subseteq Since'
    BY <1>0, <2>1 DEF Since
  <2>3. \A v, ref : Documents(listed, v, ref)' = Documents(listed, v, ref)
    BY DEF Documents, Leads, Closed, Localize
  <2>4. \A i \in DOMAIN resources : Grounded(i) => Grounded(i)'
    BY <2>2, <2>3 DEF Grounded
  <2>5. Documents(begun, listed, offering)'
          = Documents(begun, listed, offering)
    BY DEF Documents, Leads, Closed, Localize
  <2> QED BY <1>0, <2>1, <2>4, <2>5 DEF IInv, Reading
<1>3. Following'
  <2> SUFFICES ASSUME location # Nil PROVE Following'
    BY DEF Following
  <2>1. Fetching /\ Leads(First .. version, Localize(Pending), location)
    BY DEF IInv, Following
  <2>2. First \in Nat
    BY DEF IInv, TypeOK, First
  <2>3. First .. version \subseteq First .. version'
    BY <1>0, <2>2
  <2>4. Leads(First .. version', Localize(Pending), location)
    BY <2>1, <2>3, LeadsGrows
  <2>5. Leads(First .. version, Localize(Pending), location)'
    BY <2>4 DEF Leads, Closed, First, Pending, Localize
  <2> QED BY <2>1, <2>5 DEF Following, Fetching
<1> QED BY <1>1, <1>2, <1>3 DEF IInv

LEMMA NextIInv == IInv /\ [Next]_vars => IInv'
<1> SUFFICES ASSUME IInv, [Next]_vars PROVE IInv'
  OBVIOUS
<1>1. ASSUME NEW url \in Offering, Call(url) PROVE IInv'
  BY <1>1, CallIInv
<1>2. CASE Unlocalizable \/ GetFails
  BY <1>2, FailIInv
<1>3. CASE Follow
  BY <1>3, FollowIInv
<1>4. CASE GetOffering
  BY <1>4, GetOfferingIInv
<1>5. CASE GetResource
  BY <1>5, GetResourceIInv
<1>6. CASE Answer
  BY <1>6, AnswerIInv
<1>7. CASE Return
  BY <1>7, ReturnIInv
<1>8. CASE Publish
  BY <1>8, PublishIInv
<1>9. CASE UNCHANGED vars
  <2> USE <1>9 DEF vars, callVars, getVars
  <2>1. TypeOK' /\ Following'
    BY DEF IInv, TypeOK, Following, Fetching, Leads, Closed, First, Pending,
           Localize
  <2>2. \A first, v, ref :
          Documents(first, v, ref)' = Documents(first, v, ref)
    BY DEF Documents, Leads, Closed, Localize
  <2>3. \A i : Grounded(i) => Grounded(i)'
    BY <2>2 DEF Grounded, Since
  <2>4. Reading'
    BY <2>2, <2>3 DEF IInv, Reading
  <2> QED BY <2>1, <2>4 DEF IInv
<1> QED BY <1>1, <1>2, <1>3, <1>4, <1>5, <1>6, <1>7, <1>8, <1>9 DEF Next

-----------------------------------------------------------------------------

(* The inductive invariant of a call (DataResources). *)
THEOREM FacadeInvariant == Spec => []IInv
  BY InitIInv, NextIInv, PTL DEF Spec

(* The types; a call that failed holds nothing (DataResources). *)
THEOREM FacadeTypes == Spec => []TypeOK
<1>1. IInv => TypeOK
  BY DEF IInv
<1> QED BY <1>1, FacadeInvariant, PTL

(* For every catalog, whatever its redirects, an answer is complete, in    *)
(* order and grounded (DataResources).                                     *)
THEOREM AnswersGrounded == Spec => []AnswerGrounded
<1>1. IInv => AnswerGrounded
  <2> SUFFICES ASSUME IInv, pc = "answered", offering # Nil
               PROVE  /\ \E doc \in Documents(begun, listed, offering) :
                           refs = doc.dataResources
                      /\ Len(resources) = Len(refs)
                      /\ \A i \in DOMAIN refs : Grounded(i)
    BY DEF AnswerGrounded
  <2>1. DOMAIN refs = DOMAIN resources
    BY DEF IInv, TypeOK, Reading
  <2> QED BY <2>1 DEF IInv, Reading
<1> QED BY <1>1, FacadeInvariant, PTL

(* For every catalog, however it is republished and redirected, a resource *)
(* that was declared as personal data all the time is found                *)
(* (DataResources).                                                        *)
THEOREM StableFound == Spec => []StablePIIFound
<1>1. IInv => StablePIIFound
  <2> SUFFICES ASSUME IInv, pc = "answered", offering # Nil, ~FoundPII
               PROVE  \E list \in Documents(begun, listed, offering) :
                        \A ref \in ToSet(list.dataResources) :
                          \E v \in Since :
                            \E doc \in Documents(listed, v, ref) : ~doc.pii
    BY DEF StablePIIFound
  <2>1. /\ DOMAIN refs = DOMAIN resources
        /\ \A i \in DOMAIN resources : Grounded(i)
    BY DEF IInv, TypeOK, Reading
  <2>2. PICK list \in Documents(begun, listed, offering) :
          refs = list.dataResources
    BY DEF IInv, Reading
  <2>3. ASSUME NEW ref \in ToSet(refs)
        PROVE  \E v \in Since : \E doc \in Documents(listed, v, ref) : ~doc.pii
    <3>1. PICK i \in DOMAIN refs : ref = refs[i]
      BY DEF ToSet
    <3>2. ~resources[i].pii /\ Grounded(i)
      BY <2>1, <3>1 DEF FoundPII
    <3> QED BY <3>1, <3>2 DEF Grounded
  <2> QED BY <2>2, <2>3
<1> QED BY <1>1, FacadeInvariant, PTL
=============================================================================
