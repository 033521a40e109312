-------------------------- MODULE MCFacadeClient ---------------------------
(* The facade client on a small instance.  The authority's URLs are read at*)
(* the client's own host; "escaped" is a reference whose path, decoded and *)
(* appended, reads as that of /q; "relative" and "stray" have paths without*)
(* a slash, of which the base makes no URL, and one of another host; "bare"*)
(* has none.  The catalog has three versions, each one of eight: two       *)
(* resources, of which the first, the second or neither is personal data;  *)
(* two without ids, under the escaped and the stray reference; a reference *)
(* that cannot be localized, of either kind; an offering that is withdrawn;*)
(* and one that has moved to another host, as has its first resource,      *)
(* which, in another version, is redirected to itself.                     *)
EXTENDS FacadeClient, TLC

MCURL ==
  {"authority/offering", "authority/p", "authority/q", "escaped", "relative",
   "stray", "bare", "own/offering", "own/p", "own/q", "other/offering",
   "other/p"}
MCPath == {"/offering", "/p", "/q", "/q?", "p", "q"}

MCPathOf ==
  [u \in MCURL |->
     CASE u \in {"authority/offering", "own/offering", "other/offering"} ->
            "/offering"
       [] u \in {"authority/p", "own/p", "other/p"} -> "/p"
       [] u \in {"authority/q", "own/q"} -> "/q"
       [] u = "escaped" -> "/q?"
       [] u = "relative" -> "p"
       [] u = "stray" -> "q"
       [] u = "bare" -> Nil]

MCJoin ==
  "/offering" :> "own/offering" @@ "/p" :> "own/p" @@ "/q" :> "own/q"
    @@ "/q?" :> "own/q" @@ "p" :> Nil @@ "q" :> "other/p"

Lists(items) == [dataResources |-> items, id |-> Nil, pii |-> FALSE]
Doc(id, pii) == [dataResources |-> <<>>, id |-> id, pii |-> pii]

Two(p, q) ==
  [served |-> "own/offering" :> Lists(<<"authority/p", "authority/q">>)
                @@ "own/p" :> Doc("authority/p", p)
                @@ "own/q" :> Doc("authority/q", q),
   moved |-> <<>>]
One ==
  [served |-> "own/offering" :> Lists(<<"escaped", "stray">>)
                @@ "own/q" :> Doc(Nil, TRUE)
                @@ "other/p" :> Doc(Nil, FALSE),
   moved |-> "own/p" :> "own/p"]
Broken(ref) ==
  [served |-> "own/offering" :> Lists(<<"authority/p", ref>>)
                @@ "own/p" :> Doc("authority/p", TRUE),
   moved |-> <<>>]
Withdrawn ==
  [served |-> "own/p" :> Doc("authority/p", TRUE),
   moved |-> "own/q" :> "own/p"]
Moved ==
  [served |-> "other/offering" :> Lists(<<"authority/p", "authority/q">>)
                @@ "other/p" :> Doc("authority/p", TRUE)
                @@ "own/q" :> Doc("authority/q", FALSE),
   moved |-> "own/offering" :> "other/offering" @@ "own/p" :> "other/p"]

MCVersion ==
  {Two(TRUE, FALSE), Two(FALSE, TRUE), Two(FALSE, FALSE), One,
   Broken("bare"), Broken("relative"), Withdrawn, Moved}
MCCatalogs == [1 .. 3 -> MCVersion]

MCOffering == {Nil, "authority/offering", "other/offering", "bare"}
=============================================================================
