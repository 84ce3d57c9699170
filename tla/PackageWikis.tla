---------------------------- MODULE PackageWikis ----------------------------
(***************************************************************************)
(* The wikis of packages (wiki/models/wiki.py, repository/models/wiki.py)  *)
(* and their API (repository/api/experimental/views/wiki.py): pages are    *)
(* written and deleted by requests that overlap, every write renews the    *)
(* date of the wiki, and clients that keep a copy of all wikis ask for     *)
(* those whose date is past their cursor.                                  *)
(*                                                                         *)
(* The date is taken before the UPDATE that waits for the row and before   *)
(* the commit.  A reading of the clock, in microseconds, is later than the *)
(* one before.  Requests that are refused for their user, their package or *)
(* their data write nothing and are left out, as are titles and slugs.     *)
(***************************************************************************)
EXTENDS Naturals, FiniteSets

CONSTANTS
    Packages,
    WikiPages,     \* primary keys of pages
    Requests,      \* POST and DELETE requests that may overlap
    MirrorPage,    \* page_size of PackageWikiListAPIView
    MaxPosts,      \* bound: requests ever made
    MaxNow,        \* bound: readings of the clock
    NewPage        \* a POST without an id

ASSUME WikisAssumption ==
    /\ MirrorPage \in Nat \ {0} /\ MaxPosts \in Nat /\ MaxNow \in Nat \ {0}
    /\ IsFiniteSet(Packages) /\ NewPage \notin WikiPages

VARIABLES
    now,
    wiki,     \* of each package: is it there, and datetime_updated
    page,     \* rows of WikiPage: their package and their text
    request,
    posts,
    mirror,   \* a client of the list: its cursor, its copies, the answer under way
    raced     \* was the last write of a wiki in progress while the mirror was answered?

wikiVars == <<now, wiki, page, request, posts, mirror, raced>>

NoRequest == [at |-> "idle", kind |-> "post", of |-> NewPage, page |-> NewPage, text |-> 0,
              creates |-> FALSE, date |-> 0, raced |-> FALSE]

WikiWork ==
    [at : {"idle", "create", "load", "save", "date", "commit"}, kind : {"post", "delete"},
     of : Packages \cup {NewPage}, page : WikiPages \cup {NewPage}, text : 0 .. MaxPosts,
     creates : BOOLEAN, date : 0 .. MaxNow, raced : BOOLEAN]

PageRows ==
    [row : {"new", "there", "deleted"}, of : Packages \cup {NewPage}, text : 0 .. MaxPosts]

Mirrors ==
    [at : {"idle", "asking"}, cursor : 0 .. MaxNow, next : 0 .. MaxNow,
     found : SUBSET Packages, copy : [Packages -> SUBSET (WikiPages \X Nat)]]

WikisTypeOK ==
    /\ now \in 0 .. MaxNow /\ posts \in 0 .. MaxPosts
    /\ wiki \in [Packages -> [made : BOOLEAN, updated : 0 .. MaxNow]]
    /\ page \in [WikiPages -> PageRows] /\ request \in [Requests -> WikiWork] /\ mirror \in Mirrors
    /\ raced \in [Packages -> BOOLEAN]

WikisInit ==
    /\ now = 1 /\ posts = 0
    /\ wiki = [p \in Packages |-> [made |-> FALSE, updated |-> 0]]
    /\ page = [g \in WikiPages |-> [row |-> "new", of |-> NewPage, text |-> 0]]
    /\ request = [r \in Requests |-> NoRequest]
    /\ mirror = [at |-> "idle", cursor |-> 0, next |-> 0, found |-> {},
                 copy |-> [p \in Packages |-> {}]]
    /\ raced = [p \in Packages |-> FALSE]

-----------------------------------------------------------------------------

ReadClock == now < MaxNow /\ now' = now + 1

Doing(r, step) == request[r].at = step

Advance(r, step) == request' = [request EXCEPT ![r].at = step]

\* The request ends; what it had not committed is gone.
Ends(r) == request' = [request EXCEPT ![r] = NoRequest]

There(p, g) == page[g].row = "there" /\ page[g].of = p

\* wiki.pages.
Pages(p) == {<<g, page[g].text>> : g \in {h \in WikiPages : There(p, h)}}

\* The row is written and not committed by another request.
PageTaken(r, g) ==
    \E q \in Requests \ {r} : request[q].page = g /\ request[q].at \in {"date", "commit"}

-----------------------------------------------------------------------------
(* POST and DELETE of PackageWikiApiView *)

\* get_wiki_for_write, and the first query of get_for_package.
BeginRequest(r) ==
    /\ Doing(r, "idle") /\ posts < MaxPosts
    /\ posts' = posts + 1
    /\ \E kind \in {"post", "delete"}, p \in Packages, g \in WikiPages \cup {NewPage} :
           /\ kind = "delete" => g # NewPage
           /\ request' = [request EXCEPT ![r] =
                  [NoRequest EXCEPT !.kind = kind, !.of = p, !.page = g, !.text = posts + 1,
                       !.at = IF wiki[p].made THEN "load" ELSE "create"]]
    /\ UNCHANGED <<now, wiki, page, mirror, raced>>

\* get_for_package inserts the wiki and its PackageWiki.  A package has one: the second
\* insertion waits for the first to commit, and fails.  In a DELETE nothing follows in
\* this transaction, and a new wiki has no page to delete.
CreateWiki(r) ==
    /\ Doing(r, "create")
    /\ \A q \in Requests : ~(request[q].creates /\ request[q].of = request[r].of)
    /\ IF wiki[request[r].of].made
       THEN Ends(r) /\ UNCHANGED wiki
       ELSE IF request[r].kind = "post"
       THEN /\ request' = [request EXCEPT ![r].creates = TRUE, ![r].at = "load"]
            /\ UNCHANGED wiki
       ELSE /\ Ends(r)
            /\ wiki' = [wiki EXCEPT ![request[r].of] = [made |-> TRUE, updated |-> now]]
    /\ IF wiki' = wiki THEN UNCHANGED now ELSE ReadClock
    /\ UNCHANGED <<page, posts, mirror, raced>>

\* A new page, or get_object_or_404.
LoadPage(r) ==
    /\ Doing(r, "load")
    /\ IF request[r].page = NewPage \/ There(request[r].of, request[r].page)
       THEN Advance(r, "save")
       ELSE Ends(r)
    /\ UNCHANGED <<now, wiki, page, posts, mirror, raced>>

\* The page's INSERT, UPDATE or DELETE, which waits for other writers of the row.  An
\* UPDATE that finds the page deleted inserts it again.
WritePage(r) ==
    /\ Doing(r, "save")
    /\ IF request[r].page = NewPage
       THEN \E g \in WikiPages :
                /\ page[g].row = "new" /\ ~PageTaken(r, g)
                /\ request' = [request EXCEPT ![r].page = g, ![r].at = "date"]
       ELSE ~PageTaken(r, request[r].page) /\ Advance(r, "date")
    /\ UNCHANGED <<now, wiki, page, posts, mirror, raced>>

\* on_page_updated: the date is taken, then the UPDATE waits for the wiki's row.
DateWiki(r) ==
    /\ Doing(r, "date")
    /\ request' = [request EXCEPT ![r].date = now, ![r].raced = (mirror.at = "asking"),
                                  ![r].at = "commit"]
    /\ ReadClock
    /\ UNCHANGED <<wiki, page, posts, mirror, raced>>

\* The UPDATE of the wiki and the commit.
CommitPage(r) ==
    /\ Doing(r, "commit")
    /\ LET p == request[r].of
       IN  /\ wiki' = [wiki EXCEPT ![p] = [made |-> TRUE, updated |-> request[r].date]]
           /\ raced' = [raced EXCEPT ![p] = request[r].raced]
           /\ page' = [page EXCEPT ![request[r].page] =
                  [row |-> IF request[r].kind = "post" THEN "there" ELSE "deleted",
                   of |-> p, text |-> request[r].text]]
    /\ Ends(r)
    /\ UNCHANGED <<now, posts, mirror>>

\* A lost connection, a deadlock of the database, a killed process: a rollback.
RequestFails(r) ==
    /\ ~Doing(r, "idle")
    /\ Ends(r)
    /\ UNCHANGED <<now, wiki, page, posts, mirror, raced>>

-----------------------------------------------------------------------------
(* PackageWikiListAPIView, and a client that keeps copies *)

\* The query: the first wikis by date past the cursor, a page of them.
AskForWikis ==
    /\ mirror.at = "idle"
    /\ LET rest == {p \in Packages : wiki[p].made /\ wiki[p].updated > mirror.cursor}
       IN  \E found \in SUBSET rest :
               /\ Cardinality(found) =
                      IF Cardinality(rest) < MirrorPage THEN Cardinality(rest) ELSE MirrorPage
               /\ \A p \in found, q \in rest \ found : wiki[p].updated <= wiki[q].updated
               /\ \E last \in {wiki[p].updated : p \in found} \cup {0} :
                      /\ \A p \in found : wiki[p].updated <= last
                      /\ (last = 0) = (found = {})
                      /\ mirror' = [mirror EXCEPT !.at = "asking", !.found = found, !.next = last]
    /\ request' = [r \in Requests |->
           IF Doing(r, "commit") THEN [request[r] EXCEPT !.raced = TRUE] ELSE request[r]]
    /\ UNCHANGED <<now, wiki, page, posts, raced>>

Copied == [p \in Packages |-> IF p \in mirror.found THEN Pages(p) ELSE mirror.copy[p]]

\* Mutant of AnswerWikis: the cursor is always the time of the answer.
AnswerWikisNow ==
    /\ mirror.at = "asking"
    /\ mirror' = [mirror EXCEPT !.at = "idle", !.found = {}, !.next = 0, !.copy = Copied,
                                !.cursor = now]
    /\ ReadClock
    /\ UNCHANGED <<wiki, page, request, posts, raced>>

\* The prefetch of the pages, a query of its own, and the cursor: the date of the last
\* wiki as queried, or the time if there was none.
AnswerWikis ==
    /\ mirror.at = "asking"
    /\ mirror' = [mirror EXCEPT !.at = "idle", !.found = {}, !.next = 0, !.copy = Copied,
                                !.cursor = IF mirror.found = {} THEN now ELSE mirror.next]
    /\ IF mirror.found = {} THEN ReadClock ELSE UNCHANGED now
    /\ UNCHANGED <<wiki, page, request, posts, raced>>

-----------------------------------------------------------------------------

WikisNext ==
    \/ \E r \in Requests :
           \/ BeginRequest(r) \/ CreateWiki(r) \/ LoadPage(r) \/ WritePage(r)
           \/ DateWiki(r) \/ CommitPage(r) \/ RequestFails(r)
    \/ AskForWikis \/ AnswerWikis

WikisSpec == WikisInit /\ [][WikisNext]_wikiVars

-----------------------------------------------------------------------------
(* Properties *)

\* A copy that is out of date is of a wiki the client's next questions will still
\* return, or of one whose last write was dated and not committed while the client's
\* question was answered.
MirrorMissesOnlyRaces ==
    \A p \in Packages :
        mirror.copy[p] # Pages(p) => wiki[p].updated > mirror.cursor \/ raced[p]

=============================================================================
