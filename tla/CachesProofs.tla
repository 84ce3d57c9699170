----------------------------- MODULE CachesProofs -----------------------------
(***************************************************************************)
(* The caches taken together, for any constants.                           *)
(*                                                                         *)
(* Part 1, PackageWikis: a client that follows the list of wikis misses    *)
(* only the writes that were under way while it was answered.              *)
(* Part 2, PageCache: entries, copies, locks and readers keep their types. *)
(* Part 3, MCCaches: a behaviour of one cache leaves the others alone.     *)
(***************************************************************************)
EXTENDS MCCaches, PackageIndexesProofs

-----------------------------------------------------------------------------
(* Part 1: the wikis and their mirror *)

(* The inductive invariant *)

BusyHavePackage ==
    \A r \in Requests : ~Doing(r, "idle") => request[r].of \in Packages

\* A wiki that is not there has no date and was not missed.
UnmadeAreOld ==
    \A p \in Packages : ~wiki[p].made => wiki[p].updated = 0 /\ ~raced[p]

\* Every reading of the clock is a date of its own.
DatesArePast ==
    /\ mirror.cursor < now /\ mirror.next < now
    /\ \A p \in Packages : wiki[p].updated < now
    /\ \A r \in Requests : Doing(r, "commit") => request[r].date < now

DatesDiffer ==
    /\ \A p, q \in Packages :
           p # q /\ wiki[p].made /\ wiki[q].made => wiki[p].updated # wiki[q].updated
    /\ \A p \in Packages, r \in Requests :
           wiki[p].made /\ Doing(r, "commit") => wiki[p].updated # request[r].date
    /\ \A r, q \in Requests :
           r # q /\ Doing(r, "commit") /\ Doing(q, "commit") => request[r].date # request[q].date

\* A write that no answer overtook is dated past the cursor.
DatedIsAhead ==
    \A r \in Requests :
        Doing(r, "commit") =>
            request[r].raced \/ (mirror.at = "idle" /\ request[r].date > mirror.cursor)

\* A request writes a page of its own wiki, and no other writes it meanwhile.
WritesOwnPage ==
    \A r \in Requests :
        /\ Doing(r, "save") /\ request[r].page # NewPage =>
               page[request[r].page].of = request[r].of /\ page[request[r].page].row # "new"
        /\ request[r].at \in {"date", "commit"} =>
               /\ request[r].page # NewPage
               /\ page[request[r].page].row = "new" \/ page[request[r].page].of = request[r].of
               /\ ~PageTaken(r, request[r].page)

\* While the client is answered: what it will not copy now comes after its next cursor.
UnaskedComeLater ==
    mirror.at = "asking" =>
        \A p \in Packages \ mirror.found :
            mirror.copy[p] # Pages(p) =>
                raced[p] \/ (mirror.found # {} /\ wiki[p].updated > mirror.next)

WikisInv ==
    /\ WikisTypeOK /\ BusyHavePackage
    /\ UnmadeAreOld /\ DatesArePast /\ DatesDiffer /\ DatedIsAhead /\ WritesOwnPage
    /\ MirrorMissesOnlyRaces /\ UnaskedComeLater

-----------------------------------------------------------------------------
(* What steps leave alone *)

LEMMA WorkTyped ==
    ASSUME WikisInv, NEW r \in Requests, NEW record \in WikiWork,
           request' = [request EXCEPT ![r] = record],
           UNCHANGED <<now, wiki, page, mirror, raced>>, posts' \in 0 .. MaxPosts
    PROVE  WikisTypeOK'
  BY DEF WikisInv, WikisTypeOK

LEMMA WorkIsTyped ==
    ASSUME WikisTypeOK, NEW r \in Requests
    PROVE  request[r] \in WikiWork /\ NoRequest \in WikiWork
  BY WikisAssumption DEF WikisTypeOK, WikiWork, NoRequest

LEMMA DatesAreNumbers ==
    ASSUME WikisTypeOK
    PROVE  /\ now \in Nat /\ MaxNow \in Nat /\ mirror.cursor \in Nat /\ mirror.next \in Nat
           /\ \A p \in Packages : wiki[p].updated \in Nat
           /\ \A r \in Requests : request[r].date \in Nat
  BY WikisAssumption DEF WikisTypeOK, Mirrors, WikiWork

\* The steps that only move requests that are not about to commit.
LEMMA QuietStep ==
    ASSUME WikisInv, UNCHANGED <<now, wiki, page, mirror, raced>>,
           \A q \in Requests : Doing(q, "commit")' => Doing(q, "commit") /\ request'[q] = request[q]
    PROVE  /\ UnmadeAreOld' /\ DatesArePast' /\ DatesDiffer' /\ DatedIsAhead'
           /\ MirrorMissesOnlyRaces' /\ UnaskedComeLater'
<1>1. UnmadeAreOld'
  BY DEF WikisInv, UnmadeAreOld
<1>2. DatesArePast' /\ DatesDiffer'
  BY DEF WikisInv, DatesArePast, DatesDiffer
<1>3. DatedIsAhead'
  BY DEF WikisInv, DatedIsAhead
<1>4. \A p \in Packages : Pages(p)' = Pages(p)
  BY DEF Pages, There
<1>5. MirrorMissesOnlyRaces' /\ UnaskedComeLater'
  BY <1>4 DEF WikisInv, MirrorMissesOnlyRaces, UnaskedComeLater
<1>. QED  BY <1>1, <1>2, <1>3, <1>5

\* A request that ends, or goes on to a step before its write, disturbs no write.
LEMMA OthersWrite ==
    ASSUME WikisInv, NEW r \in Requests, NEW record,
           request' = [request EXCEPT ![r] = record],
           record.at \notin {"date", "commit"},
           record.at = "save" /\ record.page # NewPage =>
               page[record.page].of = record.of /\ page[record.page].row # "new",
           record.at # "idle" => record.of \in Packages,
           UNCHANGED page
    PROVE  WritesOwnPage' /\ BusyHavePackage'
<1>1. ASSUME NEW q \in Requests PROVE request'[q] = IF q = r THEN record ELSE request[q]
  BY DEF WikisInv, WikisTypeOK
<1>2. ASSUME NEW q \in Requests, NEW g, PageTaken(q, g)' PROVE PageTaken(q, g)
  BY <1>1, <1>2 DEF PageTaken
<1>3. WritesOwnPage'
  BY <1>1, <1>2 DEF WikisInv, WritesOwnPage, Doing
<1>4. BusyHavePackage'
  BY <1>1 DEF WikisInv, BusyHavePackage, Doing
<1>. QED  BY <1>3, <1>4

\* A request that ends is a quiet step.
LEMMA EndingStep ==
    ASSUME WikisInv, NEW r \in Requests, Ends(r), UNCHANGED <<now, wiki, page, posts, mirror, raced>>
    PROVE  WikisInv'
<1>1. WikisTypeOK'
  BY WorkTyped, WorkIsTyped DEF WikisInv, WikisTypeOK, Ends
<1>2. \A q \in Requests : Doing(q, "commit")' => Doing(q, "commit") /\ request'[q] = request[q]
  BY DEF WikisInv, WikisTypeOK, Ends, NoRequest, Doing
<1>3. WritesOwnPage' /\ BusyHavePackage'
  BY OthersWrite DEF Ends, NoRequest
<1>. QED  BY <1>1, <1>2, <1>3, QuietStep DEF WikisInv

-----------------------------------------------------------------------------
(* The steps of requests *)

LEMMA WikisInitHolds == ASSUME WikisInit PROVE WikisInv
<1>1. WikisTypeOK
  <2>1. NoRequest \in WikiWork
    BY WikisAssumption DEF WikiWork, NoRequest
  <2>2. mirror \in Mirrors
    <3>1. [p \in Packages |-> {}] \in [Packages -> SUBSET (WikiPages \X Nat)]
      OBVIOUS
    <3>. QED  BY <3>1, WikisAssumption DEF WikisInit, Mirrors
  <2>. QED  BY <2>1, <2>2, WikisAssumption DEF WikisInit, WikisTypeOK, PageRows
<1>2. UnmadeAreOld /\ DatesArePast /\ DatesDiffer
  BY DEF WikisInit, UnmadeAreOld, DatesArePast, DatesDiffer, Doing, NoRequest
<1>3. DatedIsAhead /\ WritesOwnPage /\ BusyHavePackage
  BY DEF WikisInit, BusyHavePackage, DatedIsAhead, WritesOwnPage, Doing, NoRequest
<1>4. \A p \in Packages : Pages(p) = {}
  BY DEF WikisInit, Pages, There
<1>5. MirrorMissesOnlyRaces /\ UnaskedComeLater
  BY <1>4 DEF WikisInit, MirrorMissesOnlyRaces, UnaskedComeLater
<1>. QED  BY <1>1, <1>2, <1>3, <1>5 DEF WikisInv

LEMMA BeginHolds == ASSUME WikisInv, NEW r \in Requests, BeginRequest(r) PROVE WikisInv'
<1>1. PICK kind \in {"post", "delete"}, p \in Packages, g \in WikiPages \cup {NewPage} :
          request' = [request EXCEPT ![r] =
              [NoRequest EXCEPT !.kind = kind, !.of = p, !.page = g, !.text = posts + 1,
                   !.at = IF wiki[p].made THEN "load" ELSE "create"]]
  BY DEF BeginRequest
<1>2. WikisTypeOK'
  <2>1. posts + 1 \in 0 .. MaxPosts /\ posts' = posts + 1
    BY WikisAssumption DEF WikisInv, WikisTypeOK, BeginRequest
  <2>2. [NoRequest EXCEPT !.kind = kind, !.of = p, !.page = g, !.text = posts + 1,
             !.at = IF wiki[p].made THEN "load" ELSE "create"] \in WikiWork
    BY <2>1, WorkIsTyped DEF WikisInv, WikiWork, NoRequest
  <2>3. UNCHANGED <<now, wiki, page, mirror, raced>>
    BY DEF BeginRequest
  <2>. QED  BY <1>1, <2>1, <2>2, <2>3, WorkTyped
<1>3. \A q \in Requests : Doing(q, "commit")' => Doing(q, "commit") /\ request'[q] = request[q]
  BY <1>1 DEF WikisInv, WikisTypeOK, NoRequest, Doing
<1>4. WritesOwnPage' /\ BusyHavePackage'
  BY <1>1, OthersWrite DEF BeginRequest, NoRequest
<1>. QED  BY <1>2, <1>3, <1>4, QuietStep DEF WikisInv, BeginRequest

\* A DELETE that makes a wiki dates it, but the wiki has no page a client could miss.
LEMMA CreateHolds == ASSUME WikisInv, NEW r \in Requests, CreateWiki(r) PROVE WikisInv'
<1>. DEFINE p == request[r].of
<1>1. CASE wiki[p].made
  BY <1>1, EndingStep DEF CreateWiki, ReadClock
<1>2. CASE ~wiki[p].made /\ request[r].kind = "post"
  <2>1. request' = [request EXCEPT ![r] = [request[r] EXCEPT !.creates = TRUE, !.at = "load"]]
    BY <1>2 DEF CreateWiki, WikisInv, WikisTypeOK
  <2>2. WikisTypeOK'
    <3>1. [request[r] EXCEPT !.creates = TRUE, !.at = "load"] \in WikiWork
      BY WorkIsTyped DEF WikisInv, WikiWork
    <3>. QED  BY <1>2, <2>1, <3>1, WorkTyped DEF CreateWiki, WikisInv, WikisTypeOK
  <2>3. \A q \in Requests : Doing(q, "commit")' => Doing(q, "commit") /\ request'[q] = request[q]
    BY <2>1 DEF WikisInv, WikisTypeOK, Doing
  <2>4. WritesOwnPage' /\ BusyHavePackage'
    <3>. DEFINE record == [request[r] EXCEPT !.creates = TRUE, !.at = "load"]
    <3>1. record.at = "load" /\ record.of \in Packages
      BY DEF CreateWiki, WikisInv, BusyHavePackage, Doing, WikisTypeOK, WikiWork
    <3>. HIDE DEF record
    <3>. QED  BY <2>1, <3>1, OthersWrite DEF CreateWiki, record
  <2>. QED  BY <1>2, <2>2, <2>3, <2>4, QuietStep DEF WikisInv, CreateWiki
<1>3. CASE ~wiki[p].made /\ request[r].kind # "post"
  <2>1. p \in Packages
    BY DEF CreateWiki, WikisInv, BusyHavePackage, Doing
  <2>2. /\ Ends(r) /\ UNCHANGED <<page, posts, mirror, raced>>
        /\ wiki' = [wiki EXCEPT ![p] = [made |-> TRUE, updated |-> now]]
    BY <1>3 DEF CreateWiki
  <2>3. now < MaxNow /\ now' = now + 1
    BY <1>3, <2>1, <2>2 DEF CreateWiki, ReadClock, WikisInv, WikisTypeOK
  <2>4. \A q \in Packages : wiki'[q] = IF q = p THEN [made |-> TRUE, updated |-> now] ELSE wiki[q]
    BY <2>2 DEF WikisInv, WikisTypeOK
  <2>5. \A q \in Requests : Doing(q, "commit")' => Doing(q, "commit") /\ request'[q] = request[q]
    BY <2>2 DEF WikisInv, WikisTypeOK, Ends, NoRequest, Doing
  <2>6. now \in Nat /\ MaxNow \in Nat
    BY WikisAssumption DEF WikisInv, WikisTypeOK
  <2>7. WikisTypeOK'
    <3>1. [made |-> TRUE, updated |-> now] \in [made : BOOLEAN, updated : 0 .. MaxNow]
      BY DEF WikisInv, WikisTypeOK
    <3>2. /\ request' \in [Requests -> WikiWork]
          /\ wiki' \in [Packages -> [made : BOOLEAN, updated : 0 .. MaxNow]]
      BY <2>2, <3>1, WorkIsTyped DEF WikisInv, WikisTypeOK, Ends
    <3>. QED  BY <2>2, <2>3, <2>6, <3>2 DEF WikisInv, WikisTypeOK
  <2>8. WritesOwnPage' /\ BusyHavePackage'
    BY <2>2, OthersWrite DEF Ends, NoRequest
  <2>9. UnmadeAreOld'
    BY <2>2, <2>4 DEF WikisInv, UnmadeAreOld
  <2>10. DatesArePast'
    <3>1. now' > now /\ mirror' = mirror
      BY <2>2, <2>3, <2>6
    <3>2. \A q \in Packages : wiki'[q].updated < now'
      BY <2>3, <2>4, <2>6, DatesAreNumbers DEF WikisInv, DatesArePast
    <3>. QED  BY <2>3, <2>5, <2>6, <3>1, <3>2, DatesAreNumbers DEF WikisInv, DatesArePast
  <2>11. DatesDiffer'
    <3>1. \A q \in Packages : wiki[q].updated < now
      BY DEF WikisInv, DatesArePast
    <3>2. \A q \in Requests : Doing(q, "commit") => request[q].date < now
      BY DEF WikisInv, DatesArePast
    <3>3. \A q \in Packages : (q = p /\ wiki'[q].updated = now) \/ (q # p /\ wiki'[q] = wiki[q])
      BY <2>4
    <3>. QED  BY <2>5, <2>6, <3>1, <3>2, <3>3 DEF WikisInv, DatesDiffer
  <2>12. DatedIsAhead'
    BY <2>2, <2>5 DEF WikisInv, DatedIsAhead
  <2>13. mirror.copy[p] = Pages(p)
    BY <1>3, <2>1, DatesAreNumbers DEF WikisInv, MirrorMissesOnlyRaces, UnmadeAreOld
  <2>14. \A q \in Packages : Pages(q)' = Pages(q)
    BY <2>2 DEF Pages, There
  <2>15. MirrorMissesOnlyRaces' /\ UnaskedComeLater'
    BY <2>2, <2>4, <2>13, <2>14 DEF WikisInv, MirrorMissesOnlyRaces, UnaskedComeLater
  <2>. QED  BY <2>7, <2>8, <2>9, <2>10, <2>11, <2>12, <2>15 DEF WikisInv
<1>. QED  BY <1>1, <1>2, <1>3

LEMMA LoadHolds == ASSUME WikisInv, NEW r \in Requests, LoadPage(r) PROVE WikisInv'
<1>1. CASE request[r].page = NewPage \/ There(request[r].of, request[r].page)
  <2>1. request' = [request EXCEPT ![r] = [request[r] EXCEPT !.at = "save"]]
    BY <1>1 DEF LoadPage, Advance, WikisInv, WikisTypeOK
  <2>2. WikisTypeOK'
    <3>1. [request[r] EXCEPT !.at = "save"] \in WikiWork
      BY WorkIsTyped DEF WikisInv, WikiWork
    <3>. QED  BY <2>1, <3>1, WorkTyped DEF LoadPage, WikisInv, WikisTypeOK
  <2>3. \A q \in Requests : Doing(q, "commit")' => Doing(q, "commit") /\ request'[q] = request[q]
    BY <2>1 DEF WikisInv, WikisTypeOK, Doing
  <2>4. request[r].page # NewPage =>
            page[request[r].page].of = request[r].of /\ page[request[r].page].row # "new"
    BY <1>1 DEF There
  <2>5. WritesOwnPage' /\ BusyHavePackage'
    <3>. DEFINE record == [request[r] EXCEPT !.at = "save"]
    <3>1. request[r].of \in Packages
      BY DEF LoadPage, WikisInv, BusyHavePackage, Doing
    <3>2. record.at = "save" /\ record.of = request[r].of /\ record.page = request[r].page
      BY DEF WikisInv, WikisTypeOK, WikiWork
    <3>. HIDE DEF record
    <3>. QED  BY <2>1, <2>4, <3>1, <3>2, OthersWrite DEF LoadPage, record
  <2>. QED  BY <2>2, <2>3, <2>5, QuietStep DEF WikisInv, LoadPage
<1>2. CASE ~(request[r].page = NewPage \/ There(request[r].of, request[r].page))
  BY <1>2, EndingStep DEF LoadPage
<1>. QED  BY <1>1, <1>2

\* The page is taken by no other request, and of none or of the request's wiki.
LEMMA WriteHolds == ASSUME WikisInv, NEW r \in Requests, WritePage(r) PROVE WikisInv'
<1>0. request[r] \in WikiWork /\ (request[r].page # NewPage => request[r].page \in WikiPages)
  BY WorkIsTyped DEF WikisInv, WikiWork
<1>1. PICK g \in WikiPages :
          /\ request' = [request EXCEPT ![r] = [request[r] EXCEPT !.page = g, !.at = "date"]]
          /\ ~PageTaken(r, g)
          /\ page[g].row = "new" \/ page[g].of = request[r].of
  <2>1. CASE request[r].page = NewPage
    BY <2>1 DEF WritePage, WikisInv, WikisTypeOK
  <2>2. CASE request[r].page # NewPage
    <3>1. [request[r] EXCEPT !.page = request[r].page, !.at = "date"] =
              [request[r] EXCEPT !.at = "date"]
      BY <1>0 DEF WikiWork
    <3>. QED  BY <1>0, <2>2, <3>1 DEF WritePage, Advance, WikisInv, WikisTypeOK, WritesOwnPage, Doing
  <2>. QED  BY <2>1, <2>2
<1>2. ASSUME NEW q \in Requests
      PROVE request'[q] = IF q = r THEN [request[r] EXCEPT !.page = g, !.at = "date"] ELSE request[q]
  BY <1>1 DEF WikisInv, WikisTypeOK
<1>3. WikisTypeOK'
  <2>1. [request[r] EXCEPT !.page = g, !.at = "date"] \in WikiWork
    BY <1>0 DEF WikiWork
  <2>. QED  BY <1>1, <2>1, WorkTyped DEF WritePage, WikisInv, WikisTypeOK
<1>4. \A q \in Requests : Doing(q, "commit")' => Doing(q, "commit") /\ request'[q] = request[q]
  BY <1>0, <1>2 DEF WikiWork, Doing
<1>5. request'[r].of = request[r].of /\ request'[r].page = g /\ request'[r].at = "date"
  BY <1>0, <1>1 DEF WikisInv, WikisTypeOK, WikiWork
<1>6. WritesOwnPage'
  <2>1. ASSUME NEW q \in Requests, q # r, request[q].at \in {"date", "commit"}
        PROVE request[q].page # g
    BY <1>1, <2>1 DEF PageTaken
  <2>2. ~PageTaken(r, g)'
    BY <1>1, <1>2 DEF PageTaken
  <2>3. ASSUME NEW q \in Requests, q # r, request[q].at \in {"date", "commit"}
        PROVE ~PageTaken(q, request[q].page)'
    BY <1>2, <1>5, <2>1, <2>3 DEF WikisInv, WritesOwnPage, PageTaken
  <2>4. g # NewPage /\ page' = page
    BY WikisAssumption DEF WritePage
  <2>. QED  BY <1>1, <1>2, <1>5, <2>2, <2>3, <2>4 DEF WikisInv, WritesOwnPage, Doing
<1>7. BusyHavePackage'
  BY <1>2, <1>5 DEF WikisInv, BusyHavePackage, WritePage, Doing
<1>. QED  BY <1>3, <1>4, <1>6, <1>7, QuietStep DEF WikisInv, WritePage

\* The date is later than every other and than the cursor.
LEMMA DateHolds == ASSUME WikisInv, NEW r \in Requests, DateWiki(r) PROVE WikisInv'
<1>. DEFINE record == [request[r] EXCEPT !.date = now, !.raced = (mirror.at = "asking"),
                                         !.at = "commit"]
<1>1. /\ request[r] \in WikiWork /\ request[r].at = "date"
      /\ now' = now + 1 /\ now < MaxNow
      /\ UNCHANGED <<wiki, page, posts, mirror, raced>>
      /\ request' = [request EXCEPT ![r] = record]
  BY WorkIsTyped DEF DateWiki, Doing, ReadClock, WikisInv, WikisTypeOK
<1>2. /\ record \in WikiWork /\ record.at = "commit" /\ record.date = now
      /\ record.raced = (mirror.at = "asking")
      /\ record.of = request[r].of /\ record.page = request[r].page
  BY <1>1 DEF WikiWork, WikisInv, WikisTypeOK
<1>. HIDE DEF record
<1>3. \A q \in Requests : request'[q] = IF q = r THEN record ELSE request[q]
  BY <1>1 DEF WikisInv, WikisTypeOK
<1>4. WikisTypeOK'
  BY <1>1, <1>2, DatesAreNumbers DEF WikisInv, WikisTypeOK
<1>5. BusyHavePackage'
  BY <1>1, <1>2, <1>3 DEF WikisInv, BusyHavePackage, Doing
<1>6. UnmadeAreOld'
  BY <1>1 DEF WikisInv, UnmadeAreOld
<1>7. DatesArePast'
  BY <1>1, <1>2, <1>3, DatesAreNumbers DEF WikisInv, DatesArePast, Doing
<1>8. DatesDiffer'
  BY <1>1, <1>2, <1>3, DatesAreNumbers DEF WikisInv, DatesDiffer, DatesArePast, Doing
<1>9. DatedIsAhead'
  <2>1. mirror.at \in {"idle", "asking"} /\ now > mirror.cursor
    BY DatesAreNumbers DEF WikisInv, WikisTypeOK, Mirrors, DatesArePast
  <2>. QED  BY <1>1, <1>2, <1>3, <2>1 DEF WikisInv, DatedIsAhead, Doing
<1>10. WritesOwnPage'
  <2>1. \A q \in Requests : \A g : PageTaken(q, g)' <=> PageTaken(q, g)
    BY <1>1, <1>2, <1>3 DEF PageTaken
  <2>. QED  BY <1>1, <1>2, <1>3, <2>1 DEF WikisInv, WritesOwnPage, Doing
<1>11. MirrorMissesOnlyRaces' /\ UnaskedComeLater'
  <2>1. \A p \in Packages : Pages(p)' = Pages(p)
    BY <1>1 DEF Pages, There
  <2>. QED  BY <1>1, <2>1 DEF WikisInv, MirrorMissesOnlyRaces, UnaskedComeLater
<1>. QED  BY <1>4, <1>5, <1>6, <1>7, <1>8, <1>9, <1>10, <1>11 DEF WikisInv

\* The write changes the pages of its own wiki only, and what it dates is either past the
\* cursor or known to have raced.
LEMMA CommitHolds == ASSUME WikisInv, NEW r \in Requests, CommitPage(r) PROVE WikisInv'
<1>. DEFINE p == request[r].of
            g == request[r].page
            saved == [row |-> IF request[r].kind = "post" THEN "there" ELSE "deleted",
                    of |-> p, text |-> request[r].text]
<1>1. /\ request[r] \in WikiWork /\ request[r].at = "commit" /\ p \in Packages
      /\ UNCHANGED <<now, posts, mirror>> /\ request' = [request EXCEPT ![r] = NoRequest]
      /\ page' = [page EXCEPT ![g] = saved]
      /\ wiki' = [wiki EXCEPT ![p] = [made |-> TRUE, updated |-> request[r].date]]
      /\ raced' = [raced EXCEPT ![p] = request[r].raced]
  BY WorkIsTyped DEF CommitPage, Ends, Doing, WikisInv, BusyHavePackage
<1>2. /\ g \in WikiPages
      /\ page[g].row = "new" \/ page[g].of = p
      /\ ~PageTaken(r, g)
  BY <1>1 DEF WikisInv, WritesOwnPage, WikiWork
<1>3. saved \in PageRows /\ saved.of = p /\ saved.row # "new"
  BY <1>1 DEF PageRows, WikiWork
<1>. HIDE DEF saved
<1>4. /\ \A q \in Requests : request'[q] = IF q = r THEN NoRequest ELSE request[q]
      /\ \A h \in WikiPages : page'[h] = IF h = g THEN saved ELSE page[h]
      /\ \A q \in Packages : wiki'[q] = IF q = p THEN [made |-> TRUE, updated |-> request[r].date]
                                        ELSE wiki[q]
      /\ \A q \in Packages : raced'[q] = IF q = p THEN request[r].raced ELSE raced[q]
  BY <1>1 DEF WikisInv, WikisTypeOK
<1>5. \A q \in Requests : Doing(q, "commit")' => Doing(q, "commit") /\ request'[q] = request[q] /\ q # r
  BY <1>4 DEF Doing, NoRequest
<1>6. WikisTypeOK'
  <2>1. /\ [made |-> TRUE, updated |-> request[r].date] \in [made : BOOLEAN, updated : 0 .. MaxNow]
        /\ request[r].raced \in BOOLEAN
    BY <1>1 DEF WikiWork
  <2>2. /\ wiki' \in [Packages -> [made : BOOLEAN, updated : 0 .. MaxNow]]
        /\ raced' \in [Packages -> BOOLEAN]
    BY <1>1, <2>1 DEF WikisInv, WikisTypeOK
  <2>. QED  BY <1>1, <1>3, <2>2, WorkIsTyped DEF WikisInv, WikisTypeOK
<1>7. BusyHavePackage'
  BY <1>4 DEF WikisInv, BusyHavePackage, Doing, NoRequest
<1>8. UnmadeAreOld'
  BY <1>4 DEF WikisInv, UnmadeAreOld
<1>9. DatesArePast' /\ DatesDiffer'
  BY <1>1, <1>4, <1>5, DatesAreNumbers DEF WikisInv, DatesArePast, DatesDiffer, Doing
<1>10. DatedIsAhead'
  BY <1>1, <1>5 DEF WikisInv, DatedIsAhead
<1>11. WritesOwnPage'
  <2>1. ASSUME NEW q \in Requests, NEW h, PageTaken(q, h)' PROVE PageTaken(q, h)
    BY <1>4, <2>1 DEF PageTaken, NoRequest
  <2>2. ASSUME NEW q \in Requests, q # r, request[q].at \in {"date", "commit"}
        PROVE request[q].page # g
    BY <1>2, <2>2 DEF PageTaken
  <2>3. ASSUME NEW q \in Requests, q # r, request[q].at = "save", request[q].page = g
        PROVE request[q].of = p
    BY <1>2, <2>3, WikisAssumption DEF WikisInv, WritesOwnPage, Doing
  <2>4. ASSUME NEW q \in Requests
        PROVE request[q].page \in WikiPages \cup {NewPage}
    BY WorkIsTyped DEF WikisInv, WikiWork
  <2>. QED  BY <1>3, <1>4, <2>1, <2>2, <2>3, <2>4 DEF WikisInv, WritesOwnPage, Doing, NoRequest
<1>12. \A q \in Packages \ {p} : Pages(q)' = Pages(q)
  <2>1. \A q \in Packages \ {p}, h \in WikiPages :
            /\ There(q, h)' <=> There(q, h)
            /\ There(q, h) => page'[h] = page[h]
    BY <1>2, <1>3, <1>4 DEF There
  <2>. QED  BY <2>1 DEF Pages
<1>13. request[r].raced \/ (mirror.at = "idle" /\ request[r].date > mirror.cursor)
  BY <1>1 DEF WikisInv, DatedIsAhead, Doing
<1>14. MirrorMissesOnlyRaces'
  BY <1>1, <1>4, <1>12, <1>13 DEF WikisInv, MirrorMissesOnlyRaces
<1>15. UnaskedComeLater'
  BY <1>1, <1>4, <1>12, <1>13 DEF WikisInv, UnaskedComeLater
<1>. QED  BY <1>6, <1>7, <1>8, <1>9, <1>10, <1>11, <1>14, <1>15 DEF WikisInv

-----------------------------------------------------------------------------
(* The steps of the client *)

\* What is past the cursor and not on the page of the answer comes after it.
LEMMA AskHolds == ASSUME WikisInv, AskForWikis PROVE WikisInv'
<1>. DEFINE rest == {p \in Packages : wiki[p].made /\ wiki[p].updated > mirror.cursor}
<1>1. PICK found \in SUBSET rest :
          /\ Cardinality(found) =
                 IF Cardinality(rest) < MirrorPage THEN Cardinality(rest) ELSE MirrorPage
          /\ \A p \in found, q \in rest \ found : wiki[p].updated <= wiki[q].updated
          /\ \E last \in {wiki[p].updated : p \in found} \cup {0} :
                 /\ \A p \in found : wiki[p].updated <= last
                 /\ (last = 0) = (found = {})
                 /\ mirror' = [mirror EXCEPT !.at = "asking", !.found = found, !.next = last]
  BY Zenon DEF AskForWikis
<1>2. PICK last \in {wiki[p].updated : p \in found} \cup {0} :
          /\ (last = 0) = (found = {})
          /\ mirror' = [mirror EXCEPT !.at = "asking", !.found = found, !.next = last]
  BY <1>1
<1>3. /\ UNCHANGED <<now, wiki, page, posts, raced>> /\ mirror.at = "idle"
      /\ request' = [r \in Requests |->
             IF Doing(r, "commit") THEN [request[r] EXCEPT !.raced = TRUE] ELSE request[r]]
  BY DEF AskForWikis
<1>. HIDE DEF rest
<1>4. found = {} => rest = {}
  <2>. SUFFICES ASSUME found = {}, rest # {} PROVE FALSE
    OBVIOUS
  <2>1. IsFiniteSet(rest) /\ Cardinality(rest) \in Nat
    BY WikisAssumption, FS_Subset, FS_CardinalityType DEF rest
  <2>2. Cardinality(rest) # 0
    BY <2>1, FS_EmptySet
  <2>3. Cardinality(found) = 0
    BY FS_EmptySet
  <2>. QED  BY <1>1, <2>1, <2>2, <2>3, WikisAssumption
<1>5. /\ mirror'.at = "asking" /\ mirror'.found = found /\ mirror'.next = last
      /\ mirror'.cursor = mirror.cursor /\ mirror'.copy = mirror.copy
      /\ mirror \in Mirrors
  BY <1>2 DEF WikisInv, WikisTypeOK, Mirrors
<1>6. last \in 0 .. MaxNow /\ last < now
  BY <1>1, <1>2, WikisAssumption, DatesAreNumbers DEF rest, WikisInv, WikisTypeOK, DatesArePast
<1>7. /\ \A r \in Requests : request'[r].at = request[r].at /\ request'[r].of = request[r].of
                             /\ request'[r].page = request[r].page
                             /\ request'[r].date = request[r].date
      /\ \A r \in Requests : Doing(r, "commit") => request'[r].raced
      /\ request' \in [Requests -> WikiWork]
  <2>1. ASSUME NEW r \in Requests
        PROVE  /\ request[r] \in WikiWork
               /\ request'[r] = IF Doing(r, "commit") THEN [request[r] EXCEPT !.raced = TRUE]
                                ELSE request[r]
    BY <1>3 DEF WikisInv, WikisTypeOK
  <2>2. ASSUME NEW r \in Requests
        PROVE  /\ request'[r].at = request[r].at /\ request'[r].of = request[r].of
               /\ request'[r].page = request[r].page /\ request'[r].date = request[r].date
               /\ Doing(r, "commit") => request'[r].raced
               /\ request'[r] \in WikiWork
    <3>1. request[r] \in WikiWork
      BY <2>1
    <3>2. CASE Doing(r, "commit")
      <4>. DEFINE raising == [request[r] EXCEPT !.raced = TRUE]
      <4>1. /\ raising \in WikiWork /\ raising.raced
            /\ raising.at = request[r].at /\ raising.of = request[r].of
            /\ raising.page = request[r].page /\ raising.date = request[r].date
        BY <3>1 DEF WikiWork
      <4>2. request'[r] = raising
        BY <2>1, <3>2
      <4>. QED  BY <4>1, <4>2
    <3>3. CASE ~Doing(r, "commit")
      BY <2>1, <3>1, <3>3
    <3>. QED  BY <3>2, <3>3
  <2>3. request' \in [Requests -> WikiWork]
    BY <1>3, <2>2
  <2>. QED  BY <2>2, <2>3
<1>8. WikisTypeOK'
  <2>1. mirror' \in Mirrors
    BY <1>2, <1>5, <1>6 DEF Mirrors, rest
  <2>. QED  BY <1>3, <1>7, <2>1 DEF WikisInv, WikisTypeOK
<1>9. BusyHavePackage' /\ UnmadeAreOld'
  BY <1>3, <1>7 DEF WikisInv, BusyHavePackage, UnmadeAreOld, Doing
<1>10. DatesArePast' /\ DatesDiffer'
  BY <1>3, <1>5, <1>6, <1>7 DEF WikisInv, DatesArePast, DatesDiffer, Doing
<1>11. DatedIsAhead'
  BY <1>7 DEF DatedIsAhead, Doing
<1>12. WritesOwnPage'
  <2>1. \A r \in Requests : \A g : PageTaken(r, g)' <=> PageTaken(r, g)
    BY <1>7 DEF PageTaken
  <2>. QED  BY <1>3, <1>7, <2>1 DEF WikisInv, WritesOwnPage, Doing
<1>13. \A p \in Packages : Pages(p)' = Pages(p)
  BY <1>3 DEF Pages, There
<1>14. MirrorMissesOnlyRaces'
  BY <1>3, <1>5, <1>13 DEF WikisInv, MirrorMissesOnlyRaces
<1>15. UnaskedComeLater'
  <2>. SUFFICES ASSUME NEW p \in Packages \ found, mirror.copy[p] # Pages(p), ~raced[p]
                PROVE  found # {} /\ wiki[p].updated > last
    BY <1>3, <1>5, <1>13 DEF UnaskedComeLater
  <2>1. wiki[p].updated > mirror.cursor
    BY DEF WikisInv, MirrorMissesOnlyRaces
  <2>2. wiki[p].made
    BY <2>1, DatesAreNumbers DEF WikisInv, UnmadeAreOld
  <2>3. p \in rest /\ found # {}
    BY <1>4, <2>1, <2>2 DEF rest
  <2>4. PICK q \in found : last = wiki[q].updated
    BY <1>2, <2>3
  <2>5. q \in Packages /\ wiki[q].made /\ q # p
    BY DEF rest
  <2>6. wiki[q].updated # wiki[p].updated /\ wiki[q].updated <= wiki[p].updated
    BY <1>1, <2>2, <2>3, <2>5 DEF WikisInv, DatesDiffer
  <2>. QED  BY <2>3, <2>4, <2>5, <2>6, DatesAreNumbers DEF WikisInv
<1>. QED  BY <1>8, <1>9, <1>10, <1>11, <1>12, <1>14, <1>15 DEF WikisInv

LEMMA AnswerHolds == ASSUME WikisInv, AnswerWikis PROVE WikisInv'
<1>. DEFINE cursor == IF mirror.found = {} THEN now ELSE mirror.next
<1>1. /\ mirror.at = "asking" /\ UNCHANGED <<wiki, page, request, posts, raced>>
      /\ mirror' = [mirror EXCEPT !.at = "idle", !.found = {}, !.next = 0, !.copy = Copied,
                                  !.cursor = cursor]
      /\ now' \in Nat /\ now <= now' /\ now' <= MaxNow /\ cursor < now'
      /\ cursor \in 0 .. MaxNow
  BY DatesAreNumbers DEF AnswerWikis, ReadClock, WikisInv, WikisTypeOK, DatesArePast, Mirrors
<1>2. \A p \in Packages : Pages(p) \in SUBSET (WikiPages \X Nat)
  <2>. SUFFICES ASSUME NEW p \in Packages, NEW g \in WikiPages
                PROVE  page[g].text \in Nat
    BY DEF Pages
  <2>. QED  BY WikisAssumption DEF WikisInv, WikisTypeOK, PageRows
<1>3. /\ mirror'.at = "idle" /\ mirror'.next = 0 /\ mirror'.cursor = cursor
      /\ mirror'.copy = Copied /\ mirror' \in Mirrors
  <2>1. Copied \in [Packages -> SUBSET (WikiPages \X Nat)]
    BY <1>2 DEF Copied, WikisInv, WikisTypeOK, Mirrors
  <2>. HIDE DEF cursor
  <2>2. mirror \in Mirrors /\ 0 \in 0 .. MaxNow
    BY DatesAreNumbers DEF WikisInv, WikisTypeOK
  <2>3. mirror' = [at |-> "idle", cursor |-> cursor, next |-> 0, found |-> {}, copy |-> Copied]
    BY <1>1, <2>2 DEF Mirrors
  <2>. QED  BY <1>1, <2>1, <2>2, <2>3 DEF Mirrors
<1>4. WikisTypeOK'
  BY <1>1, <1>3, DatesAreNumbers DEF WikisInv, WikisTypeOK
<1>5. BusyHavePackage' /\ UnmadeAreOld' /\ DatesDiffer'
  BY <1>1 DEF WikisInv, BusyHavePackage, UnmadeAreOld, DatesDiffer, Doing
<1>6. DatesArePast'
  <2>. HIDE DEF cursor
  <2>. QED  BY <1>1, <1>3, DatesAreNumbers DEF WikisInv, DatesArePast, Doing
<1>7. DatedIsAhead'
  BY <1>1, <1>3 DEF WikisInv, DatedIsAhead, Doing
<1>8. WritesOwnPage'
  BY <1>1 DEF WikisInv, WritesOwnPage, Doing, PageTaken
<1>9. MirrorMissesOnlyRaces'
  <2>. SUFFICES ASSUME NEW p \in Packages, Copied[p] # Pages(p)
                PROVE  wiki[p].updated > cursor \/ raced[p]
    <3>1. \A p \in Packages : Pages(p)' = Pages(p)
      BY <1>1 DEF Pages, There
    <3>. QED  BY <1>1, <1>3, <3>1 DEF MirrorMissesOnlyRaces
  <2>1. p \notin mirror.found /\ mirror.copy[p] # Pages(p)
    BY DEF Copied
  <2>. QED  BY <1>1, <2>1 DEF WikisInv, UnaskedComeLater
<1>10. UnaskedComeLater'
  BY <1>3 DEF UnaskedComeLater
<1>. QED  BY <1>4, <1>5, <1>6, <1>7, <1>8, <1>9, <1>10 DEF WikisInv

-----------------------------------------------------------------------------
(* The theorems about wikis *)

LEMMA WikisStepHolds == WikisInv /\ [WikisNext]_wikiVars => WikisInv'
<1>. SUFFICES ASSUME WikisInv, [WikisNext]_wikiVars PROVE WikisInv'
  OBVIOUS
<1>1. ASSUME NEW r \in Requests, BeginRequest(r) PROVE WikisInv'
  BY <1>1, BeginHolds
<1>2. ASSUME NEW r \in Requests, CreateWiki(r) PROVE WikisInv'
  BY <1>2, CreateHolds
<1>3. ASSUME NEW r \in Requests, LoadPage(r) PROVE WikisInv'
  BY <1>3, LoadHolds
<1>4. ASSUME NEW r \in Requests, WritePage(r) PROVE WikisInv'
  BY <1>4, WriteHolds
<1>5. ASSUME NEW r \in Requests, DateWiki(r) PROVE WikisInv'
  BY <1>5, DateHolds
<1>6. ASSUME NEW r \in Requests, CommitPage(r) PROVE WikisInv'
  BY <1>6, CommitHolds
<1>7. ASSUME NEW r \in Requests, RequestFails(r) PROVE WikisInv'
  BY <1>7, EndingStep DEF RequestFails
<1>8. CASE AskForWikis
  BY <1>8, AskHolds
<1>9. CASE AnswerWikis
  BY <1>9, AnswerHolds
<1>10. CASE UNCHANGED wikiVars
  BY <1>10 DEF wikiVars, WikisInv, WikisTypeOK, BusyHavePackage, UnmadeAreOld, DatesArePast,
               DatesDiffer, DatedIsAhead, WritesOwnPage, MirrorMissesOnlyRaces,
               UnaskedComeLater, Doing, PageTaken, Pages, There
<1>. QED  BY <1>1, <1>2, <1>3, <1>4, <1>5, <1>6, <1>7, <1>8, <1>9, <1>10 DEF WikisNext

\* The inductive invariant of the wikis holds in every reachable state.
THEOREM WikisInvariance == WikisSpec => []WikisInv
<1>1. WikisInit => WikisInv
  BY WikisInitHolds
<1>. QED  BY <1>1, WikisStepHolds, PTL DEF WikisSpec

\* Wikis, pages, requests and the client stay of their types.
THEOREM WikisTypesCorrect == WikisSpec => []WikisTypeOK
<1>1. WikisInv => WikisTypeOK
  BY DEF WikisInv
<1>. QED  BY <1>1, WikisInvariance, PTL

\* PackageWikiListAPIView: a client that asks again from the cursor it was given misses
\* only writes that were dated and not committed while it was answered.
THEOREM MissesOnlyRaces == WikisSpec => []MirrorMissesOnlyRaces
<1>1. WikisInv => MirrorMissesOnlyRaces
  BY DEF WikisInv
<1>. QED  BY <1>1, WikisInvariance, PTL

-----------------------------------------------------------------------------
(* Part 2: the page cache *)

\* A service that has begun a write has one left to commit.
PagesTyped ==
    /\ PagesTypeOK
    /\ write \in {"written", "keyCleared", "oldCleared"} => row < MaxWrites

\* What is cached, and what a reader holds, is a version that has been committed.
CachedIsCommitted ==
    /\ entry # Nothing => entry <= row
    /\ old # Nothing => old <= row
    /\ \A p \in Readers : reader[p].version <= row

PagesInv == PagesTyped /\ CachedIsCommitted

Reading == [at : ReaderSteps, version : Version, locked : BOOLEAN]

Holding == {"store", "storeOld", "release"}

LEMMA PagesInitHolds == ASSUME PagesInit PROVE PagesInv
<1>1. 0 \in Version /\ 0 \in 0 .. MaxErrors
  BY PageCacheAssumption DEF Version
<1>2. reader \in [Readers -> Reading]
  BY <1>1 DEF PagesInit, Idle, Reading, ReaderSteps
<1>3. CachedIsCommitted
  <2>1. row = 0 /\ entry = Nothing /\ old = Nothing /\ \A p \in Readers : reader[p].version = 0
    BY DEF PagesInit, Idle
  <2>. QED  BY <2>1 DEF CachedIsCommitted
<1>. QED  BY <1>1, <1>2, <1>3
          DEF PagesInit, PagesInv, PagesTyped, PagesTypeOK, Entry, WriteSteps, Reading

\* Every record a reader is given is of its type.
LEMMA ReadingTyped ==
    ASSUME PagesTypeOK, NEW p \in Readers
    PROVE  /\ reader[p] \in Reading /\ Idle \in Reading /\ 0 \in Version /\ row \in Version
           /\ \A reading \in Reading :
                  [reader EXCEPT ![p] = reading] \in [Readers -> Reading]
           /\ \A step \in ReaderSteps :
                  [reader EXCEPT ![p].at = step] \in [Readers -> Reading]
<1>1. reader \in [Readers -> Reading] /\ Idle \in Reading /\ 0 \in Version
  BY PageCacheAssumption DEF PagesTypeOK, Reading, Idle, ReaderSteps, Version
<1>2. ASSUME NEW step \in ReaderSteps
      PROVE  /\ [reader EXCEPT ![p].at = step] = [reader EXCEPT ![p] = [@ EXCEPT !.at = step]]
             /\ [reader[p] EXCEPT !.at = step] \in Reading
  BY <1>1 DEF Reading
<1>. QED  BY <1>1, <1>2 DEF PagesTypeOK

LEMMA PagesStayTyped == PagesTyped /\ [PagesNext]_pagesVars => PagesTyped'
<1>. SUFFICES ASSUME PagesTyped, [PagesNext]_pagesVars PROVE PagesTyped'
  OBVIOUS
<1>. USE DEF PagesTyped
<1>1. /\ "lock" \in ReaderSteps /\ "storeOld" \in ReaderSteps /\ "release" \in ReaderSteps
      /\ "fallback" \in ReaderSteps /\ "generate" \in ReaderSteps /\ "store" \in ReaderSteps
      /\ reader \in [Readers -> Reading]
  BY DEF ReaderSteps, PagesTypeOK, Reading
<1>2. ASSUME NEW p \in Readers, Read(p) \/ Store(p) \/ StoreOld(p) \/ ReaderDies(p) PROVE PagesTyped'
  <2>1. reader' \in [Readers -> Reading]
    BY <1>1, <1>2, ReadingTyped DEF Read, Store, StoreOld, ReaderDies, Goto, Answer
  <2>2. /\ reader[p].version \in Version /\ reader[p].locked \in BOOLEAN
        /\ entry' \in Entry /\ old' \in Entry /\ oldForever' \in BOOLEAN
    BY <1>2, ReadingTyped DEF Read, Store, StoreOld, ReaderDies, PagesTypeOK, Reading, Entry
  <2>. QED  BY <1>2, <2>1, <2>2 DEF Read, Store, StoreOld, ReaderDies, PagesTypeOK, Reading, dbVars
<1>3. ASSUME NEW p \in Readers, Acquire(p) \/ Generate(p) \/ Fallback(p) PROVE PagesTyped'
  <2>1. /\ [Idle EXCEPT !.at = "generate", !.locked = TRUE] \in Reading
        /\ [Idle EXCEPT !.at = "generate"] \in Reading
        /\ [reader[p] EXCEPT !.at = "store", !.version = row] \in Reading
    BY <1>1, ReadingTyped DEF Reading
  <2>2. Generate(p) =>
            reader' = [reader EXCEPT ![p] = [reader[p] EXCEPT !.at = "store", !.version = row]]
    BY <1>1 DEF Generate
  <2>3. reader' \in [Readers -> Reading]
    BY <1>3, <2>1, <2>2, ReadingTyped DEF Acquire, Fallback, Answer
  <2>. QED  BY <1>3, <2>3 DEF Acquire, Generate, Fallback, PagesTypeOK, Reading, dbVars
<1>4. ASSUME NEW p \in Readers, GenerateFails(p) PROVE PagesTyped'
  <2>1. errors' \in 0 .. MaxErrors
    BY <1>4, PageCacheAssumption DEF GenerateFails, PagesTypeOK
  <2>2. lock' \in Readers \cup {Nothing}
    BY <1>4 DEF GenerateFails, Unlock, PagesTypeOK
  <2>3. reader' \in [Readers -> Reading]
    BY <1>1, <1>4, ReadingTyped DEF GenerateFails, Goto, Answer
  <2>. QED  BY <1>4, <2>1, <2>2, <2>3 DEF GenerateFails, PagesTypeOK, Reading, dbVars
<1>5. ASSUME NEW p \in Readers, Release(p) PROVE PagesTyped'
  <2>1. [reader[p] EXCEPT !.at = "fallback", !.version = 0] \in Reading
    BY <1>1, ReadingTyped DEF Reading
  <2>2. reader' \in [Readers -> Reading]
    BY <1>5, <2>1, ReadingTyped DEF Release, Answer
  <2>3. lock' \in Readers \cup {Nothing}
    BY <1>5 DEF Release, Unlock, PagesTypeOK
  <2>. QED  BY <1>5, <2>2, <2>3 DEF Release, PagesTypeOK, Reading, dbVars
<1>6. CASE EntryExpires \/ OldExpires \/ LockExpires
  BY <1>6 DEF EntryExpires, OldExpires, LockExpires, PagesTypeOK, dbVars, Entry
<1>7. CASE WriterStep
  <2>1. /\ row' \in Version /\ write' \in WriteSteps
        /\ write' \in {"written", "keyCleared", "oldCleared"} => row' < MaxWrites
    BY <1>7, PageCacheAssumption
    DEF WriterStep, Service, WriteFails, Post, OtherWrite, InvalidateCache, Committed,
        PagesTypeOK, Version, WriteSteps
  <2>2. entry' \in Entry /\ old' \in Entry /\ oldForever' \in BOOLEAN
    BY <1>7 DEF WriterStep, Service, WriteFails, Post, OtherWrite, InvalidateCache, CacheKept,
                ClearKey, ClearOld, PagesTypeOK, Entry
  <2>. QED  BY <1>7, <2>1, <2>2 DEF WriterStep, PagesTypeOK
<1>8. CASE UNCHANGED pagesVars
  BY <1>8 DEF pagesVars, dbVars, PagesTypeOK
<1>. QED  BY <1>2, <1>3, <1>4, <1>5, <1>6, <1>7, <1>8 DEF PagesNext, ReaderStep

LEMMA GotoMoves ==
    ASSUME reader \in [Readers -> Reading], NEW p \in Readers, NEW step \in ReaderSteps, Goto(p, step)
    PROVE  /\ \A q \in Readers \ {p} : reader'[q] = reader[q]
           /\ reader'[p].at = step /\ reader'[p].version = reader[p].version
<1>1. reader'[p] = [reader[p] EXCEPT !.at = step]
  BY DEF Goto
<1>. QED  BY <1>1 DEF Goto, Reading

LEMMA AnswerMoves ==
    ASSUME reader \in [Readers -> Reading], NEW p \in Readers, Answer(p)
    PROVE  /\ \A q \in Readers \ {p} : reader'[q] = reader[q]
           /\ reader'[p].at = "idle" /\ reader'[p].version = 0
  BY DEF Answer, Idle

\* Where versions come from: a reader reads the row, stores what it has read, and
\* keeps it until it is answered.
LEMMA VersionsHandedOn ==
    ASSUME PagesTyped, [PagesNext]_pagesVars
    PROVE  /\ row' = row \/ row' = row + 1
           /\ \/ entry' = entry \/ entry' = Nothing
              \/ \E p \in Readers : reader[p].at = "store" /\ entry' = reader[p].version
           /\ \/ old' = old \/ old' = Nothing
              \/ \E p \in Readers : reader[p].at = "storeOld" /\ old' = reader[p].version
           /\ \A q \in Readers :
                  \/ reader'[q] = reader[q]
                  \/ reader'[q].at \notin Holding /\ reader'[q].version \in {0, reader[q].version}
                  \/ row' = row /\ reader'[q].version = row
                  \/ reader[q].at \in Holding /\ reader'[q].version = reader[q].version
<1>1. reader \in [Readers -> Reading]
  BY DEF PagesTyped, PagesTypeOK, Reading
<1>2. ASSUME NEW p \in Readers, Read(p) \/ Acquire(p) \/ Generate(p) \/ Fallback(p)
      PROVE  /\ row' = row /\ entry' = entry /\ old' = old
             /\ \A q \in Readers :
                    \/ reader'[q] = reader[q]
                    \/ reader'[q].at \notin Holding /\ reader'[q].version \in {0, reader[q].version}
                    \/ reader'[q].version = row
  <2>1. /\ row' = row /\ entry' = entry /\ old' = old
        /\ \/ Goto(p, "lock") \/ Answer(p)
           \/ reader' = [reader EXCEPT ![p] = [Idle EXCEPT !.at = "generate", !.locked = TRUE]]
           \/ reader' = [reader EXCEPT ![p] = [Idle EXCEPT !.at = "generate"]]
           \/ reader' = [reader EXCEPT ![p].at = "store", ![p].version = row]
    BY <1>2 DEF Read, Acquire, Generate, Fallback, dbVars
  <2>2. CASE Goto(p, "lock")
    BY <1>1, <2>1, <2>2, GotoMoves DEF Holding, ReaderSteps
  <2>3. CASE Answer(p)
    BY <1>1, <2>1, <2>3, AnswerMoves DEF Holding
  <2>4. CASE reader' = [reader EXCEPT ![p] = [Idle EXCEPT !.at = "generate", !.locked = TRUE]]
    BY <1>1, <2>1, <2>4 DEF Holding, Idle
  <2>5. CASE reader' = [reader EXCEPT ![p] = [Idle EXCEPT !.at = "generate"]]
    BY <1>1, <2>1, <2>5 DEF Holding, Idle
  <2>6. CASE reader' = [reader EXCEPT ![p].at = "store", ![p].version = row]
    <3>1. reader'[p] = [reader[p] EXCEPT !.at = "store", !.version = row]
      BY <1>1, <2>6
    <3>2. reader'[p].version = row
      BY <1>1, <3>1 DEF Reading
    <3>. QED  BY <1>1, <2>1, <2>6, <3>2
  <2>. QED  BY <2>1, <2>2, <2>3, <2>4, <2>5, <2>6
<1>3. ASSUME NEW p \in Readers, GenerateFails(p) \/ Release(p) \/ ReaderDies(p)
      PROVE  /\ row' = row /\ entry' = entry /\ old' = old
             /\ \A q \in Readers :
                    \/ reader'[q] = reader[q]
                    \/ reader'[q].at \notin Holding /\ reader'[q].version \in {0, reader[q].version}
  <2>1. /\ row' = row /\ entry' = entry /\ old' = old
        /\ \/ Goto(p, "fallback") \/ Answer(p)
           \/ reader' = [reader EXCEPT ![p] = [@ EXCEPT !.at = "fallback", !.version = 0]]
    BY <1>3 DEF GenerateFails, Release, ReaderDies, Answer, dbVars
  <2>2. CASE Goto(p, "fallback")
    BY <1>1, <2>1, <2>2, GotoMoves DEF Holding, ReaderSteps
  <2>3. CASE Answer(p)
    BY <1>1, <2>1, <2>3, AnswerMoves DEF Holding
  <2>4. CASE reader' = [reader EXCEPT ![p] = [reader[p] EXCEPT !.at = "fallback", !.version = 0]]
    <3>1. reader'[p] = [reader[p] EXCEPT !.at = "fallback", !.version = 0]
      BY <1>1, <2>4
    <3>2. reader'[p].at = "fallback" /\ reader'[p].version = 0
      BY <1>1, <3>1 DEF Reading
    <3>. QED  BY <1>1, <2>1, <2>4, <3>2 DEF Holding
  <2>. QED  BY <2>1, <2>2, <2>3, <2>4
<1>4. ASSUME NEW p \in Readers, Store(p) \/ StoreOld(p)
      PROVE  /\ row' = row
             /\ entry' = entry \/ (reader[p].at = "store" /\ entry' = reader[p].version)
             /\ old' = old \/ (reader[p].at = "storeOld" /\ old' = reader[p].version)
             /\ \A q \in Readers :
                    \/ reader'[q] = reader[q]
                    \/ reader'[q].at \notin Holding /\ reader'[q].version \in {0, reader[q].version}
                    \/ reader[q].at \in Holding /\ reader'[q].version = reader[q].version
  <2>1. /\ row' = row /\ reader[p].at \in Holding
        /\ entry' = entry \/ (reader[p].at = "store" /\ entry' = reader[p].version)
        /\ old' = old \/ (reader[p].at = "storeOld" /\ old' = reader[p].version)
        /\ Goto(p, "storeOld") \/ Goto(p, "release") \/ Answer(p)
    BY <1>4 DEF Store, StoreOld, Holding, dbVars
  <2>2. CASE Goto(p, "storeOld")
    BY <1>1, <2>1, <2>2, GotoMoves DEF Holding, ReaderSteps
  <2>3. CASE Goto(p, "release")
    BY <1>1, <2>1, <2>3, GotoMoves DEF Holding, ReaderSteps
  <2>4. CASE Answer(p)
    BY <1>1, <2>1, <2>4, AnswerMoves DEF Holding
  <2>. QED  BY <2>1, <2>2, <2>3, <2>4
<1>5. CASE EntryExpires \/ OldExpires \/ LockExpires \/ UNCHANGED pagesVars
  BY <1>5 DEF EntryExpires, OldExpires, LockExpires, dbVars, pagesVars
<1>6. CASE WriterStep
  BY <1>6 DEF WriterStep, Service, WriteFails, Post, OtherWrite, InvalidateCache, Committed,
              CacheKept, ClearKey, ClearOld
<1>. QED  BY <1>2, <1>3, <1>4, <1>5, <1>6 DEF PagesNext, ReaderStep

LEMMA PagesStepHolds == PagesInv /\ [PagesNext]_pagesVars => PagesInv'
<1>. SUFFICES ASSUME PagesInv, [PagesNext]_pagesVars PROVE PagesInv'
  OBVIOUS
<1>1. /\ row \in Nat /\ row' >= row /\ row' \in Nat /\ 0 <= row'
      /\ \A v \in Nat : v <= row => v <= row'
  BY VersionsHandedOn DEF PagesInv, PagesTyped, PagesTypeOK, Version
<1>2. /\ \A p \in Readers : reader[p].version \in Nat
      /\ entry \in Nat \cup {Nothing} /\ old \in Nat \cup {Nothing}
  BY DEF PagesInv, PagesTyped, PagesTypeOK, Version, Entry
<1>3. CachedIsCommitted'
  BY <1>1, <1>2, VersionsHandedOn DEF PagesInv, CachedIsCommitted
<1>. QED  BY <1>3, PagesStayTyped DEF PagesInv

\* regenerate_cache: whatever readers and writers overlap, fail or die, nothing is cached
\* or answered that was not committed, nor what a failed transaction had written.
THEOREM PagesInvariance == PagesSpec => []PagesInv
<1>1. PagesInit => PagesInv
  BY PagesInitHolds
<1>. QED  BY <1>1, PagesStepHolds, PTL DEF PagesSpec

\* Nothing that is cached, as an entry or a copy, or about to be, is out of date.
NothingStale ==
    /\ entry \in {row, Nothing} /\ old \in {row, Nothing}
    /\ \A p \in Readers : reader[p].at \in Holding => reader[p].version = row

\* PagesCatchUp without its liveness: a cache that has caught up, its copy included,
\* answers with the row's version until the row changes.
THEOREM CaughtUpStays ==
    PagesSpec => [][NothingStale /\ row' = row => NothingStale' /\ Fresh']_pagesVars
<1>1. PagesInv /\ [PagesNext]_pagesVars /\ NothingStale /\ row' = row => NothingStale'
  BY VersionsHandedOn DEF PagesInv, NothingStale, Holding
<1>2. NothingStale' => Fresh'
  BY DEF NothingStale, Fresh, Holding
<1>3. PagesInv /\ [PagesNext]_pagesVars
          => [NothingStale /\ row' = row => NothingStale' /\ Fresh']_pagesVars
  BY <1>1, <1>2
<1>. QED  BY <1>3, PagesInvariance, PTL DEF PagesSpec

-----------------------------------------------------------------------------
(* Part 3: all of them *)

CachesInv == PagesInv /\ IndexInv /\ ChunkInv /\ CursorInv /\ WikisInv

\* The invariants only speak of their own variables.
LEMMA OthersKept ==
    /\ PagesInv /\ UNCHANGED pagesVars => PagesInv'
    /\ IndexInv /\ UNCHANGED indexVars => IndexInv'
    /\ ChunkInv /\ UNCHANGED chunkVars => ChunkInv'
    /\ CursorInv /\ UNCHANGED cursorVars => CursorInv'
    /\ WikisInv /\ UNCHANGED wikiVars => WikisInv'
  BY PagesStepHolds, IndexNextInv, ChunkStepHolds, CursorStepHolds, WikisStepHolds

LEMMA CachesStepHolds == CachesInv /\ [CachesNext]_cachesVars => CachesInv'
<1>. SUFFICES ASSUME CachesInv, [CachesNext]_cachesVars PROVE CachesInv'
  OBVIOUS
<1>1. CASE /\ PagesNext
           /\ UNCHANGED <<indexVars, chunkVars, cursorVars, wikiVars>>
  BY <1>1, PagesStepHolds, OthersKept DEF CachesInv
<1>2. CASE /\ IndexesNext
           /\ UNCHANGED <<pagesVars, chunkVars, cursorVars, wikiVars>>
  BY <1>2, IndexNextInv, OthersKept DEF CachesInv
<1>3. CASE /\ ChunksNext
           /\ UNCHANGED <<pagesVars, indexVars, cursorVars, wikiVars>>
  BY <1>3, ChunkStepHolds, OthersKept DEF CachesInv
<1>4. CASE /\ CursorNext
           /\ UNCHANGED <<pagesVars, indexVars, chunkVars, wikiVars>>
  BY <1>4, CursorStepHolds, OthersKept DEF CachesInv
<1>5. CASE /\ WikisNext
           /\ UNCHANGED <<pagesVars, indexVars, chunkVars, cursorVars>>
  BY <1>5, WikisStepHolds, OthersKept DEF CachesInv
<1>6. CASE UNCHANGED cachesVars
  BY <1>6, OthersKept DEF CachesInv, cachesVars
<1>. QED  BY <1>1, <1>2, <1>3, <1>4, <1>5, <1>6 DEF CachesNext

\* The five inductive invariants hold together of all the caches.
THEOREM CachesInvariance == CachesSpec => []CachesInv
<1>1. CachesInit => CachesInv
  BY PagesInitHolds, IndexInitInv, ChunksInitHolds, CursorInitHolds, WikisInitHolds
  DEF CachesInit, CachesInv
<1>. QED  BY <1>1, CachesStepHolds, PTL DEF CachesSpec

\* Whatever the caches go through, every variable of theirs keeps its type.
THEOREM CachesTypesCorrect == CachesSpec => []CachesTypeOK
<1>1. CachesInv => CachesTypeOK
  BY DEF CachesInv, CachesTypeOK, PagesInv, PagesTyped, IndexInv, ChunkInv, CursorInv, WikisInv
<1>. QED  BY <1>1, CachesInvariance, PTL

\* What is served, chunked, walked through and mirrored keeps its promises in the
\* composition that TLC runs.
THEOREM CachesKeepPromises ==
    CachesSpec => /\ IndexServed
                  /\ []ChunkedIsComplete /\ []MissesOnlyOvertaken
                  /\ []MirrorMissesOnlyRaces
<1>1. CachesInv => /\ FilesAreThere /\ ChunkedIsComplete
                   /\ MissesOnlyOvertaken /\ MirrorMissesOnlyRaces
  BY InvFilesAreThere, ChunkInvIsEnough, CursorInvIsEnough DEF CachesInv, WikisInv
<1>2. ASSUME CachesInv, [CachesNext]_cachesVars
      PROVE  [ActiveRows # {} => ActiveRows' # {}]_indexVars
  <2>1. [IndexesNext]_indexVars
    BY <1>2 DEF CachesNext, cachesVars
  <2>. QED  BY <1>2, <2>1, IndexNextInv DEF CachesInv, ServedNext
<1>. QED  BY <1>1, <1>2, CachesInvariance, PTL DEF CachesSpec, IndexServed

==============================================================================
