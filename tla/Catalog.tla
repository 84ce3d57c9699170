------------------------------- MODULE Catalog -------------------------------
(***************************************************************************)
(* One package, its listing in every community, the decisions about them   *)
(* and the pages that show them: the old site's lists                      *)
(* (repository/views/package/list.py), the new site's                      *)
(* (api/cyberstorm/views/package_listing_list.py), the experimental        *)
(* frontend's, the package index of the mod managers and the review queue. *)
(* Each of these has its own queries for what is, in the end, one rule.    *)
(*                                                                         *)
(* A list is a set of conditions on single listings, so one package is     *)
(* enough: a page either shows it or not.  Free-text search, ordering and  *)
(* pagination are left out.  Every handler is one step: what happens when  *)
(* they overlap is the subject of PackageReleases and PageCache.           *)
(***************************************************************************)
EXTENDS Permissions

CONSTANTS
    Curated,         \* the communities with require_package_listing_approval
    CategoriesOf,    \* the categories of each community
    SlugOf,          \* the slug of each category: two communities may share one
    Sections,        \* the sections of the communities' package lists
    Requests,        \* the parameters lists are asked with: records of Request
    DefaultSection,  \* section the old site opens a community's list with
    NoListing        \* the package is not in that community

ASSUME CuratedAssumption == Curated \subseteq Communities

Categories == UNION {CategoriesOf[c] : c \in Communities}

Section == [requires : SUBSET Categories, excludes : SUBSET Categories]

\* A community without sections, a request without one.
NoSection == [requires |-> {}, excludes |-> {}]

ASSUME SectionsAssumption ==
    /\ Sections \subseteq Section /\ NoSection \in Sections
    /\ DefaultSection \in [Communities -> Sections]

Statuses == {"unreviewed", "approved", "rejected"}

Listing(c) == [status : Statuses, requested : BOOLEAN, nsfw : BOOLEAN,
               categories : SUBSET CategoriesOf[c]]

ASSUME NoListingAssumption == \A c \in Communities : NoListing \notin Listing(c)

\* The parameters of a list request.
Request == [nsfw : BOOLEAN, deprecated : BOOLEAN, included : SUBSET Categories,
            excluded : SUBSET Categories, section : Sections]

\* Everything, as far as the filters go.
Everything == [nsfw |-> TRUE, deprecated |-> TRUE, included |-> {}, excluded |-> {},
               section |-> NoSection]

ASSUME RequestsAssumption == Requests \subseteq Request

VARIABLES
    package,  \* is it active, deprecated; does it have an active version?
    listing   \* its listing in each community

vars == <<package, listing>>

TypeOK ==
    /\ package \in [active : BOOLEAN, deprecated : BOOLEAN, released : BOOLEAN]
    /\ DOMAIN listing = Communities
    /\ \A c \in Communities : listing[c] \in Listing(c) \cup {NoListing}

NewListing(c, nsfw, categories) ==
    [status |-> "unreviewed", requested |-> FALSE, nsfw |-> nsfw,
     categories |-> categories \cap CategoriesOf[c]]

\* The first version has been uploaded to some communities.
Init ==
    /\ package = [active |-> TRUE, deprecated |-> FALSE, released |-> TRUE]
    /\ \E communities \in SUBSET Communities, nsfw \in BOOLEAN, categories \in SUBSET Categories :
           listing = [c \in Communities |-> IF c \in communities
                                           THEN NewListing(c, nsfw, categories)
                                           ELSE NoListing]

-----------------------------------------------------------------------------

Listed == {c \in Communities : listing[c] # NoListing}

\* PackageListingQueryset.active and PackageQueryset.active.
Active == package.active /\ package.released

\* PackageListing.approved and rejected listings in a community's eyes.
Viewable(u, c) == CanView(u, c, listing[c].status, c \in Curated)

\* What the handlers of an API fetch before they look at permissions.
Found(c) == c \in Listed /\ Active

Write(c, status, requested, nsfw, categories) ==
    /\ listing' = [listing EXCEPT ![c] =
           [status |-> status, requested |-> requested, nsfw |-> nsfw,
            categories |-> categories]]
    /\ UNCHANGED package

\* Mutant of Upload: the listings of a new version are new ones.
UploadRenews(u, communities, nsfw, categories) ==
    /\ CanUploadPackage(u)
    /\ package' = [active |-> package.active, deprecated |-> FALSE, released |-> TRUE]
    /\ listing' = [c \in Communities |->
           IF c \in communities THEN NewListing(c, nsfw, categories) ELSE listing[c]]

\* handle_created_version and update_listing, for the communities of an upload:
\* the categories are added to those there are, the review status is left alone.
Upload(u, communities, nsfw, categories) ==
    /\ CanUploadPackage(u)
    /\ package' = [active |-> package.active, deprecated |-> FALSE, released |-> TRUE]
    /\ listing' = [c \in Communities |->
           IF c \notin communities
           THEN listing[c]
           ELSE IF listing[c] = NoListing
                THEN NewListing(c, nsfw, categories)
                ELSE [status |-> listing[c].status, requested |-> listing[c].requested,
                      nsfw |-> nsfw, categories |-> listing[c].categories
                          \cup (categories \cap CategoriesOf[c])]]

\* Mutant of Decide: the status is not one of PackageListingReviewStatus.
DecideMisspelt(u, c, status) ==
    /\ c \in Listed
    /\ CanModeratePackages(u, c)
    /\ Write(c, "reviewed", FALSE, listing[c].nsfw, listing[c].categories)

\* approve_package_listing and reject_package_listing, which end in
\* clear_review_request.  The experimental API also finds inactive listings.
Decide(u, c, status) ==
    /\ c \in Listed
    /\ CanModeratePackages(u, c)
    /\ Write(c, status, FALSE, listing[c].nsfw, listing[c].categories)

\* The admin's actions approve_listing and reject_listing.
AdminDecide(u, c, status) ==
    /\ c \in Listed
    /\ u.staff
    /\ CanModeratePackages(u, c)
    /\ Write(c, status, listing[c].requested, listing[c].nsfw, listing[c].categories)

\* The admin's form of a listing.  Nothing else requests a review.  (Its form of a new
\* listing names fields a form cannot have, and fails.)
AdminEdit(u, c, status, requested, nsfw, categories) ==
    /\ c \in Listed
    /\ u.staff
    /\ HasPermission(u, "change_packagelisting")
    /\ Write(c, status, requested, nsfw, categories)

AdminDelete(u, c) ==
    /\ c \in Listed
    /\ u.staff
    /\ HasPermission(u, "delete_packagelisting")
    /\ listing' = [listing EXCEPT ![c] = NoListing]
    /\ UNCHANGED package

\* import_community lists the packages of the schema's autolist_package_ids.
AutoList(c) ==
    /\ c \notin Listed
    /\ listing' = [listing EXCEPT ![c] = NewListing(c, FALSE, {})]
    /\ UNCHANGED package

UpdateCategories(u, c, categories) ==
    /\ Found(c)
    /\ CanUpdateCategories(u, c)
    /\ Write(c, listing[c].status, listing[c].requested, listing[c].nsfw, categories)

\* deprecate_package and undeprecate_package of the API, and the old page's.
SetDeprecated(u, deprecated) ==
    /\ Active
    /\ CanManageDeprecation(u, Listed)
    /\ package' = [package EXCEPT !.deprecated = deprecated]
    /\ UNCHANGED listing

\* unlist_package_listing of the API, and post_unlist of the old page, which must
\* be open to the user.
Unlist(u, c) ==
    /\ Found(c)
    /\ u.superuser
    /\ ValidUser(u) \/ (Viewable(u, c) /\ CanManage(u, c, Listed))
    /\ package' = [package EXCEPT !.active = FALSE]
    /\ UNCHANGED listing

\* The admin's actions and form for a package, its versions and its listings: rows
\* for other communities may be added to the latter, of which only the community can
\* be chosen.
AdminPackage(u, active, deprecated, released, communities) ==
    /\ u.staff
    /\ HasPermission(u, "change_package")
    /\ communities \cap Listed = {}
    /\ package' = [active |-> active, deprecated |-> deprecated, released |-> released]
    /\ listing' = [c \in Communities |-> IF c \in communities THEN NewListing(c, FALSE, {})
                                                              ELSE listing[c]]

Next ==
    \/ \E u \in Visitors :
        \/ \E communities \in SUBSET Communities \ {{}}, nsfw \in BOOLEAN,
              categories \in SUBSET Categories : Upload(u, communities, nsfw, categories)
        \/ \E c \in Communities, status \in {"approved", "rejected"} :
               Decide(u, c, status) \/ AdminDecide(u, c, status)
        \/ \E c \in Communities, status \in Statuses, requested, nsfw \in BOOLEAN :
               \E categories \in SUBSET CategoriesOf[c] :
                   AdminEdit(u, c, status, requested, nsfw, categories)
        \/ \E c \in Communities : AdminDelete(u, c) \/ Unlist(u, c)
        \/ \E c \in Communities : \E categories \in SUBSET CategoriesOf[c] :
               UpdateCategories(u, c, categories)
        \/ \E deprecated \in BOOLEAN : SetDeprecated(u, deprecated)
        \/ \E active, deprecated, released \in BOOLEAN, communities \in SUBSET Communities :
               AdminPackage(u, active, deprecated, released, communities)
    \/ \E c \in Communities : AutoList(c)

Spec == Init /\ [][Next]_vars

-----------------------------------------------------------------------------
(* Who sees the listing, once they have its address *)

\* PackageListingDetailView.get_object, get_custom_package_listing and the
\* experimental frontend's page.
OpenTo(u, c) == Found(c) /\ Viewable(u, c)

-----------------------------------------------------------------------------
(* The lists *)

InAnyOf(c, categories) == listing[c].categories \cap categories # {}

Filtered(c, required, excluded) ==
    /\ required # {} => InAnyOf(c, required)
    /\ ~InAnyOf(c, excluded)

\* Deprecated and NSFW packages are shown on request.
Wanted(c, request) ==
    /\ request.deprecated \/ ~package.deprecated
    /\ request.nsfw \/ ~listing[c].nsfw

\* The section of the old site's list: the first one when none is asked for.
ActiveSection(c, request) ==
    IF request.section = NoSection THEN DefaultSection[c] ELSE request.section

\* PackageListSearchView.get_queryset: is listing d shown on a page of community c?
\* The review status of d is compared with the rule of c, and the categories of
\* the request and of the section are put into one set.
OldPage(c, d, request) ==
    LET section == ActiveSection(c, request)
    IN  /\ Found(d)
        /\ IF c \in Curated THEN listing[d].status = "approved"
                            ELSE listing[d].status # "rejected"
        /\ Wanted(d, request)
        /\ Filtered(d, request.included \cup section.requires,
                    request.excluded \cup section.excludes)

\* The list of a community and the list of an owner in it.
OldList(c, request) == OldPage(c, c, request)

\* PackageListByDependencyView: the list of a package's dependants asks for no
\* community, and shows their listings wherever they are.
OldDependants(c, d, request) == OldPage(c, d, request)

\* Mutant of NewReviewFilter: the community's approval rule is forgotten.
NotRejected(c) == listing[c].status # "rejected"

\* filter_by_review_status.
NewReviewFilter(c) ==
    listing[c].status \notin {"rejected"} \cup (IF c \in Curated THEN {"unreviewed"} ELSE {})

\* Mutant of NewList: what the section excludes is shown.
NewListOfSection(c, request) ==
    /\ Found(c)
    /\ NewReviewFilter(c)
    /\ Wanted(c, request)
    /\ Filtered(c, request.included, request.excluded)
    /\ Filtered(c, request.section.requires, {})

\* BasePackageListAPIView: the lists of a community, a namespace and the
\* dependants of a package.  Request and section are two filters.
NewList(c, request) ==
    /\ Found(c)
    /\ NewReviewFilter(c)
    /\ Wanted(c, request)
    /\ Filtered(c, request.included, request.excluded)
    /\ Filtered(c, request.section.requires, request.section.excludes)

\* Community.valid_review_statuses.
ValidReviewStatuses(c) ==
    IF c \in Curated THEN {"approved"} ELSE {"approved", "unreviewed"}

Slugs(categories) == {SlugOf[x] : x \in categories}

\* CommunityPackageListApiView queries packages: whatever it excludes or requires
\* is looked for in all the listings of the package, categories by their slug.
FrontendList(c, request) ==
    LET all == UNION {listing[d].categories : d \in Listed}
    IN  /\ Found(c)
        /\ listing[c].status \in ValidReviewStatuses(c)
        /\ request.deprecated \/ ~package.deprecated
        /\ request.nsfw \/ \A d \in Listed : ~listing[d].nsfw
        /\ request.included # {} => Slugs(all) \cap Slugs(request.included) # {}
        /\ Slugs(all) \cap Slugs(request.excluded) = {}
        /\ request.section.requires # {} => all \cap request.section.requires # {}
        /\ all \cap request.section.excludes = {}

\* get_package_listing_base_queryset, with filter_by_community_approval_rule: the
\* package index of a community.
InIndex(c) ==
    /\ Found(c)
    /\ listing[c].status # "rejected"
    /\ ~(c \in Curated /\ listing[c].status # "approved")

\* What a release webhook asks for.
Webhook == [nsfw : BOOLEAN, requires : SUBSET Categories, excludes : SUBSET Categories]

\* Webhook.get_for_package_release, for a webhook of community c.
Announced(c, webhook) ==
    /\ c \in Listed
    /\ listing[c].status \in ValidReviewStatuses(c)
    /\ listing[c].nsfw => webhook.nsfw
    /\ Filtered(c, webhook.requires, webhook.excludes)

\* PackageReviewListView: the review queue, for all the communities of a moderator.
InQueue(u, c, request) ==
    /\ Found(c)
    /\ c \in ModeratableCommunities(u)
    /\ listing[c].requested
    /\ Wanted(c, request)
    /\ Filtered(c, request.included, request.excluded)

\* Package.is_unavailable, shown next to a dependency.
Unavailable(c) ==
    \/ ~Active
    \/ c \notin Listed
    \/ listing[c].status = "rejected"
    \/ c \in Curated /\ listing[c].status = "unreviewed"

\* CommunityAggregatedFields.update_for_community: the packages of a community are
\* counted if no other community lists them.
Counted(c) ==
    /\ Found(c)
    /\ c \in Curated => listing[c].status = "approved"
    /\ Listed = {c}

-----------------------------------------------------------------------------
(* Properties *)

\* An unreviewed listing of a curated community among the dependants shown by an
\* open one, whose rule it is judged by.
Misjudged(c, d) == c \notin Curated /\ d \in Curated /\ listing[d].status = "unreviewed"

\* The old site's dependants list, of any community c for listings of any community d,
\* shows what an anonymous visitor may open, and Misjudged ones, whose pages refuse
\* that visitor.  Nothing filtered, it shows all of the former, or in a curated
\* community the approved ones.
DependantsAreHonest ==
    \A c, d \in Communities :
        /\ \A r \in Requests :
               OldDependants(c, d, r) => OpenTo(Anonymous, d) \/ Misjudged(c, d)
        /\ /\ OpenTo(Anonymous, d) /\ DefaultSection[c] = NoSection
           /\ c \in Curated => listing[d].status = "approved"
           => OldDependants(c, d, Everything)

\* Many queries, one rule: whatever the parameters, a list shows a listing only if
\* an anonymous visitor may open its page, and when nothing is filtered out it shows
\* every such listing.  The package index and the remarks next to dependencies follow
\* the same rule, webhooks announce and curated communities count nothing else.  The
\* one list that breaks it is the old site's dependants list, as far as said above.
PagesShowWhatVisitorsMaySee ==
    /\ DependantsAreHonest
    /\ \A c \in Communities :
        LET public == OpenTo(Anonymous, c)
        IN  /\ \A r \in Requests :
                   OldList(c, r) \/ NewList(c, r) \/ FrontendList(c, r) => public
            /\ public => NewList(c, Everything) /\ FrontendList(c, Everything)
            /\ public /\ DefaultSection[c] = NoSection => OldList(c, Everything)
            /\ InIndex(c) <=> public
            /\ Unavailable(c) <=> ~public
            /\ c \in Curated /\ Counted(c) => public
            /\ \A webhook \in Webhook : Active /\ Announced(c, webhook) => public

\* The lists of a community and of an owner: the new site answers a request as the
\* old one does in the same section, except that it wants both a category of the request and one of the section where the
\* old site takes either.
PagesAgree ==
    \A c \in Communities, r \in Requests :
        LET section == ActiveSection(c, r)
            same == [r EXCEPT !.section = section]
        IN  /\ NewList(c, same) => OldList(c, r)
            /\ r.included = {} \/ section.requires = {} =>
                   (OldList(c, r) => NewList(c, same))

\* Whoever may decide about a listing or its package can open its page.  (Not so for
\* categories: a community's janitor may change those of a listing it cannot see.)
WhoDecidesCanView ==
    \A u \in Visitors, c \in Communities :
        Found(c) /\ (CanModeratePackages(u, c) \/ CanManageDeprecation(u, Listed))
            => OpenTo(u, c)

\* The review queue is computed from other roles and permissions than the decisions:
\* all a user finds in it, that user can open and decide about.
QueueIsActionable ==
    \A u \in Visitors, c \in Communities :
        ValidUser(u) /\ InQueue(u, c, Everything) => CanModeratePackages(u, c) /\ OpenTo(u, c)

\* What a visitor may do, right by right.
Rights(u) ==
    [view |-> {c \in Listed : Viewable(u, c)},
     moderate |-> {c \in Communities : CanModeratePackages(u, c)},
     queue |-> ModeratableCommunities(u),
     categories |-> {c \in Communities : CanUpdateCategories(u, c)},
     deprecate |-> {d \in {TRUE} : CanManageDeprecation(u, Listed)},
     team |-> {d \in {TRUE} : CanManageTeam(u)}]

Promoted(u, c) ==
    [u EXCEPT !.role[c] = CASE @ = "none" -> "member" [] @ = "member" -> "janitor"
                            [] @ = "janitor" -> "moderator" [] OTHER -> "owner"]

TeamPromoted(u) == [u EXCEPT !.team = IF @ = "none" THEN "member" ELSE "owner"]

\* A promotion, within a community or the package's team, takes no right away.
PromotionKeepsRights ==
    \A u \in Visitors : u.authenticated =>
        \A v \in {Promoted(u, c) : c \in Communities} \cup {TeamPromoted(u)},
           right \in DOMAIN Rights(u) : Rights(u)[right] \subseteq Rights(v)[right]

\* What the public cannot see, because it is under review, rejected or, in a curated
\* community, not listed yet or deleted, is shown to it only when a reviewer says so:
\* uploads, categories, imports and added rows cannot publish it.  (An open community shows new
\* listings at once, those included that stand in for a deleted rejected one.)
OnlyReviewersPublish ==
    [][\A c \in Listed \cup Curated :
           /\ ~(c \in Listed /\ Viewable(Anonymous, c))
           /\ c \in Listed' /\ Viewable(Anonymous, c)'
           => \E u \in Visitors, status \in Statuses, requested, nsfw \in BOOLEAN :
                  \/ Decide(u, c, status) \/ AdminDecide(u, c, status)
                  \/ \E categories \in SUBSET CategoriesOf[c] :
                         AdminEdit(u, c, status, requested, nsfw, categories)]_vars

=============================================================================
