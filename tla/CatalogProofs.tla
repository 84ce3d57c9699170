---------------------------- MODULE CatalogProofs ----------------------------
(* Proofs about Catalog, for any communities, visitors, categories and sections. *)
EXTENDS Catalog, TLAPS

LEMMA InitType == Init => TypeOK
BY NoListingAssumption DEF Init, TypeOK, NewListing, Listing, Statuses

\* Whatever is written into a listing is one.
LEMMA WriteType ==
    ASSUME TypeOK, NEW c \in Listed, NEW status \in Statuses, NEW requested \in BOOLEAN,
           NEW nsfw \in BOOLEAN, NEW categories \in SUBSET CategoriesOf[c],
           Write(c, status, requested, nsfw, categories)
    PROVE  TypeOK'
BY DEF Write, TypeOK, Listing, Listed

LEMMA StepType == TypeOK /\ [Next]_vars => TypeOK'
<1> SUFFICES ASSUME TypeOK, [Next]_vars PROVE TypeOK'
    OBVIOUS
<1>1. CASE UNCHANGED vars
    BY <1>1 DEF vars, TypeOK
<1>2. CASE \E c \in Communities : AutoList(c)
    BY <1>2 DEF AutoList, NewListing, TypeOK, Listing, Statuses
<1>3. ASSUME NEW u \in Visitors, NEW communities \in SUBSET Communities, NEW nsfw \in BOOLEAN,
             NEW categories \in SUBSET Categories, Upload(u, communities, nsfw, categories)
      PROVE  TypeOK'
    BY <1>3 DEF Upload, NewListing, TypeOK, Listing, Statuses
<1>4. ASSUME NEW u \in Visitors, NEW c \in Communities, NEW status \in {"approved", "rejected"},
             Decide(u, c, status) \/ AdminDecide(u, c, status)
      PROVE  TypeOK'
    <2>1. c \in Listed /\ listing[c] \in Listing(c)
        BY <1>4 DEF Decide, AdminDecide, TypeOK, Listed
    <2>2. /\ status \in Statuses
          /\ listing[c].requested \in BOOLEAN /\ listing[c].nsfw \in BOOLEAN
          /\ listing[c].categories \in SUBSET CategoriesOf[c]
        BY <2>1 DEF Listing, Statuses
    <2>3. CASE Decide(u, c, status)
        BY <2>1, <2>2, <2>3, WriteType DEF Decide
    <2>4. CASE AdminDecide(u, c, status)
        BY <2>1, <2>2, <2>4, WriteType DEF AdminDecide
    <2>. QED
        BY <1>4, <2>3, <2>4
<1>5. ASSUME NEW u \in Visitors, NEW c \in Communities, NEW status \in Statuses,
             NEW requested \in BOOLEAN, NEW nsfw \in BOOLEAN,
             NEW categories \in SUBSET CategoriesOf[c],
             AdminEdit(u, c, status, requested, nsfw, categories)
      PROVE  TypeOK'
    BY <1>5, WriteType DEF AdminEdit
<1>6. ASSUME NEW u \in Visitors, NEW c \in Communities, AdminDelete(u, c) \/ Unlist(u, c)
      PROVE  TypeOK'
    BY <1>6 DEF AdminDelete, Unlist, TypeOK
<1>7. ASSUME NEW u \in Visitors, NEW c \in Communities,
             NEW categories \in SUBSET CategoriesOf[c], UpdateCategories(u, c, categories)
      PROVE  TypeOK'
    <2>1. c \in Listed /\ listing[c] \in Listing(c)
        BY <1>7 DEF UpdateCategories, Found, TypeOK, Listed
    <2>. QED
        BY <2>1, <1>7, WriteType DEF UpdateCategories, Listing
<1>8. ASSUME NEW u \in Visitors, NEW deprecated \in BOOLEAN, SetDeprecated(u, deprecated)
      PROVE  TypeOK'
    BY <1>8 DEF SetDeprecated, TypeOK
<1>9. ASSUME NEW u \in Visitors, NEW active \in BOOLEAN, NEW deprecated \in BOOLEAN,
             NEW released \in BOOLEAN, NEW communities \in SUBSET Communities,
             AdminPackage(u, active, deprecated, released, communities)
      PROVE  TypeOK'
    BY <1>9 DEF AdminPackage, NewListing, TypeOK, Listing, Statuses
<1>. QED
    BY <1>1, <1>2, <1>3, <1>4, <1>5, <1>6, <1>7, <1>8, <1>9 DEF Next

\* The rows keep their types, whoever writes them.
THEOREM TypeCorrect == Spec => []TypeOK
BY InitType, StepType, PTL DEF Spec

-----------------------------------------------------------------------------

LEMMA AnonymousView ==
    ASSUME NEW c \in Communities
    PROVE  Viewable(Anonymous, c) <=>
               listing[c].status = "approved"
               \/ (c \notin Curated /\ listing[c].status # "rejected")
BY DEF Viewable, CanView, CanModeratePackages, CanAccessTeam, ValidUser, ValidAccount, Anonymous

LEMMA AnonymousOpens ==
    ASSUME TypeOK, NEW c \in Communities
    PROVE  /\ c \in Listed => listing[c].status \in Statuses
           /\ OpenTo(Anonymous, c) <=>
                  Found(c) /\ (listing[c].status = "approved"
                               \/ (c \notin Curated /\ listing[c].status # "rejected"))
BY AnonymousView DEF OpenTo, TypeOK, Listed, Listing

\* The dependants list shows what may be opened, and what it misjudges.
LEMMA DependantsFromType == TypeOK => DependantsAreHonest
<1> SUFFICES ASSUME TypeOK, NEW c \in Communities, NEW d \in Communities
             PROVE  /\ \A r \in Requests :
                           OldDependants(c, d, r) => OpenTo(Anonymous, d) \/ Misjudged(c, d)
                    /\ /\ OpenTo(Anonymous, d) /\ DefaultSection[c] = NoSection
                       /\ c \in Curated => listing[d].status = "approved"
                       => OldDependants(c, d, Everything)
    BY DEF DependantsAreHonest
<1>1. ASSUME NEW r \in Requests, OldDependants(c, d, r)
      PROVE  OpenTo(Anonymous, d) \/ Misjudged(c, d)
    BY <1>1, AnonymousOpens DEF OldDependants, OldPage, Misjudged, Found, Statuses
<1>2. ASSUME OpenTo(Anonymous, d), DefaultSection[c] = NoSection,
             c \in Curated => listing[d].status = "approved"
      PROVE  OldDependants(c, d, Everything)
    <2>1. Found(d) /\ listing[d].status # "rejected"
        BY <1>2, AnonymousOpens
    <2>2. Wanted(d, Everything) /\ Filtered(d, {}, {})
        BY DEF Wanted, Everything, Filtered, InAnyOf
    <2>3. ActiveSection(c, Everything) = NoSection
        BY <1>2 DEF ActiveSection, Everything
    <2>. QED
        BY <1>2, <2>1, <2>2, <2>3 DEF OldDependants, OldPage, Everything, NoSection
<1>. QED
    BY <1>1, <1>2

LEMMA PagesFromType == TypeOK => PagesShowWhatVisitorsMaySee
<1> SUFFICES ASSUME TypeOK, NEW c \in Communities
             PROVE  LET public == OpenTo(Anonymous, c)
                    IN  /\ \A r \in Requests :
                               OldList(c, r) \/ NewList(c, r) \/ FrontendList(c, r) => public
                        /\ public => NewList(c, Everything) /\ FrontendList(c, Everything)
                        /\ public /\ DefaultSection[c] = NoSection => OldList(c, Everything)
                        /\ InIndex(c) <=> public
                        /\ Unavailable(c) <=> ~public
                        /\ c \in Curated /\ Counted(c) => public
                        /\ \A webhook \in Webhook : Active /\ Announced(c, webhook) => public
    BY DependantsFromType DEF PagesShowWhatVisitorsMaySee
<1>1. c \in Listed => listing[c].status \in Statuses
    BY AnonymousOpens
<1>2. OpenTo(Anonymous, c) <=>
          Found(c) /\ (listing[c].status = "approved"
                        \/ (c \notin Curated /\ listing[c].status # "rejected"))
    BY AnonymousOpens
<1>3. \A r \in Requests : OldList(c, r) \/ NewList(c, r) \/ FrontendList(c, r)
          => OpenTo(Anonymous, c)
    BY <1>1, <1>2 DEF OldList, OldPage, NewList, NewReviewFilter, FrontendList,
        ValidReviewStatuses, Found, Statuses
<1>4. OpenTo(Anonymous, c) => NewList(c, Everything)
    BY <1>1, <1>2 DEF NewList, NewReviewFilter, Wanted, Filtered, Everything, NoSection, InAnyOf,
        Found, Statuses
<1>5. OpenTo(Anonymous, c) => FrontendList(c, Everything)
    BY <1>1, <1>2 DEF FrontendList, ValidReviewStatuses, Everything, NoSection, Slugs, Found, Statuses
<1>6. OpenTo(Anonymous, c) /\ DefaultSection[c] = NoSection => OldList(c, Everything)
    BY <1>1, <1>2 DEF OldList, OldPage, ActiveSection, Wanted, Filtered, Everything, NoSection,
        InAnyOf, Found, Statuses
<1>7. InIndex(c) <=> OpenTo(Anonymous, c)
    BY <1>1, <1>2 DEF InIndex, Found, Statuses
<1>8. Unavailable(c) <=> ~OpenTo(Anonymous, c)
    BY <1>1, <1>2 DEF Unavailable, Found, Statuses
<1>9. c \in Curated /\ Counted(c) => OpenTo(Anonymous, c)
    BY <1>2 DEF Counted
<1>10. \A webhook \in Webhook : Active /\ Announced(c, webhook) => OpenTo(Anonymous, c)
    BY <1>2 DEF Announced, ValidReviewStatuses, Found
<1>. QED
    BY <1>3, <1>4, <1>5, <1>6, <1>7, <1>8, <1>9, <1>10

\* Every list, the index, the remarks and the webhooks follow one rule, and the old
\* site's dependants list breaks it for Misjudged listings only, for any number of
\* communities, requests, sections and webhooks.
THEOREM PagesAreHonest == Spec => []PagesShowWhatVisitorsMaySee
BY TypeCorrect, PagesFromType, PTL

\* Old and new site answer alike, but for two requirements at once.
THEOREM SitesAgree == Spec => []PagesAgree
<1>1. TypeOK => PagesAgree
  <2> SUFFICES ASSUME TypeOK, NEW c \in Communities, NEW r \in Requests
               PROVE  LET section == ActiveSection(c, r)
                          same == [r EXCEPT !.section = section]
                      IN  /\ NewList(c, same) => OldList(c, r)
                          /\ r.included = {} \/ section.requires = {} =>
                                 (OldList(c, r) => NewList(c, same))
      BY DEF PagesAgree
  <2> DEFINE section == ActiveSection(c, r)
             same == [r EXCEPT !.section = section]
  <2>1. r \in Request
      BY RequestsAssumption
  <2>2. /\ same.section = section
        /\ same.nsfw = r.nsfw /\ same.deprecated = r.deprecated
        /\ same.included = r.included /\ same.excluded = r.excluded
      BY <2>1 DEF Request
  <2>3. Wanted(c, same) <=> Wanted(c, r)
      BY <2>2 DEF Wanted
  <2>4. c \in Listed => listing[c].status \in Statuses
      BY DEF TypeOK, Listed, Listing
  <2>5. Found(c) => (NewReviewFilter(c) <=> IF c \in Curated THEN listing[c].status = "approved"
                                                            ELSE listing[c].status # "rejected")
      BY <2>4 DEF NewReviewFilter, Found, Statuses
  <2> HIDE DEF section, same
  <2>6. Filtered(c, r.included, r.excluded) /\ Filtered(c, section.requires, section.excludes)
            => Filtered(c, r.included \cup section.requires, r.excluded \cup section.excludes)
      BY DEF Filtered, InAnyOf
  <2>7. r.included = {} \/ section.requires = {} =>
            (Filtered(c, r.included \cup section.requires, r.excluded \cup section.excludes)
                => Filtered(c, r.included, r.excluded)
                   /\ Filtered(c, section.requires, section.excludes))
      BY DEF Filtered, InAnyOf
  <2>8. OldList(c, r) <=>
            /\ Found(c)
            /\ IF c \in Curated THEN listing[c].status = "approved"
                                ELSE listing[c].status # "rejected"
            /\ Wanted(c, r)
            /\ Filtered(c, r.included \cup section.requires, r.excluded \cup section.excludes)
      BY DEF OldList, OldPage, section
  <2>9. NewList(c, same) <=>
            /\ Found(c) /\ NewReviewFilter(c) /\ Wanted(c, r)
            /\ Filtered(c, r.included, r.excluded)
            /\ Filtered(c, section.requires, section.excludes)
      BY <2>2, <2>3 DEF NewList
  <2>. QED
      BY <2>5, <2>6, <2>7, <2>8, <2>9 DEF section, same
<1>. QED
    BY <1>1, TypeCorrect, PTL

-----------------------------------------------------------------------------

\* Whoever may decide can open the page.
THEOREM DecidersSee == Spec => []WhoDecidesCanView
<1>1. TypeOK => WhoDecidesCanView
  <2> SUFFICES ASSUME TypeOK, NEW u \in Visitors, NEW c \in Communities, Found(c),
                      CanModeratePackages(u, c) \/ CanManageDeprecation(u, Listed)
               PROVE  OpenTo(u, c)
      BY DEF WhoDecidesCanView
  <2>1. CASE CanModeratePackages(u, c)
      BY <2>1 DEF OpenTo, Viewable, CanView
  <2>2. CASE CanManageDeprecation(u, Listed) /\ u.staff
      BY <2>2 DEF CanManageDeprecation, CanModeratePackages, OpenTo, Viewable, CanView
  <2>3. CASE CanManageDeprecation(u, Listed) /\ CanManageTeamPackages(u)
      BY <2>3 DEF CanManageTeamPackages, CanAccessTeam, ValidUser, OpenTo, Viewable, CanView
  <2>4. CASE CanManageDeprecation(u, Listed) /\ Listed \subseteq ModeratableCommunities(u)
    <3>1. c \in ModeratableCommunities(u)
        BY <2>4 DEF Found
    <3>2. CanModeratePackages(u, c)
        BY <2>4, <3>1 DEF CanManageDeprecation, ModeratableCommunities, CanModeratePackages
    <3>. QED
        BY <3>2 DEF OpenTo, Viewable, CanView
  <2>. QED
      BY <2>1, <2>2, <2>3, <2>4 DEF CanManageDeprecation
<1>. QED
    BY <1>1, TypeCorrect, PTL

\* What a user finds in the review queue, that user can act upon.
THEOREM QueueCanBeWorked == Spec => []QueueIsActionable
<1>1. QueueIsActionable
  <2> SUFFICES ASSUME NEW u \in Visitors, NEW c \in Communities,
                      ValidUser(u), InQueue(u, c, Everything)
               PROVE  CanModeratePackages(u, c) /\ OpenTo(u, c)
      BY DEF QueueIsActionable
  <2>1. CanModeratePackages(u, c)
      BY DEF InQueue, ModeratableCommunities, CanModeratePackages
  <2>. QED
      BY <2>1 DEF InQueue, OpenTo, Viewable, CanView
<1>. QED
    BY <1>1, PTL

\* Only a reviewer's step shows to the public what it has not been shown, deleted and
\* new listings of curated communities included.
THEOREM PublishedByReviewers == Spec => OnlyReviewersPublish
<1> DEFINE Reviewed(c) ==
        \E u \in Visitors, status \in Statuses, requested, nsfw \in BOOLEAN :
            \/ Decide(u, c, status) \/ AdminDecide(u, c, status)
            \/ \E categories \in SUBSET CategoriesOf[c] :
                   AdminEdit(u, c, status, requested, nsfw, categories)
<1>1. ASSUME TypeOK, Next, NEW c \in Listed \cup Curated,
             ~(c \in Listed /\ Viewable(Anonymous, c)), c \in Listed', Viewable(Anonymous, c)'
      PROVE  Reviewed(c)
  <2>1. c \in Communities /\ listing[c] \in Listing(c) \cup {NoListing}
      BY <1>1, CuratedAssumption DEF TypeOK, Listed
  <2>2. \/ listing'[c].status = "approved"
        \/ c \notin Curated /\ listing'[c].status # "rejected"
      BY <1>1, <2>1 DEF Viewable, CanView, CanModeratePackages, CanAccessTeam, ValidUser,
          ValidAccount, Anonymous
  <2>3. c \in Listed => listing'[c].status # listing[c].status
      BY <1>1, <2>1, <2>2, AnonymousView
  <2>4. c \notin Listed => c \in Curated /\ listing'[c].status = "approved"
      BY <1>1, <2>2
  <2>5. ~(c \in Listed /\ listing'[c].status = listing[c].status) /\ listing'[c] # listing[c]
      BY <1>1, <2>3 DEF Listed
  <2>6. ASSUME NEW d \in Listed, NEW status, NEW requested, NEW nsfw, NEW categories,
               Write(d, status, requested, nsfw, categories)
        PROVE  d = c /\ status # listing[c].status
      BY <2>1, <2>3, <2>5, <2>6 DEF Write, TypeOK, Listed
  <2>7. ASSUME NEW nsfw, NEW categories, listing'[c] = NewListing(c, nsfw, categories),
               c \notin Listed
        PROVE  FALSE
      BY <2>4, <2>7 DEF NewListing
  <2>8. ASSUME NEW d \in Communities, AutoList(d)
        PROVE  FALSE
    <3>1. listing'[c] = listing[c] \/ (c \notin Listed /\ listing'[c] = NewListing(c, FALSE, {}))
        BY <1>1, <2>1, <2>8 DEF AutoList, TypeOK
    <3>. QED
        BY <2>5, <2>7, <3>1
  <2>9. ASSUME NEW u \in Visitors, NEW communities \in SUBSET Communities, NEW nsfw \in BOOLEAN,
               NEW categories \in SUBSET Categories, Upload(u, communities, nsfw, categories)
        PROVE  FALSE
    <3>1. c \notin Listed => listing'[c] \in {listing[c], NewListing(c, nsfw, categories)}
        BY <2>1, <2>9 DEF Upload, Listed
    <3>2. c \in Listed => listing'[c].status = listing[c].status
        BY <2>1, <2>9 DEF Upload, Listed
    <3>. QED
        BY <2>3, <2>5, <2>7, <3>1, <3>2
  <2>10. ASSUME NEW u \in Visitors, NEW d \in Communities, NEW status \in {"approved", "rejected"},
                Decide(u, d, status) \/ AdminDecide(u, d, status)
         PROVE  Reviewed(c)
    <3>1. d = c
        BY <2>10, <2>6 DEF Decide, AdminDecide
    <3>2. status \in Statuses /\ TRUE \in BOOLEAN
        BY DEF Statuses
    <3>. QED
        BY <2>10, <3>1, <3>2
  <2>11. ASSUME NEW u \in Visitors, NEW d \in Communities, NEW status \in Statuses,
                NEW requested \in BOOLEAN, NEW nsfw \in BOOLEAN,
                NEW categories \in SUBSET CategoriesOf[d],
                AdminEdit(u, d, status, requested, nsfw, categories)
         PROVE  Reviewed(c)
    <3>1. d = c
        BY <2>11, <2>6 DEF AdminEdit
    <3>. QED
        BY <2>11, <3>1
  <2>12. ASSUME NEW u \in Visitors, NEW d \in Communities, AdminDelete(u, d)
         PROVE  FALSE
      BY <1>1, <2>1, <2>5, <2>12 DEF AdminDelete, TypeOK, Listed
  <2>13. ASSUME NEW u \in Visitors, NEW d \in Communities,
                NEW categories \in SUBSET CategoriesOf[d], UpdateCategories(u, d, categories)
         PROVE  FALSE
      BY <2>13, <2>6 DEF UpdateCategories, Found
  <2>14. ASSUME NEW u \in Visitors, NEW active \in BOOLEAN, NEW deprecated \in BOOLEAN,
                NEW released \in BOOLEAN, NEW communities \in SUBSET Communities,
                AdminPackage(u, active, deprecated, released, communities)
         PROVE  FALSE
    <3>1. listing'[c] = listing[c] \/ (c \notin Listed /\ listing'[c] = NewListing(c, FALSE, {}))
        BY <2>1, <2>14 DEF AdminPackage
    <3>. QED
        BY <2>5, <2>7, <3>1
  <2>15. CASE UNCHANGED listing
      BY <2>5, <2>15
  <2> HIDE DEF Reviewed
  <2>. QED
      BY <1>1, <2>8, <2>9, <2>10, <2>11, <2>12, <2>13, <2>14, <2>15 DEF Next, Unlist, SetDeprecated
<1>2. TypeOK /\ [Next]_vars =>
        [\A c \in Listed \cup Curated :
           /\ ~(c \in Listed /\ Viewable(Anonymous, c))
           /\ c \in Listed' /\ Viewable(Anonymous, c)'
           => Reviewed(c)]_vars
    BY <1>1 DEF vars
<1>. QED
    BY <1>2, TypeCorrect, PTL DEF Spec, OnlyReviewersPublish

-----------------------------------------------------------------------------

\* Rights follow roles: a visitor who differs only by better ones has them all.
LEMMA BetterRoles ==
    ASSUME NEW u, NEW v,
           v.authenticated = u.authenticated, v.active = u.active, v.service = u.service,
           v.superuser = u.superuser, v.staff = u.staff, v.permissions = u.permissions,
           u.team # "none" => v.team # "none", u.team = "owner" => v.team = "owner",
           \A d \in Communities :
               /\ u.role[d] \in {"moderator", "owner"} => v.role[d] \in {"moderator", "owner"}
               /\ u.role[d] = "janitor" => v.role[d] \in {"janitor", "moderator"},
           NEW right \in DOMAIN Rights(u)
    PROVE  Rights(u)[right] \subseteq Rights(v)[right]
<1>1. ValidUser(u) <=> ValidUser(v)
    BY DEF ValidUser, ValidAccount
<1>2. \A d \in Communities : CanModeratePackages(u, d) => CanModeratePackages(v, d)
    BY <1>1 DEF CanModeratePackages
<1>3. \A d \in Communities : CanManageCategories(u, d) => CanManageCategories(v, d)
    BY <1>1 DEF CanManageCategories
<1>4. ModeratableCommunities(u) \subseteq ModeratableCommunities(v)
    BY DEF ModeratableCommunities, HasPermission
<1>5. /\ CanAccessTeam(u) => CanAccessTeam(v)
      /\ CanManageTeamPackages(u) => CanManageTeamPackages(v)
    BY <1>1 DEF CanAccessTeam, CanManageTeamPackages, ValidAccount
<1>6. CanManageDeprecation(u, Listed) => CanManageDeprecation(v, Listed)
    BY <1>1, <1>4, <1>5 DEF CanManageDeprecation, HasPermission
<1>7. Rights(u).view \subseteq Rights(v).view
    BY <1>2, <1>5 DEF Viewable, CanView, Listed, Rights
<1>8. Rights(u).moderate \subseteq Rights(v).moderate
    BY <1>2 DEF Rights
<1>9. Rights(u).queue \subseteq Rights(v).queue
    BY <1>4 DEF Rights
<1>10. Rights(u).categories \subseteq Rights(v).categories
    BY <1>2, <1>3, <1>5 DEF CanUpdateCategories, Rights
<1>11. Rights(u).deprecate \subseteq Rights(v).deprecate
    BY <1>6 DEF Rights
<1>12. Rights(u).team \subseteq Rights(v).team
    BY <1>1 DEF CanManageTeam, Rights
<1>13. DOMAIN Rights(u) = {"view", "moderate", "queue", "categories", "deprecate", "team"}
    BY DEF Rights
<1>. QED
    BY <1>7, <1>8, <1>9, <1>10, <1>11, <1>12, <1>13

\* A promotion within a community or a team takes no right away.
THEOREM PromotionsOnlyAdd == Spec => []PromotionKeepsRights
<1>1. PromotionKeepsRights
  <2> SUFFICES ASSUME NEW u \in Visitors
               PROVE  \A v \in {Promoted(u, c) : c \in Communities} \cup {TeamPromoted(u)},
                         right \in DOMAIN Rights(u) : Rights(u)[right] \subseteq Rights(v)[right]
      BY DEF PromotionKeepsRights
  <2>1. u \in Visitor
      BY VisitorsAssumption
  <2>2. ASSUME NEW c \in Communities, NEW right \in DOMAIN Rights(u)
        PROVE  Rights(u)[right] \subseteq Rights(Promoted(u, c))[right]
    <3> DEFINE v == Promoted(u, c)
    <3>1. /\ v.authenticated = u.authenticated /\ v.active = u.active /\ v.service = u.service
          /\ v.superuser = u.superuser /\ v.staff = u.staff /\ v.permissions = u.permissions
          /\ v.team = u.team
        BY <2>1 DEF Promoted, Visitor
    <3>2. \A d \in Communities :
              /\ u.role[d] \in {"moderator", "owner"} => v.role[d] \in {"moderator", "owner"}
              /\ u.role[d] = "janitor" => v.role[d] \in {"janitor", "moderator"}
        BY <2>1 DEF Promoted, Visitor, Roles
    <3> HIDE DEF v
    <3>. QED
        BY <3>1, <3>2, BetterRoles DEF v
  <2>3. ASSUME NEW right \in DOMAIN Rights(u)
        PROVE  Rights(u)[right] \subseteq Rights(TeamPromoted(u))[right]
    <3> DEFINE v == TeamPromoted(u)
    <3>1. /\ v.authenticated = u.authenticated /\ v.active = u.active /\ v.service = u.service
          /\ v.superuser = u.superuser /\ v.staff = u.staff /\ v.permissions = u.permissions
          /\ v.role = u.role
        BY <2>1 DEF TeamPromoted, Visitor
    <3>2. (u.team # "none" => v.team # "none") /\ (u.team = "owner" => v.team = "owner")
        BY <2>1 DEF TeamPromoted, Visitor
    <3> HIDE DEF v
    <3>. QED
        BY <3>1, <3>2, BetterRoles DEF v
  <2>. QED
      BY <2>2, <2>3
<1>. QED
    BY <1>1, PTL

=============================================================================
