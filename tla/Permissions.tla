----------------------------- MODULE Permissions -----------------------------
(***************************************************************************)
(* Who may do what: validate_user (permissions/utils.py), the roles of a   *)
(* community and of a team, the rules for packages and listings built on   *)
(* them, and the staff's permissions.  Every ensure_* method raises an     *)
(* error or returns, and check_validity turns that into a Boolean: here    *)
(* each of them is a predicate.                                            *)
(***************************************************************************)

CONSTANTS
    Communities,  \* the communities a package may be listed in
    Visitors      \* whoever sends requests: records of Visitor

Permissions == {"change_packagelisting", "delete_packagelisting", "change_package",
                "deprecate_package"}

Roles == {"none", "member", "janitor", "moderator", "owner"}

Visitor == [authenticated : BOOLEAN, active : BOOLEAN, service : BOOLEAN,
            superuser : BOOLEAN, staff : BOOLEAN, permissions : SUBSET Permissions,
            role : [Communities -> Roles], team : {"none", "member", "owner"}]

\* Django's AnonymousUser.
Anonymous == [authenticated |-> FALSE, active |-> FALSE, service |-> FALSE,
              superuser |-> FALSE, staff |-> FALSE, permissions |-> {},
              role |-> [c \in Communities |-> "none"], team |-> "none"]

ASSUME VisitorsAssumption ==
    /\ Visitors \subseteq Visitor
    /\ \A u \in Visitors : ~u.authenticated => u = Anonymous

-----------------------------------------------------------------------------

\* validate_user, with and without allow_serviceaccount.
ValidAccount(u) == u.authenticated /\ u.active

ValidUser(u) == ValidAccount(u) /\ ~u.service

\* User.has_perm of Django's ModelBackend.
HasPermission(u, p) == u.active /\ (u.superuser \/ p \in u.permissions)

-----------------------------------------------------------------------------
(* Community *)

\* Mutant of CanModeratePackages: owners are forgotten.
CanModerateAsModerator(u, c) ==
    /\ ValidUser(u)
    /\ u.role[c] = "moderator" \/ u.superuser \/ u.staff

CanModeratePackages(u, c) ==
    /\ ValidUser(u)
    /\ u.role[c] \in {"moderator", "owner"} \/ u.superuser \/ u.staff

CanManageCategories(u, c) ==
    /\ ValidUser(u)
    /\ u.role[c] \in {"janitor", "moderator", "owner"} \/ u.superuser \/ u.staff

\* Mutant of ModeratableCommunities: every role but a member's counts.
ModeratableWithJanitors(u) ==
    IF ~u.authenticated
    THEN {}
    ELSE IF u.superuser \/ (u.staff /\ HasPermission(u, "change_packagelisting"))
         THEN Communities
         ELSE {c \in Communities : u.role[c] \in {"janitor", "moderator", "owner"}}

\* get_moderatable_communities: the communities of the review queue.
ModeratableCommunities(u) ==
    IF ~u.authenticated
    THEN {}
    ELSE IF u.superuser \/ (u.staff /\ HasPermission(u, "change_packagelisting"))
         THEN Communities
         ELSE {c \in Communities : u.role[c] \in {"moderator", "owner"}}

-----------------------------------------------------------------------------
(* Team: the team that owns the package *)

CanAccessTeam(u) == ValidAccount(u) /\ u.team # "none"

\* While the team is active.
CanUploadPackage(u) == CanAccessTeam(u)

CanManageTeamPackages(u) == ValidUser(u) /\ u.team # "none"

\* Members, the team's information and its service accounts: one rule for each of
\* ensure_user_can_manage_members, ensure_user_can_edit_info and
\* ensure_can_create_, edit_ and delete_service_account.
CanManageTeam(u) == ValidUser(u) /\ u.team = "owner"

-----------------------------------------------------------------------------
(* Package and listing *)

\* listed: the communities the package has a listing in.
CanManageDeprecation(u, listed) ==
    /\ ValidUser(u)
    /\ \/ /\ u.staff
          /\ \E p \in {"change_package", "deprecate_package"} : HasPermission(u, p)
       \/ listed # {} /\ listed \subseteq ModeratableCommunities(u)
       \/ CanManageTeamPackages(u)

CanUpdateCategories(u, c) ==
    \/ CanModeratePackages(u, c)
    \/ CanManageTeamPackages(u)
    \/ CanManageCategories(u, c)

\* Mutant of CanView: the community's moderators are forgotten.
CanViewAsTeam(u, c, status, curated) ==
    status = "approved" \/ (~curated /\ status # "rejected") \/ CanAccessTeam(u)

\* ensure_can_be_viewed_by_user: curated says whether the community requires
\* approval.
CanView(u, c, status, curated) ==
    \/ status = "approved" \/ (~curated /\ status # "rejected")
    \/ CanModeratePackages(u, c) \/ CanAccessTeam(u)

\* PermissionsChecker.can_manage: the management panel of the package's page.
CanManage(u, c, listed) ==
    \/ CanManageDeprecation(u, listed)
    \/ CanUpdateCategories(u, c)
    \/ u.superuser

=============================================================================
