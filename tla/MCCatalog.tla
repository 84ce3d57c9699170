------------------------------ MODULE MCCatalog ------------------------------
(* Catalog for TLC: a curated and an open community that share a slug. *)
EXTENDS Catalog

CONSTANTS curated, open, a1, a2, b1

MCCommunities == {curated, open}

MCCategoriesOf == [c \in MCCommunities |-> IF c = curated THEN {a1, a2} ELSE {b1}]

MCSlugOf == [x \in {a1, a2, b1} |-> IF x = a2 THEN "tools" ELSE "mods"]

NoFilter == [requires |-> {}, excludes |-> {}]

ToolsOnly == [requires |-> {a2}, excludes |-> {}]

NoTools == [requires |-> {}, excludes |-> {a2}]

MCSections == {NoFilter, ToolsOnly, NoTools}

MCDefaultSection == [c \in MCCommunities |-> IF c = curated THEN NoTools ELSE NoFilter]

MCRequests ==
    [nsfw : BOOLEAN, deprecated : BOOLEAN, included : {{}, {a1}}, excluded : {{}, {a2}},
     section : MCSections]

NoRoles == [c \in MCCommunities |-> "none"]

User(superuser, staff, permissions, role, team) ==
    [authenticated |-> TRUE, active |-> TRUE, service |-> FALSE, superuser |-> superuser,
     staff |-> staff, permissions |-> permissions, role |-> role, team |-> team]

\* Every role alone, moderators of one community and of both, staff with and without
\* permissions; below, a deactivated superuser and team owner, and a service account.
People ==
    {User(FALSE, FALSE, {}, [NoRoles EXCEPT ![c] = r], "none") :
        c \in MCCommunities, r \in {"none", "member", "janitor", "moderator", "owner"}}
    \cup {User(FALSE, FALSE, {}, [c \in MCCommunities |-> "moderator"], "none")}
    \cup {User(FALSE, FALSE, {}, NoRoles, t) : t \in {"member", "owner"}}
    \cup {User(TRUE, FALSE, {}, NoRoles, "none")}
    \cup {User(FALSE, TRUE, p, NoRoles, "none") :
              p \in {{}, {"deprecate_package"},
                     {"change_packagelisting", "delete_packagelisting", "change_package"}}}

MCVisitors ==
    {[authenticated |-> FALSE, active |-> FALSE, service |-> FALSE, superuser |-> FALSE,
      staff |-> FALSE, permissions |-> {}, role |-> NoRoles, team |-> "none"]}
    \cup People
    \cup {[u EXCEPT !.active = FALSE] : u \in {v \in People : v.superuser \/ v.team = "owner"}}
    \cup {[u EXCEPT !.service = TRUE] : u \in {v \in People : v.team = "member"}}

=============================================================================
