-------------------------------- MODULE Teams --------------------------------
(***************************************************************************)
(* Teams, their namespaces and their members (repository/models/team.py,   *)
(* api/cyberstorm/services/team.py), and the first package a team owns.    *)
(*                                                                         *)
(* Each service runs in a transaction at READ COMMITTED: it reads, decides *)
(* and then writes, taking no lock on what it has read.  What keeps two    *)
(* requests apart is what the database itself enforces: unique columns,    *)
(* and foreign keys, which are checked when a transaction commits.         *)
(***************************************************************************)
EXTENDS Naturals, FiniteSets

CONSTANTS
    Names,     \* team names, all spellings of one name in different cases
    Users,     \* real user accounts
    Requests,  \* web requests in progress at a time
    None,      \* no team
    MaxRows    \* bound: membership rows inserted in a behaviour

ASSUME RowsAssumption == MaxRows \in Nat

ASSUME NoneAssumption == None \notin Names

VARIABLES
    team,       \* does the Team row of each name exist?
    namespace,  \* the team of the Namespace row; its key ignores case
    role,       \* role of each user in each team, "none" without a TeamMember row
    rowId,      \* primary key of that TeamMember row, 0 without one
    packages,   \* does the team own a package?
    account,    \* does the user account exist?
    lastId,     \* the last TeamMember key handed out
    request     \* what each request is doing, and what it has read

db == <<team, namespace, role, rowId, packages, account, lastId>>

vars == <<db, request>>

Idle == [step |-> "idle"]

Create == [step : {"create_team", "create_namespace", "create_commit"},
           team : Names, agent : Users]

Change == [step : {"add", "remove_guard", "remove", "update_guard", "update"},
           team : Names, user : Users, id : 0 .. MaxRows, role : {"member", "owner"}]

Disband == [step : {"disband_collect", "disband_delete", "disband_commit"},
            team : Names, members : SUBSET Users]

Upload == [step : {"upload"}, team : Names]

TypeOK ==
    /\ team \in [Names -> BOOLEAN]
    /\ namespace \in Names \cup {None}
    /\ role \in [Names -> [Users -> {"none", "member", "owner"}]]
    /\ rowId \in [Names -> [Users -> 0 .. MaxRows]]
    /\ packages \in [Names -> BOOLEAN]
    /\ account \in [Users -> BOOLEAN]
    /\ lastId \in 0 .. MaxRows
    /\ request \in [Requests -> {Idle} \cup Create \cup Change \cup Disband \cup Upload]

Init ==
    /\ team = [n \in Names |-> FALSE]
    /\ namespace = None
    /\ role = [n \in Names |-> [u \in Users |-> "none"]]
    /\ rowId = [n \in Names |-> [u \in Users |-> 0]]
    /\ packages = [n \in Names |-> FALSE]
    /\ account = [u \in Users |-> TRUE]
    /\ lastId = 0
    /\ request = [r \in Requests |-> Idle]

-----------------------------------------------------------------------------

At(r, n, step) == request[r].step = step /\ request[r].team = n

Begin(r, record) == request[r] = Idle /\ request' = [request EXCEPT ![r] = record]

Goto(r, step) == request' = [request EXCEPT ![r].step = step]

Done(r) == request' = [request EXCEPT ![r] = Idle]

Members(n) == {u \in Users : role[n][u] # "none"}

Owners(n) == {u \in Users : role[n][u] = "owner"}

IsOwner(n, u) == account[u] /\ role[n][u] = "owner"

\* is_last_owner: the member is among the owners, and they are not two.
IsLastOwner(n, u) == u \in Owners(n) /\ Cardinality(Owners(n)) <= 1

\* An uncommitted deletion of the team row.  Rows that refer to it wait for that
\* transaction before their foreign key is checked.
TeamLocked(n) == \E r \in Requests : At(r, n, "disband_commit")

\* The membership rows deleted by that transaction are locked as well.
MemberLocked(n, u) ==
    \E r \in Requests : At(r, n, "disband_commit") /\ u \in request[r].members

InsertMember(n, u, new, id) ==
    /\ role' = [role EXCEPT ![n][u] = new]
    /\ rowId' = [rowId EXCEPT ![n][u] = id]

\* Mutant of DeleteMember: the row is kept, with a role of its own.
DeleteMemberSoftly(n, u) == InsertMember(n, u, "removed", 0)

DeleteMember(n, u) == InsertMember(n, u, "none", 0)

-----------------------------------------------------------------------------
(* create_team *)

NameTaken == namespace # None \/ \E n \in Names : team[n]

CreateBegin(r, n, agent) ==
    /\ account[agent]
    /\ ~NameTaken
    /\ Begin(r, [step |-> "create_team", team |-> n, agent |-> agent])
    /\ UNCHANGED db

\* Team.validate looks again; the INSERT waits for an uncommitted row of exactly
\* the same name and fails once that row is committed.
CreateTeamRow(r, n) ==
    /\ At(r, n, "create_team")
    /\ \A q \in Requests : ~At(q, n, "create_namespace") /\ ~At(q, n, "create_commit")
    /\ IF NameTaken THEN Done(r) ELSE Goto(r, "create_namespace")
    /\ UNCHANGED db

\* Mutant of CreateNamespace: the key does not ignore case.
CreateNamespaceAnyCase(r, n) ==
    /\ At(r, n, "create_namespace")
    /\ IF namespace = n THEN Done(r) ELSE Goto(r, "create_commit")
    /\ UNCHANGED db

\* The key of Namespace ignores case: the INSERT waits for an uncommitted
\* namespace of any spelling, and fails if that one is committed.
CreateNamespace(r, n) ==
    /\ At(r, n, "create_namespace")
    /\ \A q \in Requests, m \in Names : ~At(q, m, "create_commit")
    /\ IF namespace # None THEN Done(r) ELSE Goto(r, "create_commit")
    /\ UNCHANGED db

\* add_member(owner), and the commit.
CreateCommit(r, n) ==
    /\ At(r, n, "create_commit")
    /\ lastId < MaxRows
    /\ IF account[request[r].agent]
       THEN /\ team' = [team EXCEPT ![n] = TRUE]
            /\ namespace' = n
            /\ InsertMember(n, request[r].agent, "owner", lastId + 1)
            /\ lastId' = lastId + 1
       ELSE UNCHANGED <<team, namespace, role, rowId, lastId>>
    /\ Done(r)
    /\ UNCHANGED <<packages, account>>

-----------------------------------------------------------------------------
(* AddTeamMemberForm, remove_team_member and update_team_member *)

\* The view has loaded the TeamMember row and the agent's membership.
ChangeRecord(step, n, u, new) ==
    [step |-> step, team |-> n, user |-> u, id |-> rowId[n][u], role |-> new]

AddBegin(r, n, agent, u, new) ==
    /\ team[n]
    /\ IsOwner(n, agent)
    /\ account[u]
    /\ u \notin Members(n)
    /\ Begin(r, ChangeRecord("add", n, u, new))
    /\ UNCHANGED db

\* Mutant of AddMember: the membership has no foreign key to the team.
AddMemberAnyway(r, n) ==
    /\ At(r, n, "add")
    /\ lastId < MaxRows
    /\ LET u == request[r].user IN
       IF account[u] /\ u \notin Members(n)
       THEN /\ InsertMember(n, u, request[r].role, lastId + 1)
            /\ lastId' = lastId + 1
       ELSE UNCHANGED <<role, rowId, lastId>>
    /\ Done(r)
    /\ UNCHANGED <<team, namespace, packages, account>>

\* The INSERT fails when the team or the account is gone, or when the user has
\* become a member in the meantime (one_membership_per_user).
AddMember(r, n) ==
    /\ At(r, n, "add")
    /\ ~TeamLocked(n)
    /\ lastId < MaxRows
    /\ LET u == request[r].user IN
       IF team[n] /\ account[u] /\ u \notin Members(n)
       THEN /\ InsertMember(n, u, request[r].role, lastId + 1)
            /\ lastId' = lastId + 1
       ELSE UNCHANGED <<role, rowId, lastId>>
    /\ Done(r)
    /\ UNCHANGED <<team, namespace, packages, account>>

\* Members may remove themselves; only owners may remove others.
RemoveBegin(r, n, agent, u) ==
    /\ u \in Members(n)
    /\ agent = u \/ IsOwner(n, agent)
    /\ Begin(r, ChangeRecord("remove_guard", n, u, "member"))
    /\ UNCHANGED db

RemoveGuard(r, n) ==
    /\ At(r, n, "remove_guard")
    /\ IF IsLastOwner(n, request[r].user) THEN Done(r) ELSE Goto(r, "remove")
    /\ UNCHANGED db

RemoveMember(r, n) ==
    /\ At(r, n, "remove")
    /\ LET u == request[r].user IN
       /\ ~MemberLocked(n, u)
       /\ IF u \in Members(n) /\ rowId[n][u] = request[r].id
          THEN DeleteMember(n, u)
          ELSE UNCHANGED <<role, rowId>>
    /\ Done(r)
    /\ UNCHANGED <<team, namespace, packages, account, lastId>>

UpdateBegin(r, n, agent, u, new) ==
    /\ u \in Members(n)
    /\ IsOwner(n, agent)
    /\ Begin(r, ChangeRecord("update_guard", n, u, new))
    /\ UNCHANGED db

UpdateGuard(r, n) ==
    /\ At(r, n, "update_guard")
    /\ IF request[r].role # "owner" /\ IsLastOwner(n, request[r].user)
       THEN Done(r) ELSE Goto(r, "update")
    /\ UNCHANGED db

\* team_member.save(): an UPDATE by primary key and, when no row has that key any
\* more, an INSERT, so a membership removed in the meantime comes back.
UpdateMember(r, n) ==
    /\ At(r, n, "update")
    /\ LET u == request[r].user IN
       /\ ~MemberLocked(n, u)
       /\ \/ /\ u \in Members(n)
             /\ rowId[n][u] = request[r].id
             /\ role' = [role EXCEPT ![n][u] = request[r].role]
             /\ UNCHANGED rowId
          \/ /\ u \notin Members(n)
             /\ ~TeamLocked(n)
             /\ IF team[n] /\ account[u]
                THEN InsertMember(n, u, request[r].role, request[r].id)
                ELSE UNCHANGED <<role, rowId>>
          \/ /\ u \in Members(n)
             /\ rowId[n][u] # request[r].id
             /\ UNCHANGED <<role, rowId>>
    /\ Done(r)
    /\ UNCHANGED <<team, namespace, packages, account, lastId>>

-----------------------------------------------------------------------------
(* disband_team *)

DisbandBegin(r, n, agent) ==
    /\ team[n]
    /\ IsOwner(n, agent)
    /\ ~packages[n]
    /\ Begin(r, [step |-> "disband_collect", team |-> n, members |-> {}])
    /\ UNCHANGED db

\* team.delete() looks for packages once more (on_delete=PROTECT) and reads the
\* rows it has to cascade to.
DisbandCollect(r, n) ==
    /\ At(r, n, "disband_collect")
    /\ IF packages[n]
       THEN Done(r)
       ELSE request' = [request EXCEPT ![r].step = "disband_delete",
                                       ![r].members = Members(n)]
    /\ UNCHANGED db

\* The DELETE statements; another disbanding of the team is waited for.
DisbandDelete(r, n) ==
    /\ At(r, n, "disband_delete")
    /\ ~TeamLocked(n)
    /\ IF team[n] THEN Goto(r, "disband_commit") ELSE Done(r)
    /\ UNCHANGED db

\* Mutant of DisbandCommit: packages do not protect their team.
DisbandCommitUnprotected(r, n) ==
    /\ At(r, n, "disband_commit")
    /\ team' = [team EXCEPT ![n] = FALSE]
    /\ namespace' = IF namespace = n THEN None ELSE namespace
    /\ role' = [role EXCEPT ![n] = [u \in Users |-> "none"]]
    /\ rowId' = [rowId EXCEPT ![n] = [u \in Users |-> 0]]
    /\ Done(r)
    /\ UNCHANGED <<packages, account, lastId>>

\* The commit, where the foreign keys of packages and members are checked.
DisbandCommit(r, n) ==
    /\ At(r, n, "disband_commit")
    /\ IF packages[n] \/ ~(Members(n) \subseteq request[r].members)
       THEN UNCHANGED <<team, namespace, role, rowId>>
       ELSE /\ team' = [team EXCEPT ![n] = FALSE]
            /\ namespace' = IF namespace = n THEN None ELSE namespace
            /\ role' = [role EXCEPT ![n] = [u \in Users |-> "none"]]
            /\ rowId' = [rowId EXCEPT ![n] = [u \in Users |-> 0]]
    /\ Done(r)
    /\ UNCHANGED <<packages, account, lastId>>

-----------------------------------------------------------------------------
(* Other parts that touch a team *)

\* PackageUploadForm: the uploader is a member when the form is validated ...
UploadBegin(r, n, agent) ==
    /\ team[n]
    /\ account[agent]
    /\ agent \in Members(n)
    /\ Begin(r, [step |-> "upload", team |-> n])
    /\ UNCHANGED db

\* ... and the package refers to the team when the transaction commits.
UploadPackage(r, n) ==
    /\ At(r, n, "upload")
    /\ ~TeamLocked(n)
    /\ packages' = [packages EXCEPT ![n] = @ \/ team[n]]
    /\ Done(r)
    /\ UNCHANGED <<team, namespace, role, rowId, account, lastId>>

\* delete_user_account: the memberships go with the account.
DeleteAccount(u) ==
    /\ account[u]
    /\ \A n \in Names : ~MemberLocked(n, u)
    /\ account' = [account EXCEPT ![u] = FALSE]
    /\ role' = [n \in Names |-> [role[n] EXCEPT ![u] = "none"]]
    /\ rowId' = [n \in Names |-> [rowId[n] EXCEPT ![u] = 0]]
    /\ UNCHANGED <<team, namespace, packages, lastId, request>>

-----------------------------------------------------------------------------

Creating(r, n) ==
    \/ \E agent \in Users : CreateBegin(r, n, agent)
    \/ CreateTeamRow(r, n) \/ CreateNamespace(r, n) \/ CreateCommit(r, n)

ChangingMembers(r, n) ==
    \/ \E agent, u \in Users, new \in {"member", "owner"} :
           AddBegin(r, n, agent, u, new) \/ UpdateBegin(r, n, agent, u, new)
    \/ \E agent, u \in Users : RemoveBegin(r, n, agent, u)
    \/ AddMember(r, n)
    \/ RemoveGuard(r, n) \/ RemoveMember(r, n)
    \/ UpdateGuard(r, n) \/ UpdateMember(r, n)

Disbanding(r, n) ==
    \/ \E agent \in Users : DisbandBegin(r, n, agent)
    \/ DisbandCollect(r, n) \/ DisbandDelete(r, n) \/ DisbandCommit(r, n)

Uploading(r, n) ==
    (\E agent \in Users : UploadBegin(r, n, agent)) \/ UploadPackage(r, n)

Next ==
    \/ \E r \in Requests, n \in Names :
           Creating(r, n) \/ ChangingMembers(r, n) \/ Disbanding(r, n) \/ Uploading(r, n)
    \/ \E u \in Users : DeleteAccount(u)

Spec == Init /\ [][Next]_vars

-----------------------------------------------------------------------------
(* Properties *)

\* No two teams have names that differ in case only, although two create_team
\* requests may both find the name free.
NamesUniqueIgnoringCase == \A n, m \in Names : team[n] /\ team[m] => n = m

\* A package never loses its team: a disbanding that saw no package is rolled
\* back when an upload got in between.
PackagesKeepTheirTeam == \A n \in Names : packages[n] => team[n]

\* A disbanded team leaves neither members nor its namespace behind, although
\* members may be added or brought back while it is being deleted.
DisbandedLeavesNothing ==
    \A n \in Names : ~team[n] => Members(n) = {} /\ namespace # n

\* "Cannot remove last owner from team": no removal or demotion takes away the
\* last owner a team has (account deletions, which are not checked, left aside).
LastOwnerStays ==
    [][\A r \in Requests, n \in Names :
           /\ RemoveMember(r, n) \/ UpdateMember(r, n)
           /\ Owners(n) # {}
           /\ \A u \in Users : account[u]
           => Owners(n)' # {}]_vars

=============================================================================
