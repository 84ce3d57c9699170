----------------------------- MODULE TeamsProofs -----------------------------
(***************************************************************************)
(* The invariants of Teams, for any number of spellings, users, requests   *)
(* and rows.                                                               *)
(*                                                                         *)
(* What makes them inductive is the namespace: it names the team exactly   *)
(* while that team's row is committed, and the request that has inserted   *)
(* a namespace but not committed yet is the only one and found none.       *)
(***************************************************************************)
EXTENDS Teams, FiniteSetTheorems, TLAPS

\* What a request may be doing.
Work == {Idle} \cup Create \cup Change \cup Disband \cup Upload

\* The namespace and the team come and go together.
NamespaceFollows == \A n \in Names : team[n] <=> namespace = n

\* The creation that is about to commit.
Inserted(r) == request[r].step = "create_commit"

OneInserts ==
    \A r \in Requests : Inserted(r) =>
        namespace = None /\ \A q \in Requests : Inserted(q) => q = r

\* A team without a row has no members.
NoOrphans == \A n \in Names, u \in Users : ~team[n] => role[n][u] = "none"

Inv == TypeOK /\ NamespaceFollows /\ OneInserts /\ NoOrphans /\ PackagesKeepTheirTeam

-----------------------------------------------------------------------------
(* Records of requests *)

LEMMA WorkAt ==
    ASSUME TypeOK, NEW r \in Requests, NEW n \in Names
    PROVE  /\ \A s \in {"create_team", "create_namespace", "create_commit"} :
                  At(r, n, s) => request[r] \in Create
           /\ \A s \in {"add", "remove_guard", "remove", "update_guard", "update"} :
                  At(r, n, s) => request[r] \in Change
           /\ \A s \in {"disband_collect", "disband_delete", "disband_commit"} :
                  At(r, n, s) => request[r] \in Disband
  BY DEF TypeOK, At, Idle, Create, Change, Disband, Upload

\* Of the steps, one only is an uncommitted creation's.
LEMMA BeginWork ==
    ASSUME TypeOK, NEW r \in Requests, NEW record \in Work, Begin(r, record),
           record.step # "create_commit"
    PROVE  /\ request' \in [Requests -> Work]
           /\ \A q \in Requests : Inserted(q)' => Inserted(q)
  BY DEF TypeOK, Begin, Inserted, Work

LEMMA DoneWork ==
    ASSUME TypeOK, NEW r \in Requests, Done(r)
    PROVE  /\ request' \in [Requests -> Work]
           /\ \A q \in Requests : Inserted(q)' => Inserted(q) /\ q # r
  BY DEF TypeOK, Done, Inserted, Work, Idle

LEMMA GotoWork ==
    ASSUME TypeOK, NEW r \in Requests, NEW step, Goto(r, step),
           \/ request[r] \in Create /\ step \in {"create_namespace", "create_commit"}
           \/ request[r] \in Change /\ step \in {"remove", "update"}
           \/ request[r] \in Disband /\ step = "disband_commit"
    PROVE  /\ request' \in [Requests -> Work]
           /\ \A q \in Requests : Inserted(q)' => Inserted(q) \/ (q = r /\ step = "create_commit")
<1> DEFINE there == [request[r] EXCEPT !.step = step]
<1>1. there \in Work /\ there.step = step
  <2>1. CASE request[r] \in Create BY <2>1 DEF Create, Change, Disband, Work
  <2>2. CASE request[r] \in Change BY <2>2 DEF Create, Change, Disband, Work
  <2>3. CASE request[r] \in Disband BY <2>3 DEF Create, Change, Disband, Work
  <2> QED BY <2>1, <2>2, <2>3
<1>2. request' = [request EXCEPT ![r] = there] /\ request \in [Requests -> Work]
  BY DEF Goto, TypeOK, Work
<1> HIDE DEF there
<1> QED BY <1>1, <1>2 DEF Inserted

\* One membership is written, all others stay.
LEMMA InsertRow ==
    ASSUME TypeOK, NEW n \in Names, NEW u \in Users,
           NEW new \in {"none", "member", "owner"}, NEW id \in 0 .. MaxRows,
           InsertMember(n, u, new, id)
    PROVE  /\ role' \in [Names -> [Users -> {"none", "member", "owner"}]]
           /\ rowId' \in [Names -> [Users -> 0 .. MaxRows]]
           /\ role'[n][u] = new
           /\ \A m \in Names, v \in Users : m # n \/ v # u => role'[m][v] = role[m][v]
  BY DEF InsertMember, TypeOK

\* Only the team that gets a row needs to exist.
LEMMA RowOfATeam ==
    ASSUME TypeOK, NoOrphans, UNCHANGED team, NEW n \in Names, NEW u \in Users, team[n],
           NEW new \in {"none", "member", "owner"}, NEW id \in 0 .. MaxRows,
           InsertMember(n, u, new, id)
    PROVE  \A m \in Names, v \in Users : ~team[m] => role'[m][v] = "none"
<1>1. \A m \in Names, v \in Users : m # n \/ v # u => role'[m][v] = role[m][v]
  BY InsertRow
<1>. QED  BY <1>1 DEF NoOrphans

-----------------------------------------------------------------------------

LEMMA InitInv == Init => Inv
<1> SUFFICES ASSUME Init PROVE Inv OBVIOUS
<1>1. TypeOK BY RowsAssumption DEF Init, TypeOK, Idle
<1>2. NamespaceFollows BY NoneAssumption DEF Init, NamespaceFollows
<1>3. OneInserts BY DEF Init, OneInserts, Inserted, Idle
<1>4. NoOrphans /\ PackagesKeepTheirTeam BY DEF Init, NoOrphans, PackagesKeepTheirTeam
<1> QED BY <1>1, <1>2, <1>3, <1>4 DEF Inv

\* A step that only moves a request and inserts no namespace.
LEMMA MoveKeepsInv ==
    ASSUME Inv, UNCHANGED db, request' \in [Requests -> Work],
           \A q \in Requests : Inserted(q)' => Inserted(q)
    PROVE  Inv'
<1> USE DEF Inv, db
<1>1. TypeOK' BY DEF TypeOK, Work
<1>2. NamespaceFollows' /\ NoOrphans' /\ PackagesKeepTheirTeam'
  BY DEF NamespaceFollows, NoOrphans, PackagesKeepTheirTeam
<1>3. OneInserts' BY DEF OneInserts
<1> QED BY <1>1, <1>2, <1>3

LEMMA CreatingKeepsInv ==
    ASSUME Inv, NEW r \in Requests, NEW n \in Names, Creating(r, n)
    PROVE  Inv'
<1> USE DEF Inv
<1>1. ASSUME NEW agent \in Users, CreateBegin(r, n, agent) PROVE Inv'
  <2> DEFINE record == [step |-> "create_team", team |-> n, agent |-> agent]
  <2>1. record \in Work /\ record.step # "create_commit" BY DEF Work, Create
  <2>2. Begin(r, record) /\ UNCHANGED db BY <1>1 DEF CreateBegin
  <2> HIDE DEF record
  <2> QED BY <2>1, <2>2, BeginWork, MoveKeepsInv
<1>2. CASE CreateTeamRow(r, n)
  <2>1. request[r] \in Create /\ UNCHANGED db BY <1>2, WorkAt DEF CreateTeamRow
  <2>2. CASE Done(r) BY <2>1, <2>2, DoneWork, MoveKeepsInv
  <2>3. CASE Goto(r, "create_namespace")
    <3>1. /\ request' \in [Requests -> Work]
          /\ \A q \in Requests : Inserted(q)' => Inserted(q)
      BY <2>1, <2>3, GotoWork
    <3> QED BY <2>1, <3>1, MoveKeepsInv
  <2> QED BY <1>2, <2>2, <2>3 DEF CreateTeamRow
<1>3. CASE CreateNamespace(r, n)
  <2>1. request[r] \in Create /\ UNCHANGED db BY <1>3, WorkAt DEF CreateNamespace
  <2>2. CASE Done(r) BY <2>1, <2>2, DoneWork, MoveKeepsInv
  <2>3. CASE Goto(r, "create_commit") /\ namespace = None
    <3>1. \A q \in Requests : ~Inserted(q)
      <4> SUFFICES ASSUME NEW q \in Requests, Inserted(q) PROVE FALSE OBVIOUS
      <4>1. request[q] \in Create
        <5>1. request[q].step = "create_commit" BY DEF Inserted
        <5>2. request[q] # Idle /\ request[q] \notin Upload BY <5>1 DEF Idle, Upload
        <5>3. request[q] \notin Change BY <5>1 DEF Change
        <5>4. request[q] \notin Disband BY <5>1 DEF Disband
        <5> QED BY <5>2, <5>3, <5>4 DEF TypeOK
      <4>2. At(q, request[q].team, "create_commit") /\ request[q].team \in Names
        BY <4>1 DEF Inserted, At, Create
      <4> QED BY <1>3, <4>2 DEF CreateNamespace
    <3>2. /\ request' \in [Requests -> Work]
          /\ \A q \in Requests : Inserted(q)' => Inserted(q) \/ q = r
      BY <2>1, <2>3, GotoWork
    <3>3. OneInserts' BY <2>1, <2>3, <3>1, <3>2 DEF OneInserts, db
    <3>4. TypeOK' BY <2>1, <3>2 DEF TypeOK, Work, db
    <3>5. NamespaceFollows' /\ NoOrphans' /\ PackagesKeepTheirTeam'
      BY <2>1 DEF NamespaceFollows, NoOrphans, PackagesKeepTheirTeam, db
    <3> QED BY <3>3, <3>4, <3>5
  <2> QED BY <1>3, <2>2, <2>3 DEF CreateNamespace
<1>4. CASE CreateCommit(r, n)
  <2>1. /\ Done(r) /\ UNCHANGED <<packages, account>>
        /\ At(r, n, "create_commit") /\ request[r] \in Create /\ lastId < MaxRows
    BY <1>4, WorkAt DEF CreateCommit
  <2>2. /\ request' \in [Requests -> Work]
        /\ \A q \in Requests : Inserted(q)' => Inserted(q) /\ q # r
    BY <2>1, DoneWork
  <2>3. namespace = None /\ \A q \in Requests : ~Inserted(q)'
    BY <2>1, <2>2 DEF OneInserts, Inserted, At
  <2>4. CASE UNCHANGED <<team, namespace, role, rowId, lastId>>
    BY <2>1, <2>2, <2>4, MoveKeepsInv DEF db
  <2>5. CASE /\ team' = [team EXCEPT ![n] = TRUE]
             /\ namespace' = n
             /\ InsertMember(n, request[r].agent, "owner", lastId + 1)
             /\ lastId' = lastId + 1
    <3>1. TypeOK'
      BY <2>1, <2>2, <2>5, RowsAssumption DEF TypeOK, Work, InsertMember, Create
    <3>2. NamespaceFollows'
      BY <2>3, <2>5, NoneAssumption DEF NamespaceFollows, TypeOK
    <3>3. OneInserts' BY <2>3 DEF OneInserts
    <3>4. NoOrphans' BY <2>1, <2>5 DEF NoOrphans, InsertMember, TypeOK, Create
    <3>5. PackagesKeepTheirTeam' BY <2>1, <2>5 DEF PackagesKeepTheirTeam, TypeOK
    <3> QED BY <3>1, <3>2, <3>3, <3>4, <3>5
  <2> QED BY <1>4, <2>4, <2>5 DEF CreateCommit
<1> QED BY <1>1, <1>2, <1>3, <1>4 DEF Creating

-----------------------------------------------------------------------------

\* The steps that write memberships and leave teams and packages alone: of a user
\* without a membership they make a member only while the team's row is there.
LEMMA MembershipKeepsInv ==
    ASSUME Inv, NEW r \in Requests, Done(r), UNCHANGED <<team, namespace, packages, account>>,
           lastId' \in 0 .. MaxRows,
           rowId' \in [Names -> [Users -> 0 .. MaxRows]],
           role' \in [Names -> [Users -> {"none", "member", "owner"}]],
           \A n \in Names, u \in Users : ~team[n] => role'[n][u] = "none"
    PROVE  Inv'
<1> USE DEF Inv
<1>1. /\ request' \in [Requests -> Work]
      /\ \A q \in Requests : Inserted(q)' => Inserted(q) /\ q # r
  BY DoneWork
<1>2. TypeOK' BY <1>1 DEF TypeOK, Work
<1>3. NamespaceFollows' /\ PackagesKeepTheirTeam'
  BY DEF NamespaceFollows, PackagesKeepTheirTeam
<1>4. OneInserts' BY <1>1 DEF OneInserts
<1>5. NoOrphans' BY DEF NoOrphans
<1> QED BY <1>2, <1>3, <1>4, <1>5

LEMMA ChangeRecordWork ==
    ASSUME TypeOK, NEW n \in Names, NEW u \in Users, NEW new \in {"member", "owner"},
           NEW s \in {"add", "remove_guard", "update_guard"}
    PROVE  /\ ChangeRecord(s, n, u, new) \in Work
           /\ ChangeRecord(s, n, u, new).step # "create_commit"
  BY DEF ChangeRecord, Work, Change, TypeOK

LEMMA ChangingKeepsInv ==
    ASSUME Inv, NEW r \in Requests, NEW n \in Names, ChangingMembers(r, n)
    PROVE  Inv'
<1> USE DEF Inv
<1>1. ASSUME NEW agent \in Users, NEW u \in Users, NEW new \in {"member", "owner"},
             AddBegin(r, n, agent, u, new) \/ UpdateBegin(r, n, agent, u, new)
      PROVE  Inv'
  <2>1. PICK s \in {"add", "update_guard"} : Begin(r, ChangeRecord(s, n, u, new))
    BY <1>1 DEF AddBegin, UpdateBegin
  <2>2. UNCHANGED db BY <1>1 DEF AddBegin, UpdateBegin
  <2> QED BY <2>1, <2>2, ChangeRecordWork, BeginWork, MoveKeepsInv
<1>2. ASSUME NEW agent \in Users, NEW u \in Users, RemoveBegin(r, n, agent, u) PROVE Inv'
  <2>1. Begin(r, ChangeRecord("remove_guard", n, u, "member")) /\ UNCHANGED db
    BY <1>2 DEF RemoveBegin
  <2> QED BY <2>1, ChangeRecordWork, BeginWork, MoveKeepsInv
<1>3. CASE AddMember(r, n)
  <2> DEFINE u == request[r].user
  <2>1. request[r] \in Change BY <1>3, WorkAt DEF AddMember
  <2>2. u \in Users /\ request[r].role \in {"member", "owner"} BY <2>1 DEF Change
  <2>3. /\ Done(r) /\ UNCHANGED <<team, namespace, packages, account>>
        /\ lastId < MaxRows
    BY <1>3 DEF AddMember
  <2>4. \/ /\ team[n] /\ InsertMember(n, u, request[r].role, lastId + 1)
           /\ lastId' = lastId + 1
        \/ UNCHANGED <<role, rowId, lastId>>
    BY <1>3 DEF AddMember
  <2> HIDE DEF u
  <2>5. /\ lastId' \in 0 .. MaxRows
        /\ rowId' \in [Names -> [Users -> 0 .. MaxRows]]
        /\ role' \in [Names -> [Users -> {"none", "member", "owner"}]]
    <3>1. lastId + 1 \in 0 .. MaxRows BY <2>3, RowsAssumption DEF TypeOK
    <3> QED BY <2>2, <2>4, <3>1, InsertRow DEF TypeOK
  <2>6. \A m \in Names, v \in Users : ~team[m] => role'[m][v] = "none"
    <3>1. lastId + 1 \in 0 .. MaxRows BY <2>3, RowsAssumption DEF TypeOK
    <3>2. CASE team[n] /\ InsertMember(n, u, request[r].role, lastId + 1)
      BY <2>2, <2>3, <3>1, <3>2, RowOfATeam
    <3>3. CASE UNCHANGED <<role, rowId, lastId>> BY <2>3, <3>3 DEF NoOrphans
    <3> QED BY <2>4, <3>2, <3>3
  <2> QED BY <2>3, <2>5, <2>6, MembershipKeepsInv
<1>4. CASE RemoveGuard(r, n)
  <2>1. request[r] \in Change /\ UNCHANGED db BY <1>4, WorkAt DEF RemoveGuard
  <2>2. CASE Done(r) BY <2>1, <2>2, DoneWork, MoveKeepsInv
  <2>3. CASE Goto(r, "remove") BY <2>1, <2>3, GotoWork, MoveKeepsInv
  <2> QED BY <1>4, <2>2, <2>3 DEF RemoveGuard
<1>5. CASE RemoveMember(r, n)
  <2> DEFINE u == request[r].user
  <2>1. request[r] \in Change BY <1>5, WorkAt DEF RemoveMember
  <2>2. u \in Users BY <2>1 DEF Change
  <2>3. Done(r) /\ UNCHANGED <<team, namespace, packages, account, lastId>>
    BY <1>5 DEF RemoveMember
  <2>4. DeleteMember(n, u) \/ UNCHANGED <<role, rowId>> BY <1>5 DEF RemoveMember
  <2> HIDE DEF u
  <2>5. /\ lastId' \in 0 .. MaxRows
        /\ rowId' \in [Names -> [Users -> 0 .. MaxRows]]
        /\ role' \in [Names -> [Users -> {"none", "member", "owner"}]]
    <3>1. 0 \in 0 .. MaxRows BY RowsAssumption
    <3> QED BY <2>2, <2>3, <2>4, <3>1, InsertRow DEF DeleteMember, TypeOK
  <2>6. \A m \in Names, v \in Users : ~team[m] => role'[m][v] = "none"
    <3>1. 0 \in 0 .. MaxRows BY RowsAssumption
    <3> QED BY <2>2, <2>4, <3>1, InsertRow DEF DeleteMember, NoOrphans
  <2> QED BY <2>3, <2>5, <2>6, MembershipKeepsInv
<1>6. CASE UpdateGuard(r, n)
  <2>1. request[r] \in Change /\ UNCHANGED db BY <1>6, WorkAt DEF UpdateGuard
  <2>2. CASE Done(r) BY <2>1, <2>2, DoneWork, MoveKeepsInv
  <2>3. CASE Goto(r, "update") BY <2>1, <2>3, GotoWork, MoveKeepsInv
  <2> QED BY <1>6, <2>2, <2>3 DEF UpdateGuard
<1>7. CASE UpdateMember(r, n)
  <2> DEFINE u == request[r].user
  <2>1. request[r] \in Change BY <1>7, WorkAt DEF UpdateMember
  <2>2. /\ u \in Users /\ request[r].role \in {"member", "owner"}
        /\ request[r].id \in 0 .. MaxRows
    BY <2>1 DEF Change
  <2>3. Done(r) /\ UNCHANGED <<team, namespace, packages, account, lastId>>
    BY <1>7 DEF UpdateMember
  <2>4. \/ /\ role[n][u] # "none"
           /\ role' = [role EXCEPT ![n][u] = request[r].role] /\ UNCHANGED rowId
        \/ team[n] /\ InsertMember(n, u, request[r].role, request[r].id)
        \/ UNCHANGED <<role, rowId>>
    BY <1>7 DEF UpdateMember, Members
  <2> HIDE DEF u
  <2>5. /\ lastId' \in 0 .. MaxRows
        /\ rowId' \in [Names -> [Users -> 0 .. MaxRows]]
        /\ role' \in [Names -> [Users -> {"none", "member", "owner"}]]
    <3>1. CASE team[n] /\ InsertMember(n, u, request[r].role, request[r].id)
      BY <2>2, <2>3, <3>1, InsertRow DEF TypeOK
    <3>2. CASE role' = [role EXCEPT ![n][u] = request[r].role] /\ UNCHANGED rowId
      BY <2>2, <2>3, <3>2 DEF TypeOK
    <3>3. CASE UNCHANGED <<role, rowId>> BY <2>3, <3>3 DEF TypeOK
    <3> QED BY <2>4, <3>1, <3>2, <3>3
  <2>6. \A m \in Names, v \in Users : ~team[m] => role'[m][v] = "none"
    <3>1. CASE team[n] /\ InsertMember(n, u, request[r].role, request[r].id)
      BY <2>2, <2>3, <3>1, RowOfATeam
    <3>2. CASE role[n][u] # "none" /\ role' = [role EXCEPT ![n][u] = request[r].role]
      BY <2>2, <3>2 DEF NoOrphans, TypeOK
    <3>3. CASE UNCHANGED <<role, rowId>> BY <3>3 DEF NoOrphans
    <3> QED BY <2>4, <3>1, <3>2, <3>3
  <2> QED BY <2>3, <2>5, <2>6, MembershipKeepsInv
<1> QED BY <1>1, <1>2, <1>3, <1>4, <1>5, <1>6, <1>7 DEF ChangingMembers

-----------------------------------------------------------------------------

LEMMA DisbandingKeepsInv ==
    ASSUME Inv, NEW r \in Requests, NEW n \in Names, Disbanding(r, n)
    PROVE  Inv'
<1> USE DEF Inv
<1>1. ASSUME NEW agent \in Users, DisbandBegin(r, n, agent) PROVE Inv'
  <2> DEFINE record == [step |-> "disband_collect", team |-> n, members |-> {}]
  <2>1. record \in Work /\ record.step # "create_commit" BY DEF Work, Disband
  <2>2. Begin(r, record) /\ UNCHANGED db BY <1>1 DEF DisbandBegin
  <2> HIDE DEF record
  <2> QED BY <2>1, <2>2, BeginWork, MoveKeepsInv
<1>2. CASE DisbandCollect(r, n)
  <2>1. request[r] \in Disband /\ UNCHANGED db BY <1>2, WorkAt DEF DisbandCollect
  <2>2. CASE Done(r) BY <2>1, <2>2, DoneWork, MoveKeepsInv
  <2>3. CASE request' = [request EXCEPT ![r].step = "disband_delete", ![r].members = Members(n)]
    <3> DEFINE there == [request[r] EXCEPT !.step = "disband_delete", !.members = Members(n)]
    <3>1. there \in Work /\ there.step = "disband_delete"
      BY <2>1 DEF Disband, Work, Members
    <3>2. request' = [request EXCEPT ![r] = there] /\ request \in [Requests -> Work]
      BY <2>3 DEF TypeOK, Work
    <3> HIDE DEF there
    <3>3. /\ request' \in [Requests -> Work]
          /\ \A q \in Requests : Inserted(q)' => Inserted(q)
      BY <3>1, <3>2 DEF Inserted
    <3> QED BY <2>1, <3>3, MoveKeepsInv
  <2> QED BY <1>2, <2>2, <2>3 DEF DisbandCollect
<1>3. CASE DisbandDelete(r, n)
  <2>1. request[r] \in Disband /\ UNCHANGED db BY <1>3, WorkAt DEF DisbandDelete
  <2>2. CASE Done(r) BY <2>1, <2>2, DoneWork, MoveKeepsInv
  <2>3. CASE Goto(r, "disband_commit") BY <2>1, <2>3, GotoWork, MoveKeepsInv
  <2> QED BY <1>3, <2>2, <2>3 DEF DisbandDelete
<1>4. CASE DisbandCommit(r, n)
  <2>1. Done(r) /\ UNCHANGED <<packages, account, lastId>> BY <1>4 DEF DisbandCommit
  <2>2. /\ request' \in [Requests -> Work]
        /\ \A q \in Requests : Inserted(q)' => Inserted(q) /\ q # r
    BY <2>1, DoneWork
  <2>3. CASE UNCHANGED <<team, namespace, role, rowId>>
    BY <2>1, <2>2, <2>3, MoveKeepsInv DEF db
  <2>4. CASE /\ ~packages[n]
             /\ team' = [team EXCEPT ![n] = FALSE]
             /\ namespace' = IF namespace = n THEN None ELSE namespace
             /\ role' = [role EXCEPT ![n] = [u \in Users |-> "none"]]
             /\ rowId' = [rowId EXCEPT ![n] = [u \in Users |-> 0]]
    <3>1. TypeOK' BY <2>1, <2>2, <2>4, RowsAssumption DEF TypeOK, Work
    <3>2. NamespaceFollows' BY <2>4, NoneAssumption DEF NamespaceFollows, TypeOK
    <3>3. OneInserts' BY <2>2, <2>4 DEF OneInserts
    <3>4. NoOrphans' BY <2>4 DEF NoOrphans, TypeOK
    <3>5. PackagesKeepTheirTeam' BY <2>1, <2>4 DEF PackagesKeepTheirTeam, TypeOK
    <3> QED BY <3>1, <3>2, <3>3, <3>4, <3>5
  <2> QED BY <1>4, <2>3, <2>4 DEF DisbandCommit
<1> QED BY <1>1, <1>2, <1>3, <1>4 DEF Disbanding

LEMMA UploadingKeepsInv ==
    ASSUME Inv, NEW r \in Requests, NEW n \in Names, Uploading(r, n)
    PROVE  Inv'
<1> USE DEF Inv
<1>1. ASSUME NEW agent \in Users, UploadBegin(r, n, agent) PROVE Inv'
  <2> DEFINE record == [step |-> "upload", team |-> n]
  <2>1. record \in Work /\ record.step # "create_commit" BY DEF Work, Upload
  <2>2. Begin(r, record) /\ UNCHANGED db BY <1>1 DEF UploadBegin
  <2> HIDE DEF record
  <2> QED BY <2>1, <2>2, BeginWork, MoveKeepsInv
<1>2. CASE UploadPackage(r, n)
  <2>1. /\ Done(r) /\ UNCHANGED <<team, namespace, role, rowId, account, lastId>>
        /\ packages' = [packages EXCEPT ![n] = @ \/ team[n]]
    BY <1>2 DEF UploadPackage
  <2>2. /\ request' \in [Requests -> Work]
        /\ \A q \in Requests : Inserted(q)' => Inserted(q) /\ q # r
    BY <2>1, DoneWork
  <2>3. packages' \in [Names -> BOOLEAN] /\ PackagesKeepTheirTeam'
    BY <2>1 DEF PackagesKeepTheirTeam, TypeOK
  <2>4. TypeOK' BY <2>1, <2>2, <2>3 DEF TypeOK, Work
  <2>5. NamespaceFollows' /\ NoOrphans' BY <2>1 DEF NamespaceFollows, NoOrphans
  <2>6. OneInserts' BY <2>1, <2>2 DEF OneInserts
  <2> QED BY <2>3, <2>4, <2>5, <2>6
<1> QED BY <1>1, <1>2 DEF Uploading

LEMMA DeleteAccountKeepsInv ==
    ASSUME Inv, NEW u \in Users, DeleteAccount(u)
    PROVE  Inv'
<1> USE DEF Inv, DeleteAccount
<1>1. TypeOK' BY RowsAssumption DEF TypeOK
<1>2. NamespaceFollows' /\ PackagesKeepTheirTeam'
  BY DEF NamespaceFollows, PackagesKeepTheirTeam
<1>3. OneInserts' BY DEF OneInserts, Inserted
<1>4. NoOrphans' BY DEF NoOrphans, TypeOK
<1> QED BY <1>1, <1>2, <1>3, <1>4

-----------------------------------------------------------------------------

\* The namespace follows the team, one creation commits at a time, and teams without
\* a row have neither members nor packages, in every reachable state.
THEOREM Invariance == Spec => []Inv
<1>1. Inv /\ [Next]_vars => Inv'
  <2> SUFFICES ASSUME Inv, [Next]_vars PROVE Inv' OBVIOUS
  <2>1. CASE UNCHANGED vars
    <3>1. /\ UNCHANGED db /\ request' \in [Requests -> Work]
          /\ \A q \in Requests : Inserted(q)' => Inserted(q)
      BY <2>1 DEF vars, Inv, TypeOK, Work, Inserted
    <3> QED BY <3>1, MoveKeepsInv
  <2>2. CASE \E r \in Requests, n \in Names :
                 Creating(r, n) \/ ChangingMembers(r, n) \/ Disbanding(r, n) \/ Uploading(r, n)
    BY <2>2, CreatingKeepsInv, ChangingKeepsInv, DisbandingKeepsInv, UploadingKeepsInv
  <2>3. CASE \E u \in Users : DeleteAccount(u) BY <2>3, DeleteAccountKeepsInv
  <2> QED BY <2>1, <2>2, <2>3 DEF Next
<1> QED BY InitInv, <1>1, PTL DEF Spec

\* Every column and every request keeps its type.
THEOREM TypesCorrect == Spec => []TypeOK
<1>1. Inv => TypeOK BY DEF Inv
<1> QED BY <1>1, Invariance, PTL

\* Two spellings of one name are never both teams, however many creations overlap.
THEOREM NamesUnique == Spec => []NamesUniqueIgnoringCase
<1>1. Inv => NamesUniqueIgnoringCase
  BY DEF Inv, NamespaceFollows, NamesUniqueIgnoringCase
<1> QED BY <1>1, Invariance, PTL

\* No disbanding takes the team of a package away.
THEOREM PackagesKeepTeam == Spec => []PackagesKeepTheirTeam
<1>1. Inv => PackagesKeepTheirTeam BY DEF Inv
<1> QED BY <1>1, Invariance, PTL

\* A disbanded team leaves neither members nor its namespace behind.
THEOREM NothingLeft == Spec => []DisbandedLeavesNothing
<1>1. Inv => DisbandedLeavesNothing
  BY DEF Inv, NamespaceFollows, NoOrphans, DisbandedLeavesNothing, Members
<1> QED BY <1>1, Invariance, PTL

-----------------------------------------------------------------------------
(* Without overlapping requests *)

EverybodyThere == \A u \in Users : account[u]

\* What the guard of a removal or a demotion has found still holds of the team.
GuardHolds ==
    EverybodyThere =>
        \A r \in Requests, n \in Names :
            /\ At(r, n, "remove") => ~IsLastOwner(n, request[r].user)
            /\ At(r, n, "update") =>
                   request[r].role = "owner" \/ ~IsLastOwner(n, request[r].user)

LEMMA GotoStep ==
    ASSUME TypeOK, NEW r \in Requests, NEW step, Goto(r, step),
           request[r] \in Create \cup Disband
    PROVE  request'[r].step = step
<1>1. request' = [request EXCEPT ![r] = [request[r] EXCEPT !.step = step]]
  BY DEF Goto
<1>. QED  BY <1>1 DEF TypeOK, Create, Disband

\* Past a guard are only the steps of a guard.
LEMMA GuardsOnly ==
    ASSUME TypeOK, NEW r \in Requests, NEW n \in Names,
           Creating(r, n) \/ ChangingMembers(r, n) \/ Disbanding(r, n) \/ Uploading(r, n)
    PROVE  \/ request'[r].step \notin {"remove", "update"}
           \/ RemoveGuard(r, n) /\ Goto(r, "remove")
           \/ UpdateGuard(r, n) /\ Goto(r, "update")
<1>1. CASE Creating(r, n)
  <2>1. CASE \E agent \in Users : CreateBegin(r, n, agent)
    BY <2>1 DEF CreateBegin, Begin, TypeOK
  <2>2. CASE CreateTeamRow(r, n) \/ CreateNamespace(r, n) \/ CreateCommit(r, n)
    <3>1. request[r] \in Create
      BY <2>2, WorkAt DEF CreateTeamRow, CreateNamespace, CreateCommit
    <3>2. Goto(r, "create_namespace") \/ Goto(r, "create_commit") \/ Done(r)
      BY <2>2 DEF CreateTeamRow, CreateNamespace, CreateCommit
    <3>3. CASE Done(r)
      BY <3>3 DEF Done, TypeOK, Idle
    <3>. QED  BY <3>1, <3>2, <3>3, GotoStep
  <2>. QED  BY <1>1, <2>1, <2>2 DEF Creating
<1>2. CASE ChangingMembers(r, n)
  BY <1>2 DEF TypeOK, Idle, At, ChangingMembers, AddBegin, UpdateBegin, RemoveBegin, AddMember, RemoveGuard,
              RemoveMember, UpdateGuard, UpdateMember, ChangeRecord, Begin, Done
<1>3. CASE Disbanding(r, n)
  <2>1. CASE \E agent \in Users : DisbandBegin(r, n, agent)
    BY <2>1 DEF DisbandBegin, Begin, TypeOK
  <2>2. CASE DisbandCollect(r, n)
    <3>1. request[r] \in Disband
      BY <2>2, WorkAt DEF DisbandCollect
    <3>2. CASE Done(r)
      BY <3>2 DEF Done, TypeOK, Idle
    <3>3. CASE request' = [request EXCEPT ![r].step = "disband_delete", ![r].members = Members(n)]
      <4>1. request'[r] = [request[r] EXCEPT !.step = "disband_delete", !.members = Members(n)]
        BY <3>3 DEF TypeOK
      <4>. QED  BY <3>1, <4>1 DEF Disband
    <3>. QED  BY <2>2, <3>2, <3>3 DEF DisbandCollect
  <2>3. CASE DisbandDelete(r, n) \/ DisbandCommit(r, n)
    <3>1. request[r] \in Disband
      BY <2>3, WorkAt DEF DisbandDelete, DisbandCommit
    <3>2. Goto(r, "disband_commit") \/ Done(r)
      BY <2>3 DEF DisbandDelete, DisbandCommit
    <3>3. CASE Done(r)
      BY <3>3 DEF Done, TypeOK, Idle
    <3>. QED  BY <3>1, <3>2, <3>3, GotoStep
  <2>. QED  BY <1>3, <2>1, <2>2, <2>3 DEF Disbanding
<1>4. CASE Uploading(r, n)
  BY <1>4 DEF TypeOK, Idle, Uploading, UploadBegin, UploadPackage, Begin, Done
<1>. QED  BY <1>1, <1>2, <1>3, <1>4

LEMMA UndisturbedStep ==
    ASSUME \A r, q \in Requests : r = q, TypeOK, GuardHolds, [Next]_vars
    PROVE  GuardHolds'
<1>1. ASSUME NEW r \in Requests, NEW n \in Names,
             Creating(r, n) \/ ChangingMembers(r, n) \/ Disbanding(r, n) \/ Uploading(r, n)
      PROVE  GuardHolds'
  <2>1. CASE request'[r].step \notin {"remove", "update"}
    BY <2>1 DEF GuardHolds, At
  <2>2. CASE RemoveGuard(r, n) /\ Goto(r, "remove")
    <3>1. UNCHANGED db /\ request[r] \in Change /\ At(r, n, "remove_guard")
      BY <2>2, WorkAt DEF RemoveGuard
    <3>2. request' = [request EXCEPT ![r] = [request[r] EXCEPT !.step = "remove"]]
      BY <2>2 DEF Goto
    <3>3. /\ request'[r].step = "remove" /\ request'[r].team = n
          /\ request'[r].user = request[r].user
      BY <3>1, <3>2 DEF TypeOK, Change, At
    <3>4. ~IsLastOwner(n, request[r].user)
      <4>1. ~Done(r)
        BY <3>3 DEF Done, TypeOK, Idle
      <4>. QED  BY <2>2, <4>1 DEF RemoveGuard
    <3>. QED  BY <3>1, <3>3, <3>4 DEF GuardHolds, At, IsLastOwner, Owners, db
  <2>3. CASE UpdateGuard(r, n) /\ Goto(r, "update")
    <3>1. UNCHANGED db /\ request[r] \in Change /\ At(r, n, "update_guard")
      BY <2>3, WorkAt DEF UpdateGuard
    <3>2. request' = [request EXCEPT ![r] = [request[r] EXCEPT !.step = "update"]]
      BY <2>3 DEF Goto
    <3>3. /\ request'[r].step = "update" /\ request'[r].team = n
          /\ request'[r].user = request[r].user /\ request'[r].role = request[r].role
      BY <3>1, <3>2 DEF TypeOK, Change, At
    <3>4. request[r].role = "owner" \/ ~IsLastOwner(n, request[r].user)
      <4>1. ~Done(r)
        BY <3>3 DEF Done, TypeOK, Idle
      <4>. QED  BY <2>3, <4>1 DEF UpdateGuard
    <3>. QED  BY <3>1, <3>3, <3>4 DEF GuardHolds, At, IsLastOwner, Owners, db
  <2>. QED  BY <1>1, <2>1, <2>2, <2>3, GuardsOnly
<1>2. ASSUME NEW u \in Users, DeleteAccount(u) PROVE GuardHolds'
  BY <1>2 DEF DeleteAccount, GuardHolds, EverybodyThere, TypeOK
<1>3. CASE UNCHANGED vars
  BY <1>3 DEF vars, db, GuardHolds, EverybodyThere, At, IsLastOwner, Owners
<1>. QED  BY <1>1, <1>2, <1>3 DEF Next

\* Beside an owner who is not the last there is another.
LEMMA AnotherOwner ==
    ASSUME IsFiniteSet(Users), NEW n \in Names, NEW u \in Users,
           Owners(n) # {}, ~IsLastOwner(n, u)
    PROVE  \E v \in Owners(n) : v # u
<1>. SUFFICES ASSUME \A v \in Owners(n) : v = u PROVE FALSE
  OBVIOUS
<1>1. Owners(n) = {u}
  OBVIOUS
<1>2. Cardinality(Owners(n)) = 1
  BY <1>1, FS_Singleton
<1>. QED  BY <1>1, <1>2 DEF IsLastOwner

LEMMA OwnerLeft ==
    ASSUME IsFiniteSet(Users), TypeOK, GuardHolds, EverybodyThere,
           NEW r \in Requests, NEW n \in Names, Owners(n) # {},
           RemoveMember(r, n) \/ UpdateMember(r, n)
    PROVE  Owners(n)' # {}
<1>. DEFINE u == request[r].user
<1>1. request[r] \in Change /\ u \in Users
  <2>1. request[r] \in Change
    BY WorkAt DEF RemoveMember, UpdateMember
  <2>. QED  BY <2>1 DEF Change
<1>2. CASE RemoveMember(r, n)
  <2>1. ~IsLastOwner(n, u)
    BY <1>2 DEF GuardHolds, RemoveMember
  <2>2. PICK v \in Owners(n) : v # u
    BY <1>1, <2>1, AnotherOwner
  <2>3. role'[n][v] = role[n][v]
    BY <1>1, <1>2, <2>2 DEF RemoveMember, DeleteMember, InsertMember, TypeOK, Owners
  <2>. QED  BY <2>2, <2>3 DEF Owners
<1>3. CASE UpdateMember(r, n)
  <2>1. request[r].role = "owner" \/ ~IsLastOwner(n, u)
    BY <1>3 DEF GuardHolds, UpdateMember
  <2>2. \A v \in Users : role'[n][v] = role[n][v] \/ (v = u /\ role'[n][v] = request[r].role)
    BY <1>1, <1>3 DEF UpdateMember, InsertMember, TypeOK
  <2>3. CASE request[r].role = "owner"
    BY <2>2, <2>3 DEF Owners
  <2>4. CASE ~IsLastOwner(n, u)
    <3>1. PICK v \in Owners(n) : v # u
      BY <1>1, <2>4, AnotherOwner
    <3>. QED  BY <2>2, <3>1 DEF Owners
  <2>. QED  BY <2>1, <2>3, <2>4
<1>. QED  BY <1>2, <1>3

\* remove_team_member, update_team_member: where no two requests overlap, their guards do
\* keep an owner, whatever accounts are deleted.  The overlap of two requests is all there
\* is to the counterexample of LastOwnerStays.
THEOREM LastOwnerStaysWithOneAtATime ==
    ASSUME IsFiniteSet(Users), \A r, q \in Requests : r = q
    PROVE  Spec => LastOwnerStays
<1>1. Init => GuardHolds
  BY DEF Init, GuardHolds, At, Idle
<1>2. TypeOK /\ GuardHolds /\ [Next]_vars => GuardHolds'
  BY UndisturbedStep
<1>3. TypeOK /\ GuardHolds =>
          [\A r \in Requests, n \in Names :
               /\ RemoveMember(r, n) \/ UpdateMember(r, n)
               /\ Owners(n) # {}
               /\ \A u \in Users : account[u]
               => Owners(n)' # {}]_vars
  BY OwnerLeft DEF EverybodyThere
<1>. QED  BY <1>1, <1>2, <1>3, TypesCorrect, PTL DEF Spec, LastOwnerStays

=============================================================================
