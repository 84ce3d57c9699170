------------------------- MODULE PackageReleasesProofs -------------------------
(***************************************************************************)
(* Proofs about PackageReleases, for any versions and any number of        *)
(* overlapping transactions.                                               *)
(***************************************************************************)
EXTENDS PackageReleases, TLAPS

-----------------------------------------------------------------------------
(* The inductive invariant *)

Uploading(r) ==
    AtStep(r, "upload_insert") \/ AtStep(r, "upload_recache") \/ AtStep(r, "upload_commit")

Editing(r) ==
    AtStep(r, "edit_save") \/ AtStep(r, "edit_recache") \/ AtStep(r, "edit_commit")

\* The lock that the first UPDATE of the package takes is exclusive.
OneHolder == \A r, q \in Transactions : Holds(r) /\ Holds(q) => r = q

\* An upload always has a version; an edit only changes one that is there.
VersionsAtHand ==
    \A r \in Transactions :
        /\ Uploading(r) => work[r].version # 0
        /\ Editing(r) /\ work[r].version # 0 =>
               versions[work[r].version] # "absent"

\* However old a copy is, its latest has been released, or is the version that
\* the transaction itself is about to release.
CopiesReleased ==
    \A r \in Transactions :
        work[r] # NoWork /\ work[r].copy.latest # 0 =>
            \/ versions[work[r].copy.latest] # "absent"
            \/ AtStep(r, "upload_commit") /\ work[r].copy.latest = work[r].version

\* What recache_latest has found stays right until the transaction commits.
RecachedRight ==
    \A r \in Transactions :
        (AtStep(r, "upload_commit") \/ AtStep(r, "edit_commit")) /\ work[r].version # 0 =>
            work[r].copy.latest = Newest(Changed(r))

IInv ==
    /\ ReleasesTypeOK
    /\ OneHolder
    /\ VersionsAtHand
    /\ CopiesReleased
    /\ RecachedRight
    /\ LatestIsReleased
    /\ NoEmptyPackage

-----------------------------------------------------------------------------
(* What the helpers return *)

\* available_versions.first() is None or one of the active versions.
LEMMA NewestIsActive ==
  ASSUME NEW released
  PROVE  /\ Newest(released) \in Versions \cup {0}
         /\ Newest(released) # 0 => released[Newest(released)] = "active"
<1> DEFINE active == {v \in Versions : released[v] = "active"}
<1>1. CASE active = {}
  BY <1>1 DEF Newest
<1>2. CASE active # {}
  <2>1. active \in SUBSET Versions
    OBVIOUS
  <2>2. \E v \in active : \A w \in active : w <= v
    BY <1>2, <2>1, VersionsAssumption
  <2>3. (CHOOSE v \in active : \A w \in active : w <= v) \in active
    BY <2>2, Zenon
  <2>4. Newest(released) \in active
    BY <1>2, <2>3 DEF Newest
  <2> QED  BY <2>4
<1> QED  BY <1>1, <1>2

\* A copy of the package stays one when its latest is worked out again.
LEMMA RecachedIsRow ==
  ASSUME NEW r \in Transactions, work[r] \in Work
  PROVE  Recached(r) \in Row
<1>1. Newest(Changed(r)) \in Versions \cup {0}
  BY NewestIsActive
<1> QED  BY <1>1 DEF Recached, Fields, Row, Work

-----------------------------------------------------------------------------
(* Every step keeps the inductive invariant *)

\* Every step keeps the types: no handler writes a column or a copy outside them.
LEMMA TypeOKStep ==
  ASSUME ReleasesTypeOK, [ReleasesNext]_releasesVars
  PROVE  ReleasesTypeOK'
<1> USE DEF ReleasesTypeOK, Row, Work, NoWork, New, Fields, Task, Start, Continue, Finish,
        AtStep
<1>1. ASSUME NEW r \in Transactions, NEW v \in Versions, UploadStart(r, v)
      PROVE  ReleasesTypeOK'
  BY <1>1 DEF UploadStart
<1>2. ASSUME NEW r \in Transactions, UploadInsert(r)
      PROVE  ReleasesTypeOK'
  <2>1. work[r] \in Work
    BY <1>2 DEF UploadInsert
  <2>2. Fields(work[r].copy.active, FALSE, work[r].copy.latest) \in Row
    BY <2>1
  <2>3. CASE versions[work[r].version] # "absent"
    BY <1>2, <2>3 DEF UploadInsert
  <2>4. CASE versions[work[r].version] = "absent"
    <3> DEFINE row == Fields(work[r].copy.active, FALSE, work[r].copy.latest)
    <3>1. Continue(r, "upload_recache", row)
      BY <1>2, <2>4 DEF UploadInsert
    <3> HIDE DEF row
    <3>2. work'[r] \in Work
      BY <2>1, <2>2, <3>1 DEF row
    <3> QED
      BY <1>2, <3>1, <3>2 DEF UploadInsert
  <2> QED
    BY <2>3, <2>4
<1>3. ASSUME NEW r \in Transactions, UploadRecache(r)
      PROVE  ReleasesTypeOK'
  <2>1. work[r] \in Work
    BY <1>3 DEF UploadRecache
  <2>2. Recached(r) \in Row
    BY <2>1, RecachedIsRow
  <2>3. work'[r] \in Work
    BY <1>3, <2>1, <2>2 DEF UploadRecache
  <2> QED
    BY <1>3, <2>3 DEF UploadRecache
<1>4. ASSUME NEW r \in Transactions, UploadCommit(r)
      PROVE  ReleasesTypeOK'
  <2>1. work[r] \in Work
    BY <1>4 DEF UploadCommit
  <2>2. versions' \in [Versions -> {"absent", "active", "inactive"}]
    BY <1>4, <2>1 DEF UploadCommit, Changed
  <2> QED
    BY <1>4, <2>1, <2>2 DEF UploadCommit
<1>5. ASSUME NEW r \in Transactions, NEW active \in BOOLEAN, NEW deprecated \in BOOLEAN,
              NEW v \in Versions \cup {0}, NEW state \in {"active", "inactive"},
              EditStart(r, active, deprecated, v, state)
      PROVE  ReleasesTypeOK'
  BY <1>5 DEF EditStart
<1>6. ASSUME NEW r \in Transactions, EditSave(r)
      PROVE  ReleasesTypeOK'
  BY <1>6 DEF EditSave
<1>7. ASSUME NEW r \in Transactions, EditRecache(r)
      PROVE  ReleasesTypeOK'
  <2>1. work[r] \in Work
    BY <1>7 DEF EditRecache
  <2>2. Recached(r) \in Row
    BY <2>1, RecachedIsRow
  <2>3. work'[r] \in Work
    BY <1>7, <2>1, <2>2 DEF EditRecache
  <2> QED
    BY <1>7, <2>3 DEF EditRecache
<1>8. ASSUME NEW r \in Transactions, EditCommit(r)
      PROVE  ReleasesTypeOK'
  <2>1. work[r] \in Work
    BY <1>8 DEF EditCommit
  <2>2. versions' \in [Versions -> {"absent", "active", "inactive"}]
    BY <1>8, <2>1 DEF EditCommit, Changed
  <2> QED
    BY <1>8, <2>1, <2>2 DEF EditCommit
<1>9. ASSUME NEW r \in Transactions, NEW v \in Versions, TouchStart(r, v)
      PROVE  ReleasesTypeOK'
  BY <1>9 DEF TouchStart
<1>10. ASSUME NEW r \in Transactions, TouchQuery(r)
       PROVE  ReleasesTypeOK'
  <2>1. work[r] \in Work
    BY <1>10 DEF TouchQuery
  <2>2. Newest(versions) \in Versions \cup {0}
    BY NewestIsActive
  <2> QED
    BY <1>10, <2>1, <2>2 DEF TouchQuery
<1>11. ASSUME NEW r \in Transactions, TouchSave(r)
       PROVE  ReleasesTypeOK'
  BY <1>11 DEF TouchSave
<1>12. ASSUME NEW r \in Transactions, Fails(r)
       PROVE  ReleasesTypeOK'
  BY <1>12 DEF Fails
<1>13. ASSUME NEW b \in BOOLEAN, SetActive(b) \/ SetDeprecated(b)
      PROVE  ReleasesTypeOK'
  BY <1>13 DEF SetActive, SetDeprecated
<1>14. CASE UNCHANGED releasesVars
  BY <1>14 DEF releasesVars
<1> HIDE DEF ReleasesTypeOK, Row, Work, NoWork, New, Fields, Task, Start, Continue, Finish,
        AtStep
<1> QED
  BY <1>1, <1>2, <1>3, <1>4, <1>5, <1>6, <1>7,
     <1>8, <1>9, <1>10, <1>11, <1>12, <1>13, <1>14
     DEF ReleasesNext, Uploads, Edits, Touches

\* Two transactions never hold the row lock of the package: each takes it only
\* when nobody has it.
LEMMA OneHolderStep ==
  ASSUME ReleasesTypeOK, OneHolder, [ReleasesNext]_releasesVars
  PROVE  OneHolder'
<1> USE DEF ReleasesTypeOK, Row, Work, NoWork, Fields, Task, Start, Continue, Finish, AtStep,
        OneHolder, Holds, PackageLocked
<1>1. ASSUME NEW r \in Transactions, NEW v \in Versions, UploadStart(r, v)
      PROVE  OneHolder'
  BY <1>1 DEF UploadStart
<1>2. ASSUME NEW r \in Transactions, UploadInsert(r)
      PROVE  OneHolder'
  BY <1>2 DEF UploadInsert
<1>3. ASSUME NEW r \in Transactions, UploadRecache(r)
      PROVE  OneHolder'
  BY <1>3 DEF UploadRecache
<1>4. ASSUME NEW r \in Transactions, UploadCommit(r)
      PROVE  OneHolder'
  BY <1>4 DEF UploadCommit
<1>5. ASSUME NEW r \in Transactions, NEW active \in BOOLEAN, NEW deprecated \in BOOLEAN,
              NEW v \in Versions \cup {0}, NEW state \in {"active", "inactive"},
              EditStart(r, active, deprecated, v, state)
      PROVE  OneHolder'
  BY <1>5 DEF EditStart
<1>6. ASSUME NEW r \in Transactions, EditSave(r)
      PROVE  OneHolder'
  BY <1>6 DEF EditSave
<1>7. ASSUME NEW r \in Transactions, EditRecache(r)
      PROVE  OneHolder'
  BY <1>7 DEF EditRecache
<1>8. ASSUME NEW r \in Transactions, EditCommit(r)
      PROVE  OneHolder'
  BY <1>8 DEF EditCommit
<1>9. ASSUME NEW r \in Transactions, NEW v \in Versions, TouchStart(r, v)
      PROVE  OneHolder'
  BY <1>9 DEF TouchStart
<1>10. ASSUME NEW r \in Transactions, TouchQuery(r)
       PROVE  OneHolder'
  BY <1>10 DEF TouchQuery
<1>11. ASSUME NEW r \in Transactions, TouchSave(r)
       PROVE  OneHolder'
  BY <1>11 DEF TouchSave
<1>12. ASSUME NEW r \in Transactions, Fails(r)
       PROVE  OneHolder'
  BY <1>12 DEF Fails
<1>13. ASSUME NEW b \in BOOLEAN, SetActive(b) \/ SetDeprecated(b)
      PROVE  OneHolder'
  BY <1>13 DEF SetActive, SetDeprecated
<1>14. CASE UNCHANGED releasesVars
  BY <1>14 DEF releasesVars
<1> HIDE DEF ReleasesTypeOK, Row, Work, NoWork, Fields, Task, Start, Continue, Finish, AtStep,
        OneHolder, Holds, PackageLocked
<1> QED
  BY <1>1, <1>2, <1>3, <1>4, <1>5, <1>6, <1>7,
     <1>8, <1>9, <1>10, <1>11, <1>12, <1>13, <1>14
     DEF ReleasesNext, Uploads, Edits, Touches

\* No release is ever taken back, so what an edit changes stays there.
LEMMA VersionsAtHandStep ==
  ASSUME ReleasesTypeOK, VersionsAtHand, [ReleasesNext]_releasesVars
  PROVE  VersionsAtHand'
<1> USE DEF ReleasesTypeOK, Row, Work, NoWork, Fields, Task, Start, Continue, Finish, AtStep,
        VersionsAtHand, Uploading, Editing, Changed
<1>1. ASSUME NEW r \in Transactions, NEW v \in Versions, UploadStart(r, v)
      PROVE  VersionsAtHand'
  BY <1>1, VersionsAssumption DEF UploadStart
<1>2. ASSUME NEW r \in Transactions, UploadInsert(r)
      PROVE  VersionsAtHand'
  BY <1>2 DEF UploadInsert
<1>3. ASSUME NEW r \in Transactions, UploadRecache(r)
      PROVE  VersionsAtHand'
  BY <1>3 DEF UploadRecache
<1>4. ASSUME NEW r \in Transactions, UploadCommit(r)
      PROVE  VersionsAtHand'
  BY <1>4 DEF UploadCommit
<1>5. ASSUME NEW r \in Transactions, NEW active \in BOOLEAN, NEW deprecated \in BOOLEAN,
              NEW v \in Versions \cup {0}, NEW state \in {"active", "inactive"},
              EditStart(r, active, deprecated, v, state)
      PROVE  VersionsAtHand'
  BY <1>5 DEF EditStart
<1>6. ASSUME NEW r \in Transactions, EditSave(r)
      PROVE  VersionsAtHand'
  BY <1>6 DEF EditSave
<1>7. ASSUME NEW r \in Transactions, EditRecache(r)
      PROVE  VersionsAtHand'
  BY <1>7 DEF EditRecache
<1>8. ASSUME NEW r \in Transactions, EditCommit(r)
      PROVE  VersionsAtHand'
  BY <1>8 DEF EditCommit
<1>9. ASSUME NEW r \in Transactions, NEW v \in Versions, TouchStart(r, v)
      PROVE  VersionsAtHand'
  BY <1>9 DEF TouchStart
<1>10. ASSUME NEW r \in Transactions, TouchQuery(r)
       PROVE  VersionsAtHand'
  BY <1>10 DEF TouchQuery
<1>11. ASSUME NEW r \in Transactions, TouchSave(r)
       PROVE  VersionsAtHand'
  BY <1>11 DEF TouchSave
<1>12. ASSUME NEW r \in Transactions, Fails(r)
       PROVE  VersionsAtHand'
  BY <1>12 DEF Fails
<1>13. ASSUME NEW b \in BOOLEAN, SetActive(b) \/ SetDeprecated(b)
      PROVE  VersionsAtHand'
  BY <1>13 DEF SetActive, SetDeprecated
<1>14. CASE UNCHANGED releasesVars
  BY <1>14 DEF releasesVars
<1> HIDE DEF ReleasesTypeOK, Row, Work, NoWork, Fields, Task, Start, Continue, Finish, AtStep,
        VersionsAtHand, Uploading, Editing, Changed
<1> QED
  BY <1>1, <1>2, <1>3, <1>4, <1>5, <1>6, <1>7,
     <1>8, <1>9, <1>10, <1>11, <1>12, <1>13, <1>14
     DEF ReleasesNext, Uploads, Edits, Touches

\* However long a transaction takes, the copy it holds stays one it may save.
LEMMA CopiesReleasedStep ==
  ASSUME ReleasesTypeOK, VersionsAtHand, CopiesReleased, LatestIsReleased,
         [ReleasesNext]_releasesVars
  PROVE  CopiesReleased'
<1> USE DEF ReleasesTypeOK, Row, Work, NoWork, Fields, Task, Start, Continue, Finish, AtStep,
        CopiesReleased, LatestIsReleased
<1>1. ASSUME NEW r \in Transactions, NEW v \in Versions, UploadStart(r, v)
      PROVE  CopiesReleased'
  BY <1>1 DEF UploadStart
<1>2. ASSUME NEW r \in Transactions, UploadInsert(r)
      PROVE  CopiesReleased'
  BY <1>2 DEF UploadInsert
<1>3. ASSUME NEW r \in Transactions, UploadRecache(r)
      PROVE  CopiesReleased'
  <2>1. work[r] \in Work
    BY <1>3 DEF UploadRecache
  <2>2. Recached(r) \in Row
    BY <2>1, RecachedIsRow
  <2>3. Recached(r).latest # 0 =>
             \/ versions[Recached(r).latest] # "absent"
             \/ Uploading(r) /\ Recached(r).latest = work[r].version
    <3>1. CASE work[r].version = 0
      BY <1>3, <2>1, <3>1 DEF UploadRecache, Recached
    <3>2. CASE work[r].version # 0
      <4> DEFINE newest == Newest(Changed(r))
      <4>1. newest \in Versions \cup {0} /\ (newest # 0 => Changed(r)[newest] = "active")
        BY NewestIsActive
      <4>2. Recached(r).latest = newest
        BY <3>2 DEF Recached
      <4> HIDE DEF newest
      <4> QED
        BY <1>3, <3>2, <4>1, <4>2 DEF UploadRecache, Changed, VersionsAtHand, Uploading, Editing
    <3> QED
      BY <3>1, <3>2
  <2> HIDE DEF Row, Fields
  <2> QED
    BY <1>3, <2>1, <2>2, <2>3 DEF UploadRecache, Uploading
<1>4. ASSUME NEW r \in Transactions, UploadCommit(r)
      PROVE  CopiesReleased'
  <2>1. work[r] \in Work
    BY <1>4 DEF UploadCommit
  <2>2. \A v \in Versions : versions[v] # "absent" => versions'[v] # "absent"
    BY <1>4, <2>1 DEF UploadCommit, Changed
  <2> QED
    BY <1>4, <2>1, <2>2 DEF UploadCommit
<1>5. ASSUME NEW r \in Transactions, NEW active \in BOOLEAN, NEW deprecated \in BOOLEAN,
              NEW v \in Versions \cup {0}, NEW state \in {"active", "inactive"},
              EditStart(r, active, deprecated, v, state)
      PROVE  CopiesReleased'
  BY <1>5 DEF EditStart
<1>6. ASSUME NEW r \in Transactions, EditSave(r)
      PROVE  CopiesReleased'
  BY <1>6 DEF EditSave
<1>7. ASSUME NEW r \in Transactions, EditRecache(r)
      PROVE  CopiesReleased'
  <2>1. work[r] \in Work
    BY <1>7 DEF EditRecache
  <2>2. Recached(r) \in Row
    BY <2>1, RecachedIsRow
  <2>3. Recached(r).latest # 0 =>
             \/ versions[Recached(r).latest] # "absent"
             \/ Uploading(r) /\ Recached(r).latest = work[r].version
    <3>1. CASE work[r].version = 0
      BY <1>7, <2>1, <3>1 DEF EditRecache, Recached
    <3>2. CASE work[r].version # 0
      <4> DEFINE newest == Newest(Changed(r))
      <4>1. newest \in Versions \cup {0} /\ (newest # 0 => Changed(r)[newest] = "active")
        BY NewestIsActive
      <4>2. Recached(r).latest = newest
        BY <3>2 DEF Recached
      <4> HIDE DEF newest
      <4> QED
        BY <1>7, <3>2, <4>1, <4>2 DEF EditRecache, Changed, VersionsAtHand, Uploading, Editing
    <3> QED
      BY <3>1, <3>2
  <2> HIDE DEF Row, Fields
  <2> QED
    BY <1>7, <2>1, <2>2, <2>3 DEF EditRecache, Uploading
<1>8. ASSUME NEW r \in Transactions, EditCommit(r)
      PROVE  CopiesReleased'
  <2>1. work[r] \in Work
    BY <1>8 DEF EditCommit
  <2>2. \A v \in Versions : versions[v] # "absent" => versions'[v] # "absent"
    BY <1>8, <2>1 DEF EditCommit, Changed
  <2> QED
    BY <1>8, <2>1, <2>2 DEF EditCommit
<1>9. ASSUME NEW r \in Transactions, NEW v \in Versions, TouchStart(r, v)
      PROVE  CopiesReleased'
  BY <1>9 DEF TouchStart
<1>10. ASSUME NEW r \in Transactions, TouchQuery(r)
       PROVE  CopiesReleased'
  <2>1. work[r] \in Work
    BY <1>10 DEF TouchQuery
  <2> DEFINE newest == Newest(versions)
  <2>2. newest \in Versions \cup {0} /\ (newest # 0 => versions[newest] = "active")
    BY NewestIsActive
  <2>3. \/ work'[r] = NoWork
        \/ work'[r].copy.latest = newest
    BY <1>10, <2>1 DEF TouchQuery
  <2>4. versions' = versions /\ \A q \in Transactions : q # r => work'[q] = work[q]
    BY <1>10 DEF TouchQuery
  <2> HIDE DEF newest
  <2> QED
    BY <1>10, <2>2, <2>3, <2>4
<1>11. ASSUME NEW r \in Transactions, TouchSave(r)
       PROVE  CopiesReleased'
  BY <1>11 DEF TouchSave
<1>12. ASSUME NEW r \in Transactions, Fails(r)
       PROVE  CopiesReleased'
  BY <1>12 DEF Fails
<1>13. ASSUME NEW b \in BOOLEAN, SetActive(b) \/ SetDeprecated(b)
      PROVE  CopiesReleased'
  BY <1>13 DEF SetActive, SetDeprecated
<1>14. CASE UNCHANGED releasesVars
  BY <1>14 DEF releasesVars
<1> HIDE DEF ReleasesTypeOK, Row, Work, NoWork, Fields, Task, Start, Continue, Finish, AtStep,
        CopiesReleased, LatestIsReleased
<1> QED
  BY <1>1, <1>2, <1>3, <1>4, <1>5, <1>6, <1>7,
     <1>8, <1>9, <1>10, <1>11, <1>12, <1>13, <1>14
     DEF ReleasesNext, Uploads, Edits, Touches

\* A recomputed latest stays right while nobody commits a change of the versions.
LEMMA RecachedStays ==
  ASSUME NEW r \in Transactions, versions' = versions,
         work'[r].version = work[r].version,
         work'[r].state = work[r].state
  PROVE  Newest(Changed(r))' = Newest(Changed(r))
<1>1. Changed(r)' = Changed(r)
  BY DEF Changed
<1> QED
  BY <1>1 DEF Newest

LEMMA RecachedRightKept ==
  ASSUME RecachedRight, versions' = versions,
         \A r \in Transactions : AtStep(r, "upload_commit")' \/ AtStep(r, "edit_commit")' =>
                                 work'[r] = work[r]
  PROVE  RecachedRight'
<1> SUFFICES ASSUME NEW r \in Transactions,
                    AtStep(r, "upload_commit")' \/ AtStep(r, "edit_commit")',
                    work'[r].version # 0
             PROVE  work'[r].copy.latest = Newest(Changed(r))'
  BY DEF RecachedRight
<1>1. work'[r] = work[r]
  OBVIOUS
<1>2. work[r].copy.latest = Newest(Changed(r))
  BY <1>1 DEF RecachedRight, AtStep
<1>3. Newest(Changed(r))' = Newest(Changed(r))
  BY <1>1, RecachedStays
<1> QED
  BY <1>1, <1>2, <1>3

\* Nobody else commits a change of the versions between a transaction's
\* recache_latest and its commit: that would need the lock it holds.
LEMMA RecachedRightStep ==
  ASSUME ReleasesTypeOK, OneHolder, RecachedRight, [ReleasesNext]_releasesVars
  PROVE  RecachedRight'
<1> USE DEF ReleasesTypeOK, Row, Work, NoWork, Fields, Task, Start, Continue, Finish, AtStep,
        OneHolder, Holds
<1>1. ASSUME NEW r \in Transactions, NEW v \in Versions, UploadStart(r, v)
      PROVE  RecachedRight'
  <2>1. versions' = versions
    BY <1>1 DEF UploadStart
  <2>2. \A q \in Transactions : AtStep(q, "upload_commit")' \/ AtStep(q, "edit_commit")' =>
                                work'[q] = work[q]
    BY <1>1 DEF UploadStart
  <2> QED
    BY <2>1, <2>2, RecachedRightKept
<1>2. ASSUME NEW r \in Transactions, UploadInsert(r)
      PROVE  RecachedRight'
  <2>1. versions' = versions
    BY <1>2 DEF UploadInsert
  <2>2. \A q \in Transactions : AtStep(q, "upload_commit")' \/ AtStep(q, "edit_commit")' =>
                                work'[q] = work[q]
    BY <1>2 DEF UploadInsert
  <2> QED
    BY <2>1, <2>2, RecachedRightKept
<1>3. ASSUME NEW r \in Transactions, UploadRecache(r)
      PROVE  RecachedRight'
  <2>1. work[r] \in Work /\ Holds(r)
    BY <1>3 DEF UploadRecache
  <2>2. work'[r] = Task("upload_commit", Recached(r), work[r].version, work[r].state)
    BY <1>3 DEF UploadRecache
  <2>3. versions' = versions /\ \A q \in Transactions : q # r => work'[q] = work[q]
    BY <1>3 DEF UploadRecache
  <2>4. \A q \in Transactions : q # r => ~Holds(q)
    BY <2>1
  <2>5. Newest(Changed(r))' = Newest(Changed(r))
    BY <2>2, <2>3, RecachedStays
  <2>6. work[r].version # 0 => work'[r].copy.latest = Newest(Changed(r))'
    BY <2>2, <2>5 DEF Recached
  <2>7. \A q \in Transactions :
             AtStep(q, "upload_commit")' \/ AtStep(q, "edit_commit")' => q = r
    BY <2>3, <2>4
  <2> QED
    BY <2>2, <2>6, <2>7 DEF RecachedRight
<1>4. ASSUME NEW r \in Transactions, UploadCommit(r)
      PROVE  RecachedRight'
  <2>1. work'[r] = NoWork /\ Holds(r)
    BY <1>4 DEF UploadCommit
  <2>2. \A q \in Transactions : q # r => work'[q] = work[q] /\ ~Holds(q)
    BY <1>4, <2>1 DEF UploadCommit
  <2>3. \A q \in Transactions : ~(AtStep(q, "upload_commit")' \/ AtStep(q, "edit_commit")')
    BY <2>1, <2>2
  <2> QED
    BY <2>3 DEF RecachedRight
<1>5. ASSUME NEW r \in Transactions, NEW active \in BOOLEAN, NEW deprecated \in BOOLEAN,
              NEW v \in Versions \cup {0}, NEW state \in {"active", "inactive"},
              EditStart(r, active, deprecated, v, state)
      PROVE  RecachedRight'
  <2>1. versions' = versions
    BY <1>5 DEF EditStart
  <2>2. \A q \in Transactions : AtStep(q, "upload_commit")' \/ AtStep(q, "edit_commit")' =>
                                work'[q] = work[q]
    BY <1>5 DEF EditStart
  <2> QED
    BY <2>1, <2>2, RecachedRightKept
<1>6. ASSUME NEW r \in Transactions, EditSave(r)
      PROVE  RecachedRight'
  <2>1. versions' = versions
    BY <1>6 DEF EditSave
  <2>2. \A q \in Transactions : AtStep(q, "upload_commit")' \/ AtStep(q, "edit_commit")' =>
                                work'[q] = work[q]
    BY <1>6 DEF EditSave
  <2> QED
    BY <2>1, <2>2, RecachedRightKept
<1>7. ASSUME NEW r \in Transactions, EditRecache(r)
      PROVE  RecachedRight'
  <2>1. work[r] \in Work /\ Holds(r)
    BY <1>7 DEF EditRecache
  <2>2. work'[r] = Task("edit_commit", Recached(r), work[r].version, work[r].state)
    BY <1>7 DEF EditRecache
  <2>3. versions' = versions /\ \A q \in Transactions : q # r => work'[q] = work[q]
    BY <1>7 DEF EditRecache
  <2>4. \A q \in Transactions : q # r => ~Holds(q)
    BY <2>1
  <2>5. Newest(Changed(r))' = Newest(Changed(r))
    BY <2>2, <2>3, RecachedStays
  <2>6. work[r].version # 0 => work'[r].copy.latest = Newest(Changed(r))'
    BY <2>2, <2>5 DEF Recached
  <2>7. \A q \in Transactions :
             AtStep(q, "upload_commit")' \/ AtStep(q, "edit_commit")' => q = r
    BY <2>3, <2>4
  <2> QED
    BY <2>2, <2>6, <2>7 DEF RecachedRight
<1>8. ASSUME NEW r \in Transactions, EditCommit(r)
      PROVE  RecachedRight'
  <2>1. work'[r] = NoWork /\ Holds(r)
    BY <1>8 DEF EditCommit
  <2>2. \A q \in Transactions : q # r => work'[q] = work[q] /\ ~Holds(q)
    BY <1>8, <2>1 DEF EditCommit
  <2>3. \A q \in Transactions : ~(AtStep(q, "upload_commit")' \/ AtStep(q, "edit_commit")')
    BY <2>1, <2>2
  <2> QED
    BY <2>3 DEF RecachedRight
<1>9. ASSUME NEW r \in Transactions, NEW v \in Versions, TouchStart(r, v)
      PROVE  RecachedRight'
  <2>1. versions' = versions
    BY <1>9 DEF TouchStart
  <2>2. \A q \in Transactions : AtStep(q, "upload_commit")' \/ AtStep(q, "edit_commit")' =>
                                work'[q] = work[q]
    BY <1>9 DEF TouchStart
  <2> QED
    BY <2>1, <2>2, RecachedRightKept
<1>10. ASSUME NEW r \in Transactions, TouchQuery(r)
       PROVE  RecachedRight'
  <2>1. versions' = versions
    BY <1>10 DEF TouchQuery
  <2>2. \A q \in Transactions : AtStep(q, "upload_commit")' \/ AtStep(q, "edit_commit")' =>
                                work'[q] = work[q]
    BY <1>10 DEF TouchQuery
  <2> QED
    BY <2>1, <2>2, RecachedRightKept
<1>11. ASSUME NEW r \in Transactions, TouchSave(r)
       PROVE  RecachedRight'
  <2>1. versions' = versions
    BY <1>11 DEF TouchSave
  <2>2. \A q \in Transactions : AtStep(q, "upload_commit")' \/ AtStep(q, "edit_commit")' =>
                                work'[q] = work[q]
    BY <1>11 DEF TouchSave
  <2> QED
    BY <2>1, <2>2, RecachedRightKept
<1>12. ASSUME NEW r \in Transactions, Fails(r)
       PROVE  RecachedRight'
  <2>1. versions' = versions
    BY <1>12 DEF Fails
  <2>2. \A q \in Transactions : AtStep(q, "upload_commit")' \/ AtStep(q, "edit_commit")' =>
                                work'[q] = work[q]
    BY <1>12 DEF Fails
  <2> QED
    BY <2>1, <2>2, RecachedRightKept
<1>13. ASSUME NEW b \in BOOLEAN, SetActive(b) \/ SetDeprecated(b)
      PROVE  RecachedRight'
  <2>1. versions' = versions
    BY <1>13 DEF SetActive, SetDeprecated
  <2>2. \A q \in Transactions : AtStep(q, "upload_commit")' \/ AtStep(q, "edit_commit")' =>
                                work'[q] = work[q]
    BY <1>13 DEF SetActive, SetDeprecated
  <2> QED
    BY <2>1, <2>2, RecachedRightKept
<1>14. CASE UNCHANGED releasesVars
  <2>1. versions' = versions
    BY <1>14 DEF releasesVars
  <2>2. \A q \in Transactions : AtStep(q, "upload_commit")' \/ AtStep(q, "edit_commit")' =>
                                work'[q] = work[q]
    BY <1>14 DEF releasesVars
  <2> QED
    BY <2>1, <2>2, RecachedRightKept
<1> HIDE DEF ReleasesTypeOK, Row, Work, NoWork, Fields, Task, Start, Continue, Finish, AtStep,
        OneHolder, Holds
<1> QED
  BY <1>1, <1>2, <1>3, <1>4, <1>5, <1>6, <1>7,
     <1>8, <1>9, <1>10, <1>11, <1>12, <1>13, <1>14
     DEF ReleasesNext, Uploads, Edits, Touches

\* What is committed points at released versions only, and comes with one.
LEMMA ReleasedStep ==
  ASSUME ReleasesTypeOK, VersionsAtHand, CopiesReleased, LatestIsReleased, NoEmptyPackage,
         [ReleasesNext]_releasesVars
  PROVE  LatestIsReleased' /\ NoEmptyPackage'
<1> USE DEF ReleasesTypeOK, Row, Work, NoWork, Fields, Task, Start, Continue, Finish, AtStep,
        CopiesReleased, LatestIsReleased, NoEmptyPackage
<1>1. ASSUME NEW r \in Transactions, NEW v \in Versions, UploadStart(r, v)
      PROVE  LatestIsReleased' /\ NoEmptyPackage'
  BY <1>1 DEF UploadStart
<1>2. ASSUME NEW r \in Transactions, UploadInsert(r)
      PROVE  LatestIsReleased' /\ NoEmptyPackage'
  BY <1>2 DEF UploadInsert
<1>3. ASSUME NEW r \in Transactions, UploadRecache(r)
      PROVE  LatestIsReleased' /\ NoEmptyPackage'
  BY <1>3 DEF UploadRecache
<1>4. ASSUME NEW r \in Transactions, UploadCommit(r)
      PROVE  LatestIsReleased' /\ NoEmptyPackage'
  <2>1. work[r] \in Work
    BY <1>4 DEF UploadCommit
  <2>2. work[r].version # 0
    BY <1>4 DEF UploadCommit, VersionsAtHand, Uploading
  <2>3. /\ versions'[work[r].version] # "absent"
        /\ \A v \in Versions : versions[v] # "absent" => versions'[v] # "absent"
    BY <1>4, <2>1, <2>2 DEF UploadCommit, Changed
  <2> QED
    BY <1>4, <2>1, <2>2, <2>3 DEF UploadCommit
<1>5. ASSUME NEW r \in Transactions, NEW active \in BOOLEAN, NEW deprecated \in BOOLEAN,
              NEW v \in Versions \cup {0}, NEW state \in {"active", "inactive"},
              EditStart(r, active, deprecated, v, state)
      PROVE  LatestIsReleased' /\ NoEmptyPackage'
  BY <1>5 DEF EditStart
<1>6. ASSUME NEW r \in Transactions, EditSave(r)
      PROVE  LatestIsReleased' /\ NoEmptyPackage'
  BY <1>6 DEF EditSave
<1>7. ASSUME NEW r \in Transactions, EditRecache(r)
      PROVE  LatestIsReleased' /\ NoEmptyPackage'
  BY <1>7 DEF EditRecache
<1>8. ASSUME NEW r \in Transactions, EditCommit(r)
      PROVE  LatestIsReleased' /\ NoEmptyPackage'
  <2>1. work[r] \in Work
    BY <1>8 DEF EditCommit
  <2>2. \A v \in Versions : versions[v] # "absent" => versions'[v] # "absent"
    BY <1>8, <2>1 DEF EditCommit, Changed
  <2> QED
    BY <1>8, <2>1, <2>2 DEF EditCommit
<1>9. ASSUME NEW r \in Transactions, NEW v \in Versions, TouchStart(r, v)
      PROVE  LatestIsReleased' /\ NoEmptyPackage'
  BY <1>9 DEF TouchStart
<1>10. ASSUME NEW r \in Transactions, TouchQuery(r)
       PROVE  LatestIsReleased' /\ NoEmptyPackage'
  BY <1>10 DEF TouchQuery
<1>11. ASSUME NEW r \in Transactions, TouchSave(r)
       PROVE  LatestIsReleased' /\ NoEmptyPackage'
  BY <1>11 DEF TouchSave
<1>12. ASSUME NEW r \in Transactions, Fails(r)
       PROVE  LatestIsReleased' /\ NoEmptyPackage'
  BY <1>12 DEF Fails
<1>13. ASSUME NEW b \in BOOLEAN, SetActive(b) \/ SetDeprecated(b)
      PROVE  LatestIsReleased' /\ NoEmptyPackage'
  BY <1>13 DEF SetActive, SetDeprecated
<1>14. CASE UNCHANGED releasesVars
  BY <1>14 DEF releasesVars
<1> HIDE DEF ReleasesTypeOK, Row, Work, NoWork, Fields, Task, Start, Continue, Finish, AtStep,
        CopiesReleased, LatestIsReleased, NoEmptyPackage
<1> QED
  BY <1>1, <1>2, <1>3, <1>4, <1>5, <1>6, <1>7,
     <1>8, <1>9, <1>10, <1>11, <1>12, <1>13, <1>14
     DEF ReleasesNext, Uploads, Edits, Touches

\* At first there is no package, no version and no transaction.
LEMMA InitIInv == ReleasesInit => IInv
<1> SUFFICES ASSUME ReleasesInit  PROVE IInv
  OBVIOUS
<1>1. /\ ReleasesTypeOK
      /\ \A r \in Transactions : work[r] = NoWork
  BY DEF ReleasesInit, ReleasesTypeOK, New, Fields, Row
<1>2. \A r \in Transactions : ~Holds(r) /\ ~Uploading(r) /\ ~Editing(r)
  BY <1>1 DEF Holds, Uploading, Editing, AtStep, NoWork
<1>3. OneHolder /\ VersionsAtHand /\ CopiesReleased
  BY <1>1, <1>2 DEF OneHolder, VersionsAtHand, CopiesReleased
<1>4. RecachedRight
  BY <1>2 DEF RecachedRight, Holds
<1>5. LatestIsReleased /\ NoEmptyPackage
  BY DEF ReleasesInit, New, Fields, LatestIsReleased, NoEmptyPackage
<1> QED
  BY <1>1, <1>3, <1>4, <1>5 DEF IInv

LEMMA NextIInv == IInv /\ [ReleasesNext]_releasesVars => IInv'
  BY TypeOKStep, OneHolderStep, VersionsAtHandStep, CopiesReleasedStep,
     RecachedRightStep, ReleasedStep
     DEF IInv

-----------------------------------------------------------------------------
(* Theorems *)

\* The inductive invariant holds for any versions and any number of transactions.
THEOREM Invariance == ReleasesSpec => []IInv
  BY InitIInv, NextIInv, PTL DEF ReleasesSpec

\* ReleasesTypeOK: every column and every copy keeps its type.
THEOREM TypesCorrect == ReleasesSpec => []ReleasesTypeOK
<1>1. IInv => ReleasesTypeOK
  BY DEF IInv
<1> QED
  BY <1>1, Invariance, PTL

\* LatestIsReleased: saves of stale copies never make latest point at a version
\* whose upload has not been committed.
THEOREM LatestIsReleasedAlways == ReleasesSpec => []LatestIsReleased
<1>1. IInv => LatestIsReleased
  BY DEF IInv
<1> QED
  BY <1>1, Invariance, PTL

\* NoEmptyPackage: a failed upload leaves no package without versions behind.
THEOREM NoEmptyPackageAlways == ReleasesSpec => []NoEmptyPackage
<1>1. IInv => NoEmptyPackage
  BY DEF IInv
<1> QED
  BY <1>1, Invariance, PTL

\* LatestFollowsVersions: only the two commits change the versions, and what they
\* write as latest was computed under the lock they still hold.
THEOREM LatestFollows == ReleasesSpec => LatestFollowsVersions
<1> DEFINE Follows == versions' # versions => package'.latest = Newest(versions')
<1>1. ASSUME IInv, [ReleasesNext]_releasesVars  PROVE [Follows]_releasesVars
  <2>1. ASSUME NEW r \in Transactions, UploadCommit(r) \/ EditCommit(r),
               versions' # versions
        PROVE  package'.latest = Newest(versions')
    <3>1. AtStep(r, "upload_commit") \/ AtStep(r, "edit_commit")
      BY <2>1 DEF UploadCommit, EditCommit
    <3>2. versions' = Changed(r) /\ package' = work[r].copy
      BY <2>1 DEF UploadCommit, EditCommit
    <3>3. work[r].version # 0
      <4>1. versions = [v \in Versions |-> versions[v]]
        BY <1>1 DEF IInv, ReleasesTypeOK
      <4>2. work[r].version = 0 => Changed(r) = [v \in Versions |-> versions[v]]
        BY VersionsAssumption DEF Changed
      <4> QED
        BY <2>1, <3>2, <4>1, <4>2
    <3> QED
      BY <1>1, <3>1, <3>2, <3>3 DEF IInv, RecachedRight
  <2>2. ASSUME ReleasesNext, ~ \E r \in Transactions : UploadCommit(r) \/ EditCommit(r)
        PROVE  versions' = versions
    BY <2>2 DEF ReleasesNext, Uploads, Edits, Touches, UploadStart, UploadInsert,
                UploadRecache, EditStart, EditSave, EditRecache, TouchStart,
                TouchQuery, TouchSave, SetActive, SetDeprecated, Fails
  <2> QED
    BY <1>1, <2>1, <2>2
<1> QED
  BY <1>1, Invariance, PTL DEF ReleasesSpec, LatestFollowsVersions

-----------------------------------------------------------------------------
(* Which transactions list a package again *)

Harmless(r) == work[r] = NoWork \/ Editing(r) \/ ~work[r].copy.active

\* The package is unlisted, and no upload or task holds a copy from before.
NobodyRelists == ~package.active /\ \A r \in Transactions : Harmless(r)

LEMMA OneMoves ==
  ASSUME ReleasesTypeOK, NobodyRelists, NEW r \in Transactions, NEW task,
         work' = [work EXCEPT ![r] = task],
         task = NoWork \/ task.step \in {"edit_save", "edit_recache", "edit_commit"}
             \/ ~task.copy.active,
         ~package'.active
  PROVE  NobodyRelists'
BY DEF ReleasesTypeOK, NobodyRelists, Harmless, Editing, AtStep

\* All other copies have been loaded from the unlisted package.
LEMMA UnlistedStep ==
  ASSUME ReleasesTypeOK, NobodyRelists, [ReleasesNext]_releasesVars, ~SetActive(TRUE),
         \A r \in Transactions : ~EditCommit(r)
  PROVE  NobodyRelists'
<1>1. ASSUME NEW r \in Transactions, Uploads(r)
      PROVE  NobodyRelists'
  <2>1. ASSUME NEW v \in Versions, UploadStart(r, v) PROVE NobodyRelists'
    <3>1. ~Task("upload_insert", package, v, "active").copy.active
      BY DEF NobodyRelists, Task
    <3> QED  BY <2>1, <3>1, OneMoves DEF UploadStart, Start, NobodyRelists
  <2>2. CASE UploadInsert(r) \/ UploadRecache(r)
    <3>1. AtStep(r, "upload_insert") \/ AtStep(r, "upload_recache")
      BY <2>2 DEF UploadInsert, UploadRecache
    <3>2. ~work[r].copy.active
      BY <3>1 DEF NobodyRelists, Harmless, Editing, AtStep, NoWork
    <3>3. UNCHANGED package
      BY <2>2 DEF UploadInsert, UploadRecache
    <3>4. CASE Finish(r)
      BY <3>3, <3>4, OneMoves DEF Finish, NobodyRelists
    <3>5. ASSUME NEW step, NEW latest,
                 Continue(r, step, Fields(work[r].copy.active, FALSE, latest))
                 \/ Continue(r, step, Fields(work[r].copy.active,
                                             work[r].copy.deprecated, latest))
          PROVE  NobodyRelists'
      <4>1. PICK deprecated :
                Continue(r, step, Fields(work[r].copy.active, deprecated, latest))
        BY <3>5
      <4> DEFINE task == Task(step, Fields(work[r].copy.active, deprecated, latest),
                              work[r].version, work[r].state)
      <4>2. work' = [work EXCEPT ![r] = task]
        BY <4>1 DEF Continue
      <4>3. ~task.copy.active
        BY <3>2 DEF Task, Fields
      <4> HIDE DEF task
      <4> QED  BY <3>3, <4>2, <4>3, OneMoves DEF NobodyRelists
    <3> QED  BY <2>2, <3>4, <3>5 DEF UploadInsert, UploadRecache, Recached
  <2>3. CASE UploadCommit(r)
    <3>1. ~work[r].copy.active
      BY <2>3 DEF UploadCommit, NobodyRelists, Harmless, Editing, AtStep, NoWork
    <3> QED  BY <2>3, <3>1, OneMoves DEF UploadCommit, Finish
  <2> QED  BY <1>1, <2>1, <2>2, <2>3 DEF Uploads
<1>2. ASSUME NEW r \in Transactions, Edits(r)
      PROVE  NobodyRelists'
  <2>1. ASSUME NEW active, NEW deprecated, NEW v, NEW state,
               EditStart(r, active, deprecated, v, state)
        PROVE  NobodyRelists'
    <3>1. Task("edit_save", Fields(active, deprecated, package.latest), v, state).step
              = "edit_save"
      BY DEF Task
    <3> QED  BY <2>1, <3>1, OneMoves DEF EditStart, Start, NobodyRelists
  <2>2. ASSUME NEW step \in {"edit_recache", "edit_commit"}, NEW copy,
               Continue(r, step, copy), UNCHANGED package
        PROVE  NobodyRelists'
    <3>1. Task(step, copy, work[r].version, work[r].state).step = step
      BY DEF Task
    <3> QED  BY <2>2, <3>1, OneMoves DEF Continue, NobodyRelists
  <2> QED  BY <1>2, <2>1, <2>2 DEF Edits, EditSave, EditRecache
<1>3. ASSUME NEW r \in Transactions, Touches(r)
      PROVE  NobodyRelists'
  <2>1. ASSUME NEW v \in Versions, TouchStart(r, v) PROVE NobodyRelists'
    <3>1. ~Task("touch_query", package, 0, "active").copy.active
      BY DEF NobodyRelists, Task
    <3> QED  BY <2>1, <3>1, OneMoves DEF TouchStart, Start, NobodyRelists
  <2>2. CASE TouchQuery(r)
    <3>1. ~work[r].copy.active /\ UNCHANGED package
      BY <2>2 DEF TouchQuery, NobodyRelists, Harmless, Editing, AtStep, NoWork
    <3>2. CASE Finish(r)
      BY <3>1, <3>2, OneMoves DEF Finish, NobodyRelists
    <3>3. ASSUME NEW deprecated, NEW latest,
                 Continue(r, "touch_save", Fields(work[r].copy.active, deprecated, latest))
          PROVE  NobodyRelists'
      <4> DEFINE task == Task("touch_save", Fields(work[r].copy.active, deprecated, latest),
                              work[r].version, work[r].state)
      <4>1. work' = [work EXCEPT ![r] = task]
        BY <3>3 DEF Continue
      <4>2. ~task.copy.active
        BY <3>1 DEF Task, Fields
      <4> HIDE DEF task
      <4> QED  BY <3>1, <4>1, <4>2, OneMoves DEF NobodyRelists
    <3> QED  BY <2>2, <3>2, <3>3 DEF TouchQuery
  <2>3. CASE TouchSave(r)
    <3>1. ~work[r].copy.active
      BY <2>3 DEF TouchSave, NobodyRelists, Harmless, Editing, AtStep, NoWork
    <3> QED  BY <2>3, <3>1, OneMoves DEF TouchSave, Finish
  <2> QED  BY <1>3, <2>1, <2>2, <2>3 DEF Touches
<1>4. ASSUME NEW r \in Transactions, Fails(r)
      PROVE  NobodyRelists'
  BY <1>4, OneMoves DEF Fails, Finish, NobodyRelists
<1>5. ASSUME NEW b \in BOOLEAN, SetActive(b) \/ SetDeprecated(b)
      PROVE  NobodyRelists'
  BY <1>5 DEF SetActive, SetDeprecated, Fields, NobodyRelists, Harmless, Editing, AtStep
<1>6. CASE UNCHANGED releasesVars
  BY <1>6 DEF releasesVars, NobodyRelists, Harmless, Editing, AtStep
<1> QED
  BY <1>1, <1>2, <1>3, <1>4, <1>5, <1>6 DEF ReleasesNext

\* deactivate: a package that is unlisted while no upload and no task holds an active copy
\* of it stays unlisted until an admin's action or change form activates it.
\* UnlistedStaysUnlisted fails for no other reason than the copies loaded before.
THEOREM UnlistedUnlessLoadedBefore ==
  ReleasesSpec => [][NobodyRelists => \/ NobodyRelists' \/ SetActive(TRUE)
                                      \/ \E r \in Transactions : EditCommit(r)]_releasesVars
<1>1. ReleasesTypeOK /\ [ReleasesNext]_releasesVars =>
          [NobodyRelists => \/ NobodyRelists' \/ SetActive(TRUE)
                            \/ \E r \in Transactions : EditCommit(r)]_releasesVars
  BY UnlistedStep
<1> QED
  BY <1>1, TypesCorrect, PTL DEF ReleasesSpec

-----------------------------------------------------------------------------
(* What latest is when nothing overlaps *)

OneAtATime == \A r, q \in Transactions : r = q

LatestIsNewest == package.latest = Newest(versions)

Committing(r) == AtStep(r, "upload_commit") \/ AtStep(r, "edit_commit")

\* The copy's latest is the package's, until the transaction has worked it out
\* again; a task finds nothing to save.
CopyIsCurrent(r) ==
    /\ ~AtStep(r, "touch_save")
    /\ work[r] # NoWork =>
           work[r].copy.latest = IF Committing(r) THEN Newest(Changed(r)) ELSE package.latest

SoleInv == LatestIsNewest /\ \A r \in Transactions : CopyIsCurrent(r)

\* The only transaction begins, goes on or ends without writing anything.
LEMMA SoleMoves ==
  ASSUME OneAtATime, ReleasesTypeOK, SoleInv, NEW r \in Transactions, NEW task,
         work' = [work EXCEPT ![r] = task], UNCHANGED <<package, versions>>,
         \/ task = NoWork
         \/ task.copy.latest = package.latest
            /\ task.step \notin {"touch_save", "upload_commit", "edit_commit"}
  PROVE  SoleInv'
<1>1. work'[r] = task /\ \A q \in Transactions : q = r
  BY DEF OneAtATime, ReleasesTypeOK
<1>2. LatestIsNewest'
  BY DEF SoleInv, LatestIsNewest
<1>3. CopyIsCurrent(r)'
  BY <1>1 DEF CopyIsCurrent, Committing, AtStep, NoWork
<1> QED
  BY <1>1, <1>2, <1>3 DEF SoleInv

\* recache_latest, in the transaction that changes at most one version.
LEMMA SoleRecaches ==
  ASSUME OneAtATime, ReleasesTypeOK, SoleInv, NEW r \in Transactions,
         AtStep(r, "upload_recache") \/ AtStep(r, "edit_recache"),
         NEW step \in {"upload_commit", "edit_commit"},
         Continue(r, step, Recached(r)), UNCHANGED <<package, versions>>
  PROVE  SoleInv'
<1> DEFINE task == Task(step, Recached(r), work[r].version, work[r].state)
<1>1. work' = [work EXCEPT ![r] = task]
  BY DEF Continue
<1>2. work'[r] = task /\ \A q \in Transactions : q = r
  BY <1>1 DEF OneAtATime, ReleasesTypeOK
<1>3. /\ task.step = step /\ task.version = work[r].version /\ task.state = work[r].state
      /\ task.copy = Recached(r)
  BY DEF Task
<1> HIDE DEF task
<1>4. work[r].copy.latest = Newest(versions)
  BY DEF SoleInv, LatestIsNewest, CopyIsCurrent, Committing, AtStep, NoWork
<1>5. work[r].version = 0 => Changed(r) = versions
  BY VersionsAssumption DEF Changed, ReleasesTypeOK
<1>6. Recached(r).latest = Newest(Changed(r))
  BY <1>4, <1>5 DEF Recached, Fields
<1>7. Changed(r)' = Changed(r)
  BY <1>2, <1>3 DEF Changed
<1>8. Newest(Changed(r))' = Newest(Changed(r))
  BY <1>7 DEF Newest
<1>9. CopyIsCurrent(r)'
  BY <1>2, <1>3, <1>6, <1>8 DEF CopyIsCurrent, Committing, AtStep
<1>10. LatestIsNewest'
  BY DEF SoleInv, LatestIsNewest
<1> QED
  BY <1>2, <1>9, <1>10 DEF SoleInv

\* Neither the versions nor a copy nor latest changes.
LEMMA SoleStays ==
  ASSUME SoleInv, UNCHANGED <<versions, work>>, package'.latest = package.latest
  PROVE  SoleInv'
<1>1. LatestIsNewest'
  BY DEF SoleInv, LatestIsNewest, Newest
<1>2. ASSUME NEW r \in Transactions PROVE CopyIsCurrent(r)'
  <2>1. CopyIsCurrent(r)
    BY DEF SoleInv
  <2>2. Newest(Changed(r))' = Newest(Changed(r))
    BY DEF Newest, Changed
  <2>3. AtStep(r, "touch_save")' = AtStep(r, "touch_save") /\ Committing(r)' = Committing(r)
    BY DEF AtStep, Committing
  <2> QED
    BY <2>1, <2>2, <2>3 DEF CopyIsCurrent
<1> QED
  BY <1>1, <1>2 DEF SoleInv

LEMMA SoleStep ==
  ASSUME OneAtATime, ReleasesTypeOK, SoleInv, [ReleasesNext]_releasesVars
  PROVE  SoleInv'
<1>1. ASSUME NEW r \in Transactions, Finish(r), UNCHANGED <<package, versions>>
      PROVE  SoleInv'
  BY <1>1, SoleMoves DEF Finish
<1>2. ASSUME NEW r \in Transactions, NEW step \in {"upload_insert", "edit_save", "touch_query"},
             NEW copy, NEW v, NEW state, Start(r, Task(step, copy, v, state)),
             copy.latest = package.latest, UNCHANGED <<package, versions>>
      PROVE  SoleInv'
  BY <1>2, SoleMoves DEF Start, Task
<1>3. ASSUME NEW r \in Transactions, AtStep(r, "upload_insert") \/ AtStep(r, "edit_save"),
             NEW step \in {"upload_recache", "edit_recache"}, NEW copy, Continue(r, step, copy),
             copy.latest = work[r].copy.latest, UNCHANGED <<package, versions>>
      PROVE  SoleInv'
  <2>1. work[r].copy.latest = package.latest
    BY <1>3 DEF SoleInv, CopyIsCurrent, Committing, AtStep, NoWork
  <2> QED
    BY <1>3, <2>1, SoleMoves DEF Continue, Task
<1>4. ASSUME NEW r \in Transactions, Committing(r), versions' = Changed(r),
             package' = work[r].copy, Finish(r)
      PROVE  SoleInv'
  <2>1. work'[r] = NoWork /\ \A q \in Transactions : q = r
    BY <1>4 DEF Finish, OneAtATime, ReleasesTypeOK
  <2>2. package'.latest = Newest(versions')
    BY <1>4 DEF SoleInv, CopyIsCurrent, Committing, AtStep, NoWork
  <2>3. LatestIsNewest'
    BY <2>2 DEF LatestIsNewest, Newest
  <2>4. CopyIsCurrent(r)'
    BY <2>1 DEF CopyIsCurrent, AtStep, NoWork
  <2> QED
    BY <2>1, <2>3, <2>4 DEF SoleInv
<1>5. ASSUME NEW r \in Transactions, Uploads(r) PROVE SoleInv'
  <2>1. CASE \E v \in Versions : UploadStart(r, v)
    BY <1>2, <2>1 DEF UploadStart
  <2>2. CASE UploadInsert(r)
    <3>1. CASE versions[work[r].version] # "absent"
      BY <1>1, <2>2, <3>1 DEF UploadInsert
    <3>2. CASE versions[work[r].version] = "absent"
      BY <1>3, <2>2, <3>2 DEF UploadInsert, Fields
    <3> QED  BY <3>1, <3>2
  <2>3. CASE UploadRecache(r)
    BY <2>3, SoleRecaches DEF UploadRecache
  <2>4. CASE UploadCommit(r)
    BY <1>4, <2>4 DEF UploadCommit, Committing
  <2> QED  BY <1>5, <2>1, <2>2, <2>3, <2>4 DEF Uploads
<1>6. ASSUME NEW r \in Transactions, Edits(r) PROVE SoleInv'
  <2>1. ASSUME NEW active, NEW deprecated, NEW v, NEW state,
               EditStart(r, active, deprecated, v, state)
        PROVE  SoleInv'
    BY <1>2, <2>1 DEF EditStart, Fields
  <2>2. CASE EditSave(r)
    BY <1>3, <2>2 DEF EditSave
  <2>3. CASE EditRecache(r)
    BY <2>3, SoleRecaches DEF EditRecache
  <2>4. CASE EditCommit(r)
    BY <1>4, <2>4 DEF EditCommit, Committing
  <2> QED  BY <1>6, <2>1, <2>2, <2>3, <2>4 DEF Edits
<1>7. ASSUME NEW r \in Transactions, Touches(r) PROVE SoleInv'
  <2>1. CASE \E v \in Versions : TouchStart(r, v)
    BY <1>2, <2>1 DEF TouchStart
  <2>2. CASE TouchQuery(r)
    <3>1. work[r].copy.latest = Newest(versions)
      BY <2>2 DEF TouchQuery, SoleInv, LatestIsNewest, CopyIsCurrent, Committing, AtStep, NoWork
    <3> QED  BY <1>1, <2>2, <3>1 DEF TouchQuery
  <2>3. CASE TouchSave(r)
    BY <2>3 DEF TouchSave, SoleInv, CopyIsCurrent
  <2> QED  BY <1>7, <2>1, <2>2, <2>3 DEF Touches
<1>8. ASSUME NEW r \in Transactions, Fails(r) PROVE SoleInv'
  BY <1>1, <1>8 DEF Fails
<1>9. ASSUME NEW b \in BOOLEAN, SetActive(b) \/ SetDeprecated(b) PROVE SoleInv'
  BY <1>9, SoleStays DEF SetActive, SetDeprecated, Fields
<1>10. CASE UNCHANGED releasesVars
  BY <1>10, SoleStays DEF releasesVars
<1> QED
  BY <1>5, <1>6, <1>7, <1>8, <1>9, <1>10 DEF ReleasesNext

\* recache_latest and get_or_create's copies: while uploads, change forms and tasks do not
\* overlap, latest is the highest active version in every state, however often versions
\* are switched on and off and whatever fails.  Only overlapping ones move it back.
THEOREM LatestIsNewestOneAtATime ==
  ASSUME OneAtATime
  PROVE  ReleasesSpec => []LatestIsNewest
<1>1. ReleasesInit => SoleInv
  <2> SUFFICES ASSUME ReleasesInit PROVE SoleInv
    OBVIOUS
  <2>1. Newest(versions) = 0
    BY DEF ReleasesInit, Newest
  <2>2. \A r \in Transactions : work[r] = NoWork
    BY DEF ReleasesInit
  <2> QED
    BY <2>1, <2>2 DEF ReleasesInit, New, Fields, SoleInv, LatestIsNewest, CopyIsCurrent,
        AtStep, NoWork
<1>2. ReleasesTypeOK /\ SoleInv /\ [ReleasesNext]_releasesVars => SoleInv'
  BY SoleStep
<1>3. SoleInv => LatestIsNewest
  BY DEF SoleInv
<1> QED
  BY <1>1, <1>2, <1>3, TypesCorrect, PTL DEF ReleasesSpec

=============================================================================
