---------------------------- MODULE PackageReleases ----------------------------
(***************************************************************************)
(* The Package row and the versions released under it: uploads, changes in *)
(* the admin, moderation, and tasks that save a version for another reason *)
(* (repository/models/package.py, package_version.py, package_upload.py).  *)
(*                                                                         *)
(* Package.latest is a cache of "the highest active version".  It is kept  *)
(* by signal handlers that save every column of whatever copy of the row   *)
(* they hold.  The only mutual exclusion is the row lock that the first    *)
(* UPDATE of the package takes, until its transaction ends.                *)
(***************************************************************************)
EXTENDS Naturals

CONSTANTS
    Versions,  \* version numbers that may be released, in their order
    Transactions   \* transactions in progress at a time

\* Any set of released versions has a highest one, as every finite set has.
ASSUME VersionsAssumption ==
    /\ Versions \subseteq Nat \ {0}
    /\ \A S \in SUBSET Versions : S # {} => \E v \in S : \A w \in S : w <= v

VARIABLES
    created,   \* is the Package row there?
    package,   \* its columns; latest is 0 for NULL
    versions,  \* each PackageVersion: not there, active or inactive
    work    \* what each transaction is doing, and its copy of the package

releasesVars == <<created, package, versions, work>>

Row == [active : BOOLEAN, deprecated : BOOLEAN, latest : Versions \cup {0}]

Fields(active, deprecated, latest) ==
    [active |-> active, deprecated |-> deprecated, latest |-> latest]

NoWork == [step |-> "idle"]

Work == [step : {"upload_insert", "upload_recache", "upload_commit",
                 "edit_save", "edit_recache", "edit_commit",
                 "touch_query", "touch_save"},
         copy : Row, version : Versions \cup {0}, state : {"active", "inactive"}]

ReleasesTypeOK ==
    /\ created \in BOOLEAN
    /\ package \in Row
    /\ versions \in [Versions -> {"absent", "active", "inactive"}]
    /\ work \in [Transactions -> Work \cup {NoWork}]

New == Fields(TRUE, FALSE, 0)

ReleasesInit ==
    /\ created = FALSE
    /\ package = New
    /\ versions = [v \in Versions |-> "absent"]
    /\ work = [r \in Transactions |-> NoWork]

-----------------------------------------------------------------------------

AtStep(r, step) == work[r].step = step

\* The transaction has an uncommitted UPDATE of the row.
Holds(r) ==
    \/ AtStep(r, "upload_recache") \/ AtStep(r, "upload_commit")
    \/ AtStep(r, "edit_recache") \/ AtStep(r, "edit_commit")

PackageLocked == \E r \in Transactions : Holds(r)

\* available_versions.first(): the highest active version.
Newest(released) ==
    LET active == {v \in Versions : released[v] = "active"}
    IN  IF active = {} THEN 0 ELSE CHOOSE v \in active : \A w \in active : w <= v

Task(step, copy, v, state) ==
    [step |-> step, copy |-> copy, version |-> v, state |-> state]

Start(r, task) == work[r] = NoWork /\ work' = [work EXCEPT ![r] = task]

Continue(r, step, copy) ==
    work' = [work EXCEPT ![r] = Task(step, copy, @.version, @.state)]

Finish(r) == work' = [work EXCEPT ![r] = NoWork]

\* The versions as the transaction itself sees them.
Changed(r) ==
    [v \in Versions |-> IF v = work[r].version THEN work[r].state ELSE versions[v]]

\* recache_latest, called when a version has been saved: it writes the copy again
\* if the highest active version is not the copy's.
Recached(r) ==
    Fields(work[r].copy.active, work[r].copy.deprecated,
           IF work[r].version = 0 THEN work[r].copy.latest ELSE Newest(Changed(r)))

-----------------------------------------------------------------------------
(* PackageUploadForm.save *)

\* Mutant of UploadStart: get_or_create commits the package on its own.
UploadStartCreates(r, v) ==
    /\ versions[v] = "absent"
    /\ Start(r, Task("upload_insert", package, v, "active"))
    /\ created' = TRUE
    /\ UNCHANGED <<package, versions>>

\* The manifest names a version that is not there yet, and get_or_create reads
\* the package or inserts it; while another upload inserts it, it waits.
UploadStart(r, v) ==
    /\ versions[v] = "absent"
    /\ created \/ \A q \in Transactions : work[q] = NoWork
    /\ Start(r, Task("upload_insert", package, v, "active"))
    /\ UNCHANGED <<created, package, versions>>

\* Mutant of UploadInsert: no transaction holds the upload together.
UploadInsertAtOnce(r) ==
    /\ AtStep(r, "upload_insert")
    /\ ~PackageLocked
    /\ package' = Fields(work[r].copy.active, FALSE, work[r].version)
    /\ Continue(r, "upload_recache", package')
    /\ UNCHANGED <<created, versions>>

\* The INSERT of the version, much later (the files go to S3 in between), fails
\* if somebody else has released it.  handle_created_version then saves every
\* column of the package, from the copy, and so takes its lock.
UploadInsert(r) ==
    /\ AtStep(r, "upload_insert")
    /\ ~PackageLocked
    /\ IF versions[work[r].version] # "absent"
       THEN Finish(r)
       ELSE Continue(r, "upload_recache",
                     Fields(work[r].copy.active, FALSE, work[r].copy.latest))
    /\ UNCHANGED <<created, package, versions>>

\* handle_updated_version follows in the same signal handler.
UploadRecache(r) ==
    /\ AtStep(r, "upload_recache")
    /\ Continue(r, "upload_commit", Recached(r))
    /\ UNCHANGED <<created, package, versions>>

\* The end of PackageUploadForm.save: the version and the package become visible.
UploadCommit(r) ==
    /\ AtStep(r, "upload_commit")
    /\ created' = TRUE
    /\ versions' = Changed(r)
    /\ package' = work[r].copy
    /\ Finish(r)

-----------------------------------------------------------------------------
(* The admin's change form, with the versions inline *)

\* The object is loaded when the form is posted, and gets the form's values; one
\* version may have its is_active changed along with it (v is 0 when none has).
EditStart(r, active, deprecated, v, state) ==
    /\ created
    /\ v # 0 => versions[v] # "absent" /\ versions[v] # state
    /\ Start(r, Task("edit_save", Fields(active, deprecated, package.latest), v, state))
    /\ UNCHANGED <<created, package, versions>>

\* Mutant of EditSave: only the changed version is saved, the package is not.
EditSaveVersionOnly(r) ==
    /\ AtStep(r, "edit_save")
    /\ Continue(r, "edit_recache", work[r].copy)
    /\ UNCHANGED <<created, package, versions>>

\* save_model: save() of every column, which takes the lock.
EditSave(r) ==
    /\ AtStep(r, "edit_save")
    /\ ~PackageLocked
    /\ Continue(r, "edit_recache", work[r].copy)
    /\ UNCHANGED <<created, package, versions>>

\* Only a changed version is saved, and only then is latest worked out again.
EditRecache(r) ==
    /\ AtStep(r, "edit_recache")
    /\ Continue(r, "edit_commit", Recached(r))
    /\ UNCHANGED <<created, package, versions>>

\* Mutant of EditCommit: a version's is_active is saved as if it were a state.
EditCommitMisspelt(r) ==
    /\ AtStep(r, "edit_commit")
    /\ versions' = [v \in Versions |-> IF v = work[r].version THEN "hidden"
                                                                ELSE versions[v]]
    /\ package' = work[r].copy
    /\ Finish(r)
    /\ UNCHANGED created

EditCommit(r) ==
    /\ AtStep(r, "edit_commit")
    /\ versions' = Changed(r)
    /\ package' = work[r].copy
    /\ Finish(r)
    /\ UNCHANGED created

-----------------------------------------------------------------------------
(* Saving a version: review, file tree extraction *)

\* The version is saved with update_fields; its post_save handler then loads the
\* package ...
TouchStart(r, v) ==
    /\ versions[v] # "absent"
    /\ Start(r, Task("touch_query", package, 0, "active"))
    /\ UNCHANGED <<created, package, versions>>

\* ... queries the versions, and only goes on when latest has changed ...
TouchQuery(r) ==
    /\ AtStep(r, "touch_query")
    /\ LET copy == work[r].copy
           newest == Newest(versions)
       IN IF newest = copy.latest
          THEN Finish(r)
          ELSE Continue(r, "touch_save", Fields(copy.active, copy.deprecated, newest))
    /\ UNCHANGED <<created, package, versions>>

\* ... and then saves every column of its copy.
TouchSave(r) ==
    /\ AtStep(r, "touch_save")
    /\ ~PackageLocked
    /\ package' = work[r].copy
    /\ Finish(r)
    /\ UNCHANGED <<created, versions>>

-----------------------------------------------------------------------------
(* Moderation and failures *)

\* deactivate and the admin's activate; one column, in a transaction of its own.
SetActive(active) ==
    /\ created
    /\ ~PackageLocked
    /\ package' = Fields(active, package.deprecated, package.latest)
    /\ UNCHANGED <<created, versions, work>>

\* deprecate and undeprecate.
SetDeprecated(deprecated) ==
    /\ created
    /\ ~PackageLocked
    /\ package' = Fields(package.active, deprecated, package.latest)
    /\ UNCHANGED <<created, versions, work>>

\* A storage error, a lost connection, a killed worker: the transaction is
\* rolled back.
Fails(r) ==
    /\ work[r] # NoWork
    /\ Finish(r)
    /\ UNCHANGED <<created, package, versions>>

-----------------------------------------------------------------------------

Uploads(r) ==
    \/ \E v \in Versions : UploadStart(r, v)
    \/ UploadInsert(r) \/ UploadRecache(r) \/ UploadCommit(r)

Edits(r) ==
    \/ \E active, deprecated \in BOOLEAN, v \in Versions, state \in {"active", "inactive"} :
           EditStart(r, active, deprecated, v, state)
    \/ \E active, deprecated \in BOOLEAN : EditStart(r, active, deprecated, 0, "active")
    \/ EditSave(r) \/ EditRecache(r) \/ EditCommit(r)

Touches(r) == (\E v \in Versions : TouchStart(r, v)) \/ TouchQuery(r) \/ TouchSave(r)

ReleasesNext ==
    \/ \E r \in Transactions : Uploads(r) \/ Edits(r) \/ Touches(r) \/ Fails(r)
    \/ \E b \in BOOLEAN : SetActive(b) \/ SetDeprecated(b)

ReleasesSpec == ReleasesInit /\ [][ReleasesNext]_releasesVars

-----------------------------------------------------------------------------
(* Properties *)

\* Whatever stale copies are around: a transaction that releases a version, or
\* changes which versions are active, leaves latest on the highest active version
\* (recache_latest queries the versions before the commit, but after the UPDATE
\* that locks the package, so nobody else's commit comes in between).
LatestFollowsVersions ==
    [][versions' # versions => package'.latest = Newest(versions')]_releasesVars

\* latest only ever points at a version that has been released, although it is
\* written before the transaction that inserts the version commits.
LatestIsReleased ==
    package.latest # 0 => versions[package.latest] # "absent"

\* An upload that fails half-way leaves no package without versions behind.
NoEmptyPackage == created => \E v \in Versions : versions[v] # "absent"

\* The tests of unlisting: the package is inactive afterwards; only somebody who
\* activates it (an admin's action or change form) brings it back.
UnlistedStaysUnlisted ==
    [][~package.active /\ package'.active
           => SetActive(TRUE) \/ \E r \in Transactions : EditCommit(r)]_releasesVars

=============================================================================
