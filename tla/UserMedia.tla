------------------------------ MODULE UserMedia ------------------------------
(***************************************************************************)
(* Lifecycle of an uploaded file: a UserMedia row in the database beside a *)
(* multipart upload and an object in S3 (usermedia/s3_upload.py).          *)
(*                                                                         *)
(* Web requests (create, finish, abort) and runs of the cleanup task each  *)
(* load the row once, talk to S3, and save afterwards.  Nothing locks the  *)
(* row between the load and the save, so every step below works from the   *)
(* copy its own request loaded, and any other request may run in between.  *)
(* The only row lock is the one an uncommitted DELETE takes.               *)
(***************************************************************************)
EXTENDS Naturals

CONSTANTS
    Media,      \* uuids of the rows that may ever be created
    Requests,   \* web requests in progress at a time
    Cleaners,   \* runs of the cleanup task, one entry of its loop each
    MaxFaults   \* bound: requests that die half-way in a behaviour

ASSUME FaultsAssumption == MaxFaults \in Nat

ASSUME ActorsAssumption == Requests \cap Cleaners = {}

VARIABLES
    status,     \* status column of each row, or "absent" / "deleted"
    uploadId,   \* is the upload_id column set?
    expired,    \* has the row's expiry passed?
    referenced, \* does an AsyncPackageSubmission row point at it?
    multipart,  \* the multipart upload in S3
    object,     \* is there an object under the row's key?
    work,       \* what each request and cleaner is doing, and its copy of the row
    faults      \* how many requests have died so far

vars == <<status, uploadId, expired, referenced, multipart, object, work, faults>>

dbVars == <<status, uploadId, expired, referenced>>
s3Vars == <<multipart, object>>

Actors == Requests \cup Cleaners

Status == {"initial", "upload_created", "upload_error", "upload_complete",
           "upload_aborted"}

\* A row is inserted once (its uuid is fresh) and deleted at most once.
RowState == Status \cup {"absent", "deleted"}

Step == {"create_s3", "create_save", "finish_s3", "finish_head", "finish_save",
         "finish_fail", "abort_s3", "abort_save", "cleanup_check",
         "cleanup_delete", "cleanup_s3", "cleanup_commit"}

Idle == [step |-> "idle"]

Work == [step : Step, media : Media, status : Status, uploadId : BOOLEAN]

TypeOK ==
    /\ status \in [Media -> RowState]
    /\ uploadId \in [Media -> BOOLEAN]
    /\ expired \in [Media -> BOOLEAN]
    /\ referenced \in [Media -> BOOLEAN]
    /\ multipart \in [Media -> {"none", "open", "completed", "aborted"}]
    /\ object \in [Media -> BOOLEAN]
    /\ work \in [Actors -> Work \cup {Idle}]
    /\ faults \in 0 .. MaxFaults

Init ==
    /\ status = [m \in Media |-> "absent"]
    /\ uploadId = [m \in Media |-> FALSE]
    /\ expired = [m \in Media |-> FALSE]
    /\ referenced = [m \in Media |-> FALSE]
    /\ multipart = [m \in Media |-> "none"]
    /\ object = [m \in Media |-> FALSE]
    /\ work = [a \in Actors |-> Idle]
    /\ faults = 0

-----------------------------------------------------------------------------

At(a, m, step) == work[a].step = step /\ work[a].media = m

InTable(m) == status[m] \in Status

\* An uncommitted DELETE holds the row; updates of it and foreign key checks
\* against it wait for that transaction to end.
RowLocked(m) ==
    /\ InTable(m)
    /\ \E c \in Cleaners : At(c, m, "cleanup_s3") \/ At(c, m, "cleanup_commit")

Copy(step, m, state, id) ==
    [step |-> step, media |-> m, status |-> state, uploadId |-> id]

\* The handler starts: it keeps the copy of the row it has just read.
Begin(a, m, step) ==
    /\ work[a] = Idle
    /\ work' = [work EXCEPT ![a] = Copy(step, m, status[m], uploadId[m])]

Goto(a, step) ==
    work' = [work EXCEPT ![a] = Copy(step, @.media, @.status, @.uploadId)]

Done(a) == work' = [work EXCEPT ![a] = Idle]

\* UserMedia.save(update_fields=("status", ...)): an UPDATE by primary key.
\* When no row matches, Django raises DatabaseError and nothing is written.
SaveStatus(m, new) ==
    /\ ~RowLocked(m)
    /\ status' = IF InTable(m) THEN [status EXCEPT ![m] = new] ELSE status

-----------------------------------------------------------------------------
(* create_upload *)

\* UserMedia.create_upload inserts the row and commits.
CreateRow(r, m) ==
    /\ status[m] = "absent"
    /\ work[r] = Idle
    /\ status' = [status EXCEPT ![m] = "initial"]
    /\ work' = [work EXCEPT ![r] = Copy("create_s3", m, "initial", FALSE)]
    /\ UNCHANGED <<uploadId, expired, referenced, s3Vars, faults>>

CreateMultipart(r, m) ==
    /\ At(r, m, "create_s3")
    /\ multipart' = [multipart EXCEPT ![m] = "open"]
    /\ Goto(r, "create_save")
    /\ UNCHANGED <<dbVars, object, faults>>

SaveCreated(r, m) ==
    /\ At(r, m, "create_save")
    /\ SaveStatus(m, "upload_created")
    /\ uploadId' = [uploadId EXCEPT ![m] = @ \/ InTable(m)]
    /\ Done(r)
    /\ UNCHANGED <<expired, referenced, s3Vars, faults>>

-----------------------------------------------------------------------------
(* finalize_upload *)

\* The view looks the row up among the unexpired ones and finalize_upload
\* refuses any status but upload_created.
FinishBegin(r, m) ==
    /\ status[m] = "upload_created"
    /\ ~expired[m]
    /\ Begin(r, m, "finish_s3")
    /\ UNCHANGED <<dbVars, s3Vars, faults>>

\* complete_multipart_upload takes effect.  S3 may also accept the repetition
\* of a completion it has already performed.
FinishCompletes(r, m) ==
    /\ At(r, m, "finish_s3")
    /\ \/ /\ multipart[m] = "open"
          /\ multipart' = [multipart EXCEPT ![m] = "completed"]
          /\ object' = [object EXCEPT ![m] = TRUE]
       \/ /\ multipart[m] = "completed"
          /\ UNCHANGED s3Vars
    /\ Goto(r, "finish_head")
    /\ UNCHANGED <<dbVars, faults>>

\* A ClientError: bad or missing parts, or NoSuchUpload.
FinishRejected(r, m) ==
    /\ At(r, m, "finish_s3")
    /\ Goto(r, "finish_fail")
    /\ UNCHANGED <<dbVars, s3Vars, faults>>

\* The key comparison and head_object, after the object has been assembled.
FinishHead(r, m) ==
    /\ At(r, m, "finish_head")
    /\ \/ object[m] /\ Goto(r, "finish_save")
       \/ Goto(r, "finish_fail")
    /\ UNCHANGED <<dbVars, s3Vars, faults>>

FinishSave(r, m) ==
    /\ At(r, m, "finish_save")
    /\ SaveStatus(m, "upload_complete")
    /\ Done(r)
    /\ UNCHANGED <<uploadId, expired, referenced, s3Vars, faults>>

\* The except branch.  It runs for every failure of the try block, whether or
\* not the object has been assembled.
FinishFail(r, m) ==
    /\ At(r, m, "finish_fail")
    /\ SaveStatus(m, "upload_error")
    /\ Done(r)
    /\ UNCHANGED <<uploadId, expired, referenced, s3Vars, faults>>

-----------------------------------------------------------------------------
(* abort_upload *)

AbortBegin(r, m) ==
    /\ status[m] \in {"upload_created", "upload_aborted", "upload_error"}
    /\ ~expired[m]
    /\ Begin(r, m, "abort_s3")
    /\ UNCHANGED <<dbVars, s3Vars, faults>>

\* Mutant of AbortMultipart: NoSuchUpload is taken for "already aborted".
AbortMultipartOrGone(r, m) ==
    /\ At(r, m, "abort_s3")
    /\ multipart' = [multipart EXCEPT ![m] = IF @ = "open" THEN "aborted" ELSE @]
    /\ Goto(r, "abort_save")
    /\ UNCHANGED <<dbVars, object, faults>>

\* abort_multipart_upload; NoSuchUpload leaves through the view's handler.
AbortMultipart(r, m) ==
    /\ At(r, m, "abort_s3")
    /\ IF multipart[m] = "open"
       THEN /\ multipart' = [multipart EXCEPT ![m] = "aborted"]
            /\ Goto(r, "abort_save")
       ELSE /\ Done(r)
            /\ UNCHANGED multipart
    /\ UNCHANGED <<dbVars, object, faults>>

AbortSave(r, m) ==
    /\ At(r, m, "abort_save")
    /\ SaveStatus(m, "upload_aborted")
    /\ Done(r)
    /\ UNCHANGED <<uploadId, expired, referenced, s3Vars, faults>>

-----------------------------------------------------------------------------
(* cleanup_expired_uploads and cleanup_expired_upload *)

\* Mutant of CleanupQuery: the expiry is not looked at.
CleanupQueryAnyAge(c, m) ==
    /\ InTable(m)
    /\ ~referenced[m]
    /\ Begin(c, m, "cleanup_check")
    /\ UNCHANGED <<dbVars, s3Vars, faults>>

\* The task's query: expired rows that no submission points at.
CleanupQuery(c, m) ==
    /\ InTable(m)
    /\ expired[m]
    /\ ~referenced[m]
    /\ Begin(c, m, "cleanup_check")
    /\ UNCHANGED <<dbVars, s3Vars, faults>>

\* user_media.delete() first collects protected references (on_delete=PROTECT).  That
\* the row has expired is checked again before, but the query has seen to it already.
CleanupCheck(c, m) ==
    /\ At(c, m, "cleanup_check")
    /\ IF referenced[m] THEN Done(c) ELSE Goto(c, "cleanup_delete")
    /\ UNCHANGED <<dbVars, s3Vars, faults>>

\* The DELETE statement, inside the transaction.  A second cleaner of the same
\* row waits here, then deletes nothing and carries on with its copy.
CleanupDelete(c, m) ==
    /\ At(c, m, "cleanup_delete")
    /\ ~RowLocked(m)
    /\ Goto(c, "cleanup_s3")
    /\ UNCHANGED <<dbVars, s3Vars, faults>>

\* Mutant of CleanupS3: an upload in error is taken to have nothing to abort.
CleanupS3SkipsErrors(c, m) ==
    /\ At(c, m, "cleanup_s3")
    /\ multipart' = [multipart EXCEPT ![m] =
           IF work[c].status \in {"initial", "upload_created"} /\ @ = "open"
           THEN "aborted" ELSE @]
    /\ object' = [object EXCEPT ![m] = @ /\ work[c].status # "upload_complete"]
    /\ Goto(c, "cleanup_commit")
    /\ UNCHANGED <<dbVars, faults>>

\* Mutant of CleanupS3: NoSuchUpload is not caught and rolls the cleanup back.
CleanupS3Raises(c, m) ==
    /\ At(c, m, "cleanup_s3")
    /\ IF work[c].status \notin {"upload_aborted", "upload_complete"}
       THEN IF multipart[m] = "open"
            THEN /\ multipart' = [multipart EXCEPT ![m] = "aborted"]
                 /\ Goto(c, "cleanup_commit")
            ELSE /\ Done(c)
                 /\ UNCHANGED multipart
       ELSE Goto(c, "cleanup_commit") /\ UNCHANGED multipart
    /\ object' = [object EXCEPT ![m] = @ /\ work[c].status # "upload_complete"]
    /\ UNCHANGED <<dbVars, faults>>

\* ensure_multipart_upload_aborted for an unfinished upload, delete_object for a
\* complete one: the branch is chosen by the copy, not by the row.
CleanupS3(c, m) ==
    /\ At(c, m, "cleanup_s3")
    /\ \/ /\ work[c].status \notin {"upload_aborted", "upload_complete"}
          /\ multipart' = [multipart EXCEPT ![m] =
                 IF work[c].uploadId /\ @ = "open" THEN "aborted" ELSE @]
          /\ UNCHANGED object
       \/ /\ work[c].status = "upload_complete"
          /\ object' = [object EXCEPT ![m] = FALSE]
          /\ UNCHANGED multipart
       \/ /\ work[c].status = "upload_aborted"
          /\ UNCHANGED s3Vars
    /\ Goto(c, "cleanup_commit")
    /\ UNCHANGED <<dbVars, faults>>

\* Mutant of CleanupCommit: no foreign key holds the row.
CleanupCommitUnprotected(c, m) ==
    /\ At(c, m, "cleanup_commit")
    /\ status' = [status EXCEPT ![m] = "deleted"]
    /\ Done(c)
    /\ UNCHANGED <<uploadId, expired, referenced, s3Vars, faults>>

\* The end of the atomic block.  The foreign key of the submissions is checked
\* here (it is deferred); a violation rolls the deletion back.
CleanupCommit(c, m) ==
    /\ At(c, m, "cleanup_commit")
    /\ status' = IF referenced[m] THEN status
                                  ELSE [status EXCEPT ![m] = "deleted"]
    /\ Done(c)
    /\ UNCHANGED <<uploadId, expired, referenced, s3Vars, faults>>

-----------------------------------------------------------------------------
(* The rest of the system *)

\* The expiry is set a day ahead by the request that creates the row, and that
\* request does not last a day.
Expire(m) ==
    /\ InTable(m)
    /\ ~expired[m]
    /\ \A r \in Requests : ~At(r, m, "create_s3") /\ ~At(r, m, "create_save")
    /\ expired' = [expired EXCEPT ![m] = TRUE]
    /\ UNCHANGED <<status, uploadId, referenced, s3Vars, work, faults>>

\* A submission row is inserted for the upload: neither its status nor its
\* expiry is looked at, only that the row is there.
Reference(m) ==
    /\ InTable(m)
    /\ ~RowLocked(m)
    /\ ~referenced[m]
    /\ referenced' = [referenced EXCEPT ![m] = TRUE]
    /\ UNCHANGED <<status, uploadId, expired, s3Vars, work, faults>>

\* cleanup_submissions deletes the submission.
Dereference(m) ==
    /\ referenced[m]
    /\ referenced' = [referenced EXCEPT ![m] = FALSE]
    /\ UNCHANGED <<status, uploadId, expired, s3Vars, work, faults>>

\* The process is killed, or a call raises something nobody catches (a lost
\* connection to S3 is no ClientError).  An open transaction rolls back.
Dies(a) ==
    /\ work[a] # Idle
    /\ faults < MaxFaults
    /\ faults' = faults + 1
    /\ Done(a)
    /\ UNCHANGED <<dbVars, s3Vars>>

-----------------------------------------------------------------------------

Create(r, m) == CreateRow(r, m) \/ CreateMultipart(r, m) \/ SaveCreated(r, m)

Finish(r, m) ==
    \/ FinishBegin(r, m) \/ FinishCompletes(r, m) \/ FinishRejected(r, m)
    \/ FinishHead(r, m) \/ FinishSave(r, m) \/ FinishFail(r, m)

Abort(r, m) == AbortBegin(r, m) \/ AbortMultipart(r, m) \/ AbortSave(r, m)

CleanupWork(c, m) ==
    CleanupCheck(c, m) \/ CleanupDelete(c, m) \/ CleanupS3(c, m) \/ CleanupCommit(c, m)

Next ==
    \/ \E r \in Requests, m \in Media : Create(r, m) \/ Finish(r, m) \/ Abort(r, m)
    \/ \E c \in Cleaners, m \in Media : CleanupQuery(c, m) \/ CleanupWork(c, m)
    \/ \E m \in Media : Expire(m) \/ Reference(m) \/ Dereference(m)
    \/ \E a \in Actors : Dies(a)

\* A started cleanup carries on, and every run of the periodic task visits every
\* row its query returns.  Nothing is assumed of the web requests.
Fairness ==
    \A c \in Cleaners, m \in Media :
        WF_vars(CleanupWork(c, m)) /\ SF_vars(CleanupQuery(c, m))

Spec == Init /\ [][Next]_vars /\ Fairness

-----------------------------------------------------------------------------
(* Properties *)

\* A row that says upload_complete and has not expired has its object: whoever
\* finished the upload can download it until the expiry, whatever requests and
\* cleanups overlapped (download_file trusts the status column alone).
CompleteIsDownloadable ==
    \A m \in Media : status[m] = "upload_complete" /\ ~expired[m] => object[m]

\* An aborted row never has anything left in S3.  cleanup_expired_upload relies
\* on it: for upload_aborted it deletes the row and touches nothing in S3.
AbortedLeavesNothing ==
    \A m \in Media : status[m] = "upload_aborted" =>
                         ~object[m] /\ multipart[m] # "open"

\* No unfinished multipart upload outlives a row that recorded its id: after
\* the row is gone nobody could find it again to abort it.
NoMultipartLeft ==
    \A m \in Media : status[m] = "deleted" /\ uploadId[m] => multipart[m] # "open"

\* A submission's UserMedia row is never deleted under it (on_delete=PROTECT), although
\* cleanup looks for submissions in separate statements before its DELETE.  Only the
\* row: the object is deleted before the foreign key rolls the transaction back.
ReferencedRowKept == \A m \in Media : referenced[m] => InTable(m)

\* The test of cleanup_expired_upload, for every status: once a row that no
\* request is working on has been cleaned up, head_object finds nothing.
CleanupRemovesObject ==
    [][\A c \in Cleaners, m \in Media :
           /\ CleanupCommit(c, m)
           /\ work[c].status = status[m]
           /\ ~referenced[m]
           /\ \A r \in Requests : work[r] = Idle
           => ~object'[m]]_vars

\* A finished upload is not un-finished: upload_complete is only left for
\* upload_error (an overlapping finish that failed) or by the cleanup.
CompletionIsKept ==
    [][\A m \in Media : status[m] = "upload_complete" =>
           status'[m] \in {"upload_complete", "upload_error", "deleted"}]_vars

\* The cleanup gets rid of every expired row: none stays for ever without a
\* submission pointing at it.
ExpiredRowsGo ==
    \A m \in Media : []<>~(expired[m] /\ InTable(m) /\ ~referenced[m])

=============================================================================
