------------------------------ MODULE FileUpload ------------------------------
(***************************************************************************)
(* The browser's uploader: one FileUpload object from upload() to the      *)
(* submission of the package, with its parts (hashed, sent, retried,       *)
(* throttled), its calls to the server and the user who may cancel.        *)
(*                                                                         *)
(* JavaScript runs a callback and all promise continuations it resolves    *)
(* before the next event, so an action is everything between two real      *)
(* waits: for the network, for the MD5 worker, for a timer.                *)
(***************************************************************************)
EXTENDS Naturals, FiniteSets

CONSTANTS
    PartCount,    \* parts of the file
    MaxParallel,  \* MAX_PARALLEL_REQUESTS, slots of the throttler
    MaxAttempts   \* MAX_UPLOAD_ATTEMPTS

ASSUME CountsAssumption ==
    /\ PartCount \in Nat \ {0}
    /\ MaxParallel \in Nat \ {0}
    /\ MaxAttempts \in Nat \ {0}

Parts == 1 .. PartCount

VARIABLES
    uploadStatus,  \* the observable status
    uploadInfo,    \* _uploadInfo is set: the client knows the uuid
    main,          \* what upload() is waiting for
    attempts,      \* attempts left of the retried finishUpload
    part,          \* per part: the step of uploadPart, the attempts left
    ongoing,       \* the throttler's count of running parts
    requests,      \* calls sent, not handled by the server; a lost one stays
    answer,        \* the server's answer to the call upload() waits for
    server,        \* the UserMedia row
    multipart,     \* the multipart upload in S3
    submitted      \* onSubmit has called SubmitPackage with the uuid

client == <<uploadStatus, uploadInfo, main, attempts, part, ongoing, submitted>>

backend == <<server, multipart>>

vars == <<client, requests, answer, backend>>

FileUploadStatus ==
    {"NEW", "INITIATING", "UPLOADING", "COMPLETE", "ERRORED", "CANCELED"}

\* A "finishing" one is a finish call that the server has begun to handle.
Request ==
    [call : {"initiate", "finish", "finishing", "abort"}, attempt : 0 .. MaxAttempts]

\* "stuck": the request was aborted, and its promise is never settled.
Steps == {"none", "waiting", "hashing", "sending", "sleeping", "done", "failed", "stuck"}

TypeOK ==
    /\ uploadStatus \in FileUploadStatus
    /\ uploadInfo \in BOOLEAN
    /\ main \in {"new", "initiating", "uploading", "finishing", "sleeping", "returned"}
    /\ attempts \in 0 .. MaxAttempts
    /\ part \in [Parts -> [step : Steps, left : 0 .. MaxAttempts]]
    /\ ongoing \in 0 .. MaxParallel
    /\ requests \subseteq Request
    /\ answer \in {"none", "ok", "error"}
    /\ server \in {"absent", "created", "complete", "error", "aborted"}
    /\ multipart \in {"none", "open", "completed", "aborted"}
    /\ submitted \in BOOLEAN

Init ==
    /\ uploadStatus = "NEW"
    /\ uploadInfo = FALSE
    /\ main = "new"
    /\ attempts = 0
    /\ part = [p \in Parts |-> [step |-> "none", left |-> 0]]
    /\ ongoing = 0
    /\ requests = {}
    /\ answer = "none"
    /\ server = "absent"
    /\ multipart = "none"
    /\ submitted = FALSE

Canceled == uploadStatus = "CANCELED"

\* setUploadStatus: a canceled upload stays canceled.
StatusAfter(status) == IF Canceled THEN uploadStatus ELSE status

Call(kind, attempt) == [call |-> kind, attempt |-> attempt]

Send(kind, attempt) ==
    /\ requests' = requests \cup {Call(kind, attempt)}
    /\ answer' = "none"

\* upload() ends without a uuid, and onSubmit does nothing more.
GiveUp ==
    /\ main' = "returned"
    /\ uploadStatus' = StatusAfter("ERRORED")

-----------------------------------------------------------------------------
(* upload() up to the parts *)

\* onSubmit makes the object and calls upload; an empty file ends it at once.
Upload ==
    /\ main = "new"
    /\ uploadStatus = "NEW"
    /\ \/ /\ main' = "initiating"
          /\ uploadStatus' = "INITIATING"
          /\ Send("initiate", 0)
       \/ GiveUp /\ UNCHANGED <<requests, answer>>
    /\ UNCHANGED <<uploadInfo, attempts, part, ongoing, backend, submitted>>

Part(step, left) == [step |-> step, left |-> left]

\* Mutant of TakeSlots: only the parts that had to wait are counted.
TakeSlotsLater ==
    /\ part' = [p \in Parts |->
           IF p <= MaxParallel THEN Part("hashing", MaxAttempts) ELSE Part("waiting", 0)]
    /\ ongoing' = 0

\* The loop over upload_urls calls uploadPart for each; the throttler lets the
\* first MAX_PARALLEL_REQUESTS begin, which start to hash their part.
TakeSlots ==
    /\ part' = [p \in Parts |->
           IF p <= MaxParallel THEN Part("hashing", MaxAttempts) ELSE Part("waiting", 0)]
    /\ ongoing' = IF PartCount <= MaxParallel THEN PartCount ELSE MaxParallel

\* initiateUpload returns.  Canceled meanwhile, its cancelGuard throws, and
\* neither the uuid nor any part is used.
Initiated ==
    /\ main = "initiating"
    /\ answer = "ok"
    /\ answer' = "none"
    /\ IF Canceled
       THEN GiveUp /\ UNCHANGED <<uploadInfo, part, ongoing>>
       ELSE /\ main' = "uploading"
            /\ uploadStatus' = "UPLOADING"
            /\ uploadInfo' = TRUE
            /\ TakeSlots
    /\ UNCHANGED <<attempts, requests, backend, submitted>>

\* The server refuses, or the network fails before the answer arrives.
InitiateFails ==
    /\ main = "initiating"
    /\ answer # "ok"
    /\ answer' = "none"
    /\ GiveUp
    /\ UNCHANGED <<uploadInfo, attempts, part, ongoing, requests, backend, submitted>>

-----------------------------------------------------------------------------
(* uploadPart, inside throttle, cancelGuard and retry *)

\* Mutant of Settle: the slot is not given back when the part fails.
SettleKeepsSlot(p, step) ==
    /\ part' = [part EXCEPT ![p] = Part(step, 0)]
    /\ ongoing' = IF step = "done" THEN ongoing - 1 ELSE ongoing

\* The promise of a part settles and the throttler's finally block runs.
Settle(p, step) ==
    /\ part' = [part EXCEPT ![p] = Part(step, 0)]
    /\ ongoing' = ongoing - 1

\* Mutant of Rejected: upload() waits for the parts that are left.
RejectedLater == UNCHANGED <<main, uploadStatus>>

\* The first rejected part makes Promise.all throw; the others go on by
\* themselves.
Rejected ==
    IF main = "uploading" THEN GiveUp ELSE UNCHANGED <<main, uploadStatus>>

Continue(p, step, left) ==
    /\ part' = [part EXCEPT ![p] = Part(step, left)]
    /\ UNCHANGED <<main, ongoing>>

\* A slot is free at one of the waiting part's checks, every 100 ms.
StartPart(p) ==
    /\ part[p].step = "waiting"
    /\ ongoing < MaxParallel
    /\ IF Canceled
       THEN /\ part' = [part EXCEPT ![p] = Part("failed", 0)]
            /\ Rejected
            /\ UNCHANGED ongoing
       ELSE /\ part' = [part EXCEPT ![p] = Part("hashing", MaxAttempts)]
            /\ ongoing' = ongoing + 1
            /\ UNCHANGED <<main, uploadStatus>>
    /\ UNCHANGED <<uploadInfo, attempts, requests, answer, backend, submitted>>

\* Mutant of HashDone: the hash is awaited without cancelGuard.
HashDoneUnguarded(p) ==
    /\ part[p].step = "hashing"
    /\ Continue(p, "sending", part[p].left)
    /\ UNCHANGED <<uploadStatus, uploadInfo, attempts, requests, answer, backend, submitted>>

\* The MD5 worker answers: the PUT is sent, unless the upload was canceled.
HashDone(p) ==
    /\ part[p].step = "hashing"
    /\ Continue(p, IF Canceled THEN "sleeping" ELSE "sending", part[p].left)
    /\ UNCHANGED <<uploadStatus, uploadInfo, attempts, requests, answer, backend, submitted>>

\* Mutant of LastPart: no other part is running.
LastPartRunning(p) == main = "uploading" /\ ongoing = 1

\* Promise.all resolves with this part.
LastPart(p) ==
    main = "uploading" /\ \A q \in Parts \ {p} : part[q].step = "done"

\* Mutant of FinishBegins: the status is not looked at.
FinishBeginsAnyway ==
    /\ main' = "finishing"
    /\ attempts' = MaxAttempts
    /\ Send("finish", MaxAttempts)
    /\ UNCHANGED uploadStatus

\* finishUpload, called as soon as the last part is done.
FinishBegins ==
    IF uploadStatus = "UPLOADING"
    THEN /\ main' = "finishing"
         /\ attempts' = MaxAttempts
         /\ Send("finish", MaxAttempts)
         /\ UNCHANGED uploadStatus
    ELSE GiveUp /\ UNCHANGED <<attempts, requests, answer>>

\* The storage accepts the part.
PartDone(p) ==
    /\ part[p].step = "sending"
    /\ Settle(p, "done")
    /\ IF LastPart(p)
       THEN FinishBegins
       ELSE UNCHANGED <<uploadStatus, main, attempts, requests, answer>>
    /\ UNCHANGED <<uploadInfo, backend, submitted>>

\* The storage answers with an error, which is also the upload's status from
\* now on, or the network fails; retry logs it and sleeps.
PartFails(p) ==
    /\ part[p].step = "sending"
    /\ Continue(p, "sleeping", part[p].left)
    /\ uploadStatus' \in {StatusAfter("ERRORED"), uploadStatus}
    /\ UNCHANGED <<uploadInfo, attempts, requests, answer, backend, submitted>>

\* After five seconds: the next attempt, or the end of them.
PartRetries(p) ==
    /\ part[p].step = "sleeping"
    /\ IF part[p].left = 1 \/ Canceled
       THEN Settle(p, "failed") /\ Rejected
       ELSE Continue(p, "hashing", part[p].left - 1) /\ UNCHANGED uploadStatus
    /\ UNCHANGED <<uploadInfo, attempts, requests, answer, backend, submitted>>

-----------------------------------------------------------------------------
(* finishUpload and what onSubmit does with the uuid *)

\* The status becomes COMPLETE unless the upload was canceled; upload() returns
\* the uuid in either case, and onSubmit submits it.
FinishSucceeds ==
    /\ main = "finishing"
    /\ answer = "ok"
    /\ answer' = "none"
    /\ main' = "returned"
    /\ uploadStatus' = StatusAfter("COMPLETE")
    /\ submitted' = TRUE
    /\ UNCHANGED <<uploadInfo, attempts, part, ongoing, requests, backend>>

\* The server refuses, or the network fails before the answer arrives.
FinishFails ==
    /\ main = "finishing"
    /\ answer # "ok"
    /\ answer' = "none"
    /\ main' = "sleeping"
    /\ UNCHANGED <<uploadStatus, uploadInfo, attempts, part, ongoing, requests,
                   backend, submitted>>

\* Mutant of FinishRetries: retry gives up silently after the last attempt.
FinishRetriesInVain ==
    /\ main = "sleeping"
    /\ attempts' = attempts - 1
    /\ IF attempts = 1
       THEN /\ main' = "returned"
            /\ uploadStatus' = StatusAfter("COMPLETE")
            /\ submitted' = TRUE
            /\ UNCHANGED <<requests, answer>>
       ELSE /\ main' = "finishing"
            /\ Send("finish", attempts - 1)
            /\ UNCHANGED <<uploadStatus, submitted>>
    /\ UNCHANGED <<uploadInfo, part, ongoing, backend>>

\* canRetry is always true here.
FinishRetries ==
    /\ main = "sleeping"
    /\ attempts' = attempts - 1
    /\ IF attempts = 1
       THEN GiveUp /\ UNCHANGED <<requests, answer>>
       ELSE /\ main' = "finishing"
            /\ Send("finish", attempts - 1)
            /\ UNCHANGED uploadStatus
    /\ UNCHANGED <<uploadInfo, part, ongoing, backend, submitted>>

-----------------------------------------------------------------------------
(* The user *)

\* The Cancel button, enabled once per file and until the package is submitted:
\* every PUT is aborted, and the server is told when there is a uuid to tell.
CancelUpload ==
    /\ main # "new"
    /\ ~Canceled
    /\ ~submitted
    /\ uploadStatus' = "CANCELED"
    /\ part' = [p \in Parts |->
           IF part[p].step = "sending" THEN Part("stuck", 0) ELSE part[p]]
    /\ requests' = IF uploadInfo /\ uploadStatus # "COMPLETE"
                   THEN requests \cup {Call("abort", 0)} ELSE requests
    /\ UNCHANGED <<uploadInfo, main, attempts, ongoing, answer, backend, submitted>>

-----------------------------------------------------------------------------
(* The server: module UserMedia has its steps.  Calls overlap, so a finish call *)
(* that the client has given up may still be handled, and fail, after another   *)
(* has succeeded; only what S3 has done to the multipart upload is final.       *)

Awaited(m) ==
    \/ m.call = "initiate" /\ main = "initiating"
    \/ m.call \in {"finish", "finishing"} /\ main = "finishing" /\ m.attempt = attempts

Handled(m, result) ==
    /\ requests' = requests \ {m}
    /\ answer' = IF Awaited(m) THEN result ELSE answer
    /\ UNCHANGED client

ServerInitiates ==
    \E m \in requests :
        /\ m.call = "initiate"
        /\ \/ server' = "created" /\ multipart' = "open" /\ Handled(m, "ok")
           \/ UNCHANGED backend /\ Handled(m, "error")

\* finalize_upload works from the row it has loaded, and refuses all but a created one.
ServerAdmits ==
    \E m \in requests :
        /\ m.call = "finish"
        /\ \/ /\ server = "created"
              /\ requests' = (requests \ {m}) \cup {Call("finishing", m.attempt)}
              /\ UNCHANGED <<client, answer>>
           \/ Handled(m, "error")
        /\ UNCHANGED backend

\* The rest of finalize_upload.  It saves the status over whatever is there, and
\* complete_multipart_upload may have taken effect when a later call fails.
ServerFinishes ==
    \E m \in requests :
        /\ m.call = "finishing"
        /\ \/ /\ multipart \in {"open", "completed"}
              /\ multipart' = "completed"
              /\ server' = "complete"
              /\ Handled(m, "ok")
           \/ /\ \/ UNCHANGED multipart
                 \/ multipart = "open" /\ multipart' = "completed"
              /\ server' \in {"error", server}
              /\ Handled(m, "error")

\* abort_upload, which fails in the storage when no multipart upload is open; the
\* client does not look at the answer.
ServerAborts ==
    \E m \in requests :
        /\ m.call = "abort"
        /\ \/ /\ server \in {"created", "aborted", "error"}
              /\ multipart = "open"
              /\ multipart' = "aborted"
              /\ server' \in {"aborted", server}
           \/ UNCHANGED backend
        /\ Handled(m, "ok")

-----------------------------------------------------------------------------

PartStep(p) ==
    StartPart(p) \/ HashDone(p) \/ PartDone(p) \/ PartFails(p) \/ PartRetries(p)

MainStep ==
    Initiated \/ InitiateFails \/ FinishSucceeds \/ FinishFails \/ FinishRetries

Next ==
    \/ Upload
    \/ MainStep
    \/ \E p \in Parts : PartStep(p)
    \/ CancelUpload
    \/ ServerInitiates \/ ServerAdmits \/ ServerFinishes \/ ServerAborts

\* Every request ends, if only with a network error; the worker answers; timers
\* fire.  The user need not do anything and the server need not answer.
Fairness ==
    /\ WF_vars(MainStep)
    /\ \A p \in Parts : WF_vars(PartStep(p))

Spec == Init /\ [][Next]_vars /\ Fairness

-----------------------------------------------------------------------------
(* Properties *)

\* finishUpload is only called, and the upload only completed, when every part is
\* stored: a part that waits for a slot, sleeps before its next attempt or has given
\* up is never forgotten.
FinishHasAllParts ==
    \/ server = "complete" \/ multipart = "completed"
    \/ \E m \in requests : m.call \in {"finish", "finishing"}
    => \A p \in Parts : part[p].step = "done"

\* A package is only submitted with a file that S3 has assembled, however many finish
\* calls were lost, failed or answered late and whatever was aborted.  (The row may
\* have become upload_error again, when an overlapped finish call failed afterwards.)
SubmittedIsAssembled ==
    submitted => multipart = "completed" /\ server \in {"complete", "error"}

\* A late part, answer or error never revises how the upload ended; only the
\* user still cancels it.
OutcomeIsKept ==
    [][(uploadStatus \in {"COMPLETE", "ERRORED", "CANCELED"}) =>
           (uploadStatus' \in {uploadStatus, "CANCELED"})]_vars

\* Once the user has canceled, no part starts to send, whatever it was waiting
\* for: its slot, its hash or its next attempt.
NoPutAfterCancel ==
    [][Canceled => \A p \in Parts : part'[p].step = "sending" => part[p].step = "sending"]_vars

\* upload() ends unless the user cancels it.  (A canceled one may not: the
\* promise of an aborted request is never settled.)
UploadEnds == main # "new" ~> main = "returned" \/ Canceled

\* Every part comes to an end of its own unless the upload is canceled, also the
\* ones still waiting for a slot when another has made the upload fail.
PartsEnd ==
    \A p \in Parts : part[p].step = "waiting" ~> part[p].step \in {"done", "failed"} \/ Canceled

\* "All awaits during which the upload might be cancelled should be wrapped with
\* this" (cancelGuard): a canceled upload does not go on to be submitted.
CanceledIsNotSubmitted == submitted => ~Canceled

=============================================================================
