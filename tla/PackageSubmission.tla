-------------------------- MODULE PackageSubmission --------------------------
(***************************************************************************)
(* Asynchronous package submissions: AsyncPackageSubmission rows, the web  *)
(* requests that create and poll them (and schedule their task), the       *)
(* Celery workers that process them, and the periodic cleanup.             *)
(*                                                                         *)
(* Timestamps are kept as ages: "recent" until the TTL they are compared   *)
(* with has passed, "old" afterwards.                                      *)
(***************************************************************************)
EXTENDS Naturals, FiniteSets

CONSTANTS
    Subs,      \* submissions, all of the same package version
    Requests,  \* web requests in progress at a time
    Workers,   \* Celery worker processes
    None,      \* no submission
    MaxQueue,  \* bound: queued task messages of one submission
    MaxFaults  \* bound: requests and workers that die in a behaviour

ASSUME BoundsAssumption == MaxQueue \in Nat \ {0} /\ MaxFaults \in Nat

ASSUME NamesAssumption == None \notin Subs /\ Requests \cap Workers = {}

VARIABLES
    status,     \* "absent", "PENDING", "FINISHED" or "deleted"
    result,     \* what the row records at its end
    scheduled,  \* age of datetime_scheduled, against TASK_TTL
    polled,     \* age of datetime_polled, against CLEANUP_TTL
    finished,   \* age of datetime_finished, against CLEANUP_TTL
    version,    \* the submission whose task created the PackageVersion, or None
    queue,      \* task messages in the broker, per submission
    request,    \* what each web request is doing, and its copy of the row
    task,       \* what each worker is doing
    faults      \* how many requests and workers have died so far

row == <<status, result, scheduled, polled, finished>>

vars == <<row, version, queue, request, task, faults>>

Idle == [step |-> "idle"]

\* What a row records at its end: "errors" stands for form_errors or task_error.
Results == {"none", "version", "errors"}

Request == [step : {"save", "publish"}, sub : Subs, due : BOOLEAN,
            scheduled : {"never", "recent", "old"}]

Task == [step : {"prepare", "insert", "finish"}, sub : Subs,
         result : Results]

TypeOK ==
    /\ status \in [Subs -> {"absent", "PENDING", "FINISHED", "deleted"}]
    /\ result \in [Subs -> Results]
    /\ scheduled \in [Subs -> {"never", "recent", "old"}]
    /\ polled \in [Subs -> {"recent", "old"}]
    /\ finished \in [Subs -> {"never", "recent", "old"}]
    /\ version \in Subs \cup {None}
    /\ queue \in [Subs -> 0 .. MaxQueue]
    /\ request \in [Requests -> Request \cup {Idle}]
    /\ task \in [Workers -> Task \cup {Idle}]
    /\ faults \in 0 .. MaxFaults

Init ==
    /\ status = [s \in Subs |-> "absent"]
    /\ result = [s \in Subs |-> "none"]
    /\ scheduled = [s \in Subs |-> "never"]
    /\ polled = [s \in Subs |-> "recent"]
    /\ finished = [s \in Subs |-> "never"]
    /\ version = None
    /\ queue = [s \in Subs |-> 0]
    /\ request = [r \in Requests |-> Idle]
    /\ task = [w \in Workers |-> Idle]
    /\ faults = 0

-----------------------------------------------------------------------------

InTable(s) == status[s] \in {"PENDING", "FINISHED"}

AtSave(r, s) == request[r].step = "save" /\ request[r].sub = s
AtPublish(r, s) == request[r].step = "publish" /\ request[r].sub = s
AtTask(w, s, step) == task[w].step = step /\ task[w].sub = s

\* select_for_update: the row is locked until the task's transaction ends.
Locked(s) == \E w \in Workers : task[w] # Idle /\ task[w].sub = s

Held(step, s, age, due) ==
    [step |-> step, sub |-> s, scheduled |-> age, due |-> due]

Doing(step, s, res) == [step |-> step, sub |-> s, result |-> res]

\* The decision of schedule_if_appropriate, taken on the copy the request holds.
IsDue(state, age) == state = "PENDING" /\ age # "recent"

-----------------------------------------------------------------------------
(* Web requests *)

\* CreateAsyncPackageSubmissionApiView: the row is inserted and committed, then
\* schedule_if_appropriate runs on the new instance.
CreateSubmission(r, s) ==
    /\ status[s] = "absent"
    /\ request[r] = Idle
    /\ status' = [status EXCEPT ![s] = "PENDING"]
    /\ request' = [request EXCEPT ![r] =
           Held("save", s, "never", IsDue("PENDING", "never"))]
    /\ UNCHANGED <<result, scheduled, polled, finished, version, queue, task, faults>>

\* PollSubmissionStatusApiView reads the row, without locking it.
PollLoad(r, s) ==
    /\ InTable(s)
    /\ request[r] = Idle
    /\ request' = [request EXCEPT ![r] =
           Held("save", s, scheduled[s], IsDue(status[s], scheduled[s]))]
    /\ UNCHANGED <<row, version, queue, task, faults>>

\* Mutant of PollSave: save() without update_fields writes the status as well.
PollSaveWholeRow(r, s) ==
    /\ AtSave(r, s)
    /\ ~Locked(s)
    /\ IF InTable(s)
       THEN /\ scheduled' = [scheduled EXCEPT ![s] =
                   IF request[r].due THEN "recent" ELSE request[r].scheduled]
            /\ polled' = [polled EXCEPT ![s] = "recent"]
            /\ status' = [status EXCEPT ![s] = IF request[r].due THEN "PENDING" ELSE @]
       ELSE UNCHANGED <<status, scheduled, polled>>
    /\ request' = [request EXCEPT ![r] =
           IF InTable(s) /\ @.due THEN Held("publish", s, @.scheduled, TRUE) ELSE Idle]
    /\ UNCHANGED <<result, finished, version, queue, task, faults>>

\* save(update_fields=("datetime_scheduled", "datetime_polled")) and the commit:
\* the UPDATE waits for a task that holds the row.  A deleted row makes save
\* raise, the transaction is rolled back and on_commit does not run.
PollSave(r, s) ==
    /\ AtSave(r, s)
    /\ ~Locked(s)
    /\ IF InTable(s)
       THEN /\ scheduled' = [scheduled EXCEPT ![s] =
                   IF request[r].due THEN "recent" ELSE request[r].scheduled]
            /\ polled' = [polled EXCEPT ![s] = "recent"]
       ELSE UNCHANGED <<scheduled, polled>>
    /\ request' = [request EXCEPT ![r] =
           IF InTable(s) /\ @.due THEN Held("publish", s, @.scheduled, TRUE) ELSE Idle]
    /\ UNCHANGED <<status, result, finished, version, queue, task, faults>>

\* transaction.on_commit: process_submission_task.delay.
PublishTask(r, s) ==
    /\ AtPublish(r, s)
    /\ queue[s] < MaxQueue
    /\ queue' = [queue EXCEPT ![s] = @ + 1]
    /\ request' = [request EXCEPT ![r] = Idle]
    /\ UNCHANGED <<row, version, task, faults>>

-----------------------------------------------------------------------------
(* Workers: process_submission_idempotent, one transaction *)

\* The message is acknowledged before the task runs.  The query skips a locked
\* row and a row that is not PENDING; the task then returns False.  (A row may also be
\* locked by the uncommitted UPDATE of a poll; what then happens to the message is what
\* happens when the worker dies right after this step.)
StartTask(w, s) ==
    /\ queue[s] > 0
    /\ task[w] = Idle
    /\ queue' = [queue EXCEPT ![s] = @ - 1]
    /\ task' = IF status[s] = "PENDING" /\ ~Locked(s)
               THEN [task EXCEPT ![w] = Doing("prepare", s, "none")]
               ELSE task
    /\ UNCHANGED <<row, version, request, faults>>

Conclude(w, res) == task' = [task EXCEPT ![w] = Doing("finish", @.sub, res)]

\* download_file raises unless the upload is complete and its object is there.
\* form.is_valid refuses a version that is already there, and much else.
Prepare(w, s) ==
    /\ AtTask(w, s, "prepare")
    /\ \/ version = None /\ task' = [task EXCEPT ![w] = Doing("insert", s, "none")]
       \/ Conclude(w, "errors")
    /\ UNCHANGED <<row, version, queue, request, faults>>

\* Mutant of InsertVersion: no unique constraint on the versions of a package.
InsertVersionAgain(w, s) ==
    /\ AtTask(w, s, "insert")
    /\ Conclude(w, "version") \/ Conclude(w, "errors")
    /\ UNCHANGED <<row, version, queue, request, faults>>

\* form.save: the INSERT of the version waits for another transaction that has
\* inserted the same version, and fails if that one has committed.
InsertVersion(w, s) ==
    /\ AtTask(w, s, "insert")
    /\ \A v \in Workers : task[v] # Idle => task[v].result # "version"
    /\ \/ version = None /\ Conclude(w, "version")
       \/ Conclude(w, "errors")
    /\ UNCHANGED <<row, version, queue, request, faults>>

\* Mutant of FinishTask: a status that is not one of PackageSubmissionStatus.
FinishTaskMisspelt(w, s) ==
    /\ AtTask(w, s, "finish")
    /\ status' = [status EXCEPT ![s] = "COMPLETE"]
    /\ result' = [result EXCEPT ![s] = task[w].result]
    /\ finished' = [finished EXCEPT ![s] = "recent"]
    /\ version' = IF task[w].result = "version" THEN s ELSE version
    /\ task' = [task EXCEPT ![w] = Idle]
    /\ UNCHANGED <<scheduled, polled, queue, request, faults>>

\* The finally block and the commit.  submission.save() writes every column, but
\* the lock has kept the others from changing since they were read.
FinishTask(w, s) ==
    /\ AtTask(w, s, "finish")
    /\ status' = [status EXCEPT ![s] = "FINISHED"]
    /\ result' = [result EXCEPT ![s] = task[w].result]
    /\ finished' = [finished EXCEPT ![s] = "recent"]
    /\ version' = IF task[w].result = "version" THEN s ELSE version
    /\ task' = [task EXCEPT ![w] = Idle]
    /\ UNCHANGED <<scheduled, polled, queue, request, faults>>

-----------------------------------------------------------------------------
(* cleanup_submissions, time and failures *)

\* One DELETE statement: it waits for a locked row and then looks at it again.
CleanupSubmission(s) ==
    /\ InTable(s)
    /\ ~Locked(s)
    /\ finished[s] = "old" \/ polled[s] = "old"
    /\ status' = [status EXCEPT ![s] = "deleted"]
    /\ UNCHANGED <<result, scheduled, polled, finished, version, queue, request,
                   task, faults>>

\* TASK_TTL has passed since the row was scheduled; the copies that requests
\* hold are no younger.
TaskTtlPasses(s) ==
    /\ InTable(s)
    /\ scheduled[s] = "recent"
    /\ scheduled' = [scheduled EXCEPT ![s] = "old"]
    /\ request' = [r \in Requests |->
           IF AtSave(r, s) /\ request[r].scheduled = "recent"
           THEN Held("save", s, "old", request[r].due) ELSE request[r]]
    /\ UNCHANGED <<status, result, polled, finished, version, queue, task, faults>>

\* CLEANUP_TTL, a day, has passed since the last poll or since the end.  The row
\* was last scheduled before its last poll, and TASK_TTL is five minutes.
CleanupTtlPasses(s) ==
    /\ InTable(s)
    /\ \/ /\ polled[s] = "recent"
          /\ scheduled[s] # "recent"
          /\ polled' = [polled EXCEPT ![s] = "old"]
          /\ UNCHANGED finished
       \/ /\ finished[s] = "recent"
          /\ finished' = [finished EXCEPT ![s] = "old"]
          /\ UNCHANGED polled
    /\ UNCHANGED <<status, result, scheduled, version, queue, request, task, faults>>

\* A request ends early: before the save, or after the commit and before the
\* broker has the message.
RequestDies(r) ==
    /\ request[r] # Idle
    /\ faults < MaxFaults
    /\ faults' = faults + 1
    /\ request' = [request EXCEPT ![r] = Idle]
    /\ UNCHANGED <<row, version, queue, task>>

\* A worker is killed, or its commit fails: the transaction is rolled back and
\* the message, already acknowledged, is lost.
WorkerDies(w) ==
    /\ task[w] # Idle
    /\ faults < MaxFaults
    /\ faults' = faults + 1
    /\ task' = [task EXCEPT ![w] = Idle]
    /\ UNCHANGED <<row, version, queue, request>>

-----------------------------------------------------------------------------

Process(w, s) ==
    Prepare(w, s) \/ InsertVersion(w, s) \/ FinishTask(w, s)

Next ==
    \/ \E r \in Requests, s \in Subs :
           \/ CreateSubmission(r, s) \/ PollLoad(r, s)
           \/ PollSave(r, s) \/ PublishTask(r, s)
    \/ \E w \in Workers, s \in Subs : StartTask(w, s) \/ Process(w, s)
    \/ \E s \in Subs : CleanupSubmission(s) \/ TaskTtlPasses(s) \/ CleanupTtlPasses(s)
    \/ \E r \in Requests : RequestDies(r)
    \/ \E w \in Workers : WorkerDies(w)

\* Started requests and tasks carry on, the broker delivers every message, time
\* passes, and the cleanup is run every hour.  Nobody has to poll.
Fairness ==
    /\ \A r \in Requests, s \in Subs : WF_vars(PollSave(r, s)) /\ WF_vars(PublishTask(r, s))
    /\ \A w \in Workers, s \in Subs : WF_vars(Process(w, s))
    /\ \A s \in Subs :
           /\ SF_vars(\E w \in Workers : StartTask(w, s))
           /\ WF_vars(TaskTtlPasses(s))
           /\ WF_vars(CleanupTtlPasses(s))
           /\ WF_vars(CleanupSubmission(s))

Spec == Init /\ [][Next]_vars /\ Fairness

-----------------------------------------------------------------------------
(* Properties *)

\* A finished submission tells the truth about the package: it reports the
\* version exactly when its own task created it, even when tasks were scheduled
\* twice, lost, or ran beside those of another submission of the same package.
ResultIsTruthful ==
    \A s \in Subs :
        /\ status[s] = "FINISHED" => (result[s] = "version" <=> version = s)
        /\ status[s] = "PENDING" => version # s

\* The promise to the client: each submission is resolved once and for all, the
\* version is published once, and nothing stays pending for ever.
outcomeBar ==
    [s \in Subs |-> IF status[s] = "FINISHED" THEN result[s]
                    ELSE IF status[s] = "PENDING" THEN "pending"
                    ELSE IF status[s] = "deleted" THEN "gone" ELSE "absent"]

Promise == INSTANCE SubmissionPromise WITH outcome <- outcomeBar, publishedBy <- version

KeepsPromise == Promise!Spec

\* The docstring of schedule_if_appropriate: a task is only scheduled when no
\* prior task has been scheduled or enough time has passed.
ScheduledOncePerTtl ==
    [][\A r \in Requests, s \in Subs :
           PollSave(r, s) /\ InTable(s) /\ request[r].due => scheduled[s] # "recent"]_vars

=============================================================================
