------------------------ MODULE PackageSubmissionProofs ------------------------
(***************************************************************************)
(* Proofs about PackageSubmission, for any number of submissions, web      *)
(* requests, workers, queued messages and failures.                        *)
(***************************************************************************)
EXTENDS PackageSubmission, TLAPS

-----------------------------------------------------------------------------
(* The inductive invariant *)

Works(w, s) == task[w] # Idle /\ task[w].sub = s

Created(w) == task[w] # Idle /\ task[w].result = "version"

\* The row lock of a submission is exclusive, and whoever has it keeps the row
\* PENDING: neither the cleanup nor another task can touch it.
OneTaskPerRow ==
    \A w \in Workers, s \in Subs : Works(w, s) =>
        /\ status[s] = "PENDING"
        /\ \A v \in Workers : Works(v, s) => v = w

\* What a task has achieved so far; at most one transaction holds the version
\* inserted but not committed, and none does once it has been published.
OneInsertion ==
    \A w \in Workers :
        /\ Created(w) => version = None
        /\ \A v \in Workers : Created(v) /\ Created(w) => v = w
        /\ task[w].step = "finish" => task[w].result \in {"version", "errors"}
        /\ task[w].step \in {"prepare", "insert"} => task[w].result = "none"

\* The version belongs to a submission that has ended.
PublishedAtEnd ==
    \A s \in Subs :
        /\ status[s] = "absent" => version # s
        /\ status[s] = "FINISHED" => result[s] \in {"version", "errors"}

IInv ==
    /\ TypeOK
    /\ OneTaskPerRow
    /\ OneInsertion
    /\ PublishedAtEnd
    /\ ResultIsTruthful

-----------------------------------------------------------------------------
(* Every step keeps the inductive invariant *)

\* Every step keeps the types: no handler writes a status, a result or a copy
\* outside them.
LEMMA TypeOKStep ==
  ASSUME TypeOK, [Next]_vars
  PROVE  TypeOK'
<1> USE BoundsAssumption, NamesAssumption
    DEF TypeOK, IsDue, Results, Request, Task, Idle, Held, Doing, Conclude, InTable,
        AtSave, AtPublish, AtTask, Locked, row
<1>1. ASSUME NEW r \in Requests, NEW s \in Subs, CreateSubmission(r, s)
      PROVE  TypeOK'
  BY <1>1 DEF CreateSubmission
<1>2. ASSUME NEW r \in Requests, NEW s \in Subs, PollLoad(r, s)
      PROVE  TypeOK'
  BY <1>2 DEF PollLoad
<1>3. ASSUME NEW r \in Requests, NEW s \in Subs, PollSave(r, s)
      PROVE  TypeOK'
  BY <1>3 DEF PollSave
<1>4. ASSUME NEW r \in Requests, NEW s \in Subs, PublishTask(r, s)
      PROVE  TypeOK'
  BY <1>4 DEF PublishTask
<1>5. ASSUME NEW w \in Workers, NEW s \in Subs, StartTask(w, s)
      PROVE  TypeOK'
  BY <1>5 DEF StartTask
<1>6. ASSUME NEW w \in Workers, NEW s \in Subs, Prepare(w, s)
      PROVE  TypeOK'
  BY <1>6 DEF Prepare
<1>7. ASSUME NEW w \in Workers, NEW s \in Subs, InsertVersion(w, s)
      PROVE  TypeOK'
  BY <1>7 DEF InsertVersion
<1>8. ASSUME NEW w \in Workers, NEW s \in Subs, FinishTask(w, s)
      PROVE  TypeOK'
  BY <1>8 DEF FinishTask
<1>9. ASSUME NEW s \in Subs, CleanupSubmission(s)
      PROVE  TypeOK'
  BY <1>9 DEF CleanupSubmission
<1>10. ASSUME NEW s \in Subs, TaskTtlPasses(s)
       PROVE  TypeOK'
  BY <1>10 DEF TaskTtlPasses
<1>11. ASSUME NEW s \in Subs, CleanupTtlPasses(s)
       PROVE  TypeOK'
  BY <1>11 DEF CleanupTtlPasses
<1>12. ASSUME NEW r \in Requests, RequestDies(r)
       PROVE  TypeOK'
  BY <1>12 DEF RequestDies
<1>13. ASSUME NEW w \in Workers, WorkerDies(w)
       PROVE  TypeOK'
  BY <1>13 DEF WorkerDies
<1>14. CASE UNCHANGED vars
  BY <1>14 DEF vars, row
<1> HIDE DEF TypeOK, IsDue, Results, Request, Task, Idle, Held, Doing, Conclude, InTable,
        AtSave, AtPublish, AtTask, Locked, row
<1> QED
  BY <1>1, <1>2, <1>3, <1>4, <1>5, <1>6, <1>7,
     <1>8, <1>9, <1>10, <1>11, <1>12, <1>13, <1>14
     DEF Next, Process

\* skip_locked and the status in the query keep a second task out.
LEMMA OneTaskStep ==
  ASSUME TypeOK, OneTaskPerRow, [Next]_vars
  PROVE  OneTaskPerRow'
<1> USE DEF TypeOK, OneTaskPerRow, Works, Results, Request, Task, Idle, Held, Doing, Conclude, InTable,
        AtSave, AtPublish, AtTask, Locked, row
<1>1. ASSUME NEW r \in Requests, NEW s \in Subs, CreateSubmission(r, s)
      PROVE  OneTaskPerRow'
  BY <1>1 DEF CreateSubmission
<1>2. ASSUME NEW r \in Requests, NEW s \in Subs, PollLoad(r, s)
      PROVE  OneTaskPerRow'
  BY <1>2 DEF PollLoad
<1>3. ASSUME NEW r \in Requests, NEW s \in Subs, PollSave(r, s)
      PROVE  OneTaskPerRow'
  BY <1>3 DEF PollSave
<1>4. ASSUME NEW r \in Requests, NEW s \in Subs, PublishTask(r, s)
      PROVE  OneTaskPerRow'
  BY <1>4 DEF PublishTask
<1>5. ASSUME NEW w \in Workers, NEW s \in Subs, StartTask(w, s)
      PROVE  OneTaskPerRow'
  BY <1>5 DEF StartTask
<1>6. ASSUME NEW w \in Workers, NEW s \in Subs, Prepare(w, s)
      PROVE  OneTaskPerRow'
  BY <1>6 DEF Prepare
<1>7. ASSUME NEW w \in Workers, NEW s \in Subs, InsertVersion(w, s)
      PROVE  OneTaskPerRow'
  BY <1>7 DEF InsertVersion
<1>8. ASSUME NEW w \in Workers, NEW s \in Subs, FinishTask(w, s)
      PROVE  OneTaskPerRow'
  BY <1>8 DEF FinishTask
<1>9. ASSUME NEW s \in Subs, CleanupSubmission(s)
      PROVE  OneTaskPerRow'
  BY <1>9 DEF CleanupSubmission
<1>10. ASSUME NEW s \in Subs, TaskTtlPasses(s)
       PROVE  OneTaskPerRow'
  BY <1>10 DEF TaskTtlPasses
<1>11. ASSUME NEW s \in Subs, CleanupTtlPasses(s)
       PROVE  OneTaskPerRow'
  BY <1>11 DEF CleanupTtlPasses
<1>12. ASSUME NEW r \in Requests, RequestDies(r)
       PROVE  OneTaskPerRow'
  BY <1>12 DEF RequestDies
<1>13. ASSUME NEW w \in Workers, WorkerDies(w)
       PROVE  OneTaskPerRow'
  BY <1>13 DEF WorkerDies
<1>14. CASE UNCHANGED vars
  BY <1>14 DEF vars, row
<1> HIDE DEF TypeOK, OneTaskPerRow, Works, Results, Request, Task, Idle, Held, Doing, Conclude, InTable,
        AtSave, AtPublish, AtTask, Locked, row
<1> QED
  BY <1>1, <1>2, <1>3, <1>4, <1>5, <1>6, <1>7,
     <1>8, <1>9, <1>10, <1>11, <1>12, <1>13, <1>14
     DEF Next, Process

\* The unique constraint keeps a second insertion out, committed or not.
LEMMA OneInsertionStep ==
  ASSUME TypeOK, OneInsertion, [Next]_vars
  PROVE  OneInsertion'
<1> USE NamesAssumption DEF TypeOK, OneInsertion, Created, Results, Request, Task, Idle, Held, Doing, Conclude, InTable,
        AtSave, AtPublish, AtTask, Locked, row
<1>1. ASSUME NEW r \in Requests, NEW s \in Subs, CreateSubmission(r, s)
      PROVE  OneInsertion'
  BY <1>1 DEF CreateSubmission
<1>2. ASSUME NEW r \in Requests, NEW s \in Subs, PollLoad(r, s)
      PROVE  OneInsertion'
  BY <1>2 DEF PollLoad
<1>3. ASSUME NEW r \in Requests, NEW s \in Subs, PollSave(r, s)
      PROVE  OneInsertion'
  BY <1>3 DEF PollSave
<1>4. ASSUME NEW r \in Requests, NEW s \in Subs, PublishTask(r, s)
      PROVE  OneInsertion'
  BY <1>4 DEF PublishTask
<1>5. ASSUME NEW w \in Workers, NEW s \in Subs, StartTask(w, s)
      PROVE  OneInsertion'
  BY <1>5 DEF StartTask
<1>6. ASSUME NEW w \in Workers, NEW s \in Subs, Prepare(w, s)
      PROVE  OneInsertion'
  BY <1>6 DEF Prepare
<1>7. ASSUME NEW w \in Workers, NEW s \in Subs, InsertVersion(w, s)
      PROVE  OneInsertion'
  BY <1>7 DEF InsertVersion
<1>8. ASSUME NEW w \in Workers, NEW s \in Subs, FinishTask(w, s)
      PROVE  OneInsertion'
  BY <1>8 DEF FinishTask
<1>9. ASSUME NEW s \in Subs, CleanupSubmission(s)
      PROVE  OneInsertion'
  BY <1>9 DEF CleanupSubmission
<1>10. ASSUME NEW s \in Subs, TaskTtlPasses(s)
       PROVE  OneInsertion'
  BY <1>10 DEF TaskTtlPasses
<1>11. ASSUME NEW s \in Subs, CleanupTtlPasses(s)
       PROVE  OneInsertion'
  BY <1>11 DEF CleanupTtlPasses
<1>12. ASSUME NEW r \in Requests, RequestDies(r)
       PROVE  OneInsertion'
  BY <1>12 DEF RequestDies
<1>13. ASSUME NEW w \in Workers, WorkerDies(w)
       PROVE  OneInsertion'
  BY <1>13 DEF WorkerDies
<1>14. CASE UNCHANGED vars
  BY <1>14 DEF vars, row
<1> HIDE DEF TypeOK, OneInsertion, Created, Results, Request, Task, Idle, Held, Doing, Conclude, InTable,
        AtSave, AtPublish, AtTask, Locked, row
<1> QED
  BY <1>1, <1>2, <1>3, <1>4, <1>5, <1>6, <1>7,
     <1>8, <1>9, <1>10, <1>11, <1>12, <1>13, <1>14
     DEF Next, Process

\* A row that has ended is never touched again but by the cleanup.
LEMMA TruthStep ==
  ASSUME TypeOK, OneTaskPerRow, OneInsertion, PublishedAtEnd, ResultIsTruthful,
         [Next]_vars
  PROVE  PublishedAtEnd' /\ ResultIsTruthful'
<1> USE NamesAssumption
    DEF TypeOK, OneTaskPerRow, OneInsertion, PublishedAtEnd, ResultIsTruthful,
        Works, Created, Results, Request, Task, Idle, Held, Doing, Conclude, InTable,
        AtSave, AtPublish, AtTask, Locked, row
<1>1. ASSUME NEW r \in Requests, NEW s \in Subs, CreateSubmission(r, s)
      PROVE  PublishedAtEnd' /\ ResultIsTruthful'
  BY <1>1 DEF CreateSubmission
<1>2. ASSUME NEW r \in Requests, NEW s \in Subs, PollLoad(r, s)
      PROVE  PublishedAtEnd' /\ ResultIsTruthful'
  BY <1>2 DEF PollLoad
<1>3. ASSUME NEW r \in Requests, NEW s \in Subs, PollSave(r, s)
      PROVE  PublishedAtEnd' /\ ResultIsTruthful'
  BY <1>3 DEF PollSave
<1>4. ASSUME NEW r \in Requests, NEW s \in Subs, PublishTask(r, s)
      PROVE  PublishedAtEnd' /\ ResultIsTruthful'
  BY <1>4 DEF PublishTask
<1>5. ASSUME NEW w \in Workers, NEW s \in Subs, StartTask(w, s)
      PROVE  PublishedAtEnd' /\ ResultIsTruthful'
  BY <1>5 DEF StartTask
<1>6. ASSUME NEW w \in Workers, NEW s \in Subs, Prepare(w, s)
      PROVE  PublishedAtEnd' /\ ResultIsTruthful'
  BY <1>6 DEF Prepare
<1>7. ASSUME NEW w \in Workers, NEW s \in Subs, InsertVersion(w, s)
      PROVE  PublishedAtEnd' /\ ResultIsTruthful'
  BY <1>7 DEF InsertVersion
<1>8. ASSUME NEW w \in Workers, NEW s \in Subs, FinishTask(w, s)
      PROVE  PublishedAtEnd' /\ ResultIsTruthful'
  BY <1>8 DEF FinishTask
<1>9. ASSUME NEW s \in Subs, CleanupSubmission(s)
      PROVE  PublishedAtEnd' /\ ResultIsTruthful'
  BY <1>9 DEF CleanupSubmission
<1>10. ASSUME NEW s \in Subs, TaskTtlPasses(s)
       PROVE  PublishedAtEnd' /\ ResultIsTruthful'
  BY <1>10 DEF TaskTtlPasses
<1>11. ASSUME NEW s \in Subs, CleanupTtlPasses(s)
       PROVE  PublishedAtEnd' /\ ResultIsTruthful'
  BY <1>11 DEF CleanupTtlPasses
<1>12. ASSUME NEW r \in Requests, RequestDies(r)
       PROVE  PublishedAtEnd' /\ ResultIsTruthful'
  BY <1>12 DEF RequestDies
<1>13. ASSUME NEW w \in Workers, WorkerDies(w)
       PROVE  PublishedAtEnd' /\ ResultIsTruthful'
  BY <1>13 DEF WorkerDies
<1>14. CASE UNCHANGED vars
  BY <1>14 DEF vars, row
<1> HIDE DEF TypeOK, OneTaskPerRow, OneInsertion, PublishedAtEnd, ResultIsTruthful,
        Works, Created, Results, Request, Task, Idle, Held, Doing, Conclude, InTable,
        AtSave, AtPublish, AtTask, Locked, row
<1> QED
  BY <1>1, <1>2, <1>3, <1>4, <1>5, <1>6, <1>7,
     <1>8, <1>9, <1>10, <1>11, <1>12, <1>13, <1>14
     DEF Next, Process

\* At first no submission has been made and nobody is at work.
LEMMA InitIInv == Init => IInv
<1> SUFFICES ASSUME Init  PROVE IInv
  OBVIOUS
<1>1. TypeOK
  BY BoundsAssumption DEF Init, TypeOK, Results
<1>2. OneTaskPerRow
  BY DEF Init, OneTaskPerRow, Works
<1>3. OneInsertion
  BY DEF Init, OneInsertion, Created, Idle
<1>4. PublishedAtEnd /\ ResultIsTruthful
  BY NamesAssumption DEF Init, PublishedAtEnd, ResultIsTruthful
<1> QED
  BY <1>1, <1>2, <1>3, <1>4 DEF IInv

LEMMA NextIInv == IInv /\ [Next]_vars => IInv'
  BY TypeOKStep, OneTaskStep, OneInsertionStep, TruthStep DEF IInv

-----------------------------------------------------------------------------
(* Theorems about the submissions *)

\* The inductive invariant holds however tasks are lost, repeated or overlap.
THEOREM Invariance == Spec => []IInv
  BY InitIInv, NextIInv, PTL DEF Spec

\* TypeOK: every column, message and copy keeps its type.
THEOREM TypesCorrect == Spec => []TypeOK
<1>1. IInv => TypeOK
  BY DEF IInv
<1> QED
  BY <1>1, Invariance, PTL

\* ResultIsTruthful: a finished submission reports the version exactly when its
\* own task created it.
THEOREM ResultIsTruthfulAlways == Spec => []ResultIsTruthful
<1>1. IInv => ResultIsTruthful
  BY DEF IInv
<1> QED
  BY <1>1, Invariance, PTL

-----------------------------------------------------------------------------
(* The rows implement what the API promises *)

\* The initial states of the rows are those of the promise.
LEMMA InitImplements == Init => Promise!Init
<1> SUFFICES ASSUME Init  PROVE Promise!Init
  OBVIOUS
<1>1. outcomeBar = [s \in Subs |-> "absent"]
  BY DEF Init, outcomeBar
<1> QED
  BY <1>1 DEF Init, Promise!Init

\* What a poll reports for one submission.
LEMMA Outcomes ==
  ASSUME NEW s \in Subs
  PROVE  /\ status[s] = "absent" => outcomeBar[s] = "absent"
         /\ status[s] = "PENDING" => outcomeBar[s] = "pending"
         /\ status[s] = "FINISHED" => outcomeBar[s] = result[s]
         /\ status[s] = "deleted" => outcomeBar[s] = "gone"
  BY DEF outcomeBar

\* A handler that leaves status, result and the version alone changes nothing the
\* client can see.
LEMMA Unseen ==
  ASSUME status' = status, result' = result, version' = version
  PROVE  UNCHANGED Promise!vars
<1>1. outcomeBar' = outcomeBar
  BY DEF outcomeBar
<1> QED
  BY <1>1 DEF Promise!vars

\* Creating a submission accepts it.
LEMMA CreateAccepts ==
  ASSUME TypeOK, NEW r \in Requests, NEW s \in Subs, CreateSubmission(r, s)
  PROVE  Promise!Accept(s)
<1>1. status[s] = "absent" /\ status' = [status EXCEPT ![s] = "PENDING"]
  BY DEF CreateSubmission
<1>2. result' = result /\ version' = version
  BY DEF CreateSubmission
<1>3. outcomeBar' = [outcomeBar EXCEPT ![s] = "pending"]
  BY <1>1, <1>2 DEF outcomeBar, TypeOK
<1> QED
  BY <1>1, <1>2, <1>3, Outcomes DEF Promise!Accept

\* The end of a task publishes the version or rejects the submission.
LEMMA FinishSettles ==
  ASSUME IInv, NEW w \in Workers, NEW s \in Subs, FinishTask(w, s)
  PROVE  Promise!Publish(s) \/ Promise!Reject(s)
<1>1. task[w].step = "finish" /\ Works(w, s)
  BY DEF FinishTask, AtTask, Works, Idle
<1>2. status[s] = "PENDING" /\ task[w].result \in {"version", "errors"}
  BY <1>1 DEF IInv, OneTaskPerRow, OneInsertion
<1>3. outcomeBar' = [outcomeBar EXCEPT ![s] = task[w].result]
  BY DEF FinishTask, outcomeBar, IInv, TypeOK
<1>4. CASE task[w].result = "version"
  <2>1. version = None /\ version' = s
    BY <1>1, <1>4 DEF IInv, OneInsertion, Created, Works, FinishTask
  <2> QED
    BY <1>2, <1>3, <1>4, <2>1, Outcomes DEF Promise!Publish
<1>5. CASE task[w].result = "errors"
  <2>1. version' = version
    BY <1>5 DEF FinishTask
  <2> QED
    BY <1>2, <1>3, <1>5, <2>1, Outcomes DEF Promise!Reject
<1> QED
  BY <1>2, <1>4, <1>5

\* The cleanup forgets a submission, whatever has become of it.
LEMMA CleanupForgets ==
  ASSUME IInv, NEW s \in Subs, CleanupSubmission(s)
  PROVE  Promise!Forget(s)
<1>1. /\ status[s] \in {"PENDING", "FINISHED"}
      /\ status' = [status EXCEPT ![s] = "deleted"]
      /\ result' = result /\ version' = version
  BY DEF CleanupSubmission, InTable
<1>2. outcomeBar[s] \in {"pending", "errors", "version"}
  BY <1>1, Outcomes DEF IInv, PublishedAtEnd
<1>3. outcomeBar' = [outcomeBar EXCEPT ![s] = "gone"]
  BY <1>1 DEF outcomeBar, IInv, TypeOK
<1> QED
  BY <1>1, <1>2, <1>3 DEF Promise!Forget

\* Every step of the system is a step of the promise, or one the client cannot see.
LEMMA NextImplements ==
  ASSUME IInv, [Next]_vars
  PROVE  [Promise!Next]_(Promise!vars)
<1>1. ASSUME NEW r \in Requests, NEW s \in Subs, CreateSubmission(r, s)
      PROVE  Promise!Next
  BY <1>1, CreateAccepts DEF IInv, Promise!Next
<1>2. ASSUME NEW w \in Workers, NEW s \in Subs, FinishTask(w, s)
      PROVE  Promise!Next
  BY <1>2, FinishSettles DEF Promise!Next
<1>3. ASSUME NEW s \in Subs, CleanupSubmission(s)
      PROVE  Promise!Next
  BY <1>3, CleanupForgets DEF Promise!Next
<1>4. ASSUME NEW r \in Requests, NEW s \in Subs,
             PollLoad(r, s) \/ PollSave(r, s) \/ PublishTask(r, s)
      PROVE  UNCHANGED Promise!vars
  BY <1>4, Unseen DEF PollLoad, PollSave, PublishTask, row
<1>5. ASSUME NEW w \in Workers, NEW s \in Subs,
             StartTask(w, s) \/ Prepare(w, s) \/ InsertVersion(w, s)
      PROVE  UNCHANGED Promise!vars
  BY <1>5, Unseen DEF StartTask, Prepare, InsertVersion, row
<1>6. ASSUME NEW s \in Subs, TaskTtlPasses(s) \/ CleanupTtlPasses(s)
      PROVE  UNCHANGED Promise!vars
  BY <1>6, Unseen DEF TaskTtlPasses, CleanupTtlPasses
<1>7. ASSUME (\E r \in Requests : RequestDies(r)) \/ (\E w \in Workers : WorkerDies(w))
      PROVE  UNCHANGED Promise!vars
  BY <1>7, Unseen DEF RequestDies, WorkerDies, row
<1>8. CASE UNCHANGED vars
  BY <1>8, Unseen DEF vars, row
<1> QED
  BY <1>1, <1>2, <1>3, <1>4, <1>5, <1>6, <1>7, <1>8 DEF Next, Process

\* Each submission is resolved once, with one outcome that is never
\* revised, and the version is published once; the safety part of KeepsPromise.
THEOREM Implements == Spec => Promise!Safety
  BY InitImplements, NextImplements, Invariance, PTL DEF Spec, Promise!Safety

-----------------------------------------------------------------------------
(* Without overlapping polls *)

NewIsUnscheduled == \A s \in Subs : status[s] = "absent" => scheduled[s] = "never"

\* What a request has decided still holds of the row.
DueIsLate ==
    \A r \in Requests, s \in Subs :
        AtSave(r, s) /\ request[r].due => scheduled[s] # "recent"

LEMMA UndisturbedStep ==
  ASSUME \A r, q \in Requests : r = q,
         TypeOK, NewIsUnscheduled, DueIsLate, [Next]_vars
  PROVE  NewIsUnscheduled' /\ DueIsLate'
<1> USE DEF TypeOK, NewIsUnscheduled, DueIsLate, AtSave, AtPublish, InTable, Idle, Held, IsDue, row
<1>1. ASSUME NEW r \in Requests, NEW s \in Subs, CreateSubmission(r, s)
      PROVE  NewIsUnscheduled' /\ DueIsLate'
  <2>1. scheduled[s] = "never" /\ UNCHANGED scheduled
    BY <1>1 DEF CreateSubmission
  <2>2. \A q \in Requests, t \in Subs : AtSave(q, t)' => t = s
    BY <1>1 DEF CreateSubmission
  <2>. QED  BY <1>1, <2>1, <2>2 DEF CreateSubmission
<1>2. ASSUME NEW r \in Requests, NEW s \in Subs, PollLoad(r, s)
      PROVE  NewIsUnscheduled' /\ DueIsLate'
  BY <1>2 DEF PollLoad
<1>3. ASSUME NEW r \in Requests, NEW s \in Subs, PollSave(r, s)
      PROVE  NewIsUnscheduled' /\ DueIsLate'
  BY <1>3 DEF PollSave
<1>4. ASSUME NEW r \in Requests, RequestDies(r) \/ \E s \in Subs : PublishTask(r, s)
      PROVE  NewIsUnscheduled' /\ DueIsLate'
  BY <1>4 DEF RequestDies, PublishTask
<1>5. ASSUME NEW w \in Workers,
             WorkerDies(w) \/ \E s \in Subs : StartTask(w, s) \/ Process(w, s)
      PROVE  NewIsUnscheduled' /\ DueIsLate'
  BY <1>5 DEF StartTask, Process, Prepare, InsertVersion, FinishTask, WorkerDies
<1>6. ASSUME NEW s \in Subs, CleanupSubmission(s) \/ CleanupTtlPasses(s)
      PROVE  NewIsUnscheduled' /\ DueIsLate'
  BY <1>6 DEF CleanupSubmission, CleanupTtlPasses
<1>7. ASSUME NEW s \in Subs, TaskTtlPasses(s)
      PROVE  NewIsUnscheduled' /\ DueIsLate'
  BY <1>7 DEF TaskTtlPasses
<1>8. CASE UNCHANGED vars
  BY <1>8 DEF vars
<1> HIDE DEF NewIsUnscheduled, DueIsLate
<1> QED
  BY <1>1, <1>2, <1>3, <1>4, <1>5, <1>6, <1>7, <1>8 DEF Next

\* schedule_if_appropriate: where no two requests overlap, its docstring is right, whatever
\* workers, clocks and the cleanup do meanwhile.  The overlap of two polls is all there
\* is to the counterexample of ScheduledOncePerTtl.
THEOREM ScheduledOnceByOneAtATime ==
  ASSUME \A r, q \in Requests : r = q
  PROVE  Spec => ScheduledOncePerTtl
<1>1. Init => NewIsUnscheduled /\ DueIsLate
  BY DEF Init, NewIsUnscheduled, DueIsLate, AtSave, Idle
<1>2. TypeOK /\ NewIsUnscheduled /\ DueIsLate /\ [Next]_vars
          => NewIsUnscheduled' /\ DueIsLate'
  BY UndisturbedStep
<1>3. DueIsLate =>
          [\A r \in Requests, s \in Subs :
               PollSave(r, s) /\ InTable(s) /\ request[r].due => scheduled[s] # "recent"]_vars
  BY DEF DueIsLate, PollSave
<1> QED
  BY <1>1, <1>2, <1>3, TypesCorrect, PTL DEF Spec, ScheduledOncePerTtl

=============================================================================
