--------------------------- MODULE FileUploadProofs ---------------------------
(***************************************************************************)
(* Proofs about FileUpload, for any number of parts, slots and attempts.   *)
(***************************************************************************)
EXTENDS FileUpload, FiniteSetTheorems, TLAPS

-----------------------------------------------------------------------------
(* The inductive invariant *)

Running == {"hashing", "sending", "sleeping", "stuck"}

Busy == {p \in Parts : part[p].step \in Running}

\* The throttler counts the parts that have a slot, those whose request was
\* aborted included.
SlotsCounted == ongoing = Cardinality(Busy)

\* What is retried has an attempt left.
AttemptsLeft ==
    /\ main \in {"finishing", "sleeping"} => attempts # 0
    /\ \A p \in Parts : part[p].step \in {"hashing", "sending", "sleeping"} => part[p].left # 0

\* The server has no row before it has handled the one initiate call, and the client
\* neither begins a part nor calls again before it has the answer.
RowIsNew ==
    /\ main = "new" => requests = {} /\ server = "absent" /\ multipart = "none"
    /\ \A m \in requests :
           m.call = "initiate" =>
               m = Call("initiate", 0) /\ server = "absent" /\ multipart = "none"
    /\ main \in {"new", "initiating"} \/ server = "absent" =>
           \A p \in Parts : part[p].step = "none"
    /\ server = "absent" =>
           /\ ~uploadInfo /\ main \in {"new", "initiating", "returned"}
           /\ main = "initiating" => answer # "ok"
           /\ \A m \in requests : m.call = "initiate"

AllDone == \A p \in Parts : part[p].step = "done"

FinishBegun ==
    \/ main \in {"finishing", "sleeping"}
    \/ server = "complete" \/ multipart = "completed"
    \/ uploadStatus = "COMPLETE"
    \/ \E m \in requests : m.call \in {"finish", "finishing"}

\* From finishUpload on, nothing is left to do for any part.
DoneBeforeFinish == FinishBegun => AllDone

\* Which statuses go with the step of upload(), unless the user has canceled.
StatusFollows ==
    /\ main = "new" => uploadStatus = "NEW"
    /\ main = "initiating" => uploadStatus \in {"INITIATING", "CANCELED"}
    /\ main \in {"finishing", "sleeping"} => uploadStatus \in {"UPLOADING", "CANCELED"}
    /\ uploadStatus = "COMPLETE" => main = "returned"

\* The answer finishUpload acts on is the server's, to one of its attempts.
AnswerIsTrue ==
    main = "finishing" /\ answer = "ok" =>
        multipart = "completed" /\ server \in {"complete", "error"}

\* May the finish call of this attempt still be sent?
MayFinish(attempt) ==
    \/ main \in {"new", "initiating", "uploading"}
    \/ main \in {"finishing", "sleeping"} /\ attempt < attempts

\* No call is sent twice.
SentOnce ==
    \A m \in requests :
        /\ m.call \in {"finish", "finishing"} => m.attempt # 0 /\ ~MayFinish(m.attempt)
        /\ m.call = "abort" => m = Call("abort", 0) /\ Canceled

\* No finish call is admitted twice.
AdmittedOnce ==
    \A m \in requests : m.call = "finishing" => Call("finish", m.attempt) \notin requests

\* Nothing is completed before finishUpload has begun.
NotFinished ==
    main \in {"new", "initiating", "uploading"} =>
        multipart # "completed" /\ server # "complete" /\ ~submitted

IInv ==
    /\ TypeOK
    /\ SlotsCounted
    /\ AttemptsLeft
    /\ RowIsNew
    /\ DoneBeforeFinish
    /\ StatusFollows
    /\ AnswerIsTrue
    /\ SubmittedIsAssembled
    /\ SentOnce
    /\ AdmittedOnce
    /\ NotFinished

-----------------------------------------------------------------------------
(* The throttler's slots *)

\* At most PartCount parts are busy, a number.
LEMMA BusyIsFinite ==
  ASSUME NEW S \in SUBSET Parts
  PROVE  IsFiniteSet(S) /\ Cardinality(S) \in Nat
<1>1. IsFiniteSet(Parts)
  BY FS_Interval, CountsAssumption DEF Parts
<1>2. IsFiniteSet(S)
  BY <1>1, FS_Subset
<1> QED
  BY <1>2, FS_CardinalityType

\* A part that takes a slot is counted once more.
LEMMA SlotTaken ==
  ASSUME TypeOK, SlotsCounted, NEW p \in Parts, part[p].step \notin Running,
         NEW step \in Running, NEW left \in Nat,
         part' = [part EXCEPT ![p] = Part(step, left)], ongoing' = ongoing + 1
  PROVE  SlotsCounted'
<1>1. Busy' = Busy \cup {p}
  BY DEF Busy, TypeOK, Part
<1>2. p \notin Busy
  BY DEF Busy
<1>3. Busy \in SUBSET Parts
  BY DEF Busy
<1>4. Cardinality(Busy \cup {p}) = Cardinality(Busy) + 1
  BY <1>2, <1>3, BusyIsFinite, FS_AddElement
<1> QED
  BY <1>1, <1>4 DEF SlotsCounted

\* A part that settles gives its slot back, and had one.
LEMMA SlotReturned ==
  ASSUME TypeOK, SlotsCounted, NEW p \in Parts, part[p].step \in Running,
         NEW step \in {"done", "failed"}, Settle(p, step)
  PROVE  SlotsCounted' /\ ongoing' \in 0 .. MaxParallel
<1>1. Busy' = Busy \ {p}
  BY DEF Busy, TypeOK, Part, Settle, Running
<1>2. p \in Busy
  BY DEF Busy
<1>3. Busy \in SUBSET Parts /\ Busy' \in SUBSET Parts
  BY <1>1 DEF Busy
<1>4. Cardinality(Busy \ {p}) = Cardinality(Busy) - 1
  BY <1>2, <1>3, BusyIsFinite, FS_RemoveElement
<1>5. Cardinality(Busy') \in Nat
  BY <1>3, BusyIsFinite
<1> QED
  BY <1>1, <1>4, <1>5, CountsAssumption DEF SlotsCounted, Settle, TypeOK

\* Between two waits of one attempt a part keeps its slot.
LEMMA SlotKept ==
  ASSUME TypeOK, SlotsCounted, NEW p \in Parts, part[p].step \in Running,
         NEW step \in Running, NEW left \in 0 .. MaxAttempts, Continue(p, step, left)
  PROVE  SlotsCounted'
<1>1. Busy' = Busy
  BY DEF Busy, TypeOK, Part, Continue
<1> QED
  BY <1>1 DEF SlotsCounted, Continue

\* The first parts take all the slots they can.
LEMMA SlotsTaken ==
  ASSUME TakeSlots
  PROVE  SlotsCounted' /\ ongoing' \in 0 .. MaxParallel
<1> USE CountsAssumption
<1>1. Busy' = {p \in Parts : p <= MaxParallel}
  BY DEF TakeSlots, Busy, Running, Part
<1>2. CASE PartCount <= MaxParallel
  <2>1. Busy' = 1 .. PartCount
    BY <1>1, <1>2 DEF Parts
  <2> QED
    BY <1>2, <2>1, FS_Interval DEF TakeSlots, SlotsCounted
<1>3. CASE ~(PartCount <= MaxParallel)
  <2>1. Busy' = 1 .. MaxParallel
    BY <1>1, <1>3 DEF Parts
  <2> QED
    BY <1>3, <2>1, FS_Interval DEF TakeSlots, SlotsCounted
<1> QED
  BY <1>2, <1>3

-----------------------------------------------------------------------------
(* Every step keeps the inductive invariant *)

\* Every step keeps the types, and the throttler's count between 0 and its limit.
LEMMA TypeOKStep ==
  ASSUME TypeOK, SlotsCounted, AttemptsLeft, [Next]_vars
  PROVE  TypeOK'
<1> USE CountsAssumption DEF TypeOK, FileUploadStatus, Request, Steps, StatusAfter, Canceled, GiveUp, Part, Call, Send, backend
<1>1. CASE Upload
  BY <1>1 DEF Upload
<1>2. CASE Initiated
  <2>1. CASE Canceled
    BY <1>2, <2>1 DEF Initiated
  <2>2. CASE ~Canceled
    <3>1. TakeSlots
      BY <1>2, <2>2 DEF Initiated
    <3>2. part' \in [Parts -> [step : Steps, left : 0 .. MaxAttempts]]
      BY <3>1 DEF TakeSlots
    <3> QED
      BY <1>2, <2>2, <3>1, <3>2, SlotsTaken DEF Initiated
  <2> QED
    BY <2>1, <2>2
<1>3. CASE InitiateFails
  BY <1>3 DEF InitiateFails
<1>4. ASSUME NEW p \in Parts, StartPart(p)
      PROVE  TypeOK'
  BY <1>4 DEF StartPart, Rejected
<1>5. ASSUME NEW p \in Parts, HashDone(p)
      PROVE  TypeOK'
  BY <1>5 DEF HashDone, Continue
<1>6. ASSUME NEW p \in Parts, PartDone(p)
      PROVE  TypeOK'
  <2>1. Settle(p, "done") /\ part[p].step \in Running
    BY <1>6 DEF PartDone, Running
  <2>2. ongoing' \in 0 .. MaxParallel
    BY <2>1, SlotReturned
  <2> QED
    BY <1>6, <2>1, <2>2 DEF PartDone, Settle, FinishBegins
<1>7. ASSUME NEW p \in Parts, PartFails(p)
      PROVE  TypeOK'
  BY <1>7 DEF PartFails, Continue
<1>8. ASSUME NEW p \in Parts, PartRetries(p)
      PROVE  TypeOK'
  <2>1. CASE part[p].left = 1 \/ Canceled
    <3>1. Settle(p, "failed") /\ part[p].step \in Running
      BY <1>8, <2>1 DEF PartRetries, Running
    <3>2. ongoing' \in 0 .. MaxParallel
      BY <3>1, SlotReturned
    <3> QED
      BY <1>8, <2>1, <3>1, <3>2 DEF PartRetries, Settle, Rejected
  <2>2. CASE ~(part[p].left = 1 \/ Canceled)
    <3>1. part[p].left - 1 \in 0 .. MaxAttempts
      BY <1>8 DEF PartRetries, AttemptsLeft
    <3> QED
      BY <1>8, <2>2, <3>1 DEF PartRetries, Continue
  <2> QED
    BY <2>1, <2>2
<1>9. CASE FinishSucceeds
  BY <1>9 DEF FinishSucceeds
<1>10. CASE FinishFails
  BY <1>10 DEF FinishFails
<1>11. CASE FinishRetries
  BY <1>11 DEF FinishRetries, AttemptsLeft
<1>12. CASE CancelUpload
  BY <1>12 DEF CancelUpload
<1>13. CASE ServerInitiates
  BY <1>13 DEF ServerInitiates, Handled, client
<1>14. CASE ServerAdmits
  BY <1>14 DEF ServerAdmits, Handled, client
<1>15. CASE ServerFinishes
  BY <1>15 DEF ServerFinishes, Handled, client
<1>16. CASE ServerAborts
  BY <1>16 DEF ServerAborts, Handled, client
<1>17. CASE UNCHANGED vars
  BY <1>17 DEF vars, client
<1> HIDE DEF TypeOK, FileUploadStatus, Request, Steps, StatusAfter, Canceled, GiveUp, Part, Call, Send, backend
<1> QED
  BY <1>1, <1>2, <1>3, <1>4, <1>5, <1>6, <1>7, <1>8, <1>9, <1>10, <1>11, <1>12, <1>13, <1>14, <1>15, <1>16, <1>17 DEF Next, MainStep, PartStep

\* Every step keeps the throttler's count right: a slot is taken once by a part
\* that begins, and given back once by one that settles.
LEMMA SlotsStep ==
  ASSUME TypeOK, SlotsCounted, AttemptsLeft, [Next]_vars
  PROVE  SlotsCounted'
<1> USE CountsAssumption DEF TypeOK, backend
<1>1. CASE Upload
  BY <1>1 DEF Upload, SlotsCounted, Busy
<1>2. CASE Initiated
  <2>1. CASE Canceled
    BY <1>2, <2>1 DEF Initiated, SlotsCounted, Busy
  <2>2. CASE ~Canceled
    BY <1>2, <2>2, SlotsTaken DEF Initiated
  <2> QED
    BY <2>1, <2>2
<1>3. CASE InitiateFails
  BY <1>3 DEF InitiateFails, SlotsCounted, Busy
<1>4. ASSUME NEW p \in Parts, StartPart(p)
      PROVE  SlotsCounted'
  <2>1. CASE Canceled
    <3>1. Busy' = Busy
      BY <1>4, <2>1 DEF StartPart, Busy, Running, Part
    <3> QED
      BY <1>4, <2>1, <3>1 DEF StartPart, SlotsCounted
  <2>2. CASE ~Canceled
    BY <1>4, <2>2, SlotTaken DEF StartPart, Running
  <2> QED
    BY <2>1, <2>2
<1>5. ASSUME NEW p \in Parts, HashDone(p)
      PROVE  SlotsCounted'
  <2>1. Continue(p, IF Canceled THEN "sleeping" ELSE "sending", part[p].left)
    BY <1>5 DEF HashDone
  <2>2. part[p].step \in Running /\ part[p].left \in 0 .. MaxAttempts
    BY <1>5 DEF HashDone, Running
  <2>3. (IF Canceled THEN "sleeping" ELSE "sending") \in Running
    BY DEF Running
  <2> QED
    BY <2>1, <2>2, <2>3, SlotKept
<1>6. ASSUME NEW p \in Parts, PartDone(p)
      PROVE  SlotsCounted'
  BY <1>6, SlotReturned DEF PartDone, Running
<1>7. ASSUME NEW p \in Parts, PartFails(p)
      PROVE  SlotsCounted'
  <2>1. part[p].step \in Running /\ part[p].left \in 0 .. MaxAttempts /\ "sleeping" \in Running
    BY <1>7 DEF PartFails, Running
  <2> QED
    BY <1>7, <2>1, SlotKept DEF PartFails
<1>8. ASSUME NEW p \in Parts, PartRetries(p)
      PROVE  SlotsCounted'
  <2>1. part[p].step \in Running /\ "hashing" \in Running
    BY <1>8 DEF PartRetries, Running
  <2>2. CASE part[p].left = 1 \/ Canceled
    BY <1>8, <2>1, <2>2, SlotReturned DEF PartRetries
  <2>3. CASE ~(part[p].left = 1 \/ Canceled)
    <3>1. part[p].left - 1 \in 0 .. MaxAttempts
      BY <1>8 DEF PartRetries, AttemptsLeft
    <3> QED
      BY <1>8, <2>1, <2>3, <3>1, SlotKept DEF PartRetries
  <2> QED
    BY <2>2, <2>3
<1>9. CASE FinishSucceeds
  BY <1>9 DEF FinishSucceeds, SlotsCounted, Busy
<1>10. CASE FinishFails
  BY <1>10 DEF FinishFails, SlotsCounted, Busy
<1>11. CASE FinishRetries
  BY <1>11 DEF FinishRetries, SlotsCounted, Busy
<1>12. CASE CancelUpload
  <2>1. Busy' = Busy
    BY <1>12 DEF CancelUpload, Busy, Running, Part
  <2> QED
    BY <1>12, <2>1 DEF CancelUpload, SlotsCounted
<1>13. CASE ServerInitiates
  BY <1>13 DEF ServerInitiates, SlotsCounted, Busy, Handled, client
<1>14. CASE ServerAdmits
  BY <1>14 DEF ServerAdmits, SlotsCounted, Busy, Handled, client
<1>15. CASE ServerFinishes
  BY <1>15 DEF ServerFinishes, SlotsCounted, Busy, Handled, client
<1>16. CASE ServerAborts
  BY <1>16 DEF ServerAborts, SlotsCounted, Busy, Handled, client
<1>17. CASE UNCHANGED vars
  BY <1>17 DEF vars, client, SlotsCounted, Busy
<1> HIDE DEF TypeOK, backend
<1> QED
  BY <1>1, <1>2, <1>3, <1>4, <1>5, <1>6, <1>7, <1>8, <1>9, <1>10, <1>11, <1>12, <1>13, <1>14, <1>15, <1>16, <1>17 DEF Next, MainStep, PartStep

\* Every step leaves an attempt to whatever is going to be retried.
LEMMA AttemptsStep ==
  ASSUME TypeOK, AttemptsLeft, [Next]_vars
  PROVE  AttemptsLeft'
<1> USE CountsAssumption DEF TypeOK, AttemptsLeft, GiveUp, Part, Send, backend
<1>1. CASE Upload
  BY <1>1 DEF Upload
<1>2. CASE Initiated
  BY <1>2 DEF Initiated, TakeSlots
<1>3. CASE InitiateFails
  BY <1>3 DEF InitiateFails
<1>4. ASSUME NEW p \in Parts, StartPart(p)
      PROVE  AttemptsLeft'
  BY <1>4 DEF StartPart, Rejected
<1>5. ASSUME NEW p \in Parts, HashDone(p)
      PROVE  AttemptsLeft'
  BY <1>5 DEF HashDone, Continue
<1>6. ASSUME NEW p \in Parts, PartDone(p)
      PROVE  AttemptsLeft'
  BY <1>6 DEF PartDone, Settle, FinishBegins
<1>7. ASSUME NEW p \in Parts, PartFails(p)
      PROVE  AttemptsLeft'
  BY <1>7 DEF PartFails, Continue
<1>8. ASSUME NEW p \in Parts, PartRetries(p)
      PROVE  AttemptsLeft'
  BY <1>8 DEF PartRetries, Settle, Rejected, Continue
<1>9. CASE FinishSucceeds
  BY <1>9 DEF FinishSucceeds
<1>10. CASE FinishFails
  BY <1>10 DEF FinishFails
<1>11. CASE FinishRetries
  BY <1>11 DEF FinishRetries
<1>12. CASE CancelUpload
  BY <1>12 DEF CancelUpload
<1>13. CASE ServerInitiates
  BY <1>13 DEF ServerInitiates, Handled, client
<1>14. CASE ServerAdmits
  BY <1>14 DEF ServerAdmits, Handled, client
<1>15. CASE ServerFinishes
  BY <1>15 DEF ServerFinishes, Handled, client
<1>16. CASE ServerAborts
  BY <1>16 DEF ServerAborts, Handled, client
<1>17. CASE UNCHANGED vars
  BY <1>17 DEF vars, client
<1> HIDE DEF TypeOK, AttemptsLeft, GiveUp, Part, Send, backend
<1> QED
  BY <1>1, <1>2, <1>3, <1>4, <1>5, <1>6, <1>7, <1>8, <1>9, <1>10, <1>11, <1>12, <1>13, <1>14, <1>15, <1>16, <1>17 DEF Next, MainStep, PartStep

\* Every step respects that the one initiate call comes first.
LEMMA RowIsNewStep ==
  ASSUME TypeOK, RowIsNew, [Next]_vars
  PROVE  RowIsNew'
<1> USE DEF TypeOK, RowIsNew, GiveUp, Send, Call, Request, backend
<1>1. CASE Upload
  BY <1>1 DEF Upload
<1>2. CASE Initiated
  BY <1>2 DEF Initiated
<1>3. CASE InitiateFails
  BY <1>3 DEF InitiateFails
<1>4. ASSUME NEW p \in Parts, StartPart(p)
      PROVE  RowIsNew'
  BY <1>4 DEF StartPart, Rejected, Part
<1>5. ASSUME NEW p \in Parts, HashDone(p)
      PROVE  RowIsNew'
  BY <1>5 DEF HashDone, Continue, Part
<1>6. ASSUME NEW p \in Parts, PartDone(p)
      PROVE  RowIsNew'
  BY <1>6 DEF PartDone, Settle, FinishBegins, Part
<1>7. ASSUME NEW p \in Parts, PartFails(p)
      PROVE  RowIsNew'
  BY <1>7 DEF PartFails, Continue, Part
<1>8. ASSUME NEW p \in Parts, PartRetries(p)
      PROVE  RowIsNew'
  BY <1>8 DEF PartRetries, Settle, Rejected, Continue, Part
<1>9. CASE FinishSucceeds
  BY <1>9 DEF FinishSucceeds
<1>10. CASE FinishFails
  BY <1>10 DEF FinishFails
<1>11. CASE FinishRetries
  BY <1>11 DEF FinishRetries
<1>12. CASE CancelUpload
  BY <1>12 DEF CancelUpload, Part
<1>13. CASE ServerInitiates
  BY <1>13 DEF ServerInitiates, Handled, client
<1>14. CASE ServerAdmits
  BY <1>14 DEF ServerAdmits, Handled, client
<1>15. CASE ServerFinishes
  BY <1>15 DEF ServerFinishes, Handled, client
<1>16. CASE ServerAborts
  BY <1>16 DEF ServerAborts, Handled, client
<1>17. CASE UNCHANGED vars
  BY <1>17 DEF vars, client
<1> HIDE DEF TypeOK, RowIsNew, GiveUp, Send, Call, Request, backend
<1> QED
  BY <1>1, <1>2, <1>3, <1>4, <1>5, <1>6, <1>7, <1>8, <1>9, <1>10, <1>11, <1>12, <1>13, <1>14, <1>15, <1>16, <1>17 DEF Next, MainStep, PartStep

\* Once finishUpload has begun no step touches a part, and it only begins when all
\* of them are done.
LEMMA DoneStep ==
  ASSUME TypeOK, RowIsNew, StatusFollows, AnswerIsTrue, DoneBeforeFinish, [Next]_vars
  PROVE  DoneBeforeFinish'
<1> USE CountsAssumption DEF TypeOK, RowIsNew, DoneBeforeFinish, FinishBegun, AllDone, GiveUp, StatusAfter, Send, Call, Part, Parts, backend
<1>1. CASE Upload
  BY <1>1 DEF Upload
<1>2. CASE Initiated
  BY <1>2 DEF Initiated, TakeSlots
<1>3. CASE InitiateFails
  BY <1>3 DEF InitiateFails
<1>4. ASSUME NEW p \in Parts, StartPart(p)
      PROVE  DoneBeforeFinish'
  BY <1>4 DEF StartPart, Rejected
<1>5. ASSUME NEW p \in Parts, HashDone(p)
      PROVE  DoneBeforeFinish'
  BY <1>5 DEF HashDone, Continue
<1>6. ASSUME NEW p \in Parts, PartDone(p)
      PROVE  DoneBeforeFinish'
  BY <1>6 DEF PartDone, Settle, FinishBegins, LastPart
<1>7. ASSUME NEW p \in Parts, PartFails(p)
      PROVE  DoneBeforeFinish'
  BY <1>7 DEF PartFails, Continue
<1>8. ASSUME NEW p \in Parts, PartRetries(p)
      PROVE  DoneBeforeFinish'
  BY <1>8 DEF PartRetries, Settle, Rejected, Continue
<1>9. CASE FinishSucceeds
  BY <1>9 DEF FinishSucceeds
<1>10. CASE FinishFails
  BY <1>10 DEF FinishFails
<1>11. CASE FinishRetries
  BY <1>11 DEF FinishRetries
<1>12. CASE CancelUpload
  BY <1>12 DEF CancelUpload
<1>13. CASE ServerInitiates
  BY <1>13 DEF ServerInitiates, Handled, client
<1>14. CASE ServerAdmits
  BY <1>14 DEF ServerAdmits, Handled, client
<1>15. CASE ServerFinishes
  BY <1>15 DEF ServerFinishes, Handled, client
<1>16. CASE ServerAborts
  BY <1>16 DEF ServerAborts, Handled, client
<1>17. CASE UNCHANGED vars
  BY <1>17 DEF vars, client
<1> HIDE DEF TypeOK, RowIsNew, DoneBeforeFinish, FinishBegun, AllDone, GiveUp, StatusAfter, Send, Call, Part, Parts, backend
<1> QED
  BY <1>1, <1>2, <1>3, <1>4, <1>5, <1>6, <1>7, <1>8, <1>9, <1>10, <1>11, <1>12, <1>13, <1>14, <1>15, <1>16, <1>17 DEF Next, MainStep, PartStep

\* Every step keeps the status in line with the step of upload(): no late part can
\* fail once finishUpload has begun.
LEMMA StatusStep ==
  ASSUME TypeOK, RowIsNew, DoneBeforeFinish, StatusFollows, [Next]_vars
  PROVE  StatusFollows'
<1> USE CountsAssumption DEF TypeOK, RowIsNew, DoneBeforeFinish, FinishBegun, AllDone, StatusFollows, GiveUp, StatusAfter, Canceled, backend
<1>1. CASE Upload
  BY <1>1 DEF Upload
<1>2. CASE Initiated
  BY <1>2 DEF Initiated, TakeSlots
<1>3. CASE InitiateFails
  BY <1>3 DEF InitiateFails
<1>4. ASSUME NEW p \in Parts, StartPart(p)
      PROVE  StatusFollows'
  BY <1>4 DEF StartPart, Rejected
<1>5. ASSUME NEW p \in Parts, HashDone(p)
      PROVE  StatusFollows'
  BY <1>5 DEF HashDone, Continue
<1>6. ASSUME NEW p \in Parts, PartDone(p)
      PROVE  StatusFollows'
  BY <1>6 DEF PartDone, Settle, FinishBegins, LastPart
<1>7. ASSUME NEW p \in Parts, PartFails(p)
      PROVE  StatusFollows'
  BY <1>7 DEF PartFails, Continue
<1>8. ASSUME NEW p \in Parts, PartRetries(p)
      PROVE  StatusFollows'
  BY <1>8 DEF PartRetries, Settle, Rejected, Continue
<1>9. CASE FinishSucceeds
  BY <1>9 DEF FinishSucceeds
<1>10. CASE FinishFails
  BY <1>10 DEF FinishFails
<1>11. CASE FinishRetries
  BY <1>11 DEF FinishRetries
<1>12. CASE CancelUpload
  BY <1>12 DEF CancelUpload
<1>13. CASE ServerInitiates
  BY <1>13 DEF ServerInitiates, Handled, client
<1>14. CASE ServerAdmits
  BY <1>14 DEF ServerAdmits, Handled, client
<1>15. CASE ServerFinishes
  BY <1>15 DEF ServerFinishes, Handled, client
<1>16. CASE ServerAborts
  BY <1>16 DEF ServerAborts, Handled, client
<1>17. CASE UNCHANGED vars
  BY <1>17 DEF vars, client
<1> HIDE DEF TypeOK, RowIsNew, DoneBeforeFinish, FinishBegun, AllDone, StatusFollows, GiveUp, StatusAfter, Canceled, backend
<1> QED
  BY <1>1, <1>2, <1>3, <1>4, <1>5, <1>6, <1>7, <1>8, <1>9, <1>10, <1>11, <1>12, <1>13, <1>14, <1>15, <1>16, <1>17 DEF Next, MainStep, PartStep

\* Every step keeps the server's answer true, and so what onSubmit acts on.
LEMMA AnswerStep ==
  ASSUME TypeOK, RowIsNew, AnswerIsTrue, SubmittedIsAssembled, [Next]_vars
  PROVE  AnswerIsTrue' /\ SubmittedIsAssembled'
<1> USE DEF TypeOK, RowIsNew, AnswerIsTrue, SubmittedIsAssembled, GiveUp, Send, backend
<1>1. CASE Upload
  BY <1>1 DEF Upload
<1>2. CASE Initiated
  BY <1>2 DEF Initiated
<1>3. CASE InitiateFails
  BY <1>3 DEF InitiateFails
<1>4. ASSUME NEW p \in Parts, StartPart(p)
      PROVE  AnswerIsTrue' /\ SubmittedIsAssembled'
  BY <1>4 DEF StartPart, Rejected
<1>5. ASSUME NEW p \in Parts, HashDone(p)
      PROVE  AnswerIsTrue' /\ SubmittedIsAssembled'
  BY <1>5 DEF HashDone, Continue
<1>6. ASSUME NEW p \in Parts, PartDone(p)
      PROVE  AnswerIsTrue' /\ SubmittedIsAssembled'
  BY <1>6 DEF PartDone, Settle, FinishBegins
<1>7. ASSUME NEW p \in Parts, PartFails(p)
      PROVE  AnswerIsTrue' /\ SubmittedIsAssembled'
  BY <1>7 DEF PartFails, Continue
<1>8. ASSUME NEW p \in Parts, PartRetries(p)
      PROVE  AnswerIsTrue' /\ SubmittedIsAssembled'
  BY <1>8 DEF PartRetries, Settle, Rejected, Continue
<1>9. CASE FinishSucceeds
  BY <1>9 DEF FinishSucceeds
<1>10. CASE FinishFails
  BY <1>10 DEF FinishFails
<1>11. CASE FinishRetries
  BY <1>11 DEF FinishRetries
<1>12. CASE CancelUpload
  BY <1>12 DEF CancelUpload
<1>13. CASE ServerInitiates
  BY <1>13 DEF ServerInitiates, Handled, client, Awaited
<1>14. CASE ServerAdmits
  BY <1>14 DEF ServerAdmits, Handled, client, Awaited
<1>15. CASE ServerFinishes
  BY <1>15 DEF ServerFinishes, Handled, client, Awaited
<1>16. CASE ServerAborts
  BY <1>16 DEF ServerAborts, Handled, client, Awaited
<1>17. CASE UNCHANGED vars
  BY <1>17 DEF vars, client
<1> HIDE DEF TypeOK, RowIsNew, AnswerIsTrue, SubmittedIsAssembled, GiveUp, Send, backend
<1> QED
  BY <1>1, <1>2, <1>3, <1>4, <1>5, <1>6, <1>7, <1>8, <1>9, <1>10, <1>11, <1>12, <1>13, <1>14, <1>15, <1>16, <1>17 DEF Next, MainStep, PartStep

\* Every step sends at most one call, for the first time.
LEMMA SentOnceStep ==
  ASSUME TypeOK, AttemptsLeft, RowIsNew, SentOnce, [Next]_vars
  PROVE  SentOnce'
<1> USE CountsAssumption DEF TypeOK, AttemptsLeft, RowIsNew, SentOnce, MayFinish, Canceled, StatusAfter, Request, GiveUp, Send, Call, backend
<1>1. CASE Upload
  BY <1>1 DEF Upload
<1>2. CASE Initiated
  BY <1>2 DEF Initiated, TakeSlots
<1>3. CASE InitiateFails
  BY <1>3 DEF InitiateFails
<1>4. ASSUME NEW p \in Parts, StartPart(p)
      PROVE  SentOnce'
  BY <1>4 DEF StartPart, Rejected
<1>5. ASSUME NEW p \in Parts, HashDone(p)
      PROVE  SentOnce'
  BY <1>5 DEF HashDone, Continue
<1>6. ASSUME NEW p \in Parts, PartDone(p)
      PROVE  SentOnce'
  <2>1. CASE LastPart(p) /\ uploadStatus = "UPLOADING"
    <3>1. /\ requests' = requests \cup {Call("finish", MaxAttempts)}
          /\ main = "uploading" /\ main' = "finishing" /\ attempts' = MaxAttempts
          /\ uploadStatus' = uploadStatus
      BY <1>6, <2>1 DEF PartDone, FinishBegins, LastPart
    <3>2. \A m \in requests : m.call \notin {"finish", "finishing"}
      BY <3>1
    <3> QED
      BY <3>1, <3>2
  <2>2. CASE ~(LastPart(p) /\ uploadStatus = "UPLOADING")
    <3>1. UNCHANGED requests /\ (Canceled => Canceled')
          /\ (UNCHANGED <<main, attempts>> \/ main' = "returned")
      BY <1>6, <2>2 DEF PartDone, FinishBegins
    <3> QED
      BY <3>1
  <2> QED
    BY <2>1, <2>2
<1>7. ASSUME NEW p \in Parts, PartFails(p)
      PROVE  SentOnce'
  BY <1>7 DEF PartFails, Continue
<1>8. ASSUME NEW p \in Parts, PartRetries(p)
      PROVE  SentOnce'
  <2>1. UNCHANGED <<requests, attempts>> /\ main' \in {main, "returned"}
    BY <1>8 DEF PartRetries, Settle, Rejected, Continue
  <2>2. Canceled => Canceled'
    BY <1>8 DEF PartRetries, Rejected
  <2> QED
    BY <2>1, <2>2
<1>9. CASE FinishSucceeds
  BY <1>9 DEF FinishSucceeds
<1>10. CASE FinishFails
  BY <1>10 DEF FinishFails
<1>11. CASE FinishRetries
  BY <1>11 DEF FinishRetries
<1>12. CASE CancelUpload
  BY <1>12 DEF CancelUpload
<1>13. CASE ServerInitiates
  BY <1>13 DEF ServerInitiates, Handled, client
<1>14. CASE ServerAdmits
  BY <1>14 DEF ServerAdmits, Handled, client
<1>15. CASE ServerFinishes
  BY <1>15 DEF ServerFinishes, Handled, client
<1>16. CASE ServerAborts
  BY <1>16 DEF ServerAborts, Handled, client
<1>17. CASE UNCHANGED vars
  BY <1>17 DEF vars, client
<1> HIDE DEF TypeOK, AttemptsLeft, RowIsNew, SentOnce, MayFinish, Canceled, StatusAfter, Request, GiveUp, Send, Call, backend
<1> QED
  BY <1>1, <1>2, <1>3, <1>4, <1>5, <1>6, <1>7, <1>8, <1>9, <1>10, <1>11, <1>12, <1>13, <1>14, <1>15, <1>16, <1>17 DEF Next, MainStep, PartStep

\* A finish call is sent before the server admits one of that attempt, and never again.
LEMMA AdmittedOnceStep ==
  ASSUME TypeOK, AttemptsLeft, RowIsNew, SentOnce, AdmittedOnce, [Next]_vars
  PROVE  AdmittedOnce'
<1> USE DEF AdmittedOnce
<1>1. CASE requests' \subseteq requests
  BY <1>1
<1>2. ASSUME NEW a \in 1 .. MaxAttempts, requests' = requests \cup {Call("finish", a)}, MayFinish(a)
      PROVE  AdmittedOnce'
  <2>1. \A m \in requests : ~(m.call = "finishing" /\ m.attempt = a)
    BY <1>2 DEF SentOnce
  <2>2. ASSUME NEW m \in requests', m.call = "finishing"
        PROVE  Call("finish", m.attempt) \notin requests'
    <3>1. m \in requests /\ m.attempt # a
      BY <1>2, <2>1, <2>2 DEF Call
    <3>2. Call("finish", m.attempt) # Call("finish", a)
      BY <3>1 DEF Call
    <3> QED
      BY <1>2, <2>2, <3>1, <3>2
  <2> QED
    BY <2>2
<1>3. ASSUME NEW m \in [call : {"initiate", "abort"}, attempt : {0}], requests' \subseteq requests \cup {m}
      PROVE  AdmittedOnce'
  <2>1. ASSUME NEW n \in requests', n.call = "finishing"
        PROVE  n \in requests /\ Call("finish", n.attempt) \notin requests'
    <3>1. n \in requests
      BY <1>3, <2>1
    <3>2. Call("finish", n.attempt) # m
      BY DEF Call
    <3> QED
      BY <1>3, <2>1, <3>1, <3>2
  <2> QED
    BY <2>1
<1>4. CASE Upload
  <2>1. requests' \subseteq requests \cup {Call("initiate", 0)}
    BY <1>4 DEF Upload, Send
  <2> QED
    BY <2>1, <1>3 DEF Call
<1>5. ASSUME NEW p \in Parts, PartDone(p)
      PROVE  AdmittedOnce'
  <2>1. CASE LastPart(p) /\ uploadStatus = "UPLOADING"
    <3>1. requests' = requests \cup {Call("finish", MaxAttempts)} /\ MayFinish(MaxAttempts)
      BY <1>5, <2>1 DEF PartDone, FinishBegins, LastPart, MayFinish, Send
    <3> QED
      BY <3>1, <1>2, CountsAssumption
  <2>2. CASE ~(LastPart(p) /\ uploadStatus = "UPLOADING")
    BY <1>5, <2>2, <1>1 DEF PartDone, FinishBegins
  <2> QED
    BY <2>1, <2>2
<1>6. CASE FinishRetries
  <2>1. CASE attempts = 1
    BY <1>6, <2>1, <1>1 DEF FinishRetries
  <2>2. CASE attempts # 1
    <3>1. requests' = requests \cup {Call("finish", attempts - 1)}
      BY <1>6, <2>2 DEF FinishRetries, Send
    <3>2. attempts - 1 \in 1 .. MaxAttempts /\ MayFinish(attempts - 1)
      BY <1>6, <2>2, CountsAssumption DEF FinishRetries, MayFinish, TypeOK, AttemptsLeft
    <3> QED
      BY <3>1, <3>2, <1>2
  <2> QED
    BY <2>1, <2>2
<1>7. CASE CancelUpload
  <2>1. requests' \subseteq requests \cup {Call("abort", 0)}
    BY <1>7 DEF CancelUpload
  <2> QED
    BY <2>1, <1>3 DEF Call
<1>8. CASE ServerAdmits
  <2>1. PICK m \in requests :
           /\ m.call = "finish"
           /\ \/ requests' = (requests \ {m}) \cup {Call("finishing", m.attempt)}
              \/ requests' = requests \ {m}
    BY <1>8 DEF ServerAdmits, Handled
  <2>2. m = Call("finish", m.attempt)
    BY <2>1 DEF TypeOK, Request, Call
  <2>3. ASSUME NEW n \in requests', n.call = "finishing"
        PROVE  Call("finish", n.attempt) \notin requests'
    <3>1. Call("finish", n.attempt) \notin requests \ {m}
      <4>1. CASE n \in requests
        BY <4>1, <2>3
      <4>2. CASE n = Call("finishing", m.attempt)
        BY <4>2, <2>2 DEF Call
      <4> QED
        BY <2>1, <4>1, <4>2
    <3>2. Call("finish", n.attempt) # Call("finishing", m.attempt)
      BY DEF Call
    <3> QED
      BY <2>1, <3>1, <3>2
  <2> QED
    BY <2>3
<1>9. CASE ServerInitiates \/ ServerFinishes \/ ServerAborts
  BY <1>9, <1>1 DEF ServerInitiates, ServerFinishes, ServerAborts, Handled
<1>10. CASE Initiated \/ InitiateFails \/ FinishSucceeds \/ FinishFails
  BY <1>10, <1>1 DEF Initiated, InitiateFails, FinishSucceeds, FinishFails
<1>11. ASSUME NEW p \in Parts, StartPart(p) \/ HashDone(p) \/ PartFails(p) \/ PartRetries(p)
       PROVE  AdmittedOnce'
  BY <1>11, <1>1 DEF StartPart, HashDone, PartFails, PartRetries
<1>12. CASE UNCHANGED vars
  BY <1>12 DEF vars
<1> HIDE DEF AdmittedOnce
<1> QED
  BY <1>4, <1>5, <1>6, <1>7, <1>8, <1>9, <1>10, <1>11, <1>12 DEF Next, MainStep, PartStep

\* The server completes nothing without a finish call.
LEMMA NotFinishedStep ==
  ASSUME TypeOK, SentOnce, NotFinished, [Next]_vars
  PROVE  NotFinished'
<1> USE CountsAssumption DEF TypeOK, SentOnce, NotFinished, MayFinish, GiveUp, Send, backend
<1>1. CASE Upload
  BY <1>1 DEF Upload
<1>2. CASE Initiated
  BY <1>2 DEF Initiated, TakeSlots
<1>3. CASE InitiateFails
  BY <1>3 DEF InitiateFails
<1>4. ASSUME NEW p \in Parts, StartPart(p)
      PROVE  NotFinished'
  BY <1>4 DEF StartPart, Rejected
<1>5. ASSUME NEW p \in Parts, HashDone(p)
      PROVE  NotFinished'
  BY <1>5 DEF HashDone, Continue
<1>6. ASSUME NEW p \in Parts, PartDone(p)
      PROVE  NotFinished'
  BY <1>6 DEF PartDone, Settle, FinishBegins
<1>7. ASSUME NEW p \in Parts, PartFails(p)
      PROVE  NotFinished'
  BY <1>7 DEF PartFails, Continue
<1>8. ASSUME NEW p \in Parts, PartRetries(p)
      PROVE  NotFinished'
  BY <1>8 DEF PartRetries, Settle, Rejected, Continue
<1>9. CASE FinishSucceeds
  BY <1>9 DEF FinishSucceeds
<1>10. CASE FinishFails
  BY <1>10 DEF FinishFails
<1>11. CASE FinishRetries
  BY <1>11 DEF FinishRetries
<1>12. CASE CancelUpload
  BY <1>12 DEF CancelUpload
<1>13. CASE ServerInitiates
  BY <1>13 DEF ServerInitiates, Handled, client
<1>14. CASE ServerAdmits
  BY <1>14 DEF ServerAdmits, Handled, client
<1>15. CASE ServerFinishes
  BY <1>15 DEF ServerFinishes, Handled, client
<1>16. CASE ServerAborts
  BY <1>16 DEF ServerAborts, Handled, client
<1>17. CASE UNCHANGED vars
  BY <1>17 DEF vars, client
<1> HIDE DEF TypeOK, SentOnce, NotFinished, MayFinish, GiveUp, Send, backend
<1> QED
  BY <1>1, <1>2, <1>3, <1>4, <1>5, <1>6, <1>7, <1>8, <1>9, <1>10, <1>11, <1>12, <1>13, <1>14, <1>15, <1>16, <1>17 DEF Next, MainStep, PartStep

\* The invariant holds initially: nothing is sent, nothing is busy.
LEMMA InitIInv == Init => IInv
<1> SUFFICES ASSUME Init  PROVE IInv
  OBVIOUS
<1>1. TypeOK
  <2>1. part \in [Parts -> [step : Steps, left : 0 .. MaxAttempts]]
    BY CountsAssumption DEF Init, Steps
  <2>2. ongoing \in 0 .. MaxParallel /\ attempts \in 0 .. MaxAttempts
    BY CountsAssumption DEF Init
  <2>3. requests \subseteq Request
    BY DEF Init
  <2> QED
    BY <2>1, <2>2, <2>3 DEF Init, TypeOK, FileUploadStatus
<1>2. Busy = {}
  BY DEF Init, Busy, Running
<1>3. SlotsCounted
  BY <1>2, FS_EmptySet DEF Init, SlotsCounted
<1>4. AttemptsLeft /\ RowIsNew /\ DoneBeforeFinish
  BY DEF Init, AttemptsLeft, RowIsNew, DoneBeforeFinish, FinishBegun
<1>5. StatusFollows /\ AnswerIsTrue /\ SubmittedIsAssembled
  BY DEF Init, StatusFollows, AnswerIsTrue, SubmittedIsAssembled
<1>6. SentOnce /\ AdmittedOnce /\ NotFinished
  BY DEF Init, SentOnce, AdmittedOnce, NotFinished
<1> QED
  BY <1>1, <1>3, <1>4, <1>5, <1>6 DEF IInv

\* Every step keeps the inductive invariant.
LEMMA NextIInv == IInv /\ [Next]_vars => IInv'
  BY TypeOKStep, SlotsStep, AttemptsStep, RowIsNewStep, DoneStep, StatusStep, AnswerStep, SentOnceStep, AdmittedOnceStep, NotFinishedStep
  DEF IInv

-----------------------------------------------------------------------------
(* Theorems about the uploader *)

\* The inductive invariant holds however parts, answers and the user's cancel
\* overlap.
THEOREM Invariance == Spec => []IInv
  BY InitIInv, NextIInv, PTL DEF Spec

\* TypeOK: every field keeps its type, and at most MaxParallel slots are in use.
THEOREM TypesCorrect == Spec => []TypeOK
<1>1. IInv => TypeOK
  BY DEF IInv
<1> QED
  BY <1>1, Invariance, PTL

\* FinishHasAllParts: the server is never asked to complete an upload that lacks
\* a part, and does not complete one.
THEOREM FinishHasAllPartsAlways == Spec => []FinishHasAllParts
<1>1. IInv => FinishHasAllParts
  BY DEF IInv, DoneBeforeFinish, FinishBegun, AllDone, FinishHasAllParts
<1> QED
  BY <1>1, Invariance, PTL

\* SubmittedIsAssembled: the file of what is submitted has been assembled in S3.
THEOREM SubmittedIsAssembledAlways == Spec => []SubmittedIsAssembled
<1>1. IInv => SubmittedIsAssembled
  BY DEF IInv
<1> QED
  BY <1>1, Invariance, PTL

\* A step that finds the upload ended leaves it so, or is the user's cancel.
LEMMA OutcomeStep ==
  ASSUME IInv, uploadStatus \in {"COMPLETE", "ERRORED", "CANCELED"}, [Next]_vars
  PROVE  uploadStatus' \in {uploadStatus, "CANCELED"}
<1> USE CountsAssumption DEF IInv, TypeOK, RowIsNew, DoneBeforeFinish, FinishBegun, AllDone, StatusFollows, GiveUp, StatusAfter, Canceled, backend
<1>1. CASE Upload
  BY <1>1 DEF Upload
<1>2. CASE Initiated
  BY <1>2 DEF Initiated
<1>3. CASE InitiateFails
  BY <1>3 DEF InitiateFails
<1>4. ASSUME NEW p \in Parts, StartPart(p)
      PROVE  uploadStatus' \in {uploadStatus, "CANCELED"}
  BY <1>4 DEF StartPart, Rejected
<1>5. ASSUME NEW p \in Parts, HashDone(p)
      PROVE  uploadStatus' \in {uploadStatus, "CANCELED"}
  BY <1>5 DEF HashDone, Continue
<1>6. ASSUME NEW p \in Parts, PartDone(p)
      PROVE  uploadStatus' \in {uploadStatus, "CANCELED"}
  BY <1>6 DEF PartDone, Settle, FinishBegins, LastPart
<1>7. ASSUME NEW p \in Parts, PartFails(p)
      PROVE  uploadStatus' \in {uploadStatus, "CANCELED"}
  BY <1>7 DEF PartFails, Continue
<1>8. ASSUME NEW p \in Parts, PartRetries(p)
      PROVE  uploadStatus' \in {uploadStatus, "CANCELED"}
  BY <1>8 DEF PartRetries, Settle, Rejected, Continue
<1>9. CASE FinishSucceeds
  BY <1>9 DEF FinishSucceeds
<1>10. CASE FinishFails
  BY <1>10 DEF FinishFails
<1>11. CASE FinishRetries
  BY <1>11 DEF FinishRetries
<1>12. CASE CancelUpload
  BY <1>12 DEF CancelUpload
<1>13. CASE ServerInitiates
  BY <1>13 DEF ServerInitiates, Handled, client
<1>14. CASE ServerAdmits
  BY <1>14 DEF ServerAdmits, Handled, client
<1>15. CASE ServerFinishes
  BY <1>15 DEF ServerFinishes, Handled, client
<1>16. CASE ServerAborts
  BY <1>16 DEF ServerAborts, Handled, client
<1>17. CASE UNCHANGED vars
  BY <1>17 DEF vars, client
<1> HIDE DEF IInv, TypeOK, RowIsNew, DoneBeforeFinish, FinishBegun, AllDone, StatusFollows, GiveUp, StatusAfter, Canceled, backend
<1> QED
  BY <1>1, <1>2, <1>3, <1>4, <1>5, <1>6, <1>7, <1>8, <1>9, <1>10, <1>11, <1>12, <1>13, <1>14, <1>15, <1>16, <1>17 DEF Next, MainStep, PartStep

\* OutcomeIsKept: how an upload ended is never revised by a late part or answer.
THEOREM OutcomeKept == Spec => OutcomeIsKept
<1>1. IInv /\ [Next]_vars =>
        [(uploadStatus \in {"COMPLETE", "ERRORED", "CANCELED"}) =>
         (uploadStatus' \in {uploadStatus, "CANCELED"})]_vars
  BY OutcomeStep
<1> QED
  BY <1>1, Invariance, PTL DEF Spec, OutcomeIsKept

\* A canceled upload sends no part: every wait a part may be in ends in a check.
LEMMA NoPutStep ==
  ASSUME IInv, Canceled, NEW q \in Parts, part'[q].step = "sending", [Next]_vars
  PROVE  part[q].step = "sending"
<1> USE DEF IInv, TypeOK, RowIsNew, Canceled, Part, backend
<1>1. CASE Upload
  BY <1>1 DEF Upload
<1>2. CASE Initiated
  BY <1>2 DEF Initiated, TakeSlots
<1>3. CASE InitiateFails
  BY <1>3 DEF InitiateFails
<1>4. ASSUME NEW p \in Parts, StartPart(p)
      PROVE  part[q].step = "sending"
  BY <1>4 DEF StartPart, Rejected
<1>5. ASSUME NEW p \in Parts, HashDone(p)
      PROVE  part[q].step = "sending"
  BY <1>5 DEF HashDone, Continue
<1>6. ASSUME NEW p \in Parts, PartDone(p)
      PROVE  part[q].step = "sending"
  BY <1>6 DEF PartDone, Settle, FinishBegins
<1>7. ASSUME NEW p \in Parts, PartFails(p)
      PROVE  part[q].step = "sending"
  BY <1>7 DEF PartFails, Continue
<1>8. ASSUME NEW p \in Parts, PartRetries(p)
      PROVE  part[q].step = "sending"
  BY <1>8 DEF PartRetries, Settle, Rejected, Continue
<1>9. CASE FinishSucceeds
  BY <1>9 DEF FinishSucceeds
<1>10. CASE FinishFails
  BY <1>10 DEF FinishFails
<1>11. CASE FinishRetries
  BY <1>11 DEF FinishRetries
<1>12. CASE CancelUpload
  BY <1>12 DEF CancelUpload
<1>13. CASE ServerInitiates
  BY <1>13 DEF ServerInitiates, Handled, client
<1>14. CASE ServerAdmits
  BY <1>14 DEF ServerAdmits, Handled, client
<1>15. CASE ServerFinishes
  BY <1>15 DEF ServerFinishes, Handled, client
<1>16. CASE ServerAborts
  BY <1>16 DEF ServerAborts, Handled, client
<1>17. CASE UNCHANGED vars
  BY <1>17 DEF vars, client
<1> HIDE DEF IInv, TypeOK, RowIsNew, Canceled, Part, backend
<1> QED
  BY <1>1, <1>2, <1>3, <1>4, <1>5, <1>6, <1>7, <1>8, <1>9, <1>10, <1>11, <1>12, <1>13, <1>14, <1>15, <1>16, <1>17 DEF Next, MainStep, PartStep

\* NoPutAfterCancel: no part starts to send once the user has canceled.
THEOREM NoPutOnceCanceled == Spec => NoPutAfterCancel
<1>1. IInv /\ [Next]_vars =>
        [Canceled => \A p \in Parts : part'[p].step = "sending" => part[p].step = "sending"]_vars
  BY NoPutStep
<1> QED
  BY <1>1, Invariance, PTL DEF Spec, NoPutAfterCancel

-----------------------------------------------------------------------------
(* A cancel before finishUpload *)

CanceledInTime == Canceled /\ main \in {"initiating", "uploading"}

\* Nobody is left who could finish the upload.
GivenUp ==
    /\ Canceled /\ main \in {"initiating", "uploading", "returned"}
    /\ multipart # "completed" /\ ~submitted
    /\ \A m \in requests : m.call \notin {"finish", "finishing"}

LEMMA GivenUpStep == GivenUp /\ [Next]_vars => GivenUp'
<1> SUFFICES ASSUME GivenUp, [Next]_vars PROVE GivenUp'
  OBVIOUS
<1> USE DEF GivenUp, Canceled, GiveUp, StatusAfter, Call, backend
<1>1. CASE Upload
  BY <1>1 DEF Upload
<1>2. CASE MainStep
  BY <1>2 DEF MainStep, Initiated, InitiateFails, FinishSucceeds, FinishFails, FinishRetries
<1>3. ASSUME NEW p \in Parts, PartStep(p)
      PROVE  GivenUp'
  <2>1. UNCHANGED <<requests, multipart, submitted>>
    BY <1>3 DEF PartStep, StartPart, HashDone, PartDone, PartFails, PartRetries, FinishBegins
  <2>2. main' \in {main, "returned"} /\ uploadStatus' = uploadStatus
    BY <1>3 DEF PartStep, StartPart, HashDone, PartDone, PartFails, PartRetries, FinishBegins,
                Continue, Rejected
  <2> QED
    BY <2>1, <2>2
<1>4. CASE CancelUpload
  BY <1>4 DEF CancelUpload
<1>5. CASE ServerInitiates
  BY <1>5 DEF ServerInitiates, Handled, client
<1>6. CASE ServerAdmits
  BY <1>6 DEF ServerAdmits
<1>7. CASE ServerFinishes
  BY <1>7 DEF ServerFinishes
<1>8. CASE ServerAborts
  BY <1>8 DEF ServerAborts, Handled, client
<1>9. CASE UNCHANGED vars
  BY <1>9 DEF vars, client
<1> QED
  BY <1>1, <1>2, <1>3, <1>4, <1>5, <1>6, <1>7, <1>8, <1>9 DEF Next

\* cancelGuard: what is canceled before finishUpload has begun is never submitted, nor is
\* its file assembled.  CanceledIsNotSubmitted fails only for a later cancel.
THEOREM CanceledInTimeIsNeverSubmitted ==
  Spec => [](CanceledInTime => [](~submitted /\ multipart # "completed"))
<1>1. IInv /\ CanceledInTime => GivenUp
  BY DEF IInv, NotFinished, SentOnce, MayFinish, CanceledInTime, GivenUp
<1>2. GivenUp => ~submitted /\ multipart # "completed"
  BY DEF GivenUp
<1> QED
  BY <1>1, <1>2, GivenUpStep, Invariance, PTL DEF Spec

-----------------------------------------------------------------------------
(* Every step leaves less to do *)

\* Steps that a part may still take.
PartRank(x) ==
    CASE x.step = "none"     -> 3 * MaxAttempts + 2
      [] x.step = "waiting"  -> 3 * MaxAttempts + 1
      [] x.step = "hashing"  -> 3 * x.left
      [] x.step = "sending"  -> 3 * x.left - 1
      [] x.step = "sleeping" -> 3 * x.left - 2
      [] OTHER               -> 0

\* Steps that upload() may still take.
MainRank(step, left) ==
    CASE step = "new"        -> 2 * MaxAttempts + 3
      [] step = "initiating" -> 2 * MaxAttempts + 2
      [] step = "uploading"  -> 2 * MaxAttempts + 1
      [] step = "finishing"  -> 2 * left
      [] step = "sleeping"   -> 2 * left - 1
      [] OTHER               -> 0

\* Calls that may still be sent, or that the server may still handle.
CallLeft(m) ==
    \/ m \in requests
    \/ m = Call("initiate", 0) /\ main = "new"
    \/ m = Call("abort", 0) /\ ~Canceled
    \/ m.call \in {"finish", "finishing"} /\ m.attempt # 0 /\ MayFinish(m.attempt)
    \/ m.call = "finishing" /\ Call("finish", m.attempt) \in requests

PartsLeft == {t \in Parts \X (1 .. 3 * MaxAttempts + 2) : t[2] <= PartRank(part[t[1]])}

MainLeft == 1 .. MainRank(main, attempts)

CallsLeft == {m \in Request : CallLeft(m)}

UserLeft == IF Canceled THEN {} ELSE {"cancel"}

\* None of the four grows, and one shrinks.
LessToDo ==
    /\ PartsLeft' \subseteq PartsLeft /\ MainLeft' \subseteq MainLeft
    /\ CallsLeft' \subseteq CallsLeft /\ UserLeft' \subseteq UserLeft
    /\ <<PartsLeft, MainLeft, CallsLeft, UserLeft>>' # <<PartsLeft, MainLeft, CallsLeft, UserLeft>>

LEMMA PartRankIs ==
  ASSUME NEW step \in Steps, NEW left \in 0 .. MaxAttempts,
         step \in {"hashing", "sending", "sleeping"} => left # 0
  PROVE  /\ PartRank(Part(step, left)) \in 0 .. 3 * MaxAttempts + 2
         /\ step = "none" => PartRank(Part(step, left)) = 3 * MaxAttempts + 2
         /\ step = "waiting" => PartRank(Part(step, left)) = 3 * MaxAttempts + 1
         /\ step = "hashing" => PartRank(Part(step, left)) = 3 * left
         /\ step = "sending" => PartRank(Part(step, left)) = 3 * left - 1
         /\ step = "sleeping" => PartRank(Part(step, left)) = 3 * left - 2
         /\ step \in {"done", "failed", "stuck"} => PartRank(Part(step, left)) = 0
BY CountsAssumption DEF PartRank, Part, Steps

\* A part whose rank falls.
LEMMA OnePartShrinks ==
  ASSUME TypeOK, NEW p \in Parts, NEW x, part' = [part EXCEPT ![p] = x],
         PartRank(x) \in Nat, PartRank(part[p]) \in 1 .. 3 * MaxAttempts + 2,
         PartRank(x) < PartRank(part[p])
  PROVE  PartsLeft' \subseteq PartsLeft /\ PartsLeft' # PartsLeft
<1> DEFINE t == <<p, PartRank(part[p])>>
<1>1. \A q \in Parts : part'[q] = IF q = p THEN x ELSE part[q]
  BY DEF TypeOK
<1>2. t \in PartsLeft
  BY DEF PartsLeft
<1>3. t \notin PartsLeft'
  BY <1>1 DEF PartsLeft
<1>4. ASSUME NEW q \in Parts, NEW k \in 1 .. 3 * MaxAttempts + 2, <<q, k>> \in PartsLeft'
      PROVE  <<q, k>> \in PartsLeft
  BY <1>1, <1>4 DEF PartsLeft
<1>5. PartsLeft' \subseteq PartsLeft
  BY <1>4 DEF PartsLeft
<1> QED
  BY <1>2, <1>3, <1>5

\* Parts whose ranks do not grow.
LEMMA PartsLeftKept ==
  ASSUME \A q \in Parts : /\ PartRank(part[q]) \in 0 .. 3 * MaxAttempts + 2
                           /\ PartRank(part'[q]) \in 0 .. 3 * MaxAttempts + 2
                           /\ PartRank(part'[q]) <= PartRank(part[q])
  PROVE  PartsLeft' \subseteq PartsLeft
<1>1. ASSUME NEW q \in Parts, NEW k \in 1 .. 3 * MaxAttempts + 2, k <= PartRank(part'[q])
      PROVE  k <= PartRank(part[q])
  BY <1>1, CountsAssumption
<1>2. ASSUME NEW t \in PartsLeft'
      PROVE  t \in PartsLeft
  <2>1. /\ t \in Parts \X (1 .. 3 * MaxAttempts + 2)
        /\ t[1] \in Parts /\ t[2] \in 1 .. 3 * MaxAttempts + 2
        /\ t[2] <= PartRank(part'[t[1]])
    BY <1>2 DEF PartsLeft
  <2>2. t[2] <= PartRank(part[t[1]])
    BY <2>1, <1>1
  <2> QED
    BY <2>1, <2>2 DEF PartsLeft
<1> QED
  BY <1>2

\* What PartRankIs says of the parts of a state.
LEMMA PartRanks ==
  ASSUME TypeOK, AttemptsLeft, NEW p \in Parts
  PROVE  /\ PartRank(part[p]) \in 0 .. 3 * MaxAttempts + 2
         /\ part[p].left \in 0 .. MaxAttempts
         /\ part[p].step = "none" => PartRank(part[p]) = 3 * MaxAttempts + 2
         /\ part[p].step = "waiting" => PartRank(part[p]) = 3 * MaxAttempts + 1
         /\ part[p].step \in {"hashing", "sending", "sleeping"} => part[p].left # 0
         /\ part[p].step = "hashing" => PartRank(part[p]) = 3 * part[p].left
         /\ part[p].step = "sending" => PartRank(part[p]) = 3 * part[p].left - 1
         /\ part[p].step = "sleeping" => PartRank(part[p]) = 3 * part[p].left - 2
<1>1. part[p].step \in Steps /\ part[p].left \in 0 .. MaxAttempts /\ part[p] = Part(part[p].step, part[p].left)
  BY DEF TypeOK, Part
<1>2. part[p].step \in {"hashing", "sending", "sleeping"} => part[p].left # 0
  BY DEF AttemptsLeft
<1> QED
  BY <1>1, <1>2, PartRankIs

\* Each wait of a part brings it nearer to its end.
LEMMA PartStepShrinks ==
  ASSUME TypeOK, AttemptsLeft, NEW p \in Parts, PartStep(p)
  PROVE  PartsLeft' \subseteq PartsLeft /\ PartsLeft' # PartsLeft
<1> DEFINE left == part[p].left
<1>1. ASSUME NEW step \in Steps, NEW k \in 0 .. MaxAttempts,
             step \in {"hashing", "sending", "sleeping"} => k # 0,
             part' = [part EXCEPT ![p] = Part(step, k)],
             PartRank(Part(step, k)) < PartRank(part[p])
      PROVE  PartsLeft' \subseteq PartsLeft /\ PartsLeft' # PartsLeft
  <2>1. PartRank(Part(step, k)) \in 0 .. 3 * MaxAttempts + 2
    BY <1>1, PartRankIs
  <2>2. PartRank(part[p]) \in 0 .. 3 * MaxAttempts + 2
    BY PartRanks
  <2>3. PartRank(Part(step, k)) \in Nat /\ PartRank(part[p]) \in 1 .. 3 * MaxAttempts + 2
    BY <1>1, <2>1, <2>2, CountsAssumption
  <2> QED
    BY <1>1, <2>3, OnePartShrinks
<1>2. left \in 0 .. MaxAttempts /\ (part[p].step \in {"hashing", "sending", "sleeping"} => left # 0)
  BY PartRanks
<1>3. ASSUME NEW step \in {"done", "failed"}, part' = [part EXCEPT ![p] = Part(step, 0)],
             PartRank(part[p]) # 0
      PROVE  PartsLeft' \subseteq PartsLeft /\ PartsLeft' # PartsLeft
  <2>1. step \in Steps /\ step \notin {"hashing", "sending", "sleeping"} /\ 0 \in 0 .. MaxAttempts
    BY CountsAssumption DEF Steps
  <2>2. PartRank(Part(step, 0)) = 0
    BY <2>1, PartRankIs
  <2>3. PartRank(part[p]) \in 0 .. 3 * MaxAttempts + 2
    BY PartRanks
  <2>4. PartRank(Part(step, 0)) < PartRank(part[p])
    BY <1>3, <2>2, <2>3, CountsAssumption
  <2> QED
    BY <1>1, <1>3, <2>1, <2>4
<1>4. CASE StartPart(p)
  <2>1. PartRank(part[p]) = 3 * MaxAttempts + 1
    BY <1>4, PartRanks DEF StartPart
  <2>2. PartRank(Part("hashing", MaxAttempts)) = 3 * MaxAttempts
    BY PartRankIs, CountsAssumption DEF Steps
  <2>3. \/ part' = [part EXCEPT ![p] = Part("failed", 0)]
        \/ part' = [part EXCEPT ![p] = Part("hashing", MaxAttempts)]
    BY <1>4 DEF StartPart
  <2>4. CASE part' = [part EXCEPT ![p] = Part("failed", 0)]
    <3>1. PartRank(part[p]) # 0
      BY <2>1, CountsAssumption
    <3> QED
      BY <2>4, <3>1, <1>3
  <2>5. CASE part' = [part EXCEPT ![p] = Part("hashing", MaxAttempts)]
    <3>1. PartRank(Part("hashing", MaxAttempts)) < PartRank(part[p])
      BY <2>1, <2>2, CountsAssumption
    <3>2. "hashing" \in Steps /\ MaxAttempts \in 0 .. MaxAttempts /\ MaxAttempts # 0
      BY CountsAssumption DEF Steps
    <3> QED
      BY <2>5, <3>1, <3>2, <1>1
  <2> QED
    BY <2>3, <2>4, <2>5
<1>5. CASE HashDone(p)
  <2>1. PartRank(part[p]) = 3 * left /\ left # 0
    BY <1>5, PartRanks DEF HashDone
  <2>2. PICK step \in {"sleeping", "sending"} : part' = [part EXCEPT ![p] = Part(step, left)]
    BY <1>5 DEF HashDone, Continue
  <2>3. PartRank(Part(step, left)) \in {3 * left - 1, 3 * left - 2}
    BY <1>2, <2>1, PartRankIs DEF Steps
  <2>4. PartRank(Part(step, left)) < PartRank(part[p])
    BY <2>1, <2>3, <1>2
  <2> QED
    BY <1>1, <1>2, <2>1, <2>2, <2>4 DEF Steps
<1>6. CASE PartDone(p)
  <2>1. PartRank(part[p]) = 3 * left - 1 /\ left # 0
    BY <1>6, PartRanks DEF PartDone
  <2>2. part' = [part EXCEPT ![p] = Part("done", 0)]
    BY <1>6 DEF PartDone, Settle
  <2>3. PartRank(part[p]) # 0
    BY <2>1, <1>2
  <2> QED
    BY <1>3, <2>2, <2>3
<1>7. CASE PartFails(p)
  <2>1. PartRank(part[p]) = 3 * left - 1 /\ left # 0
    BY <1>7, PartRanks DEF PartFails
  <2>2. part' = [part EXCEPT ![p] = Part("sleeping", left)]
    BY <1>7 DEF PartFails, Continue
  <2>3. PartRank(Part("sleeping", left)) = 3 * left - 2
    BY <1>2, <2>1, PartRankIs DEF Steps
  <2>4. PartRank(Part("sleeping", left)) < PartRank(part[p])
    BY <2>1, <2>3, <1>2
  <2> QED
    BY <1>1, <1>2, <2>1, <2>2, <2>4 DEF Steps
<1>8. CASE PartRetries(p)
  <2>1. PartRank(part[p]) = 3 * left - 2 /\ left # 0
    BY <1>8, PartRanks DEF PartRetries
  <2>2. CASE part' = [part EXCEPT ![p] = Part("failed", 0)]
    <3>1. PartRank(part[p]) # 0
      BY <2>1, <1>2
    <3> QED
      BY <1>3, <2>2, <3>1
  <2>3. CASE left # 1 /\ part' = [part EXCEPT ![p] = Part("hashing", left - 1)]
    <3> HIDE DEF left
    <3>1. left - 1 \in 0 .. MaxAttempts /\ left - 1 # 0
      BY <2>1, <2>3, <1>2, CountsAssumption
    <3>2. PartRank(Part("hashing", left - 1)) = 3 * (left - 1)
      BY <3>1, PartRankIs DEF Steps
    <3>3. PartRank(Part("hashing", left - 1)) < PartRank(part[p])
      BY <2>1, <3>2, <1>2
    <3> QED
      <4>1. "hashing" \in Steps
        BY DEF Steps
      <4> QED
        BY <1>1, <2>3, <3>1, <3>3, <4>1
  <2> QED
    BY <1>8, <2>2, <2>3 DEF PartRetries, Settle, Continue
<1> QED
  BY <1>4, <1>5, <1>6, <1>7, <1>8 DEF PartStep

\* The parts in a step of upload(), the user or the server.
LEMMA PartsLeftStep ==
  ASSUME IInv, Next
  PROVE  PartsLeft' \subseteq PartsLeft
<1> USE DEF IInv
<1>1. CASE Initiated
  <2>1. CASE UNCHANGED part
    BY <2>1 DEF PartsLeft
  <2>2. CASE TakeSlots
    <3>1. \A q \in Parts : part[q].step = "none"
      BY <1>1 DEF Initiated, RowIsNew
    <3>2. ASSUME NEW q \in Parts
          PROVE  /\ PartRank(part[q]) \in 0 .. 3 * MaxAttempts + 2
                 /\ PartRank(part'[q]) \in 0 .. 3 * MaxAttempts + 2
                 /\ PartRank(part'[q]) <= PartRank(part[q])
      <4>1. PartRank(part[q]) = 3 * MaxAttempts + 2
        BY <3>1, PartRanks
      <4>2. part'[q] \in {Part("hashing", MaxAttempts), Part("waiting", 0)}
        BY <2>2 DEF TakeSlots
      <4>3. PartRank(Part("hashing", MaxAttempts)) \in 0 .. 3 * MaxAttempts + 2
        BY PartRankIs, CountsAssumption DEF Steps
      <4>4. PartRank(Part("waiting", 0)) \in 0 .. 3 * MaxAttempts + 2
        BY PartRankIs, CountsAssumption DEF Steps
      <4>5. PartRank(part'[q]) \in 0 .. 3 * MaxAttempts + 2
        BY <4>2, <4>3, <4>4
      <4> QED
        BY <4>1, <4>5, CountsAssumption
    <3> QED
      BY <3>2, PartsLeftKept
  <2> QED
    BY <1>1, <2>1, <2>2 DEF Initiated
<1>2. CASE CancelUpload
  <2>1. ASSUME NEW q \in Parts
        PROVE  /\ PartRank(part[q]) \in 0 .. 3 * MaxAttempts + 2
               /\ PartRank(part'[q]) \in 0 .. 3 * MaxAttempts + 2
               /\ PartRank(part'[q]) <= PartRank(part[q])
    <3>1. part'[q] \in {Part("stuck", 0), part[q]}
      BY <1>2 DEF CancelUpload
    <3>2. PartRank(Part("stuck", 0)) = 0
      BY PartRankIs, CountsAssumption DEF Steps
    <3>3. PartRank(part[q]) \in 0 .. 3 * MaxAttempts + 2
      BY PartRanks
    <3>4. PartRank(part'[q]) \in {0, PartRank(part[q])}
      BY <3>1, <3>2
    <3> QED
      BY <3>3, <3>4, CountsAssumption
  <2> QED
    BY <2>1, PartsLeftKept
<1>3. ASSUME NEW p \in Parts, PartStep(p)
      PROVE  PartsLeft' \subseteq PartsLeft
  BY <1>3, PartStepShrinks
<1>4. CASE Upload \/ InitiateFails \/ FinishSucceeds \/ FinishFails \/ FinishRetries
  <2>1. UNCHANGED part
    BY <1>4 DEF Upload, InitiateFails, FinishSucceeds, FinishFails, FinishRetries
  <2> QED
    BY <2>1 DEF PartsLeft
<1>5. CASE ServerInitiates \/ ServerAdmits \/ ServerFinishes \/ ServerAborts
  <2>1. UNCHANGED part
    BY <1>5 DEF ServerInitiates, ServerAdmits, ServerFinishes, ServerAborts, Handled, client
  <2> QED
    BY <2>1 DEF PartsLeft
<1> QED
  BY <1>1, <1>2, <1>3, <1>4, <1>5 DEF Next, MainStep

\* upload() waits for one thing after the other, and finishUpload is retried with one
\* attempt less.
MainMoves ==
    \/ main # "returned" /\ main' = "returned"
    \/ main = "new" /\ main' = "initiating"
    \/ main = "initiating" /\ main' = "uploading"
    \/ main = "uploading" /\ main' = "finishing" /\ attempts' = MaxAttempts
    \/ main = "finishing" /\ main' = "sleeping" /\ attempts' = attempts
    \/ main = "sleeping" /\ main' = "finishing" /\ attempts # 1 /\ attempts' = attempts - 1

\* What a step does to what upload() waits for.
LEMMA MainStepIs ==
  ASSUME Next
  PROVE  /\ Upload \/ MainStep => MainMoves
         /\ MainMoves \/ UNCHANGED <<main, attempts>>
<1> USE DEF MainMoves, GiveUp
<1>1. Upload => MainMoves
  BY DEF Upload
<1>2. MainStep => MainMoves
  BY DEF MainStep, Initiated, InitiateFails, FinishSucceeds, FinishFails, FinishRetries
<1>3. ASSUME NEW p \in Parts, PartStep(p)
      PROVE  MainMoves \/ UNCHANGED <<main, attempts>>
  <2>1. PartDone(p) => MainMoves \/ UNCHANGED <<main, attempts>>
    BY DEF PartDone, FinishBegins, LastPart
  <2>2. StartPart(p) \/ PartRetries(p) => MainMoves \/ UNCHANGED <<main, attempts>>
    BY DEF StartPart, PartRetries, Rejected, Settle, Continue
  <2>3. HashDone(p) \/ PartFails(p) => MainMoves \/ UNCHANGED <<main, attempts>>
    BY DEF HashDone, PartFails, Continue
  <2> QED
    BY <1>3, <2>1, <2>2, <2>3 DEF PartStep
<1>4. CancelUpload => UNCHANGED <<main, attempts>>
  BY DEF CancelUpload
<1>5. ServerInitiates \/ ServerAdmits \/ ServerFinishes \/ ServerAborts => UNCHANGED <<main, attempts>>
  BY DEF ServerInitiates, ServerAdmits, ServerFinishes, ServerAborts, Handled, client
<1> HIDE DEF MainMoves
<1> QED
  BY <1>1, <1>2, <1>3, <1>4, <1>5 DEF Next

\* The steps left to upload().
LEMMA MainLeftStep ==
  ASSUME TypeOK, AttemptsLeft, TypeOK', AttemptsLeft', Next
  PROVE  /\ MainLeft' \subseteq MainLeft
         /\ Upload \/ MainStep => MainLeft' # MainLeft
<1> DEFINE r == MainRank(main, attempts)
           s == MainRank(main', attempts')
<1>1. r \in Nat /\ s \in Nat
  <2>1. ASSUME NEW step \in {"new", "initiating", "uploading", "finishing", "sleeping", "returned"},
               NEW left \in 0 .. MaxAttempts, step \in {"finishing", "sleeping"} => left # 0
        PROVE  MainRank(step, left) \in Nat
    BY <2>1, CountsAssumption DEF MainRank
  <2>2. r \in Nat
    BY <2>1 DEF TypeOK, AttemptsLeft
  <2>3. s \in Nat
    BY <2>1 DEF TypeOK, AttemptsLeft
  <2> QED
    BY <2>2, <2>3
<1>2. ASSUME MainMoves PROVE s < r
  <2>1. CASE main # "returned" /\ main' = "returned"
    BY <2>1, CountsAssumption DEF MainRank, TypeOK, AttemptsLeft
  <2>2. CASE \/ main = "new" /\ main' = "initiating"
             \/ main = "initiating" /\ main' = "uploading"
    BY <2>2, CountsAssumption DEF MainRank
  <2>3. CASE main = "uploading" /\ main' = "finishing" /\ attempts' = MaxAttempts
    BY <2>3, CountsAssumption DEF MainRank
  <2>4. CASE main = "finishing" /\ main' = "sleeping" /\ attempts' = attempts
    BY <2>4, CountsAssumption DEF MainRank, TypeOK
  <2>5. CASE main = "sleeping" /\ main' = "finishing" /\ attempts' = attempts - 1
    BY <2>5, CountsAssumption DEF MainRank, TypeOK
  <2> QED
    BY <1>2, <2>1, <2>2, <2>3, <2>4, <2>5 DEF MainMoves
<1>3. MainLeft = 1 .. r /\ MainLeft' = 1 .. s
  BY DEF MainLeft
<1>4. s < r => 1 .. s \subseteq 1 .. r /\ r \in 1 .. r /\ r \notin 1 .. s
  <2> HIDE DEF r, s
  <2> QED
    BY <1>1
<1>5. UNCHANGED <<main, attempts>> => MainLeft' = MainLeft
  BY DEF MainLeft
<1> QED
  BY <1>2, <1>3, <1>4, <1>5, MainStepIs

\* A cancel is final.
LEMMA StaysCanceled ==
  ASSUME Next
  PROVE  Canceled => Canceled'
<1> USE DEF Canceled, GiveUp, StatusAfter
<1>1. Upload => (Canceled => Canceled')
  BY DEF Upload
<1>2. MainStep => (Canceled => Canceled')
  BY DEF MainStep, Initiated, InitiateFails, FinishSucceeds, FinishFails, FinishRetries
<1>3. ASSUME NEW p \in Parts, PartStep(p)
      PROVE  Canceled => Canceled'
  <2>1. PartDone(p) => (Canceled => Canceled')
    BY DEF PartDone, FinishBegins
  <2>2. StartPart(p) \/ PartRetries(p) => (Canceled => Canceled')
    BY DEF StartPart, PartRetries, Rejected
  <2>3. HashDone(p) \/ PartFails(p) => (Canceled => Canceled')
    BY DEF HashDone, PartFails
  <2> QED
    BY <1>3, <2>1, <2>2, <2>3 DEF PartStep
<1>4. CancelUpload => (Canceled => Canceled')
  BY DEF CancelUpload
<1>5. ServerInitiates \/ ServerAdmits \/ ServerFinishes \/ ServerAborts => (Canceled => Canceled')
  BY DEF ServerInitiates, ServerAdmits, ServerFinishes, ServerAborts, Handled, client
<1> HIDE DEF Canceled
<1> QED
  BY <1>1, <1>2, <1>3, <1>4, <1>5 DEF Next

\* A call is only sent, or admitted, while it was still to be expected.
LEMMA CallsSent ==
  ASSUME TypeOK, AttemptsLeft, Next, NEW m \in requests', m \notin requests
  PROVE  \/ m = Call("initiate", 0) /\ main = "new"
         \/ m = Call("abort", 0) /\ ~Canceled
         \/ m.call = "finish" /\ m.attempt # 0 /\ MayFinish(m.attempt)
         \/ m.call = "finishing" /\ Call("finish", m.attempt) \in requests
<1> DEFINE Expected == \/ m = Call("initiate", 0) /\ main = "new"
                       \/ m = Call("abort", 0) /\ ~Canceled
                       \/ m.call = "finish" /\ m.attempt # 0 /\ MayFinish(m.attempt)
                       \/ m.call = "finishing" /\ Call("finish", m.attempt) \in requests
<1>1. CASE Upload
  BY <1>1 DEF Upload, Send
<1>2. CASE CancelUpload
  BY <1>2 DEF CancelUpload
<1>3. ASSUME NEW a \in 1 .. MaxAttempts, MayFinish(a), requests' = requests \cup {Call("finish", a)}
      PROVE  Expected
  <2>1. m = Call("finish", a)
    BY <1>3
  <2>2. m.call = "finish" /\ m.attempt = a /\ a # 0
    BY <2>1 DEF Call
  <2> QED
    BY <2>2, <1>3
<1>4. ASSUME NEW p \in Parts, PartDone(p)
      PROVE  Expected
  <2>1. requests' = requests \cup {Call("finish", MaxAttempts)} /\ MayFinish(MaxAttempts)
    BY <1>4 DEF PartDone, FinishBegins, LastPart, MayFinish, Send
  <2> QED
    BY <2>1, <1>3, CountsAssumption
<1>5. CASE FinishRetries
  <2>1. attempts # 1 /\ requests' = requests \cup {Call("finish", attempts - 1)}
    BY <1>5 DEF FinishRetries, Send
  <2>2. attempts - 1 \in 1 .. MaxAttempts /\ MayFinish(attempts - 1)
    BY <1>5, <2>1, CountsAssumption DEF FinishRetries, MayFinish, TypeOK, AttemptsLeft
  <2> QED
    BY <2>1, <2>2, <1>3
<1>6. CASE ServerAdmits
  <2>1. PICK n \in requests :
           n.call = "finish" /\ requests' = (requests \ {n}) \cup {Call("finishing", n.attempt)}
    BY <1>6 DEF ServerAdmits, Handled
  <2>2. n = Call("finish", n.attempt)
    BY <2>1 DEF TypeOK, Request, Call
  <2>3. m = Call("finishing", n.attempt)
    BY <2>1
  <2>4. m.call = "finishing" /\ m.attempt = n.attempt
    BY <2>3 DEF Call
  <2> QED
    BY <2>2, <2>4
<1>7. ~(ServerInitiates \/ ServerFinishes \/ ServerAborts)
  BY DEF ServerInitiates, ServerFinishes, ServerAborts, Handled
<1>8. ~(Initiated \/ InitiateFails \/ FinishSucceeds \/ FinishFails)
  BY DEF Initiated, InitiateFails, FinishSucceeds, FinishFails
<1>9. ASSUME NEW p \in Parts
      PROVE  ~(StartPart(p) \/ HashDone(p) \/ PartFails(p) \/ PartRetries(p))
  BY DEF StartPart, HashDone, PartFails, PartRetries
<1> HIDE DEF Expected
<1>10. Expected
  BY <1>1, <1>2, <1>4, <1>5, <1>6, <1>7, <1>8, <1>9 DEF Next, MainStep, PartStep, Expected
<1> QED
  BY <1>10 DEF Expected

\* No call becomes possible again.
LEMMA CallsLeftKept ==
  ASSUME TypeOK, AttemptsLeft, TypeOK', Next
  PROVE  CallsLeft' \subseteq CallsLeft
<1>1. main' = "new" => main = "new"
  BY MainStepIs DEF MainMoves
<1>2. ASSUME NEW a \in 1 .. MaxAttempts, MayFinish(a)'
      PROVE  MayFinish(a)
  <2>1. CASE UNCHANGED <<main, attempts>>
    BY <1>2, <2>1 DEF MayFinish
  <2>2. CASE MainMoves
    BY <1>2, <2>2 DEF MainMoves, MayFinish, TypeOK
  <2> QED
    BY <2>1, <2>2, MainStepIs
<1>3. ASSUME NEW m \in Request, CallLeft(m)'
      PROVE  CallLeft(m)
  <2>1. CASE m \in requests'
    <3>1. CASE m \in requests
      BY <3>1 DEF CallLeft
    <3>2. CASE m \notin requests
      BY <2>1, <3>2, CallsSent DEF CallLeft
    <3> QED
      BY <3>1, <3>2
  <2>2. CASE m = Call("initiate", 0) /\ main' = "new"
    BY <2>2, <1>1 DEF CallLeft
  <2>3. CASE m = Call("abort", 0) /\ ~Canceled'
    BY <2>3, StaysCanceled DEF CallLeft
  <2>4. CASE m.call \in {"finish", "finishing"} /\ m.attempt # 0 /\ MayFinish(m.attempt)'
    <3>1. m.attempt \in 1 .. MaxAttempts
      BY <2>4, CountsAssumption DEF Request
    <3> QED
      BY <2>4, <3>1, <1>2 DEF CallLeft
  <2>5. CASE m.call = "finishing" /\ Call("finish", m.attempt) \in requests'
    <3> DEFINE n == Call("finish", m.attempt)
    <3>1. n.call = "finish" /\ n.attempt = m.attempt
      BY DEF Call
    <3> HIDE DEF n
    <3>2. CASE n \in requests
      BY <2>5, <3>2 DEF CallLeft, n
    <3>3. CASE n \notin requests
      <4>1. n \in requests'
        BY <2>5 DEF n
      <4>2. n # Call("initiate", 0) /\ n # Call("abort", 0)
        BY <3>1 DEF Call
      <4>3. n.attempt # 0 /\ MayFinish(n.attempt)
        BY <4>1, <4>2, <3>1, <3>3, CallsSent
      <4> QED
        BY <2>5, <3>1, <4>3 DEF CallLeft
    <3> QED
      BY <3>2, <3>3
  <2> QED
    BY <1>3, <2>1, <2>2, <2>3, <2>4, <2>5 DEF CallLeft
<1> QED
  BY <1>3 DEF CallsLeft

\* A call that the server has handled does not come back.
LEMMA HandledIsGone ==
  ASSUME TypeOK, RowIsNew, SentOnce, AdmittedOnce, UNCHANGED client,
         NEW m \in requests, m \notin requests', m.call = "finishing" => requests' \subseteq requests
  PROVE  CallsLeft' # CallsLeft
<1>1. m \in Request
  BY DEF TypeOK
<1>2. m \in CallsLeft
  BY <1>1 DEF CallsLeft, CallLeft
<1>3. main' = main /\ attempts' = attempts /\ uploadStatus' = uploadStatus
  BY DEF client
<1>4. main # "new"
  BY DEF RowIsNew
<1>5. m = Call("abort", 0) => Canceled
  BY DEF SentOnce, Call
<1>6. m.call \in {"finish", "finishing"} => ~MayFinish(m.attempt)
  BY DEF SentOnce
<1>7. MayFinish(m.attempt)' = MayFinish(m.attempt) /\ Canceled' = Canceled
  BY <1>3 DEF MayFinish, Canceled
<1>8. m.call = "finishing" => Call("finish", m.attempt) \notin requests'
  BY DEF AdmittedOnce
<1>9. ~CallLeft(m)'
  BY <1>3, <1>4, <1>5, <1>6, <1>7, <1>8 DEF CallLeft
<1> QED
  BY <1>2, <1>9 DEF CallsLeft

\* The server handles calls that are sent, and has one less to handle.
LEMMA ServerStepHandles ==
  ASSUME TypeOK, RowIsNew, SentOnce, AdmittedOnce,
         ServerInitiates \/ ServerAdmits \/ ServerFinishes \/ ServerAborts
  PROVE  CallsLeft' # CallsLeft
<1>1. UNCHANGED client
  BY DEF ServerInitiates, ServerAdmits, ServerFinishes, ServerAborts, Handled
<1>2. CASE ServerInitiates
  <2>1. PICK m \in requests : requests' = requests \ {m}
    BY <1>2 DEF ServerInitiates, Handled
  <2> QED
    BY <1>1, <2>1, HandledIsGone
<1>3. CASE ServerAdmits
  <2>1. PICK m \in requests :
           /\ m.call = "finish"
           /\ requests' \subseteq (requests \ {m}) \cup {Call("finishing", m.attempt)}
    BY <1>3 DEF ServerAdmits, Handled
  <2>2. m # Call("finishing", m.attempt)
    BY <2>1 DEF Call
  <2> QED
    BY <1>1, <2>1, <2>2, HandledIsGone
<1>4. CASE ServerFinishes
  <2>1. PICK m \in requests : requests' = requests \ {m}
    BY <1>4 DEF ServerFinishes, Handled
  <2> QED
    BY <1>1, <2>1, HandledIsGone
<1>5. CASE ServerAborts
  <2>1. PICK m \in requests : requests' = requests \ {m}
    BY <1>5 DEF ServerAborts, Handled
  <2> QED
    BY <1>1, <2>1, HandledIsGone
<1> QED
  BY <1>2, <1>3, <1>4, <1>5

\* Every step, of whoever, leaves less to do.
LEMMA LessToDoStep ==
  ASSUME IInv, IInv', Next
  PROVE  LessToDo
<1> USE DEF IInv
<1>1. PartsLeft' \subseteq PartsLeft
  BY PartsLeftStep
<1>2. MainLeft' \subseteq MainLeft
  BY MainLeftStep
<1>3. CallsLeft' \subseteq CallsLeft
  BY CallsLeftKept
<1>4. UserLeft' \subseteq UserLeft
  BY StaysCanceled DEF UserLeft
<1>5. CASE Upload \/ MainStep
  BY <1>5, MainLeftStep, <1>1, <1>2, <1>3, <1>4 DEF LessToDo
<1>6. ASSUME NEW p \in Parts, PartStep(p)
      PROVE  LessToDo
  BY <1>6, PartStepShrinks, <1>1, <1>2, <1>3, <1>4 DEF LessToDo
<1>7. CASE CancelUpload
  <2>1. UserLeft' # UserLeft
    BY <1>7 DEF CancelUpload, UserLeft, Canceled
  <2> QED
    BY <2>1, <1>1, <1>2, <1>3, <1>4 DEF LessToDo
<1>8. CASE ServerInitiates \/ ServerAdmits \/ ServerFinishes \/ ServerAborts
  BY <1>8, ServerStepHandles, <1>1, <1>2, <1>3, <1>4 DEF LessToDo
<1> HIDE DEF IInv
<1> QED
  BY <1>5, <1>6, <1>7, <1>8 DEF Next

\* What is left to do is finite.
FiniteToDo ==
    /\ IsFiniteSet(PartsLeft) /\ IsFiniteSet(MainLeft)
    /\ IsFiniteSet(CallsLeft) /\ IsFiniteSet(UserLeft)

LEMMA RequestIsFinite == IsFiniteSet(Request)
<1> DEFINE S == {"initiate", "finish", "finishing", "abort"} \X (0 .. MaxAttempts)
           f == [t \in S |-> Call(t[1], t[2])]
<1>1. IsFiniteSet({"initiate", "finish", "finishing", "abort"})
  <2> DEFINE A == {"abort"}
             B == A \cup {"finish"}
             C == B \cup {"finishing"}
  <2>1. IsFiniteSet(A)
    BY FS_Singleton
  <2> HIDE DEF A
  <2>2. IsFiniteSet(B)
    BY <2>1, FS_AddElement
  <2> HIDE DEF B
  <2>3. IsFiniteSet(C)
    BY <2>2, FS_AddElement
  <2> HIDE DEF C
  <2>4. IsFiniteSet(C \cup {"initiate"})
    BY <2>3, FS_AddElement
  <2>5. {"initiate", "finish", "finishing", "abort"} = C \cup {"initiate"}
    BY DEF A, B, C
  <2> QED
    BY <2>4, <2>5
<1>2. IsFiniteSet(S)
  <2>1. 0 \in Int /\ MaxAttempts \in Int
    BY CountsAssumption
  <2>2. IsFiniteSet(0 .. MaxAttempts)
    BY <2>1, FS_Interval
  <2> QED
    BY <1>1, <2>2, FS_Product
<1>3. ASSUME NEW m \in Request
      PROVE  \E t \in S : f[t] = m
  <2> DEFINE t == <<m.call, m.attempt>>
  <2>1. t \in S /\ m = Call(m.call, m.attempt)
    BY DEF Request, Call
  <2>2. f[t] = Call(t[1], t[2])
    BY <2>1
  <2>3. t[1] = m.call /\ t[2] = m.attempt
    OBVIOUS
  <2> QED
    BY <2>1, <2>2, <2>3
<1>4. f \in [S -> Request]
  BY DEF Request, Call
<1> HIDE DEF f, S
<1>5. f \in Surjection(S, Request)
  BY <1>3, <1>4 DEF Surjection
<1> QED
  BY <1>2, <1>5, FS_Surjection

LEMMA ToDoIsFinite ==
  ASSUME TypeOK, AttemptsLeft
  PROVE  FiniteToDo
<1>1. IsFiniteSet(PartsLeft)
  <2>1. IsFiniteSet(Parts \X (1 .. 3 * MaxAttempts + 2))
    <3>1. 1 \in Int /\ PartCount \in Int /\ 3 * MaxAttempts + 2 \in Int
      BY CountsAssumption
    <3>2. IsFiniteSet(Parts)
      BY <3>1, FS_Interval DEF Parts
    <3>3. IsFiniteSet(1 .. 3 * MaxAttempts + 2)
      BY <3>1, FS_Interval
    <3> QED
      BY <3>2, <3>3, FS_Product
  <2>2. PartsLeft \in SUBSET (Parts \X (1 .. 3 * MaxAttempts + 2))
    BY DEF PartsLeft
  <2> QED
    BY <2>1, <2>2, FS_Subset
<1>2. IsFiniteSet(MainLeft)
  <2>1. MainRank(main, attempts) \in Int
    BY CountsAssumption DEF MainRank, TypeOK
  <2> QED
    BY <2>1, FS_Interval DEF MainLeft
<1>3. IsFiniteSet(CallsLeft)
  BY RequestIsFinite, FS_Subset DEF CallsLeft
<1>4. IsFiniteSet(UserLeft)
  BY FS_EmptySet, FS_Singleton DEF UserLeft
<1> QED
  BY <1>1, <1>2, <1>3, <1>4 DEF FiniteToDo

\* Every step of the client, the server or the user uses up something of which there
\* is finitely much, so that retries, slots and late answers never go round in a
\* circle.  What UploadEnds and PartsEnd add is that nothing stops before.
THEOREM EveryStepCounts == Spec => []FiniteToDo /\ [][LessToDo]_vars
<1>1. IInv => FiniteToDo
  BY ToDoIsFinite DEF IInv
<1>2. IInv /\ IInv' /\ [Next]_vars => [LessToDo]_vars
  BY LessToDoStep
<1> QED
  BY <1>1, <1>2, Invariance, PTL DEF Spec

=============================================================================
