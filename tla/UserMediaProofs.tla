---------------------------- MODULE UserMediaProofs ----------------------------
(***************************************************************************)
(* Proofs about UserMedia, for any sets of rows, requests and cleaners.    *)
(***************************************************************************)
EXTENDS UserMedia, TLAPS

-----------------------------------------------------------------------------
(* The inductive invariant *)

Creates(r, m) == At(r, m, "create_s3") \/ At(r, m, "create_save")

Cleans(c, m) ==
    \/ At(c, m, "cleanup_check") \/ At(c, m, "cleanup_delete")
    \/ At(c, m, "cleanup_s3") \/ At(c, m, "cleanup_commit")

Changes(r, m) ==
    \/ At(r, m, "finish_s3") \/ At(r, m, "finish_head") \/ At(r, m, "finish_save")
    \/ At(r, m, "finish_fail") \/ At(r, m, "abort_s3") \/ At(r, m, "abort_save")

\* A row that is being created is initial and fresh, its request is alone with it,
\* and nothing exists in S3 before create_multipart_upload.
CreatedAlone ==
    \A m \in Media :
        /\ status[m] = "absent" => multipart[m] = "none" /\ ~expired[m]
        /\ \A r \in Requests : Creates(r, m) => status[m] = "initial" /\ ~expired[m]
        /\ \A r \in Requests : At(r, m, "create_s3") => multipart[m] = "none"
        /\ \A r, q \in Requests : Creates(r, m) /\ Creates(q, m) => r = q
        /\ \A r \in Requests :
               Changes(r, m) => status[m] \notin {"absent", "initial"}

\* What a status says about S3, in the row and in the copies of it.
S3Known ==
    \A m \in Media :
        /\ object[m] => multipart[m] = "completed"
        /\ status[m] = "upload_complete" => multipart[m] = "completed"
        /\ status[m] = "upload_aborted" => multipart[m] = "aborted"
        /\ \A r \in Requests :
               /\ At(r, m, "finish_save") => multipart[m] = "completed"
               /\ At(r, m, "finish_save") => object[m] \/ expired[m]
               /\ At(r, m, "abort_save") => multipart[m] = "aborted"
        /\ \A c \in Cleaners : Cleans(c, m) =>
               /\ work[c].status = "upload_complete" => multipart[m] = "completed"
               /\ work[c].status = "upload_aborted" => multipart[m] = "aborted"

\* A cleaner only ever works on an expired row, whose upload_id is final.
CleanedExpired ==
    \A m \in Media :
        /\ status[m] = "deleted" => expired[m]
        /\ \A c \in Cleaners : Cleans(c, m) =>
               expired[m] /\ work[c].uploadId = uploadId[m]
        /\ \A c \in Cleaners : At(c, m, "cleanup_commit") /\ uploadId[m] =>
               multipart[m] # "open"

IInv ==
    /\ TypeOK
    /\ CreatedAlone
    /\ S3Known
    /\ CleanedExpired
    /\ CompleteIsDownloadable
    /\ NoMultipartLeft
    /\ ReferencedRowKept

-----------------------------------------------------------------------------
(* Every step keeps the inductive invariant *)

\* Every step keeps the types: no handler writes a status, a copy or a step
\* outside the declared sets.
LEMMA TypeOKStep ==
  ASSUME TypeOK, [Next]_vars
  PROVE  TypeOK'
<1> USE ActorsAssumption, FaultsAssumption
    DEF TypeOK, Actors, Status, RowState, Step, Work, Idle, Copy, At, InTable,
        RowLocked, Begin, Goto, Done, SaveStatus, dbVars, s3Vars
<1>1. ASSUME NEW r \in Requests, NEW m \in Media, CreateRow(r, m)
      PROVE  TypeOK'
  BY <1>1 DEF CreateRow
<1>2. ASSUME NEW r \in Requests, NEW m \in Media, CreateMultipart(r, m)
      PROVE  TypeOK'
  BY <1>2 DEF CreateMultipart
<1>3. ASSUME NEW r \in Requests, NEW m \in Media, SaveCreated(r, m)
      PROVE  TypeOK'
  BY <1>3 DEF SaveCreated
<1>4. ASSUME NEW r \in Requests, NEW m \in Media, FinishBegin(r, m)
      PROVE  TypeOK'
  BY <1>4 DEF FinishBegin
<1>5. ASSUME NEW r \in Requests, NEW m \in Media, FinishCompletes(r, m)
      PROVE  TypeOK'
  <2>1. CASE multipart[m] = "open"
    <3>1. object' = [object EXCEPT ![m] = TRUE]
      BY <1>5, <2>1 DEF FinishCompletes
    <3>2. object' \in [Media -> BOOLEAN]
      BY <3>1
    <3> QED  BY <1>5, <2>1, <3>2 DEF FinishCompletes
  <2>2. CASE multipart[m] = "completed"
    BY <1>5, <2>2 DEF FinishCompletes
  <2> QED  BY <1>5, <2>1, <2>2 DEF FinishCompletes
<1>6. ASSUME NEW r \in Requests, NEW m \in Media, FinishRejected(r, m)
      PROVE  TypeOK'
  BY <1>6 DEF FinishRejected
<1>7. ASSUME NEW r \in Requests, NEW m \in Media, FinishHead(r, m)
      PROVE  TypeOK'
  BY <1>7 DEF FinishHead
<1>8. ASSUME NEW r \in Requests, NEW m \in Media, FinishSave(r, m)
      PROVE  TypeOK'
  BY <1>8 DEF FinishSave
<1>9. ASSUME NEW r \in Requests, NEW m \in Media, FinishFail(r, m)
      PROVE  TypeOK'
  BY <1>9 DEF FinishFail
<1>10. ASSUME NEW r \in Requests, NEW m \in Media, AbortBegin(r, m)
      PROVE  TypeOK'
  BY <1>10 DEF AbortBegin
<1>11. ASSUME NEW r \in Requests, NEW m \in Media, AbortMultipart(r, m)
      PROVE  TypeOK'
  BY <1>11 DEF AbortMultipart
<1>12. ASSUME NEW r \in Requests, NEW m \in Media, AbortSave(r, m)
      PROVE  TypeOK'
  BY <1>12 DEF AbortSave
<1>13. ASSUME NEW c \in Cleaners, NEW m \in Media, CleanupQuery(c, m)
      PROVE  TypeOK'
  BY <1>13 DEF CleanupQuery
<1>14. ASSUME NEW c \in Cleaners, NEW m \in Media, CleanupCheck(c, m)
      PROVE  TypeOK'
  BY <1>14 DEF CleanupCheck
<1>15. ASSUME NEW c \in Cleaners, NEW m \in Media, CleanupDelete(c, m)
      PROVE  TypeOK'
  BY <1>15 DEF CleanupDelete
<1>16. ASSUME NEW c \in Cleaners, NEW m \in Media, CleanupS3(c, m)
      PROVE  TypeOK'
  <2>1. CASE work[c].status = "upload_complete"
    <3>1. object' = [object EXCEPT ![m] = FALSE]
      BY <1>16, <2>1 DEF CleanupS3
    <3>2. object' \in [Media -> BOOLEAN]
      BY <3>1
    <3> QED  BY <1>16, <2>1, <3>2 DEF CleanupS3
  <2>2. CASE work[c].status # "upload_complete"
    BY <1>16, <2>2 DEF CleanupS3
  <2> QED  BY <2>1, <2>2
<1>17. ASSUME NEW c \in Cleaners, NEW m \in Media, CleanupCommit(c, m)
      PROVE  TypeOK'
  BY <1>17 DEF CleanupCommit
<1>18. ASSUME NEW m \in Media, Expire(m)
      PROVE  TypeOK'
  BY <1>18 DEF Expire
<1>19. ASSUME NEW m \in Media, Reference(m)
      PROVE  TypeOK'
  BY <1>19 DEF Reference
<1>20. ASSUME NEW m \in Media, Dereference(m)
      PROVE  TypeOK'
  BY <1>20 DEF Dereference
<1>21. ASSUME NEW a \in Actors, Dies(a)
      PROVE  TypeOK'
  BY <1>21 DEF Dies
<1>22. CASE UNCHANGED vars
  BY <1>22 DEF vars
<1> QED
  BY <1>1, <1>2, <1>3, <1>4, <1>5, <1>6, <1>7, <1>8, <1>9, <1>10, <1>11,
     <1>12, <1>13, <1>14, <1>15, <1>16, <1>17, <1>18, <1>19, <1>20, <1>21,
     <1>22
     DEF Next, Create, Finish, Abort, CleanupWork

\* Nobody else touches a row while it is being created: finish and abort want
\* upload_created, the cleanup wants it expired.
LEMMA CreatedAloneStep ==
  ASSUME TypeOK, CreatedAlone, CleanedExpired, [Next]_vars
  PROVE  CreatedAlone'
<1> USE ActorsAssumption, FaultsAssumption
    DEF TypeOK, CreatedAlone, CleanedExpired, Creates, Changes, Cleans,
        Actors, Status, RowState, Step, Work, Idle, Copy, At, InTable,
        RowLocked, Begin, Goto, Done, SaveStatus, dbVars, s3Vars
<1>1. ASSUME NEW r \in Requests, NEW m \in Media, CreateRow(r, m)
      PROVE  CreatedAlone'
  BY <1>1 DEF CreateRow
<1>2. ASSUME NEW r \in Requests, NEW m \in Media, CreateMultipart(r, m)
      PROVE  CreatedAlone'
  BY <1>2 DEF CreateMultipart
<1>3. ASSUME NEW r \in Requests, NEW m \in Media, SaveCreated(r, m)
      PROVE  CreatedAlone'
  BY <1>3 DEF SaveCreated
<1>4. ASSUME NEW r \in Requests, NEW m \in Media, FinishBegin(r, m)
      PROVE  CreatedAlone'
  BY <1>4 DEF FinishBegin
<1>5. ASSUME NEW r \in Requests, NEW m \in Media, FinishCompletes(r, m)
      PROVE  CreatedAlone'
  BY <1>5 DEF FinishCompletes
<1>6. ASSUME NEW r \in Requests, NEW m \in Media, FinishRejected(r, m)
      PROVE  CreatedAlone'
  BY <1>6 DEF FinishRejected
<1>7. ASSUME NEW r \in Requests, NEW m \in Media, FinishHead(r, m)
      PROVE  CreatedAlone'
  BY <1>7 DEF FinishHead
<1>8. ASSUME NEW r \in Requests, NEW m \in Media, FinishSave(r, m)
      PROVE  CreatedAlone'
  BY <1>8 DEF FinishSave
<1>9. ASSUME NEW r \in Requests, NEW m \in Media, FinishFail(r, m)
      PROVE  CreatedAlone'
  BY <1>9 DEF FinishFail
<1>10. ASSUME NEW r \in Requests, NEW m \in Media, AbortBegin(r, m)
      PROVE  CreatedAlone'
  BY <1>10 DEF AbortBegin
<1>11. ASSUME NEW r \in Requests, NEW m \in Media, AbortMultipart(r, m)
      PROVE  CreatedAlone'
  BY <1>11 DEF AbortMultipart
<1>12. ASSUME NEW r \in Requests, NEW m \in Media, AbortSave(r, m)
      PROVE  CreatedAlone'
  BY <1>12 DEF AbortSave
<1>13. ASSUME NEW c \in Cleaners, NEW m \in Media, CleanupQuery(c, m)
      PROVE  CreatedAlone'
  BY <1>13 DEF CleanupQuery
<1>14. ASSUME NEW c \in Cleaners, NEW m \in Media, CleanupCheck(c, m)
      PROVE  CreatedAlone'
  BY <1>14 DEF CleanupCheck
<1>15. ASSUME NEW c \in Cleaners, NEW m \in Media, CleanupDelete(c, m)
      PROVE  CreatedAlone'
  BY <1>15 DEF CleanupDelete
<1>16. ASSUME NEW c \in Cleaners, NEW m \in Media, CleanupS3(c, m)
      PROVE  CreatedAlone'
  BY <1>16 DEF CleanupS3
<1>17. ASSUME NEW c \in Cleaners, NEW m \in Media, CleanupCommit(c, m)
      PROVE  CreatedAlone'
  BY <1>17 DEF CleanupCommit
<1>18. ASSUME NEW m \in Media, Expire(m)
      PROVE  CreatedAlone'
  BY <1>18 DEF Expire
<1>19. ASSUME NEW m \in Media, Reference(m)
      PROVE  CreatedAlone'
  BY <1>19 DEF Reference
<1>20. ASSUME NEW m \in Media, Dereference(m)
      PROVE  CreatedAlone'
  BY <1>20 DEF Dereference
<1>21. ASSUME NEW a \in Actors, Dies(a)
      PROVE  CreatedAlone'
  BY <1>21 DEF Dies
<1>22. CASE UNCHANGED vars
  BY <1>22 DEF vars
<1> QED
  BY <1>1, <1>2, <1>3, <1>4, <1>5, <1>6, <1>7, <1>8, <1>9, <1>10, <1>11,
     <1>12, <1>13, <1>14, <1>15, <1>16, <1>17, <1>18, <1>19, <1>20, <1>21,
     <1>22
     DEF Next, Create, Finish, Abort, CleanupWork

\* What a status says about S3 stays true in the row and in every copy: a
\* completed or an aborted multipart upload never changes again.
LEMMA S3KnownStep ==
  ASSUME TypeOK, CreatedAlone, S3Known, CleanedExpired, [Next]_vars
  PROVE  S3Known'
<1> USE ActorsAssumption, FaultsAssumption
    DEF TypeOK, CreatedAlone, S3Known, CleanedExpired, Creates, Changes,
        Cleans, Actors, Status, RowState, Step, Work, Idle, Copy, At, InTable,
        RowLocked, Begin, Goto, Done, SaveStatus, dbVars, s3Vars
<1>1. ASSUME NEW r \in Requests, NEW m \in Media, CreateRow(r, m)
      PROVE  S3Known'
  BY <1>1 DEF CreateRow
<1>2. ASSUME NEW r \in Requests, NEW m \in Media, CreateMultipart(r, m)
      PROVE  S3Known'
  BY <1>2 DEF CreateMultipart
<1>3. ASSUME NEW r \in Requests, NEW m \in Media, SaveCreated(r, m)
      PROVE  S3Known'
  BY <1>3 DEF SaveCreated
<1>4. ASSUME NEW r \in Requests, NEW m \in Media, FinishBegin(r, m)
      PROVE  S3Known'
  BY <1>4 DEF FinishBegin
<1>5. ASSUME NEW r \in Requests, NEW m \in Media, FinishCompletes(r, m)
      PROVE  S3Known'
  BY <1>5 DEF FinishCompletes
<1>6. ASSUME NEW r \in Requests, NEW m \in Media, FinishRejected(r, m)
      PROVE  S3Known'
  BY <1>6 DEF FinishRejected
<1>7. ASSUME NEW r \in Requests, NEW m \in Media, FinishHead(r, m)
      PROVE  S3Known'
  BY <1>7 DEF FinishHead
<1>8. ASSUME NEW r \in Requests, NEW m \in Media, FinishSave(r, m)
      PROVE  S3Known'
  BY <1>8 DEF FinishSave
<1>9. ASSUME NEW r \in Requests, NEW m \in Media, FinishFail(r, m)
      PROVE  S3Known'
  BY <1>9 DEF FinishFail
<1>10. ASSUME NEW r \in Requests, NEW m \in Media, AbortBegin(r, m)
      PROVE  S3Known'
  BY <1>10 DEF AbortBegin
<1>11. ASSUME NEW r \in Requests, NEW m \in Media, AbortMultipart(r, m)
      PROVE  S3Known'
  BY <1>11 DEF AbortMultipart
<1>12. ASSUME NEW r \in Requests, NEW m \in Media, AbortSave(r, m)
      PROVE  S3Known'
  BY <1>12 DEF AbortSave
<1>13. ASSUME NEW c \in Cleaners, NEW m \in Media, CleanupQuery(c, m)
      PROVE  S3Known'
  BY <1>13 DEF CleanupQuery
<1>14. ASSUME NEW c \in Cleaners, NEW m \in Media, CleanupCheck(c, m)
      PROVE  S3Known'
  BY <1>14 DEF CleanupCheck
<1>15. ASSUME NEW c \in Cleaners, NEW m \in Media, CleanupDelete(c, m)
      PROVE  S3Known'
  BY <1>15 DEF CleanupDelete
<1>16. ASSUME NEW c \in Cleaners, NEW m \in Media, CleanupS3(c, m)
      PROVE  S3Known'
  <2>1. CASE work[c].status \notin {"upload_aborted", "upload_complete"}
    BY <1>16, <2>1 DEF CleanupS3
  <2>2. CASE work[c].status = "upload_complete"
    BY <1>16, <2>2 DEF CleanupS3
  <2>3. CASE work[c].status = "upload_aborted"
    BY <1>16, <2>3 DEF CleanupS3
  <2> QED  BY <2>1, <2>2, <2>3
<1>17. ASSUME NEW c \in Cleaners, NEW m \in Media, CleanupCommit(c, m)
      PROVE  S3Known'
  BY <1>17 DEF CleanupCommit
<1>18. ASSUME NEW m \in Media, Expire(m)
      PROVE  S3Known'
  BY <1>18 DEF Expire
<1>19. ASSUME NEW m \in Media, Reference(m)
      PROVE  S3Known'
  BY <1>19 DEF Reference
<1>20. ASSUME NEW m \in Media, Dereference(m)
      PROVE  S3Known'
  BY <1>20 DEF Dereference
<1>21. ASSUME NEW a \in Actors, Dies(a)
      PROVE  S3Known'
  BY <1>21 DEF Dies
<1>22. CASE UNCHANGED vars
  BY <1>22 DEF vars
<1> QED
  BY <1>1, <1>2, <1>3, <1>4, <1>5, <1>6, <1>7, <1>8, <1>9, <1>10, <1>11,
     <1>12, <1>13, <1>14, <1>15, <1>16, <1>17, <1>18, <1>19, <1>20, <1>21,
     <1>22
     DEF Next, Create, Finish, Abort, CleanupWork

\* Cleaners only hold expired rows, and once S3 has been dealt with no
\* multipart upload of a recorded id is open.
LEMMA CleanedExpiredStep ==
  ASSUME TypeOK, CreatedAlone, S3Known, CleanedExpired, [Next]_vars
  PROVE  CleanedExpired'
<1> USE ActorsAssumption, FaultsAssumption
    DEF TypeOK, CreatedAlone, S3Known, CleanedExpired, Creates, Changes,
        Cleans, Actors, Status, RowState, Step, Work, Idle, Copy, At, InTable,
        RowLocked, Begin, Goto, Done, SaveStatus, dbVars, s3Vars
<1>1. ASSUME NEW r \in Requests, NEW m \in Media, CreateRow(r, m)
      PROVE  CleanedExpired'
  <2>1. \A c \in Cleaners : work'[c] = work[c]
    BY <1>1 DEF CreateRow
  <2>2. \A c \in Cleaners : ~Cleans(c, m)
    BY <1>1 DEF CreateRow
  <2>3. /\ status' = [status EXCEPT ![m] = "initial"]
        /\ UNCHANGED <<uploadId, expired, multipart>>
    BY <1>1 DEF CreateRow
  <2> QED  BY <2>1, <2>2, <2>3
<1>2. ASSUME NEW r \in Requests, NEW m \in Media, CreateMultipart(r, m)
      PROVE  CleanedExpired'
  BY <1>2 DEF CreateMultipart
<1>3. ASSUME NEW r \in Requests, NEW m \in Media, SaveCreated(r, m)
      PROVE  CleanedExpired'
  BY <1>3 DEF SaveCreated
<1>4. ASSUME NEW r \in Requests, NEW m \in Media, FinishBegin(r, m)
      PROVE  CleanedExpired'
  BY <1>4 DEF FinishBegin
<1>5. ASSUME NEW r \in Requests, NEW m \in Media, FinishCompletes(r, m)
      PROVE  CleanedExpired'
  BY <1>5 DEF FinishCompletes
<1>6. ASSUME NEW r \in Requests, NEW m \in Media, FinishRejected(r, m)
      PROVE  CleanedExpired'
  BY <1>6 DEF FinishRejected
<1>7. ASSUME NEW r \in Requests, NEW m \in Media, FinishHead(r, m)
      PROVE  CleanedExpired'
  BY <1>7 DEF FinishHead
<1>8. ASSUME NEW r \in Requests, NEW m \in Media, FinishSave(r, m)
      PROVE  CleanedExpired'
  BY <1>8 DEF FinishSave
<1>9. ASSUME NEW r \in Requests, NEW m \in Media, FinishFail(r, m)
      PROVE  CleanedExpired'
  BY <1>9 DEF FinishFail
<1>10. ASSUME NEW r \in Requests, NEW m \in Media, AbortBegin(r, m)
      PROVE  CleanedExpired'
  BY <1>10 DEF AbortBegin
<1>11. ASSUME NEW r \in Requests, NEW m \in Media, AbortMultipart(r, m)
      PROVE  CleanedExpired'
  BY <1>11 DEF AbortMultipart
<1>12. ASSUME NEW r \in Requests, NEW m \in Media, AbortSave(r, m)
      PROVE  CleanedExpired'
  BY <1>12 DEF AbortSave
<1>13. ASSUME NEW c \in Cleaners, NEW m \in Media, CleanupQuery(c, m)
      PROVE  CleanedExpired'
  BY <1>13 DEF CleanupQuery
<1>14. ASSUME NEW c \in Cleaners, NEW m \in Media, CleanupCheck(c, m)
      PROVE  CleanedExpired'
  BY <1>14 DEF CleanupCheck
<1>15. ASSUME NEW c \in Cleaners, NEW m \in Media, CleanupDelete(c, m)
      PROVE  CleanedExpired'
  BY <1>15 DEF CleanupDelete
<1>16. ASSUME NEW c \in Cleaners, NEW m \in Media, CleanupS3(c, m)
      PROVE  CleanedExpired'
  <2>1. CASE work[c].status \notin {"upload_aborted", "upload_complete"}
    BY <1>16, <2>1 DEF CleanupS3
  <2>2. CASE work[c].status = "upload_complete"
    BY <1>16, <2>2 DEF CleanupS3
  <2>3. CASE work[c].status = "upload_aborted"
    BY <1>16, <2>3 DEF CleanupS3
  <2> QED  BY <2>1, <2>2, <2>3
<1>17. ASSUME NEW c \in Cleaners, NEW m \in Media, CleanupCommit(c, m)
      PROVE  CleanedExpired'
  BY <1>17 DEF CleanupCommit
<1>18. ASSUME NEW m \in Media, Expire(m)
      PROVE  CleanedExpired'
  BY <1>18 DEF Expire
<1>19. ASSUME NEW m \in Media, Reference(m)
      PROVE  CleanedExpired'
  BY <1>19 DEF Reference
<1>20. ASSUME NEW m \in Media, Dereference(m)
      PROVE  CleanedExpired'
  BY <1>20 DEF Dereference
<1>21. ASSUME NEW a \in Actors, Dies(a)
      PROVE  CleanedExpired'
  BY <1>21 DEF Dies
<1>22. CASE UNCHANGED vars
  BY <1>22 DEF vars
<1> QED
  BY <1>1, <1>2, <1>3, <1>4, <1>5, <1>6, <1>7, <1>8, <1>9, <1>10, <1>11,
     <1>12, <1>13, <1>14, <1>15, <1>16, <1>17, <1>18, <1>19, <1>20, <1>21,
     <1>22
     DEF Next, Create, Finish, Abort, CleanupWork

\* Only a cleaner deletes an object, and a cleaner only holds an expired row.
LEMMA CompleteIsDownloadableStep ==
  ASSUME TypeOK, S3Known, CleanedExpired, CompleteIsDownloadable, [Next]_vars
  PROVE  CompleteIsDownloadable'
<1> USE ActorsAssumption, FaultsAssumption
    DEF TypeOK, S3Known, CleanedExpired, CompleteIsDownloadable, Cleans,
        Actors, Status, RowState, Step, Work, Idle, Copy, At, InTable,
        RowLocked, Begin, Goto, Done, SaveStatus, dbVars, s3Vars
<1>1. ASSUME NEW r \in Requests, NEW m \in Media, CreateRow(r, m)
      PROVE  CompleteIsDownloadable'
  BY <1>1 DEF CreateRow
<1>2. ASSUME NEW r \in Requests, NEW m \in Media, CreateMultipart(r, m)
      PROVE  CompleteIsDownloadable'
  BY <1>2 DEF CreateMultipart
<1>3. ASSUME NEW r \in Requests, NEW m \in Media, SaveCreated(r, m)
      PROVE  CompleteIsDownloadable'
  BY <1>3 DEF SaveCreated
<1>4. ASSUME NEW r \in Requests, NEW m \in Media, FinishBegin(r, m)
      PROVE  CompleteIsDownloadable'
  BY <1>4 DEF FinishBegin
<1>5. ASSUME NEW r \in Requests, NEW m \in Media, FinishCompletes(r, m)
      PROVE  CompleteIsDownloadable'
  BY <1>5 DEF FinishCompletes
<1>6. ASSUME NEW r \in Requests, NEW m \in Media, FinishRejected(r, m)
      PROVE  CompleteIsDownloadable'
  BY <1>6 DEF FinishRejected
<1>7. ASSUME NEW r \in Requests, NEW m \in Media, FinishHead(r, m)
      PROVE  CompleteIsDownloadable'
  BY <1>7 DEF FinishHead
<1>8. ASSUME NEW r \in Requests, NEW m \in Media, FinishSave(r, m)
      PROVE  CompleteIsDownloadable'
  BY <1>8 DEF FinishSave
<1>9. ASSUME NEW r \in Requests, NEW m \in Media, FinishFail(r, m)
      PROVE  CompleteIsDownloadable'
  BY <1>9 DEF FinishFail
<1>10. ASSUME NEW r \in Requests, NEW m \in Media, AbortBegin(r, m)
      PROVE  CompleteIsDownloadable'
  BY <1>10 DEF AbortBegin
<1>11. ASSUME NEW r \in Requests, NEW m \in Media, AbortMultipart(r, m)
      PROVE  CompleteIsDownloadable'
  BY <1>11 DEF AbortMultipart
<1>12. ASSUME NEW r \in Requests, NEW m \in Media, AbortSave(r, m)
      PROVE  CompleteIsDownloadable'
  BY <1>12 DEF AbortSave
<1>13. ASSUME NEW c \in Cleaners, NEW m \in Media, CleanupQuery(c, m)
      PROVE  CompleteIsDownloadable'
  BY <1>13 DEF CleanupQuery
<1>14. ASSUME NEW c \in Cleaners, NEW m \in Media, CleanupCheck(c, m)
      PROVE  CompleteIsDownloadable'
  BY <1>14 DEF CleanupCheck
<1>15. ASSUME NEW c \in Cleaners, NEW m \in Media, CleanupDelete(c, m)
      PROVE  CompleteIsDownloadable'
  BY <1>15 DEF CleanupDelete
<1>16. ASSUME NEW c \in Cleaners, NEW m \in Media, CleanupS3(c, m)
      PROVE  CompleteIsDownloadable'
  BY <1>16 DEF CleanupS3
<1>17. ASSUME NEW c \in Cleaners, NEW m \in Media, CleanupCommit(c, m)
      PROVE  CompleteIsDownloadable'
  BY <1>17 DEF CleanupCommit
<1>18. ASSUME NEW m \in Media, Expire(m)
      PROVE  CompleteIsDownloadable'
  BY <1>18 DEF Expire
<1>19. ASSUME NEW m \in Media, Reference(m)
      PROVE  CompleteIsDownloadable'
  BY <1>19 DEF Reference
<1>20. ASSUME NEW m \in Media, Dereference(m)
      PROVE  CompleteIsDownloadable'
  BY <1>20 DEF Dereference
<1>21. ASSUME NEW a \in Actors, Dies(a)
      PROVE  CompleteIsDownloadable'
  BY <1>21 DEF Dies
<1>22. CASE UNCHANGED vars
  BY <1>22 DEF vars
<1> QED
  BY <1>1, <1>2, <1>3, <1>4, <1>5, <1>6, <1>7, <1>8, <1>9, <1>10, <1>11,
     <1>12, <1>13, <1>14, <1>15, <1>16, <1>17, <1>18, <1>19, <1>20, <1>21,
     <1>22
     DEF Next, Create, Finish, Abort, CleanupWork

\* A row is deleted at cleanup_commit, where no recorded multipart upload is
\* open, and none can be opened afterwards.
LEMMA NoMultipartLeftStep ==
  ASSUME TypeOK, CreatedAlone, CleanedExpired, NoMultipartLeft, [Next]_vars
  PROVE  NoMultipartLeft'
<1> USE ActorsAssumption, FaultsAssumption
    DEF TypeOK, CreatedAlone, CleanedExpired, NoMultipartLeft, Creates,
        Cleans, Actors, Status, RowState, Step, Work, Idle, Copy, At, InTable,
        RowLocked, Begin, Goto, Done, SaveStatus, dbVars, s3Vars
<1>1. ASSUME NEW r \in Requests, NEW m \in Media, CreateRow(r, m)
      PROVE  NoMultipartLeft'
  BY <1>1 DEF CreateRow
<1>2. ASSUME NEW r \in Requests, NEW m \in Media, CreateMultipart(r, m)
      PROVE  NoMultipartLeft'
  BY <1>2 DEF CreateMultipart
<1>3. ASSUME NEW r \in Requests, NEW m \in Media, SaveCreated(r, m)
      PROVE  NoMultipartLeft'
  BY <1>3 DEF SaveCreated
<1>4. ASSUME NEW r \in Requests, NEW m \in Media, FinishBegin(r, m)
      PROVE  NoMultipartLeft'
  BY <1>4 DEF FinishBegin
<1>5. ASSUME NEW r \in Requests, NEW m \in Media, FinishCompletes(r, m)
      PROVE  NoMultipartLeft'
  BY <1>5 DEF FinishCompletes
<1>6. ASSUME NEW r \in Requests, NEW m \in Media, FinishRejected(r, m)
      PROVE  NoMultipartLeft'
  BY <1>6 DEF FinishRejected
<1>7. ASSUME NEW r \in Requests, NEW m \in Media, FinishHead(r, m)
      PROVE  NoMultipartLeft'
  BY <1>7 DEF FinishHead
<1>8. ASSUME NEW r \in Requests, NEW m \in Media, FinishSave(r, m)
      PROVE  NoMultipartLeft'
  BY <1>8 DEF FinishSave
<1>9. ASSUME NEW r \in Requests, NEW m \in Media, FinishFail(r, m)
      PROVE  NoMultipartLeft'
  BY <1>9 DEF FinishFail
<1>10. ASSUME NEW r \in Requests, NEW m \in Media, AbortBegin(r, m)
      PROVE  NoMultipartLeft'
  BY <1>10 DEF AbortBegin
<1>11. ASSUME NEW r \in Requests, NEW m \in Media, AbortMultipart(r, m)
      PROVE  NoMultipartLeft'
  BY <1>11 DEF AbortMultipart
<1>12. ASSUME NEW r \in Requests, NEW m \in Media, AbortSave(r, m)
      PROVE  NoMultipartLeft'
  BY <1>12 DEF AbortSave
<1>13. ASSUME NEW c \in Cleaners, NEW m \in Media, CleanupQuery(c, m)
      PROVE  NoMultipartLeft'
  BY <1>13 DEF CleanupQuery
<1>14. ASSUME NEW c \in Cleaners, NEW m \in Media, CleanupCheck(c, m)
      PROVE  NoMultipartLeft'
  BY <1>14 DEF CleanupCheck
<1>15. ASSUME NEW c \in Cleaners, NEW m \in Media, CleanupDelete(c, m)
      PROVE  NoMultipartLeft'
  BY <1>15 DEF CleanupDelete
<1>16. ASSUME NEW c \in Cleaners, NEW m \in Media, CleanupS3(c, m)
      PROVE  NoMultipartLeft'
  BY <1>16 DEF CleanupS3
<1>17. ASSUME NEW c \in Cleaners, NEW m \in Media, CleanupCommit(c, m)
      PROVE  NoMultipartLeft'
  BY <1>17 DEF CleanupCommit
<1>18. ASSUME NEW m \in Media, Expire(m)
      PROVE  NoMultipartLeft'
  BY <1>18 DEF Expire
<1>19. ASSUME NEW m \in Media, Reference(m)
      PROVE  NoMultipartLeft'
  BY <1>19 DEF Reference
<1>20. ASSUME NEW m \in Media, Dereference(m)
      PROVE  NoMultipartLeft'
  BY <1>20 DEF Dereference
<1>21. ASSUME NEW a \in Actors, Dies(a)
      PROVE  NoMultipartLeft'
  BY <1>21 DEF Dies
<1>22. CASE UNCHANGED vars
  BY <1>22 DEF vars
<1> QED
  BY <1>1, <1>2, <1>3, <1>4, <1>5, <1>6, <1>7, <1>8, <1>9, <1>10, <1>11,
     <1>12, <1>13, <1>14, <1>15, <1>16, <1>17, <1>18, <1>19, <1>20, <1>21,
     <1>22
     DEF Next, Create, Finish, Abort, CleanupWork

\* A row is deleted only when the foreign key check at the commit finds no
\* submission, and a submission only refers to a row that is there.
LEMMA ReferencedRowKeptStep ==
  ASSUME TypeOK, ReferencedRowKept, [Next]_vars
  PROVE  ReferencedRowKept'
<1> USE ActorsAssumption, FaultsAssumption
    DEF TypeOK, ReferencedRowKept, Actors, Status, RowState, Step, Work, Idle,
        Copy, At, InTable, RowLocked, Begin, Goto, Done, SaveStatus, dbVars,
        s3Vars
<1>1. ASSUME NEW r \in Requests, NEW m \in Media, CreateRow(r, m)
      PROVE  ReferencedRowKept'
  BY <1>1 DEF CreateRow
<1>2. ASSUME NEW r \in Requests, NEW m \in Media, CreateMultipart(r, m)
      PROVE  ReferencedRowKept'
  BY <1>2 DEF CreateMultipart
<1>3. ASSUME NEW r \in Requests, NEW m \in Media, SaveCreated(r, m)
      PROVE  ReferencedRowKept'
  BY <1>3 DEF SaveCreated
<1>4. ASSUME NEW r \in Requests, NEW m \in Media, FinishBegin(r, m)
      PROVE  ReferencedRowKept'
  BY <1>4 DEF FinishBegin
<1>5. ASSUME NEW r \in Requests, NEW m \in Media, FinishCompletes(r, m)
      PROVE  ReferencedRowKept'
  BY <1>5 DEF FinishCompletes
<1>6. ASSUME NEW r \in Requests, NEW m \in Media, FinishRejected(r, m)
      PROVE  ReferencedRowKept'
  BY <1>6 DEF FinishRejected
<1>7. ASSUME NEW r \in Requests, NEW m \in Media, FinishHead(r, m)
      PROVE  ReferencedRowKept'
  BY <1>7 DEF FinishHead
<1>8. ASSUME NEW r \in Requests, NEW m \in Media, FinishSave(r, m)
      PROVE  ReferencedRowKept'
  BY <1>8 DEF FinishSave
<1>9. ASSUME NEW r \in Requests, NEW m \in Media, FinishFail(r, m)
      PROVE  ReferencedRowKept'
  BY <1>9 DEF FinishFail
<1>10. ASSUME NEW r \in Requests, NEW m \in Media, AbortBegin(r, m)
      PROVE  ReferencedRowKept'
  BY <1>10 DEF AbortBegin
<1>11. ASSUME NEW r \in Requests, NEW m \in Media, AbortMultipart(r, m)
      PROVE  ReferencedRowKept'
  BY <1>11 DEF AbortMultipart
<1>12. ASSUME NEW r \in Requests, NEW m \in Media, AbortSave(r, m)
      PROVE  ReferencedRowKept'
  BY <1>12 DEF AbortSave
<1>13. ASSUME NEW c \in Cleaners, NEW m \in Media, CleanupQuery(c, m)
      PROVE  ReferencedRowKept'
  BY <1>13 DEF CleanupQuery
<1>14. ASSUME NEW c \in Cleaners, NEW m \in Media, CleanupCheck(c, m)
      PROVE  ReferencedRowKept'
  BY <1>14 DEF CleanupCheck
<1>15. ASSUME NEW c \in Cleaners, NEW m \in Media, CleanupDelete(c, m)
      PROVE  ReferencedRowKept'
  BY <1>15 DEF CleanupDelete
<1>16. ASSUME NEW c \in Cleaners, NEW m \in Media, CleanupS3(c, m)
      PROVE  ReferencedRowKept'
  BY <1>16 DEF CleanupS3
<1>17. ASSUME NEW c \in Cleaners, NEW m \in Media, CleanupCommit(c, m)
      PROVE  ReferencedRowKept'
  BY <1>17 DEF CleanupCommit
<1>18. ASSUME NEW m \in Media, Expire(m)
      PROVE  ReferencedRowKept'
  BY <1>18 DEF Expire
<1>19. ASSUME NEW m \in Media, Reference(m)
      PROVE  ReferencedRowKept'
  BY <1>19 DEF Reference
<1>20. ASSUME NEW m \in Media, Dereference(m)
      PROVE  ReferencedRowKept'
  BY <1>20 DEF Dereference
<1>21. ASSUME NEW a \in Actors, Dies(a)
      PROVE  ReferencedRowKept'
  BY <1>21 DEF Dies
<1>22. CASE UNCHANGED vars
  BY <1>22 DEF vars
<1> QED
  BY <1>1, <1>2, <1>3, <1>4, <1>5, <1>6, <1>7, <1>8, <1>9, <1>10, <1>11,
     <1>12, <1>13, <1>14, <1>15, <1>16, <1>17, <1>18, <1>19, <1>20, <1>21,
     <1>22
     DEF Next, Create, Finish, Abort, CleanupWork
-----------------------------------------------------------------------------
(* The theorems *)

\* The empty database satisfies the inductive invariant.
LEMMA InitIInv == Init => IInv
<1> SUFFICES ASSUME Init PROVE IInv
  OBVIOUS
<1>1. TypeOK
  BY FaultsAssumption DEF Init, TypeOK, Idle, RowState
<1>2. CreatedAlone /\ S3Known /\ CleanedExpired
  <2>1. \A a \in Actors : work[a] = Idle
    BY DEF Init
  <2> QED
    BY <2>1 DEF Init, CreatedAlone, S3Known, CleanedExpired, Creates, Changes, Cleans,
                At, Idle, Actors
<1>3. CompleteIsDownloadable /\ NoMultipartLeft /\ ReferencedRowKept
  BY DEF Init, CompleteIsDownloadable, NoMultipartLeft, ReferencedRowKept
<1> QED  BY <1>1, <1>2, <1>3 DEF IInv

\* Every step keeps it, part by part.
LEMMA NextIInv == IInv /\ [Next]_vars => IInv'
BY TypeOKStep, CreatedAloneStep, S3KnownStep, CleanedExpiredStep,
   CompleteIsDownloadableStep, NoMultipartLeftStep, ReferencedRowKeptStep
   DEF IInv

\* The inductive invariant holds of every reachable state.
THEOREM Invariance == Spec => []IInv
BY InitIInv, NextIInv, PTL DEF Spec

\* The types are correct whatever the numbers of rows, requests and cleaners.
THEOREM TypesCorrect == Spec => []TypeOK
<1>1. IInv => TypeOK
  BY DEF IInv
<1> QED  BY <1>1, Invariance, PTL

\* A finished upload can be downloaded until it expires (finalize_upload against
\* every overlapping finish, abort and cleanup).
THEOREM CompleteIsDownloadableAlways == Spec => []CompleteIsDownloadable
<1>1. IInv => CompleteIsDownloadable
  BY DEF IInv
<1> QED  BY <1>1, Invariance, PTL

\* An aborted upload has nothing left in S3 (abort_upload).
THEOREM AbortedLeavesNothingAlways == Spec => []AbortedLeavesNothing
<1>1. IInv => AbortedLeavesNothing
  BY DEF IInv, S3Known, AbortedLeavesNothing
<1> QED  BY <1>1, Invariance, PTL

\* A deleted row leaves no multipart upload it knew of (cleanup_expired_upload).
THEOREM NoMultipartLeftAlways == Spec => []NoMultipartLeft
<1>1. IInv => NoMultipartLeft
  BY DEF IInv
<1> QED  BY <1>1, Invariance, PTL

\* The row of a submission's file is never deleted (on_delete=PROTECT against
\* cleanup_expired_uploads).
THEOREM ReferencedRowKeptAlways == Spec => []ReferencedRowKept
<1>1. IInv => ReferencedRowKept
  BY DEF IInv
<1> QED  BY <1>1, Invariance, PTL

\* upload_complete is only left for upload_error or by the cleanup: an abort that
\* overlaps a finish never reaches its save once the multipart upload is completed.
THEOREM CompletionKept == Spec => CompletionIsKept
<1> DEFINE Kept == \A m \in Media : status[m] = "upload_complete" =>
                       status'[m] \in {"upload_complete", "upload_error", "deleted"}
<1>1. IInv /\ [Next]_vars => Kept
  <2> SUFFICES ASSUME IInv, [Next]_vars, NEW k \in Media,
                      status[k] = "upload_complete"
               PROVE  status'[k] \in {"upload_complete", "upload_error", "deleted"}
    OBVIOUS
  <2> USE DEF IInv, TypeOK, InTable, Status, At, SaveStatus, dbVars
  <2>1. ASSUME NEW r \in Requests, NEW m \in Media, Create(r, m)
        PROVE  status'[k] = "upload_complete"
    BY <2>1 DEF Create, CreateRow, CreateMultipart, SaveCreated, CreatedAlone, Creates
  <2>2. ASSUME NEW r \in Requests, NEW m \in Media, Finish(r, m)
        PROVE  status'[k] \in {"upload_complete", "upload_error"}
    BY <2>2 DEF Finish, FinishBegin, FinishCompletes, FinishRejected, FinishHead,
                FinishSave, FinishFail
  <2>3. ASSUME NEW r \in Requests, NEW m \in Media, Abort(r, m)
        PROVE  status'[k] = "upload_complete"
    BY <2>3 DEF Abort, AbortBegin, AbortMultipart, AbortSave, S3Known
  <2>4. ASSUME NEW c \in Cleaners, NEW m \in Media,
               CleanupQuery(c, m) \/ CleanupWork(c, m)
        PROVE  status'[k] \in {"upload_complete", "deleted"}
    BY <2>4 DEF CleanupQuery, CleanupWork, CleanupCheck, CleanupDelete, CleanupS3,
                CleanupCommit
  <2>5. ASSUME \/ \E m \in Media : Expire(m) \/ Reference(m) \/ Dereference(m)
               \/ \E a \in Actors : Dies(a)
               \/ UNCHANGED vars
        PROVE  status'[k] = "upload_complete"
    BY <2>5 DEF Expire, Reference, Dereference, Dies, vars
  <2> QED
    BY <2>1, <2>2, <2>3, <2>4, <2>5 DEF Next
<1> QED  BY <1>1, Invariance, PTL DEF Spec, CompletionIsKept

-----------------------------------------------------------------------------
(* What is left in S3 while no process dies *)

Finishes(r, m) ==
    At(r, m, "finish_head") \/ At(r, m, "finish_save") \/ At(r, m, "finish_fail")

\* Without crashes the row says that there is an object, or the request that has
\* assembled it still runs.
ObjectsKnown ==
    \A m \in Media : object[m] =>
        \/ status[m] \in {"upload_complete", "upload_error", "deleted"}
        \/ \E r \in Requests : Finishes(r, m)

CleanedObjectGone ==
    \A m \in Media, c \in Cleaners :
        At(c, m, "cleanup_commit") /\ work[c].status = "upload_complete" => ~object[m]

\* Who finishes an upload leaves a status that tells.
LEMMA ObjectsKnownStep ==
  ASSUME MaxFaults = 0, IInv, ObjectsKnown, [Next]_vars
  PROVE  ObjectsKnown'
<1> USE ActorsAssumption
    DEF IInv, TypeOK, Actors, Status, InTable, Finishes, At, Idle, Copy, Begin, Goto, Done,
        SaveStatus, dbVars, s3Vars
<1>1. ASSUME NEW r \in Requests, NEW m \in Media, Create(r, m)
      PROVE  ObjectsKnown'
  <2>1. CASE CreateRow(r, m)
    BY <1>1, <2>1 DEF CreateRow, ObjectsKnown, CreatedAlone, S3Known
  <2>2. CASE CreateMultipart(r, m)
    BY <2>2 DEF CreateMultipart, ObjectsKnown
  <2>3. CASE SaveCreated(r, m)
    <3>1. ~object[m]
      BY <2>3 DEF SaveCreated, ObjectsKnown, CreatedAlone, Creates, Changes
    <3> QED  BY <2>3, <3>1 DEF SaveCreated, ObjectsKnown
  <2> QED  BY <1>1, <2>1, <2>2, <2>3 DEF Create
<1>2. ASSUME NEW r \in Requests, NEW m \in Media, Finish(r, m)
      PROVE  ObjectsKnown'
  <2>1. CASE FinishBegin(r, m) \/ FinishRejected(r, m)
    BY <2>1 DEF FinishBegin, FinishRejected, ObjectsKnown
  <2>2. CASE FinishCompletes(r, m) \/ FinishHead(r, m)
    <3>1. Finishes(r, m)'
      BY <2>2 DEF FinishCompletes, FinishHead
    <3>2. \A k \in Media : k # m => UNCHANGED <<object[k], status[k]>>
      BY <2>2 DEF FinishCompletes, FinishHead
    <3>3. \A k \in Media, q \in Requests : k # m /\ Finishes(q, k) => Finishes(q, k)'
      BY <2>2 DEF FinishCompletes, FinishHead
    <3> HIDE DEF Finishes
    <3> QED  BY <3>1, <3>2, <3>3 DEF ObjectsKnown
  <2>3. CASE FinishSave(r, m) \/ FinishFail(r, m)
    <3>1. status'[m] \in {"upload_complete", "upload_error", "deleted"}
      BY <2>3 DEF FinishSave, FinishFail, CreatedAlone, Changes, RowState
    <3> QED  BY <2>3, <3>1 DEF FinishSave, FinishFail, ObjectsKnown
  <2> QED  BY <1>2, <2>1, <2>2, <2>3 DEF Finish
<1>3. ASSUME NEW r \in Requests, NEW m \in Media, Abort(r, m)
      PROVE  ObjectsKnown'
  <2>1. CASE AbortBegin(r, m) \/ AbortMultipart(r, m)
    BY <2>1 DEF AbortBegin, AbortMultipart, ObjectsKnown
  <2>2. CASE AbortSave(r, m)
    <3>1. ~object[m]
      BY <2>2 DEF AbortSave, S3Known
    <3> QED  BY <2>2, <3>1 DEF AbortSave, ObjectsKnown
  <2> QED  BY <1>3, <2>1, <2>2 DEF Abort
<1>4. ASSUME NEW c \in Cleaners, NEW m \in Media, CleanupQuery(c, m) \/ CleanupWork(c, m)
      PROVE  ObjectsKnown'
  <2>1. /\ \A k \in Media : object'[k] => object[k]
        /\ \A k \in Media : status'[k] = status[k] \/ status'[k] = "deleted"
        /\ \A q \in Requests : work'[q] = work[q]
    BY <1>4 DEF CleanupQuery, CleanupWork, CleanupCheck, CleanupDelete, CleanupS3, CleanupCommit
  <2> QED  BY <2>1 DEF ObjectsKnown
<1>5. CASE \/ \E m \in Media : Expire(m) \/ Reference(m) \/ Dereference(m)
           \/ \E a \in Actors : Dies(a)
           \/ UNCHANGED vars
  BY <1>5 DEF Expire, Reference, Dereference, Dies, vars, ObjectsKnown
<1> HIDE DEF IInv
<1> QED  BY <1>1, <1>2, <1>3, <1>4, <1>5 DEF Next

\* An object that a cleaner has deleted is not assembled again.
LEMMA CleanedObjectGoneStep ==
  ASSUME IInv, CleanedObjectGone, [Next]_vars
  PROVE  CleanedObjectGone'
<1> USE ActorsAssumption
    DEF IInv, TypeOK, Actors, Status, At, Idle, Copy, Begin, Goto, Done,
        SaveStatus, dbVars, s3Vars, CleanedObjectGone
<1>1. ASSUME NEW r \in Requests, NEW m \in Media, Create(r, m) \/ Finish(r, m) \/ Abort(r, m)
      PROVE  CleanedObjectGone'
  <2>1. \A c \in Cleaners : work'[c] = work[c]
    BY <1>1 DEF Create, CreateRow, CreateMultipart, SaveCreated, Finish, FinishBegin,
                FinishCompletes, FinishRejected, FinishHead, FinishSave, FinishFail,
                Abort, AbortBegin, AbortMultipart, AbortSave
  <2>2. \A k \in Media : object'[k] => object[k] \/ multipart[k] = "open"
    BY <1>1 DEF Create, CreateRow, CreateMultipart, SaveCreated, Finish, FinishBegin,
                FinishCompletes, FinishRejected, FinishHead, FinishSave, FinishFail,
                Abort, AbortBegin, AbortMultipart, AbortSave
  <2> QED  BY <2>1, <2>2 DEF S3Known, Cleans
<1>2. ASSUME NEW c \in Cleaners, NEW m \in Media, CleanupQuery(c, m) \/ CleanupWork(c, m)
      PROVE  CleanedObjectGone'
  <2>1. CASE CleanupS3(c, m)
    BY <2>1 DEF CleanupS3
  <2>2. CASE ~CleanupS3(c, m)
    BY <1>2, <2>2 DEF CleanupQuery, CleanupWork, CleanupCheck, CleanupDelete, CleanupCommit
  <2> QED  BY <2>1, <2>2
<1>3. CASE \/ \E m \in Media : Expire(m) \/ Reference(m) \/ Dereference(m)
           \/ \E a \in Actors : Dies(a)
           \/ UNCHANGED vars
  BY <1>3 DEF Expire, Reference, Dereference, Dies, vars
<1> HIDE DEF IInv, CleanedObjectGone
<1> QED  BY <1>1, <1>2, <1>3 DEF Next

\* cleanup_expired_upload: while no process dies, an upload in error is the only one
\* whose object is left behind; CleanupRemovesObject fails for no other reason.
THEOREM OnlyErrorsLeaveObjects ==
  ASSUME MaxFaults = 0
  PROVE  Spec =>
           [][\A c \in Cleaners, m \in Media :
                  /\ CleanupCommit(c, m)
                  /\ work[c].status = status[m] /\ status[m] # "upload_error"
                  /\ ~referenced[m]
                  /\ \A r \in Requests : work[r] = Idle
                  => ~object'[m]]_vars
<1>1. Init => ObjectsKnown /\ CleanedObjectGone
  BY DEF Init, ObjectsKnown, CleanedObjectGone, At, Idle, Actors
<1>2. IInv /\ ObjectsKnown /\ CleanedObjectGone /\ [Next]_vars
          => ObjectsKnown' /\ CleanedObjectGone'
  BY ObjectsKnownStep, CleanedObjectGoneStep
<1>3. ASSUME IInv, ObjectsKnown, CleanedObjectGone, NEW c \in Cleaners, NEW m \in Media,
             CleanupCommit(c, m), work[c].status = status[m], status[m] # "upload_error",
             \A r \in Requests : work[r] = Idle
      PROVE  ~object'[m]
  <2>1. At(c, m, "cleanup_commit") /\ UNCHANGED object
    BY <1>3 DEF CleanupCommit, s3Vars
  <2>2. work[c] \in Work
    BY <1>3, <2>1 DEF IInv, TypeOK, Actors, At, Idle
  <2>3. status[m] # "deleted"
    BY <1>3, <2>2 DEF Work, Status
  <2>4. \A r \in Requests : ~Finishes(r, m)
    BY <1>3 DEF Finishes, At, Idle
  <2>5. ~object[m]
    BY <1>3, <2>1, <2>3, <2>4 DEF ObjectsKnown, CleanedObjectGone
  <2> QED  BY <2>1, <2>5
<1>4. IInv /\ ObjectsKnown /\ CleanedObjectGone =>
          [\A c \in Cleaners, m \in Media :
               /\ CleanupCommit(c, m)
               /\ work[c].status = status[m] /\ status[m] # "upload_error"
               /\ ~referenced[m]
               /\ \A r \in Requests : work[r] = Idle
               => ~object'[m]]_vars
  BY <1>3
<1> QED  BY <1>1, <1>2, <1>4, Invariance, PTL DEF Spec

=============================================================================
