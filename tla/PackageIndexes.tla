---------------------------- MODULE PackageIndexes ----------------------------
(***************************************************************************)
(* The package indexes kept as files: APIV1PackageCache, one per           *)
(* community, and APIExperimentalPackageIndexCache (repository/models/     *)
(* cache.py).  A periodic task builds the index, saves its file, inserts   *)
(* its row and then drops the stale ones; tasks overlap when one takes     *)
(* longer than the period.  Rows and files are changed one at a time and   *)
(* outside a transaction (SafeDeleteMixin insists on that).                *)
(*                                                                         *)
(* The rows of one community, on a clock that ticks by fractions of the    *)
(* cutoff.  What the index says is the subject of Catalog.                 *)
(***************************************************************************)
EXTENDS Naturals

CONSTANTS
    Indexes,   \* primary keys of rows, and the files they name
    Tasks,     \* runs of the periodic task that may overlap
    Clients,   \* requests for the index
    Cutoff,    \* CACHE_CUTOFF_HOURS: an index this much older than the latest is stale
    MaxTime,   \* bound of the clock
    MaxFaults, \* bound: tasks killed
    None       \* no index

ASSUME IndexesAssumption ==
    /\ Cutoff \in Nat \ {0} /\ MaxTime \in Nat /\ MaxFaults \in Nat
    /\ Indexes \subseteq Nat /\ None \notin Indexes

VARIABLES
    clock,
    index,   \* the rows: is_deleted and data together, and last_modified
    files,   \* the files in the bucket
    task,    \* where each task is, the index at hand, the stale ones it has queried
    client,  \* the index each client is reading
    faults

indexVars == <<clock, index, files, task, client, faults>>

\* "deleted": is_deleted is set; "emptied": and data is None.
Rows == {"absent", "active", "deleted", "emptied"}

TaskSteps == {"idle", "stamped", "saved", "drop", "dropping", "marked", "removed", "emptied"}

Task == [at : TaskSteps, at_hand : Indexes \cup {None}, made : 0 .. MaxTime,
         stale : SUBSET Indexes, named : SUBSET Indexes]

IndexesTypeOK ==
    /\ clock \in 0 .. MaxTime
    /\ index \in [Indexes -> [row : Rows, made : 0 .. MaxTime]]
    /\ files \subseteq Indexes
    /\ task \in [Tasks -> Task]
    /\ client \in [Clients -> Indexes \cup {None}]
    /\ faults \in 0 .. MaxFaults

Resting == [at |-> "idle", at_hand |-> None, made |-> 0, stale |-> {}, named |-> {}]

IndexesInit ==
    /\ clock = 0
    /\ index = [e \in Indexes |-> [row |-> "absent", made |-> 0]]
    /\ files = {}
    /\ task = [t \in Tasks |-> Resting]
    /\ client = [c \in Clients |-> None]
    /\ faults = 0

-----------------------------------------------------------------------------

\* S3FileMixinQueryset.active.
ActiveRows == {e \in Indexes : index[e].row = "active"}

\* get_latest and get_latest_for_community, which return the first of these.
Latest == {e \in ActiveRows : \A f \in ActiveRows : index[f].made <= index[e].made}

\* last_modified <= cutoff, seen from row f.
OlderBy(e, f) == index[e].made + Cutoff <= index[f].made

\* The rows drop_stale_cache queries, deleted or not.
StaleRows ==
    {e \in Indexes : index[e].row # "absent" /\ \E f \in Latest : OlderBy(e, f)}

\* Keys, and file names, nobody uses or remembers: new ones, to everybody.
Unused ==
    {e \in Indexes : /\ index[e].row = "absent" /\ e \notin files
                     /\ \A t \in Tasks : e \notin task[t].stale \cup {task[t].at_hand}
                     /\ \A c \in Clients : client[c] # e}

Proceed(t, step) == task' = [task EXCEPT ![t].at = step]

SetRow(e, row) == index' = [index EXCEPT ![e].row = row]

-----------------------------------------------------------------------------
(* The task: update_api_v1_indexes, update_api_experimental_package_index *)

\* The content is serialized, then update or update_for_community takes the timestamp,
\* before the file is saved.
BuildIndex(t) ==
    /\ task[t].at = "idle"
    /\ task' = [task EXCEPT ![t].at = "stamped", ![t].made = clock]
    /\ UNCHANGED <<clock, index, files, client, faults>>

SaveFile(t) ==
    /\ task[t].at = "stamped"
    /\ \E e \in Unused :
           /\ \A f \in Unused : e <= f
           /\ files' = files \cup {e}
           /\ task' = [task EXCEPT ![t].at = "saved", ![t].at_hand = e]
    /\ UNCHANGED <<clock, index, client, faults>>

InsertRow(t) ==
    /\ task[t].at = "saved"
    /\ index' = [index EXCEPT ![task[t].at_hand] = [row |-> "active", made |-> task[t].made]]
    /\ task' = [task EXCEPT ![t] = [Resting EXCEPT !.at = "drop"]]
    /\ UNCHANGED <<clock, files, client, faults>>

\* Building or saving fails: the error is captured, and stale indexes are dropped.
UpdateFails(t) ==
    /\ task[t].at \in {"stamped", "saved"}
    /\ task' = [task EXCEPT ![t] = [Resting EXCEPT !.at = "drop"]]
    /\ UNCHANGED <<clock, index, files, client, faults>>

\* Mutant of FindStale: the cutoff is taken from the clock instead of from the latest index.
FindStaleByClock(t) ==
    /\ task[t].at = "drop"
    /\ LET past == {e \in Indexes : index[e].row # "absent" /\ index[e].made + Cutoff <= clock}
       IN  task' = [task EXCEPT ![t] =
               IF past = {} THEN Resting
               ELSE [Resting EXCEPT !.at = "dropping", !.stale = past, !.named = past]]
    /\ UNCHANGED <<clock, index, files, client, faults>>

\* Mutant of FindStale: only rows that are not marked as deleted are queried.
FindStaleActive(t) ==
    /\ task[t].at = "drop"
    /\ LET found == StaleRows \cap ActiveRows
       IN  task' = [task EXCEPT ![t] =
               IF found = {} THEN Resting
               ELSE [Resting EXCEPT !.at = "dropping", !.stale = found, !.named = found]]
    /\ UNCHANGED <<clock, index, files, client, faults>>

\* drop_stale_cache: latest, cutoff and one query of the stale rows.  (Rows whose
\* community is gone are dropped as well, whatever their age; no client reads them.)
FindStale(t) ==
    /\ task[t].at = "drop"
    /\ task' = [task EXCEPT ![t] =
           IF StaleRows = {} THEN Resting
           ELSE [Resting EXCEPT !.at = "dropping", !.stale = StaleRows,
                     !.named = {e \in StaleRows : index[e].row # "emptied"}]]
    /\ UNCHANGED <<clock, index, files, client, faults>>

\* SafeDeleteMixin.delete.  An UPDATE of is_deleted that finds no row is an error,
\* which ends the task.
MarkDeleted(t) ==
    /\ task[t].at = "dropping"
    /\ \E e \in task[t].stale :
           IF index[e].row = "absent"
           THEN task' = [task EXCEPT ![t] = Resting] /\ UNCHANGED index
           ELSE /\ task' = [task EXCEPT ![t].at = "marked", ![t].at_hand = e]
                /\ SetRow(e, IF index[e].row = "emptied" THEN "emptied" ELSE "deleted")
    /\ UNCHANGED <<clock, files, client, faults>>

\* FieldFile.delete, of a row whose file name was there when it was queried.
RemoveFile(t) ==
    /\ task[t].at = "marked"
    /\ IF task[t].at_hand \in task[t].named
       THEN files' = files \ {task[t].at_hand} /\ Proceed(t, "removed")
       ELSE Proceed(t, "emptied") /\ UNCHANGED files
    /\ UNCHANGED <<clock, index, client, faults>>

\* FieldFile.delete goes on to save the whole row: one that another task has deleted
\* in the meantime is inserted again.
SaveEmptied(t) ==
    /\ task[t].at = "removed"
    /\ SetRow(task[t].at_hand, "emptied")
    /\ Proceed(t, "emptied")
    /\ UNCHANGED <<clock, files, client, faults>>

\* Mutant of DeleteRow: the row is marked where it should be deleted.
DeleteRowSoftly(t) ==
    /\ task[t].at = "emptied"
    /\ SetRow(task[t].at_hand, "gone")
    /\ task' = [task EXCEPT ![t] = Resting]
    /\ UNCHANGED <<clock, files, client, faults>>

DeleteRow(t) ==
    /\ task[t].at = "emptied"
    /\ SetRow(task[t].at_hand, "absent")
    /\ LET rest == task[t].stale \ {task[t].at_hand}
       IN  task' = [task EXCEPT ![t] =
               IF rest = {} THEN Resting
               ELSE [Resting EXCEPT !.at = "dropping", !.stale = rest,
                         !.named = task[t].named \cap rest]]
    /\ UNCHANGED <<clock, files, client, faults>>

\* A task is killed, or the bucket or the database fails while stale rows are dropped.
TaskDies(t) ==
    /\ task[t].at # "idle" /\ faults < MaxFaults
    /\ faults' = faults + 1
    /\ task' = [task EXCEPT ![t] = Resting]
    /\ UNCHANGED <<clock, index, files, client>>

-----------------------------------------------------------------------------
(* The views: PackageViewSet.list, PackageIndexApiView.get *)

OpenIndex(c) ==
    /\ client[c] = None
    /\ \E e \in Latest : client' = [client EXCEPT ![c] = e]
    /\ UNCHANGED <<clock, index, files, task, faults>>

FetchIndex(c) ==
    /\ client[c] # None
    /\ client' = [client EXCEPT ![c] = None]
    /\ UNCHANGED <<clock, index, files, task, faults>>

Tick ==
    /\ clock < MaxTime
    /\ clock' = clock + 1
    /\ UNCHANGED <<index, files, task, client, faults>>

-----------------------------------------------------------------------------

TaskStep(t) ==
    \/ BuildIndex(t) \/ SaveFile(t) \/ InsertRow(t) \/ UpdateFails(t)
    \/ FindStale(t) \/ MarkDeleted(t) \/ RemoveFile(t) \/ SaveEmptied(t) \/ DeleteRow(t)

IndexesNext ==
    \/ \E t \in Tasks : TaskStep(t) \/ TaskDies(t)
    \/ \E c \in Clients : OpenIndex(c) \/ FetchIndex(c)
    \/ Tick

IndexesSpec ==
    /\ IndexesInit /\ [][IndexesNext]_indexVars
    /\ \A t \in Tasks : WF_indexVars(TaskStep(t))

-----------------------------------------------------------------------------
(* Properties *)

\* The file that the latest row names is in the bucket, and the file of a client who
\* is reading an older index goes only when that index is Cutoff older than another.
FilesAreThere ==
    /\ Latest \subseteq files
    /\ \A c \in Clients : client[c] # None =>
           client[c] \in files \/ \E f \in Latest : OlderBy(client[c], f)

\* Indexes are served, and once there is one there always is, whatever tasks overlap
\* and wherever they are killed.
IndexServed ==
    /\ []FilesAreThere
    /\ [][ActiveRows # {} => ActiveRows' # {}]_indexVars

\* Stale rows and their files go, also those whose task was killed half way.
StaleGoes ==
    \A e \in Indexes : e \in StaleRows ~> index[e].row = "absent" /\ e \notin files

=============================================================================
