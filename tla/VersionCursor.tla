---------------------------- MODULE VersionCursor ----------------------------
(***************************************************************************)
(* PackageVersionQuerySet.chunked_enumerate (repository/models/            *)
(* package_version.py): the experimental package index walks through all   *)
(* the active versions page by page, in the order of date and id, with a   *)
(* cursor in place of a transaction, while versions are uploaded and       *)
(* switched on and off.                                                    *)
(*                                                                         *)
(* An upload takes its date, then saves its file to S3, and is given its   *)
(* id when the row is inserted: dates and ids need not agree.              *)
(***************************************************************************)
EXTENDS Naturals, FiniteSets, Sequences, SequencesExt

CONSTANTS
    Uploads,     \* versions that are uploaded
    PageSize,    \* chunk_size
    MaxDate,     \* bound of the clock
    MaxToggles   \* bound: changes of is_active

ASSUME CursorAssumption ==
    PageSize \in Nat \ {0} /\ MaxDate \in Nat /\ MaxToggles \in Nat

VARIABLES
    today,    \* the clock
    version,  \* of each upload: how far it is, date_created, id, is_active
    nextId,   \* the sequence of ids
    walk,     \* the enumeration: is it on, its cursor, what it has yielded
    steady,   \* versions that have been committed and active since it began
    toggles

cursorVars == <<today, version, nextId, walk, steady, toggles>>

CursorTypeOK ==
    /\ today \in 0 .. MaxDate /\ nextId \in Nat \ {0}
    /\ version \in [Uploads -> [at : {"none", "dated", "inserted", "committed"},
                                date : 0 .. MaxDate, id : Nat, active : BOOLEAN]]
    /\ walk \in [at : {"off", "on", "done"}, yielded : Seq(Uploads)]
    /\ steady \subseteq Uploads /\ toggles \in 0 .. MaxToggles

CursorInit ==
    /\ today = 0 /\ nextId = 1 /\ toggles = 0 /\ steady = {}
    /\ version = [u \in Uploads |-> [at |-> "none", date |-> 0, id |-> 0, active |-> TRUE]]
    /\ walk = [at |-> "off", yielded |-> <<>>]

-----------------------------------------------------------------------------
(* Uploads *)

\* Django's INSERT evaluates the fields in order: date_created before file, whose
\* pre_save uploads the package.
TakeDate(u) ==
    /\ version[u].at = "none"
    /\ version' = [version EXCEPT ![u].at = "dated", ![u].date = today]
    /\ UNCHANGED <<today, nextId, walk, steady, toggles>>

InsertVersion(u) ==
    /\ version[u].at = "dated"
    /\ version' = [version EXCEPT ![u].at = "inserted", ![u].id = nextId]
    /\ nextId' = nextId + 1
    /\ UNCHANGED <<today, walk, steady, toggles>>

CommitVersion(u) ==
    /\ version[u].at = "inserted"
    /\ version' = [version EXCEPT ![u].at = "committed"]
    /\ UNCHANGED <<today, nextId, walk, steady, toggles>>

ToggleActive(u) ==
    /\ version[u].at = "committed" /\ toggles < MaxToggles
    /\ toggles' = toggles + 1
    /\ version' = [version EXCEPT ![u].active = ~@]
    /\ steady' = steady \ {u}
    /\ UNCHANGED <<today, nextId, walk>>

NextDate ==
    /\ today < MaxDate /\ today' = today + 1
    /\ UNCHANGED <<version, nextId, walk, steady, toggles>>

-----------------------------------------------------------------------------
(* The enumeration *)

\* active().
Visible == {u \in Uploads : version[u].at = "committed" /\ version[u].active}

\* order_by("date_created", "id").
Before(u, v) ==
    \/ version[u].date < version[v].date
    \/ version[u].date = version[v].date /\ version[u].id < version[v].id

\* Mutant of AfterCursor: date_created__gt skips the other versions of that date.
AfterCursorDate(u) ==
    walk.yielded # <<>> =>
        /\ version[u].date > version[Last(walk.yielded)].date
        /\ version[u].id > version[Last(walk.yielded)].id

\* The last version yielded is the cursor: date_created__gte and id__gt.
AfterCursor(u) ==
    walk.yielded # <<>> =>
        /\ version[u].date >= version[Last(walk.yielded)].date
        /\ version[u].id > version[Last(walk.yielded)].id

\* What the cursor leaves.
Rest == {u \in Visible : AfterCursor(u)}

\* The first PageSize of the rest, in order, or all of it.
IsPage(page) ==
    /\ \A i, j \in 1 .. Len(page) : i < j => Before(page[i], page[j])
    /\ \A u \in Rest \ ToSet(page) :
           Len(page) = PageSize /\ \A v \in ToSet(page) : Before(v, u)

BeginWalk ==
    /\ walk.at = "off"
    /\ walk' = [walk EXCEPT !.at = "on"]
    /\ steady' = Visible
    /\ UNCHANGED <<today, version, nextId, toggles>>

\* An empty page ends it.
FetchPage ==
    /\ walk.at = "on"
    /\ \E size \in 0 .. PageSize : \E page \in [1 .. size -> Rest] :
           /\ IsPage(page)
           /\ walk' = IF page = <<>> THEN [walk EXCEPT !.at = "done"]
                                     ELSE [walk EXCEPT !.yielded = @ \o page]
    /\ UNCHANGED <<today, version, nextId, steady, toggles>>

CursorNext ==
    \/ \E u \in Uploads : TakeDate(u) \/ InsertVersion(u) \/ CommitVersion(u) \/ ToggleActive(u)
    \/ NextDate
    \/ BeginWalk \/ FetchPage

CursorSpec == CursorInit /\ [][CursorNext]_cursorVars

-----------------------------------------------------------------------------
(* Properties *)

\* chunked_enumerate's docstring: it enumerates over all the results.  Of those, at
\* least the versions that were there from its beginning to its end are yielded.
EnumeratesAll == walk.at = "done" => steady \subseteq ToSet(walk.yielded)

\* An older upload that was given a younger id: it was saving its file all the time
\* the version u was uploaded.
Overtaken(u, v) == version[v].date <= version[u].date /\ version[u].id < version[v].id

\* How far the code falls short of that: no version is yielded twice, and one that was
\* there all the time is left out only if it had overtaken one that was yielded.
MissesOnlyOvertaken ==
    /\ IsInjective(walk.yielded)
    /\ walk.at = "done" =>
           \A u \in steady :
               u \in ToSet(walk.yielded) \/ \E v \in ToSet(walk.yielded) : Overtaken(u, v)

=============================================================================
