------------------------------ MODULE PageCache ------------------------------
(***************************************************************************)
(* One entry of the page cache (cache/cache.py): the package listing that  *)
(* get_package_listing_or_404 keeps in Redis, its fallback copy under      *)
(* "old.<key>", the lock of its regeneration, the pages that read it and   *)
(* the handlers that change the row below it.                              *)
(*                                                                         *)
(* An entry lives five minutes and its copy ten, except for a copy stored  *)
(* without the lock, which never expires.  Redis runs one command at a     *)
(* time; everything else interleaves.                                      *)
(***************************************************************************)
EXTENDS Naturals

CONSTANTS
    Readers,    \* requests for the listing's page
    MaxWrites,  \* bound: changes of the row
    MaxErrors,  \* bound: errors of the generator
    Nothing     \* no entry, nobody

ASSUME PageCacheAssumption ==
    /\ MaxWrites \in Nat /\ MaxErrors \in Nat
    /\ Nothing \notin Nat \cup Readers

VARIABLES
    row,            \* version of the listing that has been committed last
    write,          \* where the handler is that changes it and clears the cache
    entry,          \* version under the key
    old,            \* version under "old.<key>"
    oldForever,     \* the copy was stored without a timeout
    lock,           \* holder of lock.cachegenerate.<key>
    reader,         \* where each reader is, what it holds, under the lock or not
    errors          \* of the generator, so far

dbVars == <<row, write>>
pagesVars == <<dbVars, entry, old, oldForever, lock, reader, errors>>

Version == 0 .. MaxWrites

Entry == Version \cup {Nothing}

\* The three steps of a service after its write, and the two of the old page's post.
WriteSteps == {"none", "written", "keyCleared", "oldCleared", "posted", "postKeyCleared"}

ReaderSteps == {"idle", "lock", "generate", "store", "storeOld", "release", "fallback"}

PagesTypeOK ==
    /\ row \in Version /\ write \in WriteSteps
    /\ entry \in Entry /\ old \in Entry /\ oldForever \in BOOLEAN
    /\ lock \in Readers \cup {Nothing}
    /\ reader \in [Readers -> [at : ReaderSteps, version : Version, locked : BOOLEAN]]
    /\ errors \in 0 .. MaxErrors

Idle == [at |-> "idle", version |-> 0, locked |-> FALSE]

PagesInit ==
    /\ row = 0 /\ write = "none"
    /\ entry = Nothing /\ old = Nothing /\ oldForever = FALSE
    /\ lock = Nothing
    /\ reader = [p \in Readers |-> Idle]
    /\ errors = 0

-----------------------------------------------------------------------------
(* Reading: cache_get_or_set, regenerate_cache, try_regenerate_cache *)

Goto(p, step) == reader' = [reader EXCEPT ![p].at = step]

\* The request is answered with whatever the reader has found.
Answer(p) == reader' = [reader EXCEPT ![p] = Idle]

Read(p) ==
    /\ reader[p].at = "idle"
    /\ IF entry # Nothing THEN Answer(p) ELSE Goto(p, "lock")
    /\ UNCHANGED <<dbVars, entry, old, oldForever, lock, errors>>

\* The wait for the lock has no limit.  Who gets it does not look at the entry again.
Acquire(p) ==
    /\ reader[p].at = "lock" /\ lock = Nothing
    /\ lock' = p
    /\ reader' = [reader EXCEPT ![p] = [Idle EXCEPT !.at = "generate", !.locked = TRUE]]
    /\ UNCHANGED <<dbVars, entry, old, oldForever, errors>>

Generate(p) ==
    /\ reader[p].at = "generate"
    /\ reader' = [reader EXCEPT ![p].at = "store", ![p].version = row]
    /\ UNCHANGED <<dbVars, entry, old, oldForever, lock, errors>>

\* Leaving the with block gives the lock back, or finds it expired and raises LockError.
Unlock(p) == lock' = IF lock = p THEN Nothing ELSE lock

\* The generator raises: Http404 for the page's visitor, an AttributeError for
\* regenerate_cache, which takes it for a lock's and falls back.  A LockError of the
\* unlocking replaces both.
GenerateFails(p) ==
    /\ reader[p].at = "generate" /\ errors < MaxErrors
    /\ errors' = errors + 1
    /\ IF reader[p].locked
       THEN Unlock(p) /\ (Goto(p, "fallback") \/ (lock = p /\ Answer(p)))
       ELSE Answer(p) /\ UNCHANGED lock
    /\ UNCHANGED <<dbVars, entry, old, oldForever>>

Store(p) ==
    /\ reader[p].at = "store"
    /\ entry' = reader[p].version
    /\ Goto(p, "storeOld")
    /\ UNCHANGED <<dbVars, old, oldForever, lock, errors>>

StoreOld(p) ==
    /\ reader[p].at = "storeOld"
    /\ old' = reader[p].version /\ oldForever' = ~reader[p].locked
    /\ IF reader[p].locked THEN Goto(p, "release") ELSE Answer(p)
    /\ UNCHANGED <<dbVars, entry, lock, errors>>

Release(p) ==
    /\ reader[p].at = "release"
    /\ Unlock(p)
    /\ IF lock = p
       THEN Answer(p)
       ELSE reader' = [reader EXCEPT ![p] = [@ EXCEPT !.at = "fallback", !.version = 0]]
    /\ UNCHANGED <<dbVars, entry, old, oldForever, errors>>

\* The copy, or else one's own result, without the lock.
Fallback(p) ==
    /\ reader[p].at = "fallback"
    /\ IF old # Nothing
       THEN Answer(p)
       ELSE reader' = [reader EXCEPT ![p] = [Idle EXCEPT !.at = "generate"]]
    /\ UNCHANGED <<dbVars, entry, old, oldForever, lock, errors>>

\* The process is killed.  Its lock stays until it times out.
ReaderDies(p) ==
    /\ reader[p].at # "idle"
    /\ reader' = [reader EXCEPT ![p] = Idle]
    /\ UNCHANGED <<dbVars, entry, old, oldForever, lock, errors>>

-----------------------------------------------------------------------------
(* Redis: entries and locks time out *)

\* Mutant of EntryExpires: an entry stored without the lock is stored without a timeout, as its copy is.
EntryExpiresIfLocked ==
    /\ entry # Nothing /\ ~oldForever /\ entry' = Nothing
    /\ UNCHANGED <<dbVars, old, oldForever, lock, reader, errors>>

EntryExpires ==
    /\ entry # Nothing /\ entry' = Nothing
    /\ UNCHANGED <<dbVars, old, oldForever, lock, reader, errors>>

OldExpires ==
    /\ old # Nothing /\ ~oldForever /\ old' = Nothing
    /\ UNCHANGED <<dbVars, entry, oldForever, lock, reader, errors>>

\* Mutant of LockExpires: the lock has no timeout.
LockStays == FALSE

\* CACHE_LOCK_TIMEOUT, whatever the holder is doing.
LockExpires ==
    /\ lock # Nothing /\ lock' = Nothing
    /\ UNCHANGED <<dbVars, entry, old, oldForever, reader, errors>>

-----------------------------------------------------------------------------
(* Writing *)

ClearKey == entry' = Nothing /\ UNCHANGED <<old, oldForever>>

ClearOld == old' = Nothing /\ oldForever' = FALSE /\ UNCHANGED entry

CacheKept == UNCHANGED <<entry, old, oldForever>>

Committed == row' = row + 1

\* approve_package_listing, reject_package_listing and update_categories clear the
\* cache inside their transaction, after the write and before the commit.
Service ==
    \/ /\ write = "none" /\ row < MaxWrites
       /\ write' = "written"
       /\ CacheKept /\ UNCHANGED row
    \/ /\ write = "written"
       /\ write' = "keyCleared"
       /\ ClearKey /\ UNCHANGED row
    \/ /\ write = "keyCleared"
       /\ write' = "oldCleared"
       /\ ClearOld /\ UNCHANGED row
    \/ /\ write = "oldCleared"
       /\ write' = "none"
       /\ Committed /\ CacheKept

\* The transaction fails, the process that posts dies.
WriteFails ==
    /\ write # "none"
    /\ write' = "none"
    /\ CacheKept /\ UNCHANGED row

\* PackageDetailView.post: each change is committed by itself, then the cache cleared.
Post ==
    \/ /\ write = "none" /\ row < MaxWrites
       /\ write' = "posted"
       /\ Committed /\ CacheKept
    \/ /\ write = "posted"
       /\ write' = "postKeyCleared"
       /\ ClearKey /\ UNCHANGED row
    \/ /\ write = "postKeyCleared"
       /\ write' = "none"
       /\ ClearOld /\ UNCHANGED row

\* The admin, uploads, the schema import: none of them clears this entry.
OtherWrite ==
    /\ write \in {"none", "posted", "postKeyCleared"} /\ row < MaxWrites
    /\ row' = row + 1
    /\ CacheKept /\ UNCHANGED write

\* The task invalidate_cache, which the changes of any package send, at any time:
\* it deletes "cache.any_package_updated.*" in the default cache.  Our entry is there
\* only where USE_MULTIPLE_CACHES is off; its copy, "old.cache...", never matches.
InvalidateCache ==
    /\ ClearKey
    /\ UNCHANGED <<row, write>>

WriterStep ==
    /\ Service \/ WriteFails \/ Post \/ OtherWrite \/ InvalidateCache
    /\ UNCHANGED <<lock, reader, errors>>

-----------------------------------------------------------------------------

ReaderStep(p) ==
    Generate(p) \/ GenerateFails(p) \/ Store(p) \/ StoreOld(p) \/ Release(p) \/ Fallback(p)

PagesNext ==
    \/ \E p \in Readers : Read(p) \/ Acquire(p) \/ ReaderStep(p) \/ ReaderDies(p)
    \/ EntryExpires \/ OldExpires \/ LockExpires
    \/ WriterStep

PagesSpec ==
    /\ PagesInit /\ [][PagesNext]_pagesVars
    /\ WF_pagesVars(EntryExpires) /\ WF_pagesVars(LockExpires)
    /\ \A p \in Readers : WF_pagesVars(ReaderStep(p)) /\ SF_pagesVars(Acquire(p))

-----------------------------------------------------------------------------
(* Properties *)

\* A request that waits for the lock is answered, although holders die with it, lose
\* it while they work, and nobody waiting takes the entry that has been filled.
ReadersAnswered == \A p \in Readers : reader[p].at = "lock" ~> reader[p].at = "idle"

\* All that a reader may still answer or store is the row's version.
Fresh ==
    /\ entry \in {row, Nothing}
    /\ \A p \in Readers :
           /\ reader[p].at \in {"store", "storeOld", "release"} => reader[p].version = row
           /\ reader[p].at = "fallback" => old \in {row, Nothing}

\* Once the row rests, every answer given is in the end the row's version: whoever
\* forgot to clear the cache, cleared it too early or filled it late, and although a
\* copy may be kept for ever.
PagesCatchUp == <>[]Fresh

=============================================================================
