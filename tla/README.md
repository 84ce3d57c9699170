# Thunderstore: specifications, model checks and proofs

Thunderstore is the package repository behind thunderstore.io: a Django
application (web requests on PostgreSQL, Redis and S3), Celery workers, and a
browser uploader written in TypeScript. Almost everything hard about it comes
from one habit: a request loads a row, decides on that copy, talks to S3 or runs
further queries, and saves afterwards, with no lock in between. What keeps
overlapping requests apart is what PostgreSQL does by itself (READ COMMITTED,
row locks of uncommitted writes, unique columns, foreign keys checked at the
commit), plus one explicit `select_for_update`. The models here keep exactly
those steps and abstract everything else.

    tlc -workers 2 -config UserMedia.cfg UserMedia
    tlapm UserMediaProofs.tla

## 1. Inventory

Paths are relative to `src/django/thunderstore/` unless they start with `src/`.

| Component | State | Operations | Hard behaviour | What makes it correct |
|---|---|---|---|---|
| User media (`usermedia/`) | `UserMedia` rows (status, upload_id, expiry); multipart uploads and objects in S3 | create, finish, abort, periodic cleanup | no lock between load and save; S3 and the database fail separately; crashes between the two | the status column never promises more than S3 has; nothing in S3 is orphaned; cleaning always ends |
| Async submission (`repository/models/submission.py`, `tasks/submission.py`, `api/experimental/views/submit_async.py`) | `AsyncPackageSubmission` rows; Celery messages | create, poll (schedules), process, cleanup | duplicate and lost tasks, worker crashes, polls that save after the task, TTLs | each submission resolved once, one outcome, never pending for ever |
| Teams (`repository/models/team.py`, `api/cyberstorm/services/team.py`, `repository/forms/team.py`) | `Team`, `Namespace`, `TeamMember` | create, disband, add, remove, change role; account deletion | checks of the services are not locked | names unique whatever their case, packages keep their team, a team keeps an owner |
| Packages and releases (`repository/models/package.py`, `package_version.py`, `package_upload.py`, `admin/`) | `Package` (is_active, is_deprecated, latest), `PackageVersion` | upload, admin edit, (de)activate, (un)deprecate, review and tasks that save a version | signal handlers save whole stale rows; latest is a cache | latest is the highest active version; nothing undoes moderation |
| Upload validation (`package_manifest.py`, `package_upload.py`) | none | manifest, zip, icon, dependency checks | check-then-act on names, versions and disk space | ends in the unique constraints |
| Listings and review (`community/models/package_listing.py`, `api/cyberstorm/services/package_listing.py`, `community/admin/`, the lists' views) | `PackageListing` (review status, review request, categories) | upload, approve, reject, admin forms and actions, categories, autolist, and ten queries | every page has its own query for what the public may see, every handler its own rule for who may act | the queries agree with each other and with the listing's page; only reviewers publish |
| Permissions (`permissions/`, `community/models/`) | roles, staff permissions, service accounts | `validate_user`, `can_be_*`, `ensure_*` | the rules were written one at a time | who decides can see, who is queued can decide, promotions only add |
| Cache (`cache/`) | Redis entries, copies, locks | get or regenerate, clear, invalidate | lock time-outs, refills with old data, dead holders | readers are answered, an entry is not stale for ever |
| Browser uploader (`src/builder/src/state/FileUpload.ts`) | upload status, open requests, server-side upload | upload, retry, throttle, cancel | callbacks, retries, cancel at any await | only assembled files are submitted, no part is forgotten, nothing is sent after a cancel |
| Blob storage, file trees (`storage/`, `repository/filetree.py`) | `DataBlob` rows by checksum, groups | get_or_create, add_entry, set_complete | overlapping get-or-create | one row and one object per checksum, a group says complete only when it is |
| API package caches (`repository/models/cache.py`, `api/v1/tasks.py`) | cache rows, files in S3, chunks in blobs | update, drop stale, serve | readers of dropped files, overlapping and killed runs of a periodic task | what the newest index names exists and is complete; stale rows go |
| Experimental package index (`repository/models/package_version.py`) | none (a cursor) | `chunked_enumerate` | rows inserted while it walks, ids and dates that disagree | everything once (violated: what was overtaken is lost) |
| Package wikis (`wiki/models/wiki.py`, `repository/models/wiki.py`, `repository/api/experimental/views/wiki.py`) | `Wiki`, `WikiPage`, `PackageWiki` | post, delete, list by update time | the date of a write is older than its commit | clients that keep copies miss no write but those that raced |
| Mirrored storage (`core/storage.py`) | S3 bucket and mirrors | save, delete | partial failure, names chosen per store | mirrors have what the row names |
| Mod packs, schema server, schema import | content-addressed rows; ecosystem schema | create from upload; publish; sync | get-or-create; quota check before write | one row per content |
| Ratings, downloads, reports, webhooks, audit, analytics, social login, service accounts, contracts, frontend | small independent tables or none | see `PROJECT.json` | lost increments; last login disconnected | listed as hazards where real |

Interactions: the browser creates and finishes a user media upload, then submits
its uuid; a submission row refers to the user media row (a protected foreign key,
which is what the media cleanup has to respect); the submission's task downloads
the object, validates it and saves a `PackageVersion` through
`PackageUploadForm`, whose signals update the `Package` and, after the commit,
call webhooks and invalidate caches; a team owns packages through protected
foreign keys; listings, API caches and file trees are derived from packages.

Everything in the code that is hard to test is in `PROJECT.json`, "hazards",
each at its line with the property that would catch it, or with a note.

## 2. Modules

### UserMedia (`usermedia/s3_upload.py`, `cleanup.py`)

State: the row (`status`, `uploadId`, `expired`, `referenced`), S3 (`multipart`,
`object`), and for every request and cleanup run (`work`) the step it is at with
the copy of the row it loaded. Two values are added to the status column:
"absent" and "deleted". One action per step between two calls to the outside:

| Code | Actions |
|---|---|
| `create_upload` | `CreateRow`, `CreateMultipart`, `SaveCreated` |
| `finalize_upload` | `FinishBegin`, `FinishCompletes` / `FinishRejected`, `FinishHead`, `FinishSave` / `FinishFail` |
| `abort_upload` | `AbortBegin`, `AbortMultipart`, `AbortSave` |
| `cleanup_expired_uploads`, `cleanup_expired_upload` | `CleanupQuery`, `CleanupCheck`, `CleanupDelete`, `CleanupS3`, `CleanupCommit` |
| a submission row appears / is removed | `Reference`, `Dereference` |
| time, a killed process or an uncaught error | `Expire`, `Dies` |

S3 is modelled by what the code relies on: completing an open multipart upload
creates the object, aborting one that is not open raises NoSuchUpload, and a
completion may be repeated. Which row is meant and whether the user may write it
is fixed by the uuid; sizes and part urls change no state and are left out.
`Expire` never fires while the request that created the row is still running: the
expiry is a day ahead.

### SubmissionPromise and PackageSubmission

`SubmissionPromise` is the client's view: an accepted submission ends once, in one
outcome, at most one submission publishes the version, and none stays pending for
ever. `PackageSubmission` is the code: rows, web requests that hold a copy of the
row (`request`), messages in the broker (`queue`), workers (`task`) with the row
lock of `select_for_update(skip_locked=True)`. Timestamps are kept as ages against
the TTL they are compared with. `outcomeBar` is the refinement mapping and
`KeepsPromise == Promise!Spec` is checked as a property, liveness included.

### Teams (MCRecords)

`team`, `namespace`, `role`, `rowId` (the primary key of the membership: an
UPDATE by an old key turns into an INSERT), `packages`, `account`. Each service
is split where READ COMMITTED lets another transaction in: guard, write, commit.
`Names` are the spellings of one name in different cases, so `Namespace`'s
case-insensitive key is a single slot. `TeamLocked` and `MemberLocked` are the
row locks of an uncommitted deletion; `DisbandCommit` is where the deferred
foreign keys of packages and members are checked. `MCRecords`
composes `Teams` and `PackageReleases` for one run, by `focus` as `MCCaches` below: a
package row refers to its team, which `Teams` has as `packages`, and nothing else joins
them. Users, spellings and requests (which are the transactions) are interchangeable;
the run has invariants and one action property, and no liveness, so the symmetry is sound.

### PackageReleases

The row (`package`), `versions`, and `work`: what each transaction is doing
with its copy of the package. `PackageLocked` is the row lock of an uncommitted
UPDATE. `UploadStart / UploadInsert / UploadRecache / UploadCommit` is
`PackageUploadForm.save` with the `post_save` handlers of the version; `EditStart /
EditSave / EditRecache / EditCommit` the admin's change form with its inline
versions; `Recached` is `recache_latest` inside such a transaction, which queries
the versions before the commit makes its own visible; `TouchStart / TouchQuery /
TouchSave` any save of a version that leaves `is_active` alone (file tree
extraction, approve, reject); `SetActive`, `SetDeprecated` the single-column
saves; `Fails` a rollback.

### FileUpload (`src/builder/src/state/FileUpload.ts`, `throttle.ts`, `retry.ts`, `upload.tsx`)

One `FileUpload` object from `upload()` to the package's submission. JavaScript
runs an event's callback with every promise continuation it resolves before the
next event, so an action reaches from one real wait (network, MD5 worker, timer)
to the next: the answer for the last part also sends the finish call, and the loop
that starts the parts is one step. `main` is what `upload()` waits for, `part` where
each `uploadPart` is (inside throttler, cancelGuard and retry), `ongoing` the
throttler's counter, `requests` the calls the server has not handled, `answer` what
it said to the call `upload()` waits for. A call may fail for the client at any time
before its answer: if the server handles it all the same, the answer was lost; if it
never does, the call was. Parts whose PUT was aborted by `cancelUpload` are "stuck":
`fetchWithProgress` has no `onabort`, so their promise is never settled.
The server's calls overlap, as far as the client can tell: `ServerAdmits` is
`finalize_upload` up to its status check on the row it has loaded, `ServerFinishes` the
rest, so that a finish call the client has given up may be completed, or fail, after
another one was answered. `multipart` is what S3 has done to the multipart upload, and
is final once it is completed or aborted, which the row is not: an overlapped finish
call that fails saves `upload_error` over `upload_complete`. `UserMedia` has the
handlers step by step.

### Permissions and Catalog (MCCatalog)

`Permissions` translates every predicate of the permission checks (`validate_user`,
`Community.can_user_manage_packages` and its neighbours, `ensure_*` of packages and
listings, `PermissionsChecker`): an `ensure_*` method that raises is a predicate that
is false. `Catalog` is one package with its listing in every community. An action per
handler that changes what is visible: `Upload`, `Decide` (the API's approve and reject),
`AdminDecide`, `AdminEdit` (nothing else requests a review), `AdminDelete`,
`UpdateCategories`, `AutoList` (the schema import), `SetDeprecated`, `Unlist`,
`AdminPackage` (the package's change form, whose inline also adds listings: the listing
admin's own add form names fields that a form cannot have, `admin/package_listing.py:56-76`,
and raises FieldError). The pages are operators: the old site's lists and its list of
dependants (`OldDependants`, the page of one community for listings of any), the new
site's and the experimental frontend's list, the package index, the remark next to a
dependency, the counts, the webhooks and the review queue. A list is a conjunction of conditions on single listings, so one
package is enough to compare them; searching, ordering and pagination are left out.
Visibility flags (`permissions/models/visibility.py`) are not modelled: their
`update_visibility` returns at once (`package_listing.py:437`) and no query reads them.

### PageCache (`cache/cache.py`)

One key as its readers and writers see it: `entry`, its copy `old` under `old.<key>`,
the `lock` with its timeout, and `reader`, between any two Redis commands of
`regenerate_cache` (`Read`, `Acquire`, `Generate` / `GenerateFails`, `Store`,
`StoreOld`, `Release`, `Fallback`). `Acquire` looks at nothing but the lock, as the
code: a waiter regenerates what the holder has just stored. Writers clear the keys
before their transaction commits (`Service`), after it (`Post`), by pattern
(`InvalidateCache`) or not at all (`OtherWrite`).

### PackageIndexes, ChunkedIndexes, VersionCursor (MCCaches)

`PackageIndexes` is `APIV1PackageCache` and `APIExperimentalPackageIndexCache`: rows
that name files, built by a periodic task (`BuildIndex`, `SaveFile`, `InsertRow`),
dropped in the four steps of `SafeDeleteMixin.delete` (`FindStale`, `MarkDeleted`,
`RemoveFile`, `SaveEmptied`, `DeleteRow`), read by clients in two (`OpenIndex`,
`FetchIndex`); `TaskDies` at any step. `ChunkedIndexes` is the chunked cache: the ids
are queried, the listings loaded, the chunks laid out (`Layout`) and stored as blobs
(`FindBlob`, `CreateBlob`, the unique checksum making equal insertions fail), the index
blob last. `VersionCursor` walks the versions with `chunked_enumerate`, a query at a
time, while uploads take their date before they save their file and their id after it.

### PackageWikis

`wiki` (is it there, its date), `page`, `request` (a POST or DELETE between its
queries) and `mirror`, a client that keeps copies of all wikis and asks for what is
newer than its cursor. `CreateWiki` is `get_for_package`, where a second creation waits
and fails; `WritePage` the page's row, `DateWiki` the reading of the clock, `CommitPage`
the wiki's row and the commit. An UPDATE of a page that has been deleted inserts it
again, as Django does. `AskForWikis` is the list's query, `AnswerWikis` the second one
that fetches the pages, and the cursor. `raced` remembers whether the last write of a
wiki was dated and uncommitted while the client was answered.

The caches and the wikis share nothing in the code. `MCCaches` composes them by
`focus`: a behaviour moves one of them only, so one run checks all.

## 3. Runs

| Run | Instance | Shows |
|---|---|---|
| `user_media` | 1 upload, 3 requests, 2 cleaners, 1 fault | the six properties of section 4, two of them temporal |
| `user_media_cleanup` (violation) | 1, 1, 1, 0 | `CleanupRemovesObject` fails: a failed `head_object` leaves an object nobody deletes |
| `submission` | 2 submissions, 1 request, 2 workers, 2 messages each, 1 fault | the rows implement `SubmissionPromise`; results are truthful |
| `submission_polls` (violation) | 1 submission, 2 requests, 1 worker | `ScheduledOncePerTtl` fails: two polls schedule the same task |
| `records` | teams: 2 spellings, 3 users, 2 requests, 4 memberships; package: 3 versions, 2 transactions | names, packages and memberships stay consistent without the services' checks being atomic; latest follows the versions; no empty package |
| `teams_last_owner` (violation) | 1 name, 2 users, 2 requests, 2 memberships | `LastOwnerStays` fails: two owners leave together |
| `package_unlisting` (violation) | 2 versions, 1 transaction | `UnlistedStaysUnlisted` fails: an upload lists the package again |
| `file_upload` | 4 parts, 2 slots, 3 attempts | seven properties of section 4, two of them liveness; calls overlap in the server |
| `file_upload_canceled` (violation) | 1 part, 1 slot, 1 attempt | `CanceledIsNotSubmitted` fails: a cancel during the finish call is too late |
| `catalog` | a curated and an open community that share a slug, 3 categories, 3 sections, 48 requests for a list, 20 kinds of users | ten queries follow one rule but for one disclosed exception, roles and permissions agree, only reviewers publish |
| `version_cursor` (violation) | 2 uploads, pages of 1, 2 dates, no toggle | `EnumeratesAll` fails: a version whose upload was overtaken is lost at the end of a page, in a walk that nothing disturbs |
| `caches` | pages: 2 readers, 1 write, 1 error; indexes: 3 rows, 2 tasks, 1 client, 1 death, cutoff 2; chunks: 3 listings, 2 builders, 1 edit, 1 failure; cursor: 3 uploads, pages of 1, 1 toggle; wikis: 2 packages, 2 pages, 2 requests, 2 posts, answers of 1 | readers are answered, caches catch up, served files are there, copies miss only what raced |

Bounds, and why they are enough. Rows of one table never constrain each other in
`UserMedia`, so one upload suffices; three requests allow a finish, an abort and
one more to overlap, and the second cleaner is the next run of the periodic task
before the first has ended. The proofs (section 5) remove these bounds.
In `PackageSubmission` two submissions of the same version are what compete for
the unique constraint, two workers what a duplicated task needs; `MaxQueue` stops
only a third message, and one fault anywhere is enough to lose a message and have
it scheduled again. In `Teams` three users are two owners and somebody who is
added, and two spellings the smallest conflict of case; `MaxRows` bounds the
memberships ever inserted. In `PackageReleases` three versions separate "the
highest", "the one just uploaded" and "the one the stale copy names". In
`FileUpload` four parts on two slots leave two waiting, which compete for a slot,
and three attempts separate the first, a middle and the last one. In `Catalog` the users are every role alone and the
combinations that differ (moderator of both communities, staff with and without
permissions, deactivated ones, a service account); two categories of different
communities with one slug are what lists that filter by slug may confuse, and the
requests give every filter an effective and an empty value. In `PageCache` an entry
only matters as new or old, so `MaxWrites = 1`; two readers are a holder and a waiter,
or two holders after the lock expired. `MCIndexes` has three rows: the latest, a stale
one and one being saved. Three listings of which two fill a chunk and one exceeds the
limit give chunks of every kind. Three uploads on pages of one put a chunk boundary
between any two, on two dates, so that ties and disagreements of id and date occur. Two
wikis and answers of one are a page that is full with more to come. The
violation runs use the smallest instance that shows the trace. Bounds on failures
(`MaxFaults`) limit how often, never where, a process dies.

`CHECK_DEADLOCK FALSE` is used where the system really may stop: every uuid,
submission, version or name is used once, and then there may be nothing to do.

Fairness. `UserMedia`: a cleanup that has begun carries on (WF), and a row that
the periodic task's query keeps returning is visited (SF on `CleanupQuery`: the
row may be referenced and released in between); web requests have none.
`PackageSubmission`: requests and tasks that have begun carry on (Django and
Celery run them to the end), the broker delivers (SF on `StartTask`: the workers
may be busy), time passes and the hourly cleanup runs (WF). Nobody has to poll:
that no submission stays pending for ever comes from the cleanup. `FileUpload`:
every request ends for the client, if only with a network error, the worker answers
and timers fire (WF on `MainStep` and on each part's step); the user and the server
need not do anything. `Teams`, `PackageReleases`, `Catalog`, `VersionCursor` and `PackageWikis` state safety
only. `PageCache`: entries and locks expire (Redis), a reader that has begun carries on
(WF), and a waiter gets the lock if it is free again and again (SF on `Acquire`: it
polls every 0.1 s, and every lock expires). `PackageIndexes` and `ChunkedIndexes`:
Celery beat starts the task again and again and a task that runs carries on (WF on
`TaskStep`, `BuilderStep`), with bounded deaths and failures: while every build fails,
nothing can catch up.

## 4. Properties

`UserMedia`: `CompleteIsDownloadable` (an unexpired complete row has its object),
`AbortedLeavesNothing` (what the cleanup of aborted rows relies on),
`NoMultipartLeft` (nothing unfinished outlives a row that recorded its id),
`ReferencedRowKept` (the row a submission refers to stays; the row only, see section 6),
`CompletionIsKept` (a completed upload is only left for `upload_error`, by an
overlapping finish that failed, or by the cleanup),
`ExpiredRowsGo` (liveness).
`PackageSubmission`: `ResultIsTruthful`, `KeepsPromise`.
`Teams`: `NamesUniqueIgnoringCase`, `PackagesKeepTheirTeam`,
`DisbandedLeavesNothing`.
`PackageReleases`: `LatestFollowsVersions` (an action property: every commit that
changes which versions are active leaves `latest` right), `LatestIsReleased`,
`NoEmptyPackage`.
A stronger `latest = Newest(versions)` at all times does not hold: a stale copy
saved by a task or by an admin edit without changed versions moves it back until
the next release. It holds as long as transactions do not overlap
(`LatestIsNewestOneAtATime`, section 5).
`FileUpload`: `FinishHasAllParts`, `SubmittedIsAssembled` (what is submitted is a file
that S3 has assembled, whatever calls overlap), `OutcomeIsKept` (no late
answer revises how the upload ended), `NoPutAfterCancel`, and the liveness of
`UploadEnds` and `PartsEnd` for uploads that are not canceled (a canceled one may
wait for its stuck parts for ever).
`Catalog`: `PagesShowWhatVisitorsMaySee` (one rule for all of them but the dependants
list, of which `Misjudged` says what it shows beyond the rule), `PagesAgree` (the two sites' lists, up to one
difference it names), `WhoDecidesCanView`, `QueueIsActionable`, `PromotionKeepsRights`,
`OnlyReviewersPublish` (in a curated community also for listings that are deleted and
created again).
`PageCache`: `ReadersAnswered`, `PagesCatchUp` (once the row rests, every answer is in
the end the row's version; before that nothing better than the entry's lifetime holds).
`PackageIndexes`: `IndexServed`, `StaleGoes`. `ChunkedIndexes`: `ChunkedIsComplete`,
`ChunksCatchUp`. `VersionCursor`: `EnumeratesAll`, which is the
docstring's promise and violated, and `MissesOnlyOvertaken`, how far the code keeps it.
`PackageWikis`: `MirrorMissesOnlyRaces`.

Every property has a mutant: an operator named after the definition it replaces,
just before it in the module, with a plausible bug under which the property fails.

The six violations are disagreements of the code with its own tests, docstring, comment
or messages; `PROJECT.json`, "findings", quotes both sides.

## 5. Proofs

`UserMediaProofs` proves, for every number of uploads, requests, cleaners and
faults, `TypeOK`, `CompleteIsDownloadable`, `AbortedLeavesNothing`,
`NoMultipartLeft`, `ReferencedRowKept` and the action property `CompletionIsKept`.
The assumptions are those of `UserMedia`: `MaxFaults` is a natural number, and
requests and cleaners are different actors.

None of the invariants is inductive, because each is about what a request that
holds an old copy may still write. `IInv` adds what ties those copies to the row
and to S3: `CreatedAlone` (nobody else works on an upload while it is being
created), `S3Known` (what each step of a finish or an abort knows about S3: an
object once assembled stays while the row has not expired, an aborted upload is
never completed, so finish and abort cannot both win), and `CleanedExpired` (a
cleaner only ever holds expired rows, whose copies agree with the rows as far as
the choice of its S3 call depends on it). There is one lemma per group of actions,
with one step per action and a leaf per conjunct it disturbs; `NextIInv` combines
them and the theorems follow by temporal logic.

`PackageReleasesProofs` proves, for any versions and any number of overlapping
transactions, `ReleasesTypeOK`, `LatestIsReleased`, `NoEmptyPackage` and the action property
`LatestFollowsVersions`. The one assumption, `VersionsAssumption`, is that versions
are ordered as numbers and that a set of released versions has a highest one (true
of every finite set; TLC evaluates it). The inductive invariant says who may write:
`OneHolder` (the row lock is exclusive), `VersionsAtHand` and `CopiesReleased` (what
a copy says as `latest` has been released or is the transaction's own version, however
old the copy), and `RecachedRight` (what `recache_latest` found stays right until the
commit, because nobody else can commit a change of the versions without the lock).

`PackageSubmissionProofs` proves, for any number of submissions, web requests,
workers and failures, `TypeOK`, `ResultIsTruthful` and `Implements`: `Spec` implies
the safety part of `SubmissionPromise` under `outcomeBar`. The assumptions are
`BoundsAssumption` and `NamesAssumption` of `PackageSubmission`. `ResultIsTruthful`
is not inductive: that the row says "version" exactly when its task created it needs
to know, at the commit, that no other task of the same row and no other insertion of
the version is in progress. `IInv` adds `OneTaskPerRow` (the row lock is exclusive,
and keeps the row PENDING against the cleanup and a duplicate task), `OneInsertion`
(one uncommitted version at most, and none once one is published) and
`PublishedAtEnd` (the version belongs to a submission that exists). For the
refinement, creating a row is `Accept`, the end of a task `Publish` or `Reject`, the
cleanup `Forget`; a lemma each, and everything else (polls, scheduling, starting and
preparing a task, time, crashes) changes nothing the client can see.

`FileUploadProofs` proves, for any number of parts, slots and attempts, `TypeOK`,
`FinishHasAllParts`, `SubmittedIsAssembled` and the action properties `OutcomeIsKept`
and `NoPutAfterCancel`, from `CountsAssumption` (the three are positive numbers).
That `ongoing` stays between 0 and `MaxParallel` needs `SlotsCounted` (it is the
number of parts that have a slot, by the theorems about finite sets). That nothing
revises an outcome needs `DoneBeforeFinish`: once a finish call exists, or the server
or the client says complete, every part is done, so no part is left that could fail;
`RowIsNew` (one initiate call, before everything else), `StatusFollows`,
`AttemptsLeft` and `AnswerIsTrue` (an "ok" is the answer to the attempt that
`upload()` waits for) make that inductive. `SentOnce`, `AdmittedOnce` and `NotFinished`
say that every call is sent and admitted once and that nothing is finished before
`finishUpload` begins. `EveryStepCounts` is what safety can say about `UploadEnds` and
`PartsEnd`: the waits left to the parts and to `upload()`, the calls left to be handled
and the user's cancel are four finite sets (`FiniteToDo`) none of which ever grows, and
every step, of whoever and fair or not, makes one of them smaller (`LessToDo`). So no
sequence of retries, slots and late answers goes on for ever; that it does not stop too
early either needs the fairness and stays with TLC.

`TeamsProofs` proves, for any spellings, users and requests, `TypeOK`,
`NamesUniqueIgnoringCase`, `PackagesKeepTheirTeam` and `DisbandedLeavesNothing`. The
inductive invariant adds `NamespaceFollows` (a namespace names the team exactly while
that team's row is committed, so one case-insensitive key decides for both),
`OneInserts` (an uncommitted creation is the only one and found no namespace) and
`NoOrphans` (no membership without its team).

`CatalogProofs` proves the six properties of `Catalog` and its `TypeOK` for any
communities, categories, sections, requests and users. Five are consequences of the
type invariant and of the queries' definitions, so the proofs compare the queries
condition by condition; `OnlyReviewersPublish` goes through the actions.

`PackageIndexesProofs` has three parts, one for each of the derived indexes.

1. *Index files*: `IndexesTypeOK` and `IndexServed` for any rows, tasks and clients and
   any number of deaths, from `IndexesAssumption`. What a task has queried as stale may
   be queried and deleted by others while it works, so the invariant speaks of
   superseding: a row that is stale or being read is active or superseded by an active
   row (`StaleIsOld`, `ReadIsCurrent`), and the lemma `RowDropped` shows that a
   superseding row cannot go unless it is superseded itself. That there is a latest row
   is the least element of a set of natural numbers, by well-foundedness.
2. *Chunked index*: `ChunkedIsComplete` for any listings, sizes, limit, builders and
   failures, from `ChunksAssumption`. What a layout holds is a statement about data, so
   the module's recursive functions (`Kept`, `Laid`, `Bytes`, and
   `FlattenSeq` of the community modules) are reasoned about by induction. The library's induction
   theorems take an operator as a parameter, which no prover here can instantiate;
   `SetInduction` replaces the operator by a set of positions and rests on the
   well-foundedness of the natural numbers, `RecursionExists` and `RecursionIsUnique`
   turn a recursive definition into its equations. From them: `LayoutIsComplete` (every
   listing once and in order; a chunk of several listings exceeds the limit by one comma
   at most). The inductive invariant says what each builder has at its step: `OnTrack`
   (what it has stored, followed by what it has left to store, is the layout of the
   listings it has loaded, and those are the ones it has queried without deleted ones)
   and `Built` (the same of the latest cache, with everything stored). Blobs are never
   removed, so others cannot disturb it.
3. *Cursor*: `MissesOnlyOvertaken` for any uploads, pages and dates, from `CursorAssumption`.
   `IdsDiffer` and `YieldedInOrder` give that nothing is yielded twice; `SteadyAhead`
   divides what was there all the time into the yielded, the ones still ahead of the
   cursor and the overtaken. The step that matters is the end of a page, where a version
   that was ahead and not on the page falls behind the new cursor only by having a later
   date and an earlier id than the last one of the page, which is what overtaking means.

`CachesProofs` has three parts as well.

1. *Wikis*: `WikisTypeOK` and `MirrorMissesOnlyRaces` for any packages, pages, requests
   and page sizes, from `WikisAssumption` (packages are a finite set, an answer has room
   for one wiki). `DatesDiffer` and `DatesArePast` say that readings of the clock are all
   different; `DatedIsAhead` that what is dated and not committed is past the cursor
   unless an answer overtook it; `UnaskedComeLater` that what an answer under way will
   not copy comes after the cursor it will give; `WritesOwnPage` that a page has one
   writer and one wiki.
2. *Page cache*: `PagesInvariance` (types, and `CachedIsCommitted`: nothing is cached or
   answered that was not committed) and the action property `CaughtUpStays`, the half of
   `PagesCatchUp` that is not liveness: once entry, copy and readers have the row's
   version, `Fresh` holds until the row changes. Both follow from `VersionsHandedOn`,
   which says where the version of an entry, a copy or a reader can come from in a step.
3. *Together*: `CachesInv`, the conjunction of the five inductive invariants, is inductive
   for `CachesSpec`, because the steps of one cache leave the variables of the others
   alone. `CachesTypesCorrect` and `CachesKeepPromises` state `CachesTypeOK`,
   `IndexServed`, `ChunkedIsComplete`, `MissesOnlyOvertaken` and `MirrorMissesOnlyRaces` of the
   very specification that the run `caches` checks.

Six theorems say how far the violations of section 3 reach. Three have the condition
under which the code does keep its word, checked with TLC before it was proved:
`ScheduledOnceByOneAtATime` (no two requests overlap: then a task is scheduled once per
TTL, whatever workers, the clock and the cleanup do), `LastOwnerStaysWithOneAtATime`
(no two requests overlap and the users are finitely many: then the guards of the
services do keep a last owner) and `OnlyErrorsLeaveObjects` (no process dies: then only
the cleanup of an upload in error leaves its object behind). So the first two
counterexamples are races and nothing else, and the third is a missing branch of
`cleanup_expired_upload`. The hypotheses are about constants only and every state of
the restricted system satisfies them. `LatestIsNewestOneAtATime` has a
hypothesis of the same kind, for the equality of section 4 that no run checks. The other
three need no hypothesis. `UnlistedUnlessLoadedBefore`: once the package is unlisted and no upload or
task holds an active copy of it, that stays so until an admin's action or change form activates it. What lists a
package again behind an admin's back is a copy loaded before the unlisting.
`CanceledInTimeIsNeverSubmitted`: a cancel before `finishUpload` begins always wins, so
the canceled upload that is submitted was canceled while its finish call was under way.
`LosesOnlyOvertaken`: what an enumeration leaves out was overtaken by a version it has
yielded.

## 6. Only model-checked, and not modelled

Every invariant of a passing run, and every action property, is stated by a theorem.
Left to TLC is liveness under fairness, which the installed provers cannot treat
(`ENABLED`): `ExpiredRowsGo`, `UploadEnds`, `PartsEnd`, `ReadersAnswered`,
`PagesCatchUp`, `StaleGoes`, `ChunksCatchUp`, and the part of `KeepsPromise` that no
submission stays pending for ever. The violations are counterexamples of TLC.

Trusted: PostgreSQL's locking and constraints, S3's semantics of multipart uploads,
Redis's commands, Celery's delivery and Django's save, all as stated in the modules (map
entries marked external). Queries answer what the database holds: cachalot, the ORM's
query cache that the settings enable (`core/settings.py:268`), is taken to invalidate
itself as it promises.

Not modelled, with the reasons in `PROJECT.json`: validation of one file or manifest,
mirrors and social logins (sequences of calls without anything the code keeps true when
one fails), content-addressed rows (mod packs, schema server: the get-or-create of
`ChunkedIndexes` again), counters, audit, webhooks and analytics (fire-and-forget), and
everything that renders, routes, serializes or configures. The latter is most of the
code's lines: the state that can go wrong is in a small part of them.

What else the models show the code to do is stated as the exception of a property or
left out of it: no run counts it as a violation, as no doc, test or comment says
otherwise of just that case. The ones a reader of the code should
know:

- `drop_stale_cache` compares with the latest row, so an index that is a cutoff older
  loses its file at the moment the new one is inserted, however recently it was served.
  The comment at `cache.py:57-59` only says that old files are not deleted at once, as
  they may be in use; `IndexServed` measures the cutoff between caches, as the code does.
- A chunk of several listings may exceed its limit by a byte: the comma before the last
  one is not counted (`cache.py:197-199`).
- `PackageWikiListAPIView` never tells of a write that was dated
  before its answer and committed after, if another wiki's date moved the cursor past it.
- A wiki page that was loaded for an update is inserted again when it is deleted meanwhile.
- A waiter of the cache lock waits without limit and regenerates what has just been
  stored; an exception of the generator is replaced by a LockError when the lock expired
  meanwhile; a copy stored without the lock never expires, and is served for as long as
  the generator fails. Invalidation by pattern does not match the copies.
- Staff without `change_packagelisting` may decide about listings but see no queue;
  service accounts with a community role see a queue they may not work; a janitor may
  edit the categories of a listing that it may not view.
- The old site's dependants list filters by no community and judges by the approval rule
  of the page's one (`repository/views/package/list.py:404-438`): in an open community it
  shows unreviewed listings of curated ones, whose pages then refuse the visitor
  (`models/package_listing.py:383-388`).
- A listing of an open community that is deleted in the admin and uploaded again is
  public, whatever had been decided about the deleted one.
- A submission that is created between the queries and the commit of the media cleanup
  keeps the upload's row, by the foreign key. The object has been deleted by then
  (`s3_upload.py:253-266`), so the submission will fail.
- The old site takes a category of the request or one of the section, the new site wants
  both. Approving writes the notes it loaded, and a stale admin form overwrites a decision.
- A finish call that the client has given up may fail after the next one has succeeded:
  the row of an upload whose package is already submitted then says `upload_error`.
- The counts of an open community include rejected listings; webhooks announce
  releases of deactivated packages.

## 7. Plan

The modules of the first plan are written, and every safety property of the passing runs
is proved. What is left, in the order of use:

1. `StaleGoes` and `PagesCatchUp` with tasks that fail for ever but not always
   (fairness of successes instead of bounded failures).
2. Accounts and logins, when the disconnection of the last login is guarded by a lock:
   today two requests can disconnect both (`api/cyberstorm/services/user.py:18`).
