---------------------------- MODULE ChunkedIndexes ----------------------------
(***************************************************************************)
(* APIV1ChunkedPackageCache (repository/models/cache.py): the listings of  *)
(* a community cut into chunks, each a blob of a group, and an index blob  *)
(* that names the chunks.  Blobs are found by their checksum               *)
(* (storage/models/blob.py): looked for, and inserted if missing, in two   *)
(* steps and under a unique column, so builders of equal chunks collide.   *)
(*                                                                         *)
(* A blob is its content: a sequence of listings, or the set of the chunks *)
(* an index names (group.entries.all() has no order).  A community has at  *)
(* most one batch of a thousand listings here, so that they are loaded in  *)
(* one query.  drop_stale_cache only sets a flag that nothing reads.       *)
(***************************************************************************)
EXTENDS Naturals, Sequences, FiniteSets, SequencesExt

CONSTANTS
    Listings,
    FirstList,  \* the listings of the community at first
    SizeOf,     \* bytes of each listing's JSON
    ChunkLimit, \* UNCOMPRESSED_CHUNK_LIMIT
    Builders,   \* update tasks that may overlap
    MaxEdits,   \* bound: changes of the community's listings
    MaxFailures,  \* bound: errors and killed tasks
    NoCache     \* the community has no cache yet

\* Sequences of different listings.
Lists == {s \in UNION {[1 .. n -> Listings] : n \in 0 .. Cardinality(Listings)} :
              IsInjective(s)}

ASSUME ChunksAssumption ==
    /\ IsFiniteSet(Listings) /\ FirstList \in Lists
    /\ SizeOf \in [Listings -> Nat \ {0}]
    /\ ChunkLimit \in Nat /\ MaxEdits \in Nat /\ MaxFailures \in Nat

VARIABLES
    listed,   \* the listings the index shows, in its order
    deleted,  \* listings whose rows are gone
    edits,
    blobs,    \* rows of DataBlob, each with its file
    builder,  \* where each builder is, what it has loaded, what it has put in its group
    latest,   \* get_latest_for_community
    failures

\* The elements of list that are in some, in their order.
Kept(list, some) ==
    LET kept[n \in 0 .. Len(list)] ==
            IF n = 0 THEN <<>>
            ELSE IF list[n] \in some THEN Append(kept[n - 1], list[n]) ELSE kept[n - 1]
    IN  kept[Len(list)]

chunkVars == <<listed, deleted, edits, blobs, builder, latest, failures>>

Chunk == Seq(Listings)

Blob == [chunk : Chunk] \cup [index : SUBSET Chunk]

\* A row of APIV1ChunkedPackageCache: its chunks and index, and what it was built from.
Cache == [ids : Lists, shown : Lists, entries : Seq(Chunk), index : Blob]

Unbegun == [at |-> "idle", ids |-> <<>>, shown |-> <<>>, todo |-> <<>>, entries |-> <<>>,
          missing |-> FALSE]

Build == [at : {"idle", "ids", "chunks", "index", "row"}, ids : Lists, shown : Lists,
          todo : Seq(Chunk), entries : Seq(Chunk), missing : BOOLEAN]

ChunksTypeOK ==
    /\ listed \in Lists /\ deleted \subseteq Listings /\ edits \in 0 .. MaxEdits
    /\ blobs \subseteq Blob
    /\ builder \in [Builders -> Build]
    /\ latest = NoCache \/ latest \in Cache
    /\ failures \in 0 .. MaxFailures

ChunksInit ==
    /\ listed = FirstList /\ deleted = {} /\ edits = 0
    /\ blobs = {}
    /\ builder = [b \in Builders |-> Unbegun]
    /\ latest = NoCache
    /\ failures = 0

-----------------------------------------------------------------------------
(* The layout: update_for_community *)

\* finalize_blob.
Finalized(layout) ==
    [layout EXCEPT !.chunks = Append(@, layout.open), !.open = <<>>, !.size = 0]

\* One turn of the loop.  The comma that joins two listings is not counted.
Added(layout, listing) ==
    IF layout.open = <<>>
    THEN [layout EXCEPT !.open = <<listing>>, !.size = SizeOf[listing]]
    ELSE IF layout.size + SizeOf[listing] + 2 > ChunkLimit
         THEN [Finalized(layout) EXCEPT !.open = <<listing>>, !.size = SizeOf[listing]]
         ELSE [layout EXCEPT !.open = Append(@, listing), !.size = @ + 1 + SizeOf[listing]]

\* What the loop has made of the whole list.
Laid(list) ==
    LET laid[n \in 0 .. Len(list)] ==
            IF n = 0 THEN [chunks |-> <<>>, open |-> <<>>, size |-> 0]
                     ELSE Added(laid[n - 1], list[n])
    IN  laid[Len(list)]

\* Mutant of Layout: the last chunk is not closed.
LayoutOfFullChunks(list) == Laid(list).chunks

Layout(list) ==
    IF Laid(list).open # <<>> \/ Laid(list).chunks = <<>>
    THEN Finalized(Laid(list)).chunks
    ELSE Laid(list).chunks

-----------------------------------------------------------------------------
(* The builders: update_api_v1_chunked_package_caches *)

Step(b, record) == builder' = [builder EXCEPT ![b] = record]

\* A new group, and get_package_listing_ids.
QueryIds(b) ==
    /\ builder[b].at = "idle"
    /\ Step(b, [Unbegun EXCEPT !.at = "ids", !.ids = listed])
    /\ UNCHANGED <<listed, deleted, edits, blobs, latest, failures>>

\* get_package_listing_chunk: the listings that still exist, in the order of the ids.
LoadListings(b) ==
    /\ builder[b].at = "ids"
    /\ LET shown == Kept(builder[b].ids, Listings \ deleted)
       IN  Step(b, [builder[b] EXCEPT !.at = "chunks", !.shown = shown, !.todo = Layout(shown)])
    /\ UNCHANGED <<listed, deleted, edits, blobs, latest, failures>>

\* What the builder wants a blob of.
Content(b) ==
    IF builder[b].at = "chunks" THEN [chunk |-> Head(builder[b].todo)]
                                ELSE [index |-> ToSet(builder[b].entries)]

WantsBlob(b) ==
    \/ builder[b].at = "chunks" /\ builder[b].todo # <<>>
    \/ builder[b].at = "index"

\* add_entry puts the blob into the group; the index blob is for the cache's row.
HasBlob(b) ==
    Step(b, IF builder[b].at = "chunks"
            THEN [builder[b] EXCEPT !.entries = Append(@, Head(builder[b].todo)),
                                    !.todo = Tail(@), !.missing = FALSE]
            ELSE [builder[b] EXCEPT !.at = "row", !.missing = FALSE])

\* DataBlob.get_or_create, first its query.
FindBlob(b) ==
    /\ WantsBlob(b) /\ ~builder[b].missing
    /\ IF Content(b) \in blobs THEN HasBlob(b) ELSE Step(b, [builder[b] EXCEPT !.missing = TRUE])
    /\ UNCHANGED <<listed, deleted, edits, blobs, latest, failures>>

\* Then the insertion.  If somebody else was faster, the unique column raises an error
\* that ends this update and leaves its group incomplete.
CreateBlob(b) ==
    /\ WantsBlob(b) /\ builder[b].missing
    /\ IF Content(b) \in blobs
       THEN Step(b, Unbegun) /\ UNCHANGED blobs
       ELSE blobs' = blobs \cup {Content(b)} /\ HasBlob(b)
    /\ UNCHANGED <<listed, deleted, edits, latest, failures>>

\* group.set_complete.
SetComplete(b) ==
    /\ builder[b].at = "chunks" /\ builder[b].todo = <<>>
    /\ Step(b, [builder[b] EXCEPT !.at = "index"])
    /\ UNCHANGED <<listed, deleted, edits, blobs, latest, failures>>

\* Mutant of CreateCache: a community that has a cache gets no other.
CreateCacheOnce(b) ==
    /\ builder[b].at = "row"
    /\ latest' = IF latest # NoCache
                 THEN latest
                 ELSE [ids |-> builder[b].ids, shown |-> builder[b].shown,
                       entries |-> builder[b].entries, index |-> Content(b)]
    /\ Step(b, Unbegun)
    /\ UNCHANGED <<listed, deleted, edits, blobs, failures>>

\* cls.objects.create: from now on this is the latest cache.
CreateCache(b) ==
    /\ builder[b].at = "row"
    /\ latest' = [ids |-> builder[b].ids, shown |-> builder[b].shown,
                  entries |-> builder[b].entries, index |-> Content(b)]
    /\ Step(b, Unbegun)
    /\ UNCHANGED <<listed, deleted, edits, blobs, failures>>

\* Any other error, or the task is killed.
BuildFails(b) ==
    /\ builder[b].at # "idle" /\ failures < MaxFailures
    /\ failures' = failures + 1
    /\ Step(b, Unbegun)
    /\ UNCHANGED <<listed, deleted, edits, blobs, latest>>

-----------------------------------------------------------------------------
(* The community's listings: reviews, uploads, edits; and deletions in the admin *)

Without(list, l) == Kept(list, Listings \ {l})

\* Listing l appears in the index, leaves it or moves within.
EditListing(l) ==
    /\ edits < MaxEdits /\ edits' = edits + 1
    /\ l \notin deleted
    /\ listed' \in {list \in Lists : Without(list, l) = Without(listed, l)}
    /\ UNCHANGED <<deleted, blobs, builder, latest, failures>>

DeleteListing(l) ==
    /\ edits < MaxEdits /\ edits' = edits + 1
    /\ l \notin deleted
    /\ deleted' = deleted \cup {l}
    /\ listed' = Without(listed, l)
    /\ UNCHANGED <<blobs, builder, latest, failures>>

-----------------------------------------------------------------------------

BuilderStep(b) ==
    \/ QueryIds(b) \/ LoadListings(b) \/ FindBlob(b) \/ CreateBlob(b) \/ SetComplete(b)
    \/ CreateCache(b)

ChunksNext ==
    \/ \E b \in Builders : BuilderStep(b) \/ BuildFails(b)
    \/ \E l \in Listings : EditListing(l) \/ DeleteListing(l)

ChunksSpec ==
    /\ ChunksInit /\ [][ChunksNext]_chunkVars
    /\ \A b \in Builders : WF_chunkVars(BuilderStep(b))

-----------------------------------------------------------------------------
(* Properties *)

\* Bytes of a chunk's JSON: its brackets, its listings, and a comma between two of them.
Bytes(chunk) ==
    LET bytes[n \in 0 .. Len(chunk)] ==
            IF n = 0 THEN 1 ELSE bytes[n - 1] + SizeOf[chunk[n]] + 1
    IN  bytes[Len(chunk)]

\* The latest cache can be read to the end: its index and all the chunks it names are
\* blobs, together the chunks hold every listing of the query that still existed, once
\* and in order, no chunk of several listings is larger than the limit by more than
\* one comma, which is not counted, and there is no empty chunk but an only one.
ChunkedIsComplete ==
    latest # NoCache =>
        /\ latest.index \in blobs
        /\ latest.index = [index |-> ToSet(latest.entries)]
        /\ \A chunk \in ToSet(latest.entries) :
               /\ [chunk |-> chunk] \in blobs
               /\ Len(chunk) > 1 => Bytes(chunk) <= ChunkLimit + 1
               /\ chunk = <<>> => Len(latest.entries) = 1
        /\ FlattenSeq(latest.entries) = latest.shown
        /\ \E kept \in SUBSET Listings :
               /\ latest.shown = Kept(latest.ids, kept)
               /\ ToSet(latest.ids) \ kept \subseteq deleted

\* Once the listings rest, the latest cache shows them, although builders that overlap
\* make each other fail.
IndexCatchesUp == <>[](latest # NoCache /\ latest.shown = listed)

=============================================================================
