------------------------------- MODULE MCCaches -------------------------------
(***************************************************************************)
(* The four caches, and the package wikis a client keeps copies of, for    *)
(* TLC.  They share nothing in the code, so a behaviour takes the steps of *)
(* one of them only, and their states add up instead of multiplying.       *)
(***************************************************************************)
EXTENDS PageCache, PackageIndexes, ChunkedIndexes, VersionCursor, PackageWikis

CONSTANTS a, b, c

VARIABLE focus

cachesVars == <<focus, pagesVars, indexVars, chunkVars, cursorVars, wikiVars>>

MCIndexes == 1 .. 3

MCFirstList == <<a, c, b>>

\* Two of a and b fill a chunk, c is larger than the limit.
MCSizeOf == [l \in {a, b, c} |-> IF l = c THEN 9 ELSE 3]

CachesTypeOK == PagesTypeOK /\ IndexesTypeOK /\ ChunksTypeOK /\ CursorTypeOK /\ WikisTypeOK

CachesInit ==
    /\ focus \in {"pages", "indexes", "chunks", "cursor", "wikis"}
    /\ PagesInit /\ IndexesInit /\ ChunksInit /\ CursorInit /\ WikisInit

CachesNext ==
    /\ UNCHANGED focus
    /\ \/ focus = "pages" /\ PagesNext
          /\ UNCHANGED <<indexVars, chunkVars, cursorVars, wikiVars>>
       \/ focus = "indexes" /\ IndexesNext
          /\ UNCHANGED <<pagesVars, chunkVars, cursorVars, wikiVars>>
       \/ focus = "chunks" /\ ChunksNext
          /\ UNCHANGED <<pagesVars, indexVars, cursorVars, wikiVars>>
       \/ focus = "cursor" /\ CursorNext
          /\ UNCHANGED <<pagesVars, indexVars, chunkVars, wikiVars>>
       \/ focus = "wikis" /\ WikisNext
          /\ UNCHANGED <<pagesVars, indexVars, chunkVars, cursorVars>>

\* The fairness of each specification, for the cache that moves.
CachesSpec ==
    /\ CachesInit /\ [][CachesNext]_cachesVars
    /\ WF_pagesVars(focus = "pages" /\ EntryExpires)
    /\ WF_pagesVars(focus = "pages" /\ LockExpires)
    /\ \A p \in Readers : /\ WF_pagesVars(focus = "pages" /\ ReaderStep(p))
                          /\ SF_pagesVars(focus = "pages" /\ Acquire(p))
    /\ \A t \in Tasks : WF_indexVars(focus = "indexes" /\ TaskStep(t))
    /\ \A d \in Builders : WF_chunkVars(focus = "chunks" /\ BuilderStep(d))

\* IndexCatchesUp of ChunkedIndexes, where builders run: once the listings rest, the
\* latest cache shows them, although builders that overlap make each other fail.
ChunksCatchUp == focus = "chunks" => IndexCatchesUp

=============================================================================
