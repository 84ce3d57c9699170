------------------------- MODULE PackageIndexesProofs -------------------------
(***************************************************************************)
(* The indexes of packages, for any number of rows, listings, versions,    *)
(* tasks, builders and clients, and any number of tasks killed.            *)
(*                                                                         *)
(* Part 1, PackageIndexes: the index of a community is always served.      *)
(* Part 2, ChunkedIndexes: the latest chunked index is complete.           *)
(* Part 3, VersionCursor: the walk through the versions misses only the    *)
(* overtaken.                                                              *)
(***************************************************************************)
EXTENDS PackageIndexes, ChunkedIndexes, VersionCursor, SequenceTheorems, FiniteSetTheorems,
        WellFoundedInduction, TLAPS

-----------------------------------------------------------------------------
(* Part 1: the files of an index.  What a task has queried as stale may be *)
(* queried by others as well, and change under it.  What stays true is     *)
(* that such a row is superseded by an active one, and that the            *)
(* superseding row cannot go without being superseded itself.              *)

Superseded(e) == \E f \in ActiveRows : OlderBy(e, f)

ActiveHaveFiles == ActiveRows \subseteq files

\* A file that is saved and has no row yet is known to one task only.
SavedIsNew ==
    \A t \in Tasks : task[t].at = "saved" =>
        /\ task[t].at_hand \in files
        /\ task[t].at_hand \in Indexes /\ index[task[t].at_hand].row = "absent"
        /\ \A u \in Tasks : /\ task[t].at_hand \notin task[u].stale
                            /\ u # t => task[t].at_hand # task[u].at_hand
        /\ \A c \in Clients : client[c] # task[t].at_hand

\* What a task is deleting is one of the stale rows, and not active any more.
HeldIsStale ==
    \A t \in Tasks : task[t].at \in {"marked", "removed", "emptied"} =>
        task[t].at_hand \in task[t].stale /\ task[t].at_hand \notin ActiveRows

StaleIsOld ==
    \A t \in Tasks : \A e \in task[t].stale : e \notin ActiveRows \/ Superseded(e)

ReadIsCurrent ==
    \A c \in Clients : client[c] # None => client[c] \in ActiveRows \/ Superseded(client[c])

IndexInv ==
    /\ IndexesTypeOK /\ ActiveHaveFiles /\ SavedIsNew
    /\ HeldIsStale /\ StaleIsOld /\ ReadIsCurrent

-----------------------------------------------------------------------------
(* Rows *)

\* Among active rows there is a latest one, no older than a given one.
LEMMA LatestExists ==
    ASSUME IndexesTypeOK, NEW e \in ActiveRows
    PROVE  \E f \in Latest : index[e].made <= index[f].made
<1> DEFINE age(f) == MaxTime - index[f].made
           Ages == {age(f) : f \in ActiveRows}
           Less == {pair \in Nat \X Nat : pair[1] < pair[2]}
<1>1. \A f \in ActiveRows : f \in Indexes /\ index[f].made \in Nat /\ age(f) \in Nat
  BY IndexesAssumption DEF IndexesTypeOK, ActiveRows
<1>2. Ages \subseteq Nat /\ Ages # {} BY <1>1
<1>3. IsWellFoundedOn(Less, Nat)
  BY NatLessThanWellFounded, Zenon DEF OpToRel
<1>4. \E x \in Ages : \A y \in Ages : ~(<<y, x>> \in Less)
  <2> HIDE DEF Ages, Less
  <2> QED BY <1>2, <1>3, WFMin
<1>5. PICK f \in ActiveRows : \A g \in ActiveRows : ~(<<age(g), age(f)>> \in Less)
  BY <1>4
<1>6. \A g \in ActiveRows : age(f) <= age(g)
  <2>1. \A x, y \in Nat : x < y => <<x, y>> \in Less OBVIOUS
  <2> HIDE DEF Less
  <2>2. ASSUME NEW g \in ActiveRows PROVE ~(age(g) < age(f)) BY <1>1, <1>5, <2>1
  <2> QED BY <1>1, <2>2
<1>7. \A g \in ActiveRows : index[g].made <= index[f].made
  BY <1>1, <1>6, IndexesAssumption
<1> QED BY <1>1, <1>7 DEF Latest

LEMMA MadeIsNat ==
    ASSUME IndexesTypeOK
    PROVE  \A e \in Indexes : index[e].made \in Nat
  BY IndexesAssumption DEF IndexesTypeOK

\* Rows are superseded by later ones, never by themselves.
LEMMA OlderIsAnOrder ==
    ASSUME IndexesTypeOK, NEW e \in Indexes, NEW f \in Indexes, NEW g \in Indexes
    PROVE  /\ ~OlderBy(e, e)
           /\ OlderBy(e, f) /\ OlderBy(f, g) => OlderBy(e, g)
           /\ OlderBy(e, f) /\ index[f].made <= index[g].made => OlderBy(e, g)
  BY MadeIsNat, IndexesAssumption DEF OlderBy

\* Stale rows are superseded.
LEMMA StaleIsSuperseded ==
    \A e \in StaleRows : Superseded(e)
  BY DEF StaleRows, Latest, Superseded

\* A row that is not new loses its file or its place: what was superseded still is.
LEMMA RowDropped ==
    ASSUME IndexesTypeOK, NEW e \in Indexes, NEW row \in Rows \ {"active"},
           e \notin ActiveRows \/ Superseded(e), SetRow(e, row)
    PROVE  /\ index' \in [Indexes -> [row : Rows, made : 0 .. MaxTime]]
           /\ ActiveRows' = ActiveRows \ {e}
           /\ \A x \in Indexes : Superseded(x) => Superseded(x)'
           /\ ActiveRows # {} => ActiveRows' # {}
           /\ \A x \in Indexes : x # e => index'[x] = index[x]
<1>1. /\ index' = [index EXCEPT ![e] = [row |-> row, made |-> index[e].made]]
      /\ index[e].made \in 0 .. MaxTime
  <2>1. index[e] \in [row : Rows, made : 0 .. MaxTime] BY DEF IndexesTypeOK
  <2>2. [index[e] EXCEPT !.row = row] = [row |-> row, made |-> index[e].made] BY <2>1
  <2> QED BY <2>1, <2>2, Zenon DEF SetRow
<1>2. index' \in [Indexes -> [row : Rows, made : 0 .. MaxTime]]
  BY <1>1 DEF IndexesTypeOK
<1>3. ActiveRows' = ActiveRows \ {e} BY <1>1 DEF ActiveRows, IndexesTypeOK
<1>4. \A x, f \in Indexes : OlderBy(x, f)' <=> OlderBy(x, f)
  BY <1>1 DEF OlderBy, IndexesTypeOK
<1>5. ASSUME NEW x \in Indexes, NEW f \in ActiveRows, OlderBy(x, f)
      PROVE  \E g \in ActiveRows \ {e} : OlderBy(x, g)
  <2>1. CASE f # e BY <1>5, <2>1
  <2>2. CASE f = e
    <3>1. PICK g \in ActiveRows : OlderBy(e, g) BY <2>2 DEF Superseded
    <3> QED BY <1>5, <2>2, <3>1, OlderIsAnOrder DEF ActiveRows
  <2> QED BY <2>1, <2>2
<1>6. \A x \in Indexes : Superseded(x) => Superseded(x)'
  BY <1>3, <1>4, <1>5 DEF Superseded, ActiveRows
<1>7. ActiveRows # {} => ActiveRows' # {}
  <2>1. CASE e \in ActiveRows
    <3>1. PICK g \in ActiveRows : OlderBy(e, g) BY <2>1 DEF Superseded
    <3> QED BY <1>3, <3>1, OlderIsAnOrder DEF ActiveRows
  <2> QED BY <1>3, <2>1
<1>8. \A x \in Indexes : x # e => index'[x] = index[x] BY <1>1 DEF IndexesTypeOK
<1> QED BY <1>2, <1>3, <1>6, <1>7, <1>8

-----------------------------------------------------------------------------
(* The files clients read *)

LEMMA InvFilesAreThere == IndexInv => FilesAreThere
<1> SUFFICES ASSUME IndexInv PROVE FilesAreThere OBVIOUS
<1>1. Latest \subseteq files BY DEF IndexInv, ActiveHaveFiles, Latest
<1>2. ASSUME NEW c \in Clients, client[c] # None
      PROVE  client[c] \in files \/ \E f \in Latest : OlderBy(client[c], f)
  <2>1. CASE client[c] \in ActiveRows BY <2>1 DEF IndexInv, ActiveHaveFiles
  <2>2. CASE Superseded(client[c])
    <3>1. PICK f \in ActiveRows : OlderBy(client[c], f) BY <2>2 DEF Superseded
    <3>2. PICK g \in Latest : index[f].made <= index[g].made
      BY LatestExists DEF IndexInv
    <3>3. client[c] \in Indexes /\ f \in Indexes /\ g \in Indexes
      BY <1>2 DEF IndexInv, IndexesTypeOK, ActiveRows, Latest
    <3> QED BY <3>1, <3>2, <3>3, OlderIsAnOrder DEF IndexInv
  <2> QED BY <1>2, <2>1, <2>2 DEF IndexInv, ReadIsCurrent
<1> QED BY <1>1, <1>2 DEF FilesAreThere

-----------------------------------------------------------------------------
(* The initial state, and the steps *)

LEMMA IndexInitInv == IndexesInit => IndexInv
  BY IndexesAssumption
  DEF IndexesInit, IndexInv, IndexesTypeOK, Task, TaskSteps, Rows, Resting, ActiveHaveFiles,
      ActiveRows, SavedIsNew, HeldIsStale, StaleIsOld, ReadIsCurrent

ServedNext == ActiveRows # {} => ActiveRows' # {}

\* Steps that leave the rows alone.
LEMMA SameRows ==
    ASSUME UNCHANGED index
    PROVE  /\ ActiveRows' = ActiveRows
           /\ \A e : Superseded(e)' <=> Superseded(e)
  BY DEF ActiveRows, Superseded, OlderBy

\* Steps of a task that leave the rows and the files alone, and hold what they held or
\* nothing, or the stale rows.
LEMMA SameRowsTask ==
    ASSUME IndexInv, NEW t \in Tasks, NEW work \in Task,
           task' = [task EXCEPT ![t] = work],
           UNCHANGED <<clock, index, files, client>>, faults' \in 0 .. MaxFaults,
           work.at \notin {"saved", "marked", "removed", "emptied"},
           work.at_hand \in {None, task[t].at_hand},
           work.stale \subseteq task[t].stale \cup StaleRows
    PROVE  IndexInv' /\ ServedNext
<1>1. /\ task' \in [Tasks -> Task] /\ task'[t] = work
      /\ \A u \in Tasks : u # t => task'[u] = task[u]
  BY DEF IndexInv, IndexesTypeOK
<1>2. IndexesTypeOK' BY <1>1 DEF IndexInv, IndexesTypeOK
<1>3. ActiveHaveFiles' BY SameRows DEF IndexInv, ActiveHaveFiles
<1>4. SavedIsNew'
  BY <1>1, IndexesAssumption DEF IndexInv, SavedIsNew, StaleRows
<1>5. HeldIsStale' BY <1>1, SameRows DEF IndexInv, HeldIsStale
<1>6. StaleIsOld' BY <1>1, SameRows, StaleIsSuperseded DEF IndexInv, StaleIsOld
<1>7. ReadIsCurrent' BY SameRows DEF IndexInv, ReadIsCurrent
<1> QED BY <1>2, <1>3, <1>4, <1>5, <1>6, <1>7, SameRows DEF IndexInv, ServedNext

\* Steps of a task that change one of the stale rows, and keep its file.
LEMMA DropTask ==
    ASSUME IndexInv, NEW t \in Tasks, NEW work \in Task, NEW e \in task[t].stale,
           NEW row \in Rows \ {"active"}, SetRow(e, row),
           task' = [task EXCEPT ![t] = work],
           UNCHANGED <<clock, files, client, faults>>,
           work.at # "saved", work.at_hand \in {None, e}, work.stale \subseteq task[t].stale,
           work.at \in {"marked", "removed", "emptied"} =>
               work.at_hand = e /\ e \in work.stale
    PROVE  IndexInv' /\ ServedNext
<1>1. /\ task' \in [Tasks -> Task] /\ task'[t] = work
      /\ \A u \in Tasks : u # t => task'[u] = task[u]
  BY DEF IndexInv, IndexesTypeOK
<1>2. \A u \in Tasks : task[u].stale \subseteq Indexes /\ task[u].at_hand \in Indexes \cup {None}
  BY DEF IndexInv, IndexesTypeOK, Task
<1>3. e \in Indexes BY <1>2
<1>4. e \notin ActiveRows \/ Superseded(e) BY DEF IndexInv, StaleIsOld
<1>5. /\ index' \in [Indexes -> [row : Rows, made : 0 .. MaxTime]]
      /\ ActiveRows' = ActiveRows \ {e}
      /\ \A x \in Indexes : Superseded(x) => Superseded(x)'
      /\ ServedNext
      /\ \A x \in Indexes : x # e => index'[x] = index[x]
  BY <1>3, <1>4, RowDropped DEF IndexInv, ServedNext
<1>7. IndexesTypeOK' BY <1>1, <1>5 DEF IndexInv, IndexesTypeOK
<1>8. ActiveHaveFiles' BY <1>5 DEF IndexInv, ActiveHaveFiles
<1>9. SavedIsNew'
  <2> SUFFICES ASSUME NEW u \in Tasks, task'[u].at = "saved"
               PROVE  /\ task'[u].at_hand \in files
                      /\ task'[u].at_hand \in Indexes
                      /\ index'[task'[u].at_hand].row = "absent"
                      /\ \A w \in Tasks : /\ task'[u].at_hand \notin task'[w].stale
                                          /\ w # u => task'[u].at_hand # task'[w].at_hand
                      /\ \A c \in Clients : client[c] # task'[u].at_hand
    BY DEF SavedIsNew
  <2>1. u # t /\ task'[u] = task[u] BY <1>1
  <2> DEFINE x == task[u].at_hand
  <2>2. /\ x \in files /\ x \in Indexes /\ index[x].row = "absent"
        /\ \A w \in Tasks : x \notin task[w].stale /\ (w # u => x # task[w].at_hand)
        /\ \A c \in Clients : client[c] # x
    BY <2>1 DEF IndexInv, SavedIsNew
  <2>3. x # e /\ x # None BY <2>2, IndexesAssumption
  <2>4. index'[x] = index[x] BY <1>5, <2>2, <2>3
  <2> HIDE DEF x
  <2>5. \A w \in Tasks : x \notin task'[w].stale /\ (w # u => x # task'[w].at_hand)
    BY <1>1, <2>2, <2>3
  <2> QED BY <2>1, <2>2, <2>4, <2>5 DEF x
<1>10. HeldIsStale' BY <1>1, <1>5 DEF IndexInv, HeldIsStale
<1>11. StaleIsOld' BY <1>1, <1>2, <1>4, <1>5 DEF IndexInv, StaleIsOld
<1>12. ReadIsCurrent'
  <2>1. ASSUME NEW c \in Clients, client[c] # None
        PROVE  client[c] \in ActiveRows' \/ Superseded(client[c])'
    <3>1. client[c] \in Indexes BY <2>1 DEF IndexInv, IndexesTypeOK
    <3> QED BY <2>1, <3>1, <1>3, <1>4, <1>5 DEF IndexInv, ReadIsCurrent
  <2>2. client' = client OBVIOUS
  <2> QED BY <2>1, <2>2 DEF ReadIsCurrent, Superseded, OlderBy
<1> QED BY <1>5, <1>7, <1>8, <1>9, <1>10, <1>11, <1>12 DEF IndexInv

\* A file under a name nobody knows.
LEMMA SaveFileInv ==
    ASSUME IndexInv, NEW t \in Tasks, SaveFile(t)
    PROVE  IndexInv' /\ ServedNext
<1>1. PICK e \in Unused :
          /\ files' = files \cup {e}
          /\ task' = [task EXCEPT ![t].at = "saved", ![t].at_hand = e]
  BY DEF SaveFile
<1>2. e \in Indexes BY DEF Unused
<1>3. /\ task'[t].at = "saved" /\ task'[t].at_hand = e /\ task'[t].stale = task[t].stale
      /\ \A u \in Tasks : u # t => task'[u] = task[u]
      /\ task' \in [Tasks -> Task]
  <2>1. task[t] \in Task BY DEF IndexInv, IndexesTypeOK
  <2>2. task' = [task EXCEPT ![t] = [task[t] EXCEPT !.at = "saved", !.at_hand = e]]
    BY <1>1
  <2>3. /\ [task[t] EXCEPT !.at = "saved", !.at_hand = e] \in Task
        /\ [task[t] EXCEPT !.at = "saved", !.at_hand = e].at = "saved"
        /\ [task[t] EXCEPT !.at = "saved", !.at_hand = e].at_hand = e
        /\ [task[t] EXCEPT !.at = "saved", !.at_hand = e].stale = task[t].stale
    BY <1>2, <2>1 DEF Task, TaskSteps
  <2> QED BY <2>2, <2>3, Zenon DEF IndexInv, IndexesTypeOK
<1>4. UNCHANGED <<clock, index, client, faults>> BY DEF SaveFile
<1>5. IndexesTypeOK' BY <1>1, <1>2, <1>3, <1>4 DEF IndexInv, IndexesTypeOK
<1>6. ActiveHaveFiles' BY <1>1, <1>4, SameRows DEF IndexInv, ActiveHaveFiles
<1>7. SavedIsNew' BY <1>1, <1>2, <1>3, <1>4 DEF IndexInv, SavedIsNew, Unused
<1>8. HeldIsStale' BY <1>3, <1>4, SameRows DEF IndexInv, HeldIsStale
<1>9. StaleIsOld' BY <1>3, <1>4, SameRows DEF IndexInv, StaleIsOld
<1>10. ReadIsCurrent' BY <1>4, SameRows DEF IndexInv, ReadIsCurrent
<1> QED BY <1>4, <1>5, <1>6, <1>7, <1>8, <1>9, <1>10, SameRows DEF IndexInv, ServedNext

\* The row of a new file: what is superseded stays so.
LEMMA InsertRowInv ==
    ASSUME IndexInv, NEW t \in Tasks, InsertRow(t)
    PROVE  IndexInv' /\ ServedNext
<1> DEFINE e == task[t].at_hand
<1>1. /\ e \in Indexes /\ e \in files /\ e \notin ActiveRows /\ task[t].made \in 0 .. MaxTime
      /\ \A u \in Tasks : e \notin task[u].stale /\ (u # t => e # task[u].at_hand)
      /\ \A c \in Clients : client[c] # e
  BY DEF IndexInv, SavedIsNew, InsertRow, ActiveRows, IndexesTypeOK, Task
<1>2. /\ task'[t].at = "drop" /\ task'[t].stale = {} /\ task'[t].at_hand = None
      /\ \A u \in Tasks : u # t => task'[u] = task[u]
      /\ task' \in [Tasks -> Task]
  <2>1. [Resting EXCEPT !.at = "drop"] \in Task
    BY IndexesAssumption DEF Resting, Task, TaskSteps
  <2>2. task' = [task EXCEPT ![t] = [Resting EXCEPT !.at = "drop"]] BY DEF InsertRow
  <2> QED BY <2>1, <2>2 DEF IndexInv, IndexesTypeOK, Resting
<1>3. UNCHANGED <<clock, files, client, faults>> BY DEF InsertRow
<1>4. /\ index' = [index EXCEPT ![e] = [row |-> "active", made |-> task[t].made]]
      /\ index' \in [Indexes -> [row : Rows, made : 0 .. MaxTime]]
  BY <1>1 DEF InsertRow, IndexInv, IndexesTypeOK, Rows
<1> HIDE DEF e
<1>5. \A x \in Indexes : x # e => index'[x] = index[x]
  BY <1>4 DEF IndexInv, IndexesTypeOK
<1>6. ActiveRows' = ActiveRows \cup {e}
  BY <1>1, <1>4 DEF ActiveRows, IndexInv, IndexesTypeOK
<1>7. ASSUME NEW x \in Indexes, x # e, Superseded(x)
      PROVE  \E f \in ActiveRows' : OlderBy(x, f)'
  <2>1. PICK f \in ActiveRows : OlderBy(x, f) BY <1>7 DEF Superseded
  <2>2. f \in Indexes /\ f # e BY <1>1 DEF ActiveRows
  <2> QED BY <1>5, <1>6, <1>7, <2>1, <2>2 DEF OlderBy
<1>8. IndexesTypeOK' BY <1>2, <1>3, <1>4 DEF IndexInv, IndexesTypeOK
<1>9. ActiveHaveFiles' BY <1>1, <1>3, <1>6 DEF IndexInv, ActiveHaveFiles
<1>10. SavedIsNew'
  <2> SUFFICES ASSUME NEW u \in Tasks, task'[u].at = "saved"
               PROVE  /\ task'[u].at_hand \in files'
                      /\ task'[u].at_hand \in Indexes
                      /\ index'[task'[u].at_hand].row = "absent"
                      /\ \A w \in Tasks : /\ task'[u].at_hand \notin task'[w].stale
                                          /\ w # u => task'[u].at_hand # task'[w].at_hand
                      /\ \A c \in Clients : client'[c] # task'[u].at_hand
    BY DEF SavedIsNew
  <2>1. u # t /\ task'[u] = task[u] BY <1>2
  <2> DEFINE x == task[u].at_hand
  <2>2. /\ x \in files /\ x \in Indexes /\ index[x].row = "absent"
        /\ \A w \in Tasks : x \notin task[w].stale /\ (w # u => x # task[w].at_hand)
        /\ \A c \in Clients : client[c] # x
    BY <2>1 DEF IndexInv, SavedIsNew
  <2>3. x # e /\ x # None BY <1>1, <2>1, <2>2, IndexesAssumption
  <2>4. index'[x] = index[x] BY <1>5, <2>2, <2>3
  <2> HIDE DEF x
  <2>5. \A w \in Tasks : x \notin task'[w].stale /\ (w # u => x # task'[w].at_hand)
    BY <1>2, <2>2, <2>3
  <2> QED BY <1>3, <2>1, <2>2, <2>4, <2>5 DEF x
<1>11. HeldIsStale' BY <1>1, <1>2, <1>6 DEF IndexInv, HeldIsStale
<1>12. StaleIsOld'
  <2>1. \A u \in Tasks : task[u].stale \subseteq Indexes BY DEF IndexInv, IndexesTypeOK, Task
  <2> QED BY <1>1, <1>2, <1>6, <1>7, <2>1 DEF IndexInv, StaleIsOld, Superseded
<1>13. ReadIsCurrent'
  <2>1. \A c \in Clients : client[c] # None => client[c] \in Indexes BY DEF IndexInv, IndexesTypeOK
  <2> QED BY <1>1, <1>3, <1>6, <1>7, <2>1 DEF IndexInv, ReadIsCurrent, Superseded
<1> QED BY <1>6, <1>8, <1>9, <1>10, <1>11, <1>12, <1>13 DEF IndexInv, ServedNext

\* The file of a row that is not active goes.
LEMMA RemoveFileInv ==
    ASSUME IndexInv, NEW t \in Tasks, RemoveFile(t)
    PROVE  IndexInv' /\ ServedNext
<1> DEFINE e == task[t].at_hand
<1>1. e \in task[t].stale /\ e \notin ActiveRows
  BY DEF RemoveFile, IndexInv, HeldIsStale
<1>2. /\ UNCHANGED <<clock, index, client, faults>>
      /\ files \ {e} \subseteq files' /\ files' \subseteq files
  BY DEF RemoveFile
<1>3. /\ task'[t].at \in {"removed", "emptied"}
      /\ task'[t].at_hand = e /\ task'[t].stale = task[t].stale
      /\ \A u \in Tasks : u # t => task'[u] = task[u]
      /\ task' \in [Tasks -> Task]
  BY DEF RemoveFile, Proceed, IndexInv, IndexesTypeOK, Task, TaskSteps
<1> HIDE DEF e
<1>4. IndexesTypeOK' BY <1>2, <1>3 DEF IndexInv, IndexesTypeOK
<1>5. ActiveHaveFiles' BY <1>1, <1>2, SameRows DEF IndexInv, ActiveHaveFiles
<1>6. SavedIsNew' BY <1>1, <1>2, <1>3 DEF IndexInv, SavedIsNew, e
<1>7. HeldIsStale' BY <1>1, <1>2, <1>3, SameRows DEF IndexInv, HeldIsStale
<1>8. StaleIsOld' BY <1>2, <1>3, SameRows DEF IndexInv, StaleIsOld
<1>9. ReadIsCurrent' BY <1>2, SameRows DEF IndexInv, ReadIsCurrent
<1> QED BY <1>2, <1>4, <1>5, <1>6, <1>7, <1>8, <1>9, SameRows DEF IndexInv, ServedNext

\* Clients read what is active; the clock ticks.
LEMMA OthersInv ==
    ASSUME IndexInv, Tick \/ \E c \in Clients : OpenIndex(c) \/ FetchIndex(c)
    PROVE  IndexInv' /\ ServedNext
<1>1. /\ UNCHANGED <<index, files, task, faults>>
      /\ clock' \in 0 .. MaxTime
      /\ client' \in [Clients -> Indexes \cup {None}]
      /\ \A c \in Clients : client'[c] \in {None, client[c]} \cup Latest
  BY IndexesAssumption
  DEF Tick, OpenIndex, FetchIndex, IndexInv, IndexesTypeOK, Latest, ActiveRows
<1>2. IndexesTypeOK' BY <1>1 DEF IndexInv, IndexesTypeOK
<1>3. ActiveHaveFiles' BY <1>1, SameRows DEF IndexInv, ActiveHaveFiles
<1>4. SavedIsNew'
  BY <1>1, IndexesAssumption DEF IndexInv, SavedIsNew, Latest, ActiveRows
<1>5. HeldIsStale' /\ StaleIsOld' BY <1>1, SameRows DEF IndexInv, HeldIsStale, StaleIsOld
<1>6. ReadIsCurrent' BY <1>1, SameRows DEF IndexInv, ReadIsCurrent, Latest
<1> QED BY <1>1, <1>2, <1>3, <1>4, <1>5, <1>6, SameRows DEF IndexInv, ServedNext

-----------------------------------------------------------------------------
(* Theorems *)

LEMMA TaskStepInv ==
    ASSUME IndexInv, NEW t \in Tasks, TaskStep(t)
    PROVE  IndexInv' /\ ServedNext
<1>1. task[t] \in Task BY DEF IndexInv, IndexesTypeOK
<1>3. Resting \in Task /\ [Resting EXCEPT !.at = "drop"] \in Task
  BY IndexesAssumption DEF Resting, Task, TaskSteps
<1>4. CASE BuildIndex(t)
  <2> DEFINE work == [task[t] EXCEPT !.at = "stamped", !.made = clock]
  <2>1. work \in Task /\ work.at = "stamped" /\ work.at_hand = task[t].at_hand
        /\ work.stale = task[t].stale
    BY <1>1 DEF IndexInv, IndexesTypeOK, Task, TaskSteps
  <2>2. task' = [task EXCEPT ![t] = work] /\ UNCHANGED <<clock, index, files, client, faults>>
    BY <1>4 DEF BuildIndex
  <2> HIDE DEF work
  <2> QED BY <2>1, <2>2, SameRowsTask DEF IndexInv, IndexesTypeOK
<1>5. CASE SaveFile(t) BY <1>5, SaveFileInv
<1>6. CASE InsertRow(t) BY <1>6, InsertRowInv
<1>7. CASE UpdateFails(t)
  <2> DEFINE work == [Resting EXCEPT !.at = "drop"]
  <2>1. work.at = "drop" /\ work.at_hand = None /\ work.stale = {} BY DEF Resting
  <2>2. task' = [task EXCEPT ![t] = work] /\ UNCHANGED <<clock, index, files, client, faults>>
    BY <1>7 DEF UpdateFails
  <2> QED BY <1>3, <2>1, <2>2, SameRowsTask DEF IndexInv, IndexesTypeOK
<1>8. CASE FindStale(t)
  <2> DEFINE named == {e \in StaleRows : index[e].row # "emptied"}
             found == [Resting EXCEPT !.at = "dropping", !.stale = StaleRows, !.named = named]
             work == IF StaleRows = {} THEN Resting ELSE found
  <2>1. StaleRows \subseteq Indexes /\ named \subseteq Indexes BY DEF StaleRows
  <2>2. found \in Task /\ Resting \in Task
    BY <1>3, <2>1, IndexesAssumption DEF Resting, Task, TaskSteps
  <2>3. /\ found.at = "dropping" /\ found.at_hand = None /\ found.stale = StaleRows
        /\ Resting.at = "idle" /\ Resting.at_hand = None /\ Resting.stale = {}
    BY DEF Resting
  <2>4. task' = [task EXCEPT ![t] = work] /\ UNCHANGED <<clock, index, files, client, faults>>
    BY <1>8 DEF FindStale
  <2> HIDE DEF found
  <2>5. work \in Task /\ work.at \in {"idle", "dropping"} /\ work.at_hand = None
        /\ work.stale \subseteq StaleRows
    BY <2>2, <2>3
  <2> HIDE DEF work
  <2> QED BY <2>4, <2>5, SameRowsTask DEF IndexInv, IndexesTypeOK
<1>9. CASE MarkDeleted(t)
  <2>1. PICK e \in task[t].stale :
            IF index[e].row = "absent"
            THEN task' = [task EXCEPT ![t] = Resting] /\ UNCHANGED index
            ELSE /\ task' = [task EXCEPT ![t].at = "marked", ![t].at_hand = e]
                 /\ SetRow(e, IF index[e].row = "emptied" THEN "emptied" ELSE "deleted")
    BY <1>9 DEF MarkDeleted
  <2>2. UNCHANGED <<clock, files, client, faults>> BY <1>9 DEF MarkDeleted
  <2>3. CASE index[e].row = "absent"
    <3>1. Resting.at = "idle" /\ Resting.at_hand = None /\ Resting.stale = {} BY DEF Resting
    <3> QED BY <1>3, <2>1, <2>2, <2>3, <3>1, SameRowsTask DEF IndexInv, IndexesTypeOK
  <2>4. CASE index[e].row # "absent"
    <3> DEFINE work == [task[t] EXCEPT !.at = "marked", !.at_hand = e]
               row == IF index[e].row = "emptied" THEN "emptied" ELSE "deleted"
    <3>1. work \in Task /\ work.at = "marked" /\ work.at_hand = e /\ work.stale = task[t].stale
      BY <1>1 DEF Task, TaskSteps
    <3>2. row \in Rows \ {"active"} BY DEF Rows
    <3>3. task' = [task EXCEPT ![t] = work] /\ SetRow(e, row) BY <2>1, <2>4
    <3> HIDE DEF work, row
    <3> QED BY <2>2, <3>1, <3>2, <3>3, DropTask
  <2> QED BY <2>3, <2>4
<1>10. CASE RemoveFile(t) BY <1>10, RemoveFileInv
<1>11. CASE SaveEmptied(t)
  <2> DEFINE e == task[t].at_hand
             work == [task[t] EXCEPT !.at = "emptied"]
  <2>1. e \in task[t].stale BY <1>11 DEF SaveEmptied, IndexInv, HeldIsStale
  <2>2. work \in Task /\ work.at = "emptied" /\ work.at_hand = e /\ work.stale = task[t].stale
    BY <1>1 DEF Task, TaskSteps
  <2>3. /\ task' = [task EXCEPT ![t] = work] /\ SetRow(e, "emptied")
        /\ UNCHANGED <<clock, files, client, faults>>
    BY <1>11 DEF SaveEmptied, Proceed
  <2>4. "emptied" \in Rows \ {"active"} BY DEF Rows
  <2> HIDE DEF work, e
  <2> QED BY <2>1, <2>2, <2>3, <2>4, DropTask
<1>12. CASE DeleteRow(t)
  <2> DEFINE e == task[t].at_hand
             rest == task[t].stale \ {e}
             more == [Resting EXCEPT !.at = "dropping", !.stale = rest,
                          !.named = task[t].named \cap rest]
             work == IF rest = {} THEN Resting ELSE more
  <2>1. e \in task[t].stale BY <1>12 DEF DeleteRow, IndexInv, HeldIsStale
  <2>2. more \in Task
    BY <1>1, <1>3, IndexesAssumption DEF Resting, Task, TaskSteps
  <2>3. /\ more.at = "dropping" /\ more.at_hand = None /\ more.stale = rest
        /\ Resting.at = "idle" /\ Resting.at_hand = None /\ Resting.stale = {}
    BY DEF Resting
  <2>4. /\ task' = [task EXCEPT ![t] = work] /\ SetRow(e, "absent")
        /\ UNCHANGED <<clock, files, client, faults>>
    BY <1>12 DEF DeleteRow
  <2> HIDE DEF more
  <2>5. work \in Task /\ work.at \in {"idle", "dropping"} /\ work.at_hand = None
        /\ work.stale \subseteq task[t].stale
    BY <1>3, <2>2, <2>3
  <2>6. "absent" \in Rows \ {"active"} BY DEF Rows
  <2> HIDE DEF work, e
  <2> QED BY <2>1, <2>4, <2>5, <2>6, DropTask
<1> QED
  BY <1>4, <1>5, <1>6, <1>7, <1>8, <1>9, <1>10, <1>11, <1>12 DEF TaskStep

LEMMA TaskDiesInv ==
    ASSUME IndexInv, NEW t \in Tasks, TaskDies(t)
    PROVE  IndexInv' /\ ServedNext
<1>1. Resting \in Task BY IndexesAssumption DEF Resting, Task, TaskSteps
<1>2. Resting.at = "idle" /\ Resting.at_hand = None /\ Resting.stale = {} BY DEF Resting
<1>3. /\ task' = [task EXCEPT ![t] = Resting] /\ UNCHANGED <<clock, index, files, client>>
      /\ faults' \in 0 .. MaxFaults
  BY IndexesAssumption DEF TaskDies, IndexInv, IndexesTypeOK
<1> QED BY <1>1, <1>2, <1>3, SameRowsTask

\* Rows only lose their place to active ones: every step keeps the invariant, and keeps
\* an active row if there is one.
LEMMA IndexNextInv ==
    ASSUME IndexInv, [IndexesNext]_indexVars
    PROVE  IndexInv' /\ ServedNext
<1>1. CASE UNCHANGED indexVars
  BY <1>1
  DEF indexVars, IndexInv, IndexesTypeOK, ActiveHaveFiles, SavedIsNew, HeldIsStale, StaleIsOld,
      ReadIsCurrent, Superseded, OlderBy, ActiveRows, ServedNext
<1>2. CASE \E t \in Tasks : TaskStep(t) \/ TaskDies(t) BY <1>2, TaskStepInv, TaskDiesInv
<1>3. CASE Tick \/ \E c \in Clients : OpenIndex(c) \/ FetchIndex(c) BY <1>3, OthersInv
<1> QED BY <1>1, <1>2, <1>3 DEF IndexesNext

THEOREM IndexInvariance == IndexesSpec => []IndexInv
<1>1. IndexInv /\ [IndexesNext]_indexVars => IndexInv' BY IndexNextInv
<1> QED BY IndexInitInv, <1>1, PTL DEF IndexesSpec

\* Every row, file, task and client keeps its type.
THEOREM IndexTypesCorrect == IndexesSpec => []IndexesTypeOK
<1>1. IndexInv => IndexesTypeOK BY DEF IndexInv
<1> QED BY <1>1, IndexInvariance, PTL

\* The latest index has its file, a file that is being read goes only when it has long been
\* superseded, and once there is an index there always is one, whichever runs of the task
\* overlap and wherever they are killed (drop_stale_cache, SafeDeleteMixin.delete).
THEOREM AlwaysServed == IndexesSpec => IndexServed
<1>1. IndexInv /\ [IndexesNext]_indexVars => (ActiveRows # {} => ActiveRows' # {})
  BY IndexNextInv DEF ServedNext
<1>2. IndexInv /\ [IndexesNext]_indexVars => [ActiveRows # {} => ActiveRows' # {}]_indexVars
  BY <1>1
<1> QED BY <1>2, IndexInvariance, InvFilesAreThere, PTL DEF IndexesSpec, IndexServed

-----------------------------------------------------------------------------
(* Part 2: the chunked index.  What its recursive functions compute is     *)
(* shown by induction over the positions of a list.                        *)

-----------------------------------------------------------------------------
(* Recursion over the positions of a list *)

\* Induction, over a set in place of a formula.
LEMMA SetInduction ==
    ASSUME NEW N \in Nat, NEW T,
           0 \in T, \A n \in 0 .. N : n < N /\ n \in T => n + 1 \in T
    PROVE  \A n \in 0 .. N : n \in T
<1>. DEFINE Missed == {n \in Nat : n <= N /\ n \notin T}
            Less == {pair \in Nat \X Nat : pair[1] < pair[2]}
<1>1. IsWellFoundedOn(Less, Nat)
  BY NatLessThanWellFounded, Zenon DEF OpToRel
<1>2. SUFFICES ASSUME Missed # {} PROVE FALSE
  OBVIOUS
<1>3. PICK n \in Missed : \A m \in Missed : ~(<<m, n>> \in Less)
  <2>. HIDE DEF Less
  <2>1. Missed \subseteq Nat
    OBVIOUS
  <2>. QED  BY <1>1, <1>2, <2>1, WFMin
<1>4. n # 0 /\ n - 1 \in 0 .. N /\ n - 1 < N /\ (n - 1) + 1 = n
  OBVIOUS
<1>5. n - 1 \notin T
  BY <1>4
<1>6. n - 1 \in Missed /\ <<n - 1, n>> \in Less
  BY <1>4, <1>5
<1>. QED  BY <1>3, <1>6

\* Functions that are given by one recursion are equal.
LEMMA RecursionIsUnique ==
    ASSUME NEW N \in Nat, NEW f, NEW g,
           f[0] = g[0], \A n \in 1 .. N : f[n - 1] = g[n - 1] => f[n] = g[n]
    PROVE  f[N] = g[N]
<1>. DEFINE T == {n \in 0 .. N : f[n] = g[n]}
<1>1. ASSUME NEW n \in 0 .. N, n < N, n \in T PROVE n + 1 \in T
  <2>1. n + 1 \in 1 .. N /\ (n + 1) - 1 = n
    BY <1>1
  <2>. QED  BY <1>1, <2>1
<1>2. 0 \in T
  OBVIOUS
<1>. HIDE DEF T
<1>3. \A n \in 0 .. N : n \in T
  BY <1>1, <1>2, SetInduction
<1>. QED  BY <1>3 DEF T

\* What a recursion gives that starts with base and goes on with next[n].
Recursions(N, D, base, next) ==
    {f \in [0 .. N -> D] : f[0] = base /\ \A n \in 1 .. N : f[n] = next[<<f[n - 1], n>>]}

\* A recursion whose values stay in a set gives a function.
LEMMA RecursionExists ==
    ASSUME NEW N \in Nat, NEW D, NEW base \in D, NEW next \in [D \X (1 .. N) -> D]
    PROVE  \E f : f \in Recursions(N, D, base, next)
<1>. DEFINE upTo(m, f) ==
         f[0] = base /\ \A n \in 1 .. m : f[n] = next[<<f[n - 1], n>>]
            T == {m \in 0 .. N : \E f \in [0 .. m -> D] : upTo(m, f)}
<1>1. 0 \in T
  <2>. DEFINE f == [n \in 0 .. 0 |-> base]
  <2>1. f \in [0 .. 0 -> D] /\ upTo(0, f)
    OBVIOUS
  <2>. HIDE DEF f
  <2>. QED  BY <2>1
<1>2. ASSUME NEW m \in 0 .. N, m < N, m \in T PROVE m + 1 \in T
  <2>1. PICK f \in [0 .. m -> D] : upTo(m, f)
    BY <1>2
  <2>. DEFINE g == [n \in 0 .. m + 1 |-> IF n = m + 1 THEN next[<<f[m], m + 1>>] ELSE f[n]]
  <2>2. m + 1 \in 1 .. N /\ m \in 0 .. m
    BY <1>2
  <2>3. f[m] \in D /\ next[<<f[m], m + 1>>] \in D
    BY <2>2
  <2>4. g \in [0 .. m + 1 -> D]
    <3>1. \A n \in 0 .. m + 1 : n # m + 1 => n \in 0 .. m
      OBVIOUS
    <3>. QED  BY <2>3, <3>1
  <2>5. ASSUME NEW n \in 1 .. m + 1 PROVE g[n] = next[<<g[n - 1], n>>]
    <3>1. n - 1 \in 0 .. m /\ n - 1 # m + 1 /\ n - 1 \in 0 .. m + 1 /\ n \in 0 .. m + 1
      OBVIOUS
    <3>2. g[n - 1] = f[n - 1]
      BY <3>1
    <3>3. CASE n = m + 1
      <4>1. n - 1 = m /\ g[n] = next[<<f[m], m + 1>>]
        BY <3>3
      <4>2. next[<<f[m], m + 1>>] = next[<<g[n - 1], n>>]
        <5>. HIDE DEF g
        <5>. QED  BY <3>2, <3>3, <4>1
      <4>. QED  BY <4>1, <4>2
    <3>4. CASE n # m + 1
      <4>1. n \in 1 .. m
        BY <3>4
      <4>. QED  BY <2>1, <3>1, <3>2, <3>4, <4>1
    <3>. QED  BY <3>3, <3>4
  <2>6. g[0] = base
    BY <2>1
  <2>. HIDE DEF g
  <2>7. m + 1 \in 0 .. N
    BY <1>2
  <2>. QED  BY <2>4, <2>5, <2>6, <2>7
<1>. HIDE DEF T
<1>3. N \in T
  BY <1>1, <1>2, SetInduction
<1>. QED  BY <1>3 DEF T, Recursions

-----------------------------------------------------------------------------
(* Kept *)

LEMMA KeptIs ==
    ASSUME NEW list \in Seq(Listings), NEW some, NEW f,
           f = [n \in 0 .. Len(list) |->
                   IF n = 0 THEN <<>>
                   ELSE IF list[n] \in some THEN Append(f[n - 1], list[n]) ELSE f[n - 1]]
    PROVE  Kept(list, some) = f[Len(list)]
<1>. DEFINE N == Len(list)
            kept == CHOOSE g : g = [n \in 0 .. Len(list) |->
                        IF n = 0 THEN <<>>
                        ELSE IF list[n] \in some THEN Append(g[n - 1], list[n]) ELSE g[n - 1]]
<1>1. N \in Nat
  OBVIOUS
<1>2. Kept(list, some) = kept[N]
  BY DEF Kept
<1>3. kept = [n \in 0 .. Len(list) |->
                 IF n = 0 THEN <<>>
                 ELSE IF list[n] \in some THEN Append(kept[n - 1], list[n]) ELSE kept[n - 1]]
  OBVIOUS
<1>. HIDE DEF kept
<1>4. kept[0] = f[0]
  BY <1>3
<1>5. ASSUME NEW n \in 1 .. N, kept[n - 1] = f[n - 1] PROVE kept[n] = f[n]
  <2>1. n # 0 /\ n \in 0 .. Len(list)
    OBVIOUS
  <2>2. kept[n] = IF list[n] \in some THEN Append(kept[n - 1], list[n]) ELSE kept[n - 1]
    BY <1>3, <2>1
  <2>3. f[n] = IF list[n] \in some THEN Append(f[n - 1], list[n]) ELSE f[n - 1]
    BY <2>1
  <2>. QED  BY <1>5, <2>2, <2>3
<1>. QED  BY <1>1, <1>2, <1>4, <1>5, RecursionIsUnique

\* What is kept of a list without repetitions is another one.
LEMMA KeptIsPart ==
    ASSUME NEW list \in Lists, NEW some
    PROVE  Kept(list, some) \in Lists
<1>0. PICK N \in Nat : list \in Seq(Listings) /\ N = Len(list)
  BY DEF Lists
<1>. DEFINE next == [pair \in Seq(Listings) \X (1 .. N) |->
                        IF list[pair[2]] \in some THEN Append(pair[1], list[pair[2]]) ELSE pair[1]]
<1>1. /\ list \in Seq(Listings) /\ N \in 0 .. Cardinality(Listings)
      /\ \A i, j \in 1 .. N : list[i] = list[j] => i = j
      /\ \A i \in 1 .. N : list[i] \in Listings
  BY <1>0 DEF Lists, IsInjective
<1>2. N \in Nat /\ <<>> \in Seq(Listings)
  BY <1>1
<1>3. next \in [Seq(Listings) \X (1 .. N) -> Seq(Listings)]
  BY <1>1, AppendProperties
<1>. HIDE DEF next
<1>4. PICK f : f \in Recursions(N, Seq(Listings), <<>>, next)
  BY <1>2, <1>3, RecursionExists
<1>. f \in [0 .. N -> Seq(Listings)] /\ f[0] = <<>>
  BY <1>4 DEF Recursions
<1>5. ASSUME NEW n \in 1 .. N
      PROVE  f[n] = IF list[n] \in some THEN Append(f[n - 1], list[n]) ELSE f[n - 1]
  <2>1. f[n - 1] \in Seq(Listings)
    OBVIOUS
  <2>. QED  BY <1>4, <2>1 DEF Recursions, next
<1>6. Kept(list, some) = f[N]
  <2>1. f = [n \in 0 .. N |->
                IF n = 0 THEN <<>>
                ELSE IF list[n] \in some THEN Append(f[n - 1], list[n]) ELSE f[n - 1]]
    <3>1. \A n \in 0 .. N : n = 0 \/ n \in 1 .. N
      OBVIOUS
    <3>. QED  BY <1>4, <1>5, <3>1
  <2>2. f = [n \in 0 .. Len(list) |->
                IF n = 0 THEN <<>>
                ELSE IF list[n] \in some THEN Append(f[n - 1], list[n]) ELSE f[n - 1]]
    BY <1>0, <2>1
  <2>3. Kept(list, some) = f[Len(list)]
    BY <1>0, <2>2, KeptIs
  <2>. QED  BY <1>0, <2>3
<1>. DEFINE fromFirst(n) ==
               /\ Len(f[n]) <= n
               /\ \A i \in 1 .. Len(f[n]) : \E k \in 1 .. n : f[n][i] = list[k]
               /\ \A i, j \in 1 .. Len(f[n]) : f[n][i] = f[n][j] => i = j
            T == {n \in 0 .. N : fromFirst(n)}
<1>7. 0 \in T
  BY <1>2, <1>4
<1>8. ASSUME NEW n \in 0 .. N, n < N, n \in T PROVE n + 1 \in T
  <2>1. /\ n + 1 \in 1 .. N /\ (n + 1) - 1 = n /\ fromFirst(n) /\ f[n] \in Seq(Listings)
        /\ list[n + 1] \in Listings
    <3>1. n + 1 \in 1 .. N /\ (n + 1) - 1 = n
      BY <1>8
    <3>. QED  BY <1>1, <1>8, <3>1
  <2>2. CASE list[n + 1] \notin some
    <3>1. f[n + 1] = f[n]
      BY <1>5, <2>1, <2>2
    <3>2. Len(f[n]) \in Nat /\ \A k \in 1 .. n : k \in 1 .. n + 1
      BY <2>1, LenProperties
    <3>3. fromFirst(n + 1)
      BY <2>1, <3>1, <3>2
    <3>. QED  BY <2>1, <3>3
  <2>3. CASE list[n + 1] \in some
    <3>1. f[n + 1] = Append(f[n], list[n + 1])
      BY <1>5, <2>1, <2>3
    <3>2. /\ Len(f[n + 1]) = Len(f[n]) + 1 /\ Len(f[n]) \in Nat
          /\ \A i \in 1 .. Len(f[n]) : f[n + 1][i] = f[n][i]
          /\ f[n + 1][Len(f[n]) + 1] = list[n + 1]
      BY <2>1, <3>1, AppendProperties, LenProperties
    <3>3. \A i \in 1 .. Len(f[n + 1]) : i \in 1 .. Len(f[n]) \/ i = Len(f[n]) + 1
      BY <3>2
    <3>4. \A i \in 1 .. Len(f[n]) : f[n][i] # list[n + 1]
      <4>1. \A k \in 1 .. n : k \in 1 .. N /\ k # n + 1
        BY <2>1
      <4>. QED  BY <1>1, <2>1, <4>1
    <3>5. Len(f[n + 1]) <= n + 1
      BY <2>1, <3>2
    <3>6. \A i \in 1 .. Len(f[n + 1]) : \E k \in 1 .. n + 1 : f[n + 1][i] = list[k]
      <4>1. n + 1 \in 1 .. n + 1 /\ \A k \in 1 .. n : k \in 1 .. n + 1
        BY <2>1
      <4>2. ASSUME NEW i \in 1 .. Len(f[n]) PROVE \E k \in 1 .. n + 1 : f[n + 1][i] = list[k]
        <5>1. PICK k \in 1 .. n : f[n][i] = list[k]
          BY <2>1
        <5>. QED  BY <3>2, <4>1, <5>1
      <4>3. f[n + 1][Len(f[n]) + 1] = list[n + 1]
        BY <3>2
      <4>. QED  BY <3>3, <4>1, <4>2, <4>3
    <3>7. \A i, j \in 1 .. Len(f[n + 1]) : f[n + 1][i] = f[n + 1][j] => i = j
      BY <2>1, <3>2, <3>3, <3>4
    <3>8. fromFirst(n + 1)
      BY <3>5, <3>6, <3>7
    <3>. HIDE DEF fromFirst
    <3>. QED  BY <2>1, <3>8
  <2>. QED  BY <2>2, <2>3
<1>. HIDE DEF T
<1>9. N \in T
  <2>1. \A n \in 0 .. N : n \in T
    BY <1>7, <1>8, SetInduction
  <2>. QED  BY <2>1
<1>10. fromFirst(N) /\ f[N] \in Seq(Listings)
  BY <1>2, <1>9 DEF T
<1>11. Len(f[N]) \in 0 .. Cardinality(Listings) /\ f[N] \in [1 .. Len(f[N]) -> Listings]
  <2>1. Cardinality(Listings) \in Nat
    BY ChunksAssumption, FS_CardinalityType
  <2>. QED  BY <1>1, <1>10, <2>1, LenProperties
<1>. QED  BY <1>6, <1>10, <1>11 DEF Lists, IsInjective

-----------------------------------------------------------------------------
(* FlattenSeq *)

LEMMA FlattenIs ==
    ASSUME NEW chunks \in Seq(Chunk), NEW f,
           f = [n \in 0 .. Len(chunks) |-> IF n = 0 THEN <<>> ELSE f[n - 1] \o chunks[n]]
    PROVE  FlattenSeq(chunks) = f[Len(chunks)]
<1>1. PICK N \in Nat : N = Len(chunks)
  OBVIOUS
<1>2. CASE N = 0
  <2>1. chunks = <<>>
    BY <1>1, <1>2, EmptySeq
  <2>2. f[0] = <<>>
    BY <1>1, <1>2
  <2>. QED  BY <1>1, <1>2, <2>1, <2>2 DEF FlattenSeq
<1>3. CASE N # 0
  <2>. DEFINE flatten == CHOOSE g : g = [n \in 1 .. Len(chunks) |->
                             IF n = 1 THEN chunks[n] ELSE g[n - 1] \o chunks[n]]
              start == [n \in 1 .. N |-> f[n]]
  <2>1. FlattenSeq(chunks) = flatten[N]
    BY <1>1, <1>3 DEF FlattenSeq
  <2>2. start = [n \in 1 .. Len(chunks) |->
                    IF n = 1 THEN chunks[n] ELSE start[n - 1] \o chunks[n]]
    <3>1. ASSUME NEW n \in 1 .. N PROVE n \in 0 .. Len(chunks) /\ n # 0
      BY <1>1
    <3>2. f[1] = chunks[1]
      <4>1. f[1] = <<>> \o chunks[1] /\ chunks[1] \in Chunk
        BY <1>1, <1>3
      <4>. QED  BY <4>1, ConcatEmptySeq DEF Chunk
    <3>3. ASSUME NEW n \in 1 .. N, n # 1 PROVE f[n] = start[n - 1] \o chunks[n]
      <4>1. n - 1 \in 1 .. N
        BY <1>1, <3>3
      <4>2. f[n] = f[n - 1] \o chunks[n]
        BY <3>1
      <4>. QED  BY <4>1, <4>2
    <3>. QED  BY <1>1, <3>2, <3>3
  <2>. HIDE DEF start
  <2>3. flatten = [n \in 1 .. Len(chunks) |->
                      IF n = 1 THEN chunks[n] ELSE flatten[n - 1] \o chunks[n]]
    BY <2>2
  <2>. HIDE DEF flatten
  <2>. DEFINE g == [n \in 0 .. N |-> IF n = 0 THEN <<>> ELSE flatten[n]]
  <2>4. g[0] = f[0] /\ g[N] = flatten[N]
    BY <1>1, <1>3
  <2>5. ASSUME NEW n \in 1 .. N, g[n - 1] = f[n - 1] PROVE g[n] = f[n]
    <3>1. n \in 0 .. Len(chunks) /\ n # 0 /\ n \in 1 .. Len(chunks) /\ n - 1 \in 0 .. N
      BY <1>1
    <3>2. f[n] = f[n - 1] \o chunks[n] /\ g[n] = flatten[n]
      BY <1>1, <3>1
    <3>3. CASE n = 1
      <4>1. flatten[1] = chunks[1] /\ f[0] = <<>> /\ chunks[1] \in Chunk
        BY <1>1, <1>3, <2>3
      <4>2. <<>> \o chunks[1] = chunks[1]
        BY <4>1, ConcatEmptySeq DEF Chunk
      <4>. QED  BY <3>2, <3>3, <4>1, <4>2
    <3>4. CASE n # 1
      <4>1. flatten[n] = flatten[n - 1] \o chunks[n] /\ g[n - 1] = flatten[n - 1]
        BY <2>3, <3>1, <3>4
      <4>. QED  BY <2>5, <3>2, <4>1
    <3>. QED  BY <3>3, <3>4
  <2>. HIDE DEF g
  <2>. QED  BY <1>1, <2>1, <2>4, <2>5, RecursionIsUnique
<1>. QED  BY <1>2, <1>3

LEMMA FlattenAppend ==
    ASSUME NEW chunks \in Seq(Chunk), NEW chunk \in Chunk
    PROVE  /\ FlattenSeq(chunks) \in Chunk
           /\ FlattenSeq(Append(chunks, chunk)) = FlattenSeq(chunks) \o chunk
<1>1. PICK N \in Nat : N = Len(chunks) /\ \A n \in 1 .. N : chunks[n] \in Chunk
  BY ElementOfSeq
<1>. DEFINE next == [pair \in Chunk \X (1 .. N) |-> pair[1] \o chunks[pair[2]]]
<1>2. next \in [Chunk \X (1 .. N) -> Chunk] /\ <<>> \in Chunk
  BY <1>1, ConcatProperties DEF Chunk
<1>. HIDE DEF next
<1>3. PICK f : f \in Recursions(N, Chunk, <<>>, next)
  BY <1>2, RecursionExists
<1>4. f \in [0 .. N -> Chunk] /\ f[0] = <<>>
  BY <1>3 DEF Recursions
<1>5. ASSUME NEW n \in 1 .. N PROVE f[n] = f[n - 1] \o chunks[n]
  <2>1. n - 1 \in 0 .. N /\ f[n - 1] \in Chunk
    BY <1>4
  <2>. QED  BY <1>3, <2>1 DEF Recursions, next
<1>6. f = [n \in 0 .. N |-> IF n = 0 THEN <<>> ELSE f[n - 1] \o chunks[n]]
  <2>1. \A n \in 0 .. N : n = 0 \/ n \in 1 .. N
    OBVIOUS
  <2>. QED  BY <1>4, <1>5, <2>1
<1>7. FlattenSeq(chunks) = f[N] /\ f[N] \in Chunk
  BY <1>1, <1>4, <1>6, FlattenIs
<1>. DEFINE more == Append(chunks, chunk)
            g == [n \in 0 .. N + 1 |-> IF n = N + 1 THEN f[N] \o chunk ELSE f[n]]
<1>8. /\ more \in Seq(Chunk) /\ Len(more) = N + 1 /\ more[N + 1] = chunk
      /\ \A n \in 1 .. N : more[n] = chunks[n]
  BY <1>1, AppendProperties
<1>. HIDE DEF more
<1>9. ASSUME NEW n \in 1 .. N + 1 PROVE g[n] = g[n - 1] \o more[n]
  <2>1. n - 1 \in 0 .. N + 1 /\ n - 1 # N + 1 /\ g[n - 1] = f[n - 1]
    OBVIOUS
  <2>2. CASE n = N + 1
    <3>1. n - 1 = N /\ g[n] = f[N] \o chunk /\ more[n] = chunk
      BY <1>8, <2>2
    <3>. QED  BY <2>1, <3>1
  <2>3. CASE n # N + 1
    <3>1. n \in 1 .. N /\ g[n] = f[n]
      BY <2>3
    <3>. HIDE DEF g
    <3>. QED  BY <1>5, <1>8, <2>1, <3>1
  <2>. QED  BY <2>2, <2>3
<1>10. g = [n \in 0 .. N + 1 |-> IF n = 0 THEN <<>> ELSE g[n - 1] \o more[n]]
  <2>1. g[0] = <<>> /\ \A n \in 0 .. N + 1 : n = 0 \/ n \in 1 .. N + 1
    BY <1>4
  <2>2. g = [n \in 0 .. N + 1 |-> g[n]]
    OBVIOUS
  <2>. HIDE DEF g
  <2>. QED  BY <1>9, <2>1, <2>2
<1>11. FlattenSeq(more) = g[N + 1] /\ g[N + 1] = f[N] \o chunk
  <2>1. g[N + 1] = f[N] \o chunk
    OBVIOUS
  <2>. HIDE DEF g
  <2>. QED  BY <1>8, <1>10, <2>1, FlattenIs
<1>. QED  BY <1>7, <1>11 DEF more

-----------------------------------------------------------------------------
(* Bytes *)

LEMMA BytesIs ==
    ASSUME NEW chunk \in Chunk, NEW f,
           f = [n \in 0 .. Len(chunk) |-> IF n = 0 THEN 1 ELSE f[n - 1] + SizeOf[chunk[n]] + 1]
    PROVE  Bytes(chunk) = f[Len(chunk)]
<1>. DEFINE bytes == CHOOSE g : g = [n \in 0 .. Len(chunk) |->
                         IF n = 0 THEN 1 ELSE g[n - 1] + SizeOf[chunk[n]] + 1]
<1>1. PICK N \in Nat : N = Len(chunk)
  BY LenProperties DEF Chunk
<1>2. Bytes(chunk) = bytes[N]
  BY <1>1 DEF Bytes
<1>3. bytes = [n \in 0 .. Len(chunk) |-> IF n = 0 THEN 1 ELSE bytes[n - 1] + SizeOf[chunk[n]] + 1]
  OBVIOUS
<1>. HIDE DEF bytes
<1>4. bytes[0] = f[0]
  BY <1>1, <1>3
<1>5. ASSUME NEW n \in 1 .. N, bytes[n - 1] = f[n - 1] PROVE bytes[n] = f[n]
  <2>1. n # 0 /\ n \in 0 .. Len(chunk)
    BY <1>1
  <2>. QED  BY <1>3, <1>5, <2>1
<1>. QED  BY <1>1, <1>2, <1>4, <1>5, RecursionIsUnique

LEMMA BytesAppend ==
    ASSUME NEW chunk \in Chunk, NEW listing \in Listings
    PROVE  /\ Bytes(chunk) \in Nat /\ Bytes(<<>>) = 1
           /\ Bytes(Append(chunk, listing)) = Bytes(chunk) + SizeOf[listing] + 1
<1>1. PICK N \in Nat : N = Len(chunk) /\ \A n \in 1 .. N : SizeOf[chunk[n]] \in Nat
  BY ElementOfSeq, ChunksAssumption DEF Chunk
<1>. DEFINE next == [pair \in Nat \X (1 .. N) |-> pair[1] + SizeOf[chunk[pair[2]]] + 1]
<1>2. next \in [Nat \X (1 .. N) -> Nat]
  BY <1>1
<1>. HIDE DEF next
<1>3. PICK f : f \in Recursions(N, Nat, 1, next)
  BY <1>2, RecursionExists
<1>4. f \in [0 .. N -> Nat] /\ f[0] = 1
  BY <1>3 DEF Recursions
<1>5. ASSUME NEW n \in 1 .. N PROVE f[n] = f[n - 1] + SizeOf[chunk[n]] + 1
  <2>1. n - 1 \in 0 .. N /\ f[n - 1] \in Nat
    BY <1>4
  <2>. QED  BY <1>3, <2>1 DEF Recursions, next
<1>6. f = [n \in 0 .. N |-> IF n = 0 THEN 1 ELSE f[n - 1] + SizeOf[chunk[n]] + 1]
  <2>1. \A n \in 0 .. N : n = 0 \/ n \in 1 .. N
    OBVIOUS
  <2>. QED  BY <1>4, <1>5, <2>1
<1>7. Bytes(chunk) = f[N] /\ f[N] \in Nat
  BY <1>1, <1>4, <1>6, BytesIs
<1>. DEFINE more == Append(chunk, listing)
            g == [n \in 0 .. N + 1 |-> IF n = N + 1 THEN f[N] + SizeOf[listing] + 1 ELSE f[n]]
<1>8. /\ more \in Chunk /\ Len(more) = N + 1 /\ more[N + 1] = listing
      /\ \A n \in 1 .. N : more[n] = chunk[n]
  BY <1>1, AppendProperties DEF Chunk
<1>. HIDE DEF more
<1>9. ASSUME NEW n \in 1 .. N + 1 PROVE g[n] = g[n - 1] + SizeOf[more[n]] + 1
  <2>1. n - 1 \in 0 .. N + 1 /\ n - 1 # N + 1 /\ g[n - 1] = f[n - 1]
    OBVIOUS
  <2>2. CASE n = N + 1
    <3>1. n - 1 = N /\ g[n] = f[N] + SizeOf[listing] + 1 /\ more[n] = listing
      BY <1>8, <2>2
    <3>. HIDE DEF g
    <3>. QED  BY <2>1, <3>1
  <2>3. CASE n # N + 1
    <3>1. n \in 1 .. N /\ g[n] = f[n]
      BY <2>3
    <3>. HIDE DEF g
    <3>. QED  BY <1>5, <1>8, <2>1, <3>1
  <2>. QED  BY <2>2, <2>3
<1>10. g = [n \in 0 .. N + 1 |-> IF n = 0 THEN 1 ELSE g[n - 1] + SizeOf[more[n]] + 1]
  <2>1. g[0] = 1 /\ \A n \in 0 .. N + 1 : n = 0 \/ n \in 1 .. N + 1
    BY <1>4
  <2>2. g = [n \in 0 .. N + 1 |-> g[n]]
    OBVIOUS
  <2>. HIDE DEF g
  <2>. QED  BY <1>9, <2>1, <2>2
<1>11. Bytes(more) = f[N] + SizeOf[listing] + 1
  <2>1. g[N + 1] = f[N] + SizeOf[listing] + 1
    OBVIOUS
  <2>. HIDE DEF g
  <2>. QED  BY <1>8, <1>10, <2>1, BytesIs
<1>12. Bytes(<<>>) = 1
  <2>. DEFINE h == [n \in 0 .. 0 |-> 1]
  <2>1. <<>> \in Chunk /\ Len(<<>>) = 0 /\ h[0] = 1
    BY DEF Chunk
  <2>2. h = [n \in 0 .. Len(<<>>) |-> IF n = 0 THEN 1 ELSE h[n - 1] + SizeOf[<<>>[n]] + 1]
    BY <2>1
  <2>. HIDE DEF h
  <2>. QED  BY <2>1, <2>2, BytesIs
<1>. QED  BY <1>7, <1>11, <1>12 DEF more

-----------------------------------------------------------------------------
(* Layout *)

Layouts == [chunks : Seq(Chunk), open : Chunk, size : Nat]

NoneLaid == [chunks |-> <<>>, open |-> <<>>, size |-> 0]

\* No chunk of several listings is larger than the limit and a comma, none is empty.
Fits(chunk) == chunk # <<>> /\ (Len(chunk) > 1 => Bytes(chunk) <= ChunkLimit + 1)

\* The chunks and the open one hold the listings that have been laid, and size is the
\* open one's without its brackets.
LaidOut(layout, list) ==
    /\ FlattenSeq(layout.chunks) \o layout.open = list
    /\ \A i \in 1 .. Len(layout.chunks) : Fits(layout.chunks[i])
    /\ layout.open # <<>> => Bytes(layout.open) = layout.size + 2 /\ Fits(layout.open)

LEMMA AddedTyped ==
    ASSUME NEW layout \in Layouts, NEW listing \in Listings
    PROVE  /\ Added(layout, listing) \in Layouts
           /\ Finalized(layout) \in Layouts
           /\ Finalized(layout).chunks = Append(layout.chunks, layout.open)
<1>1. <<>> \in Chunk /\ <<listing>> \in Chunk /\ Append(layout.open, listing) \in Chunk
  BY AppendProperties DEF Chunk, Layouts
<1>2. SizeOf[listing] \in Nat /\ layout.size + 1 + SizeOf[listing] \in Nat
  BY ChunksAssumption DEF Layouts
<1>3. Append(layout.chunks, layout.open) \in Seq(Chunk)
  BY AppendProperties DEF Layouts
<1>. QED  BY <1>1, <1>2, <1>3 DEF Added, Finalized, Layouts

\* One listing more.
LEMMA AddedLaidOut ==
    ASSUME NEW layout \in Layouts, NEW list \in Chunk, NEW listing \in Listings,
           LaidOut(layout, list)
    PROVE  LaidOut(Added(layout, listing), Append(list, listing))
<1>. DEFINE flat == FlattenSeq(layout.chunks)
            one == <<listing>>
<1>1. /\ layout.chunks \in Seq(Chunk) /\ layout.open \in Chunk /\ layout.size \in Nat
      /\ flat \in Chunk /\ one \in Chunk /\ one # <<>> /\ Len(one) = 1 /\ <<>> \in Chunk
      /\ SizeOf[listing] \in Nat /\ Bytes(layout.open) \in Nat
  BY FlattenAppend, BytesAppend, ChunksAssumption DEF Layouts, Chunk
<1>2. Bytes(one) = SizeOf[listing] + 2
  <2>1. Append(<<>>, listing) = one
    OBVIOUS
  <2>2. Bytes(Append(<<>>, listing)) = Bytes(<<>>) + SizeOf[listing] + 1 /\ Bytes(<<>>) = 1
    BY <1>1, BytesAppend
  <2>. QED  BY <1>1, <2>1, <2>2
<1>3. Append(list, listing) = list \o one
  BY AppendIsConcat DEF Chunk
<1>4. Fits(one)
  BY <1>1 DEF Fits
<1>5. CASE layout.open = <<>>
  <2>1. Added(layout, listing) = [chunks |-> layout.chunks, open |-> one, size |-> SizeOf[listing]]
    BY <1>5 DEF Added, Layouts
  <2>2. flat = list
    <3>1. flat \o <<>> = flat
      BY <1>1, ConcatEmptySeq DEF Chunk
    <3>. QED  BY <1>5, <3>1 DEF LaidOut
  <2>. HIDE DEF one
  <2>. QED  BY <1>2, <1>3, <1>4, <2>1, <2>2 DEF LaidOut
<1>6. CASE layout.open # <<>> /\ layout.size + SizeOf[listing] + 2 > ChunkLimit
  <2>. DEFINE more == Append(layout.chunks, layout.open)
  <2>1. Added(layout, listing) = [chunks |-> more, open |-> one, size |-> SizeOf[listing]]
    BY <1>6 DEF Added, Finalized, Layouts
  <2>2. FlattenSeq(more) = list
    BY <1>1, FlattenAppend DEF LaidOut
  <2>3. \A i \in 1 .. Len(more) : Fits(more[i])
    BY <1>1, <1>6, AppendProperties DEF LaidOut
  <2>. DEFINE added == Added(layout, listing)
  <2>4. added.chunks = more /\ added.open = one /\ added.size = SizeOf[listing]
    BY <2>1
  <2>. HIDE DEF one, more, added
  <2>5. LaidOut(added, Append(list, listing))
    BY <1>2, <1>3, <1>4, <2>2, <2>3, <2>4 DEF LaidOut
  <2>. QED  BY <2>5 DEF added
<1>7. CASE layout.open # <<>> /\ ~(layout.size + SizeOf[listing] + 2 > ChunkLimit)
  <2>. DEFINE more == Append(layout.open, listing)
              size == layout.size + 1 + SizeOf[listing]
  <2>1. Added(layout, listing) = [chunks |-> layout.chunks, open |-> more, size |-> size]
    BY <1>7 DEF Added, Layouts
  <2>2. flat \o more = list \o one
    <3>1. more = layout.open \o one
      BY <1>1, AppendIsConcat DEF Chunk
    <3>2. (flat \o layout.open) \o one = flat \o (layout.open \o one)
      <4>. HIDE DEF flat, one, more, size
      <4>1. flat \in Seq(Listings) /\ layout.open \in Seq(Listings) /\ one \in Seq(Listings)
        BY <1>1 DEF Chunk
      <4>2. ASSUME NEW x \in Seq(Listings), NEW y \in Seq(Listings), NEW z \in Seq(Listings)
            PROVE  (x \o y) \o z = x \o (y \o z)
        BY ConcatAssociative
      <4>. QED  BY <4>1, <4>2
    <3>3. flat \o layout.open = list
      BY DEF LaidOut
    <3>. HIDE DEF flat, one, more
    <3>. QED  BY <3>1, <3>2, <3>3
  <2>3. Bytes(more) = size + 2 /\ more # <<>>
    <3>1. Bytes(more) = Bytes(layout.open) + SizeOf[listing] + 1
      BY <1>1, BytesAppend
    <3>2. Bytes(layout.open) = layout.size + 2
      BY <1>7 DEF LaidOut
    <3>3. more # <<>>
      <4>1. layout.open \in Seq(Listings)
        BY <1>1 DEF Chunk
      <4>. QED  BY <4>1, AppendProperties
    <3>4. layout.size \in Nat /\ SizeOf[listing] \in Nat
      BY <1>1
    <3>. HIDE DEF more
    <3>. QED  BY <3>1, <3>2, <3>3, <3>4
  <2>4. Fits(more)
    <3>1. size + 2 <= ChunkLimit + 1
      BY <1>1, <1>7, ChunksAssumption
    <3>. QED  BY <2>3, <3>1 DEF Fits
  <2>. DEFINE added == Added(layout, listing)
  <2>5. added.chunks = layout.chunks /\ added.open = more /\ added.size = size
    BY <2>1
  <2>. HIDE DEF one, more, size, added
  <2>6. LaidOut(added, Append(list, listing))
    BY <1>3, <2>2, <2>3, <2>4, <2>5 DEF LaidOut, flat
  <2>. QED  BY <2>6 DEF added
<1>. QED  BY <1>5, <1>6, <1>7

LEMMA LaidIs ==
    ASSUME NEW list \in Chunk, NEW f,
           f = [n \in 0 .. Len(list) |-> IF n = 0 THEN NoneLaid ELSE Added(f[n - 1], list[n])]
    PROVE  Laid(list) = f[Len(list)]
<1>. DEFINE laid == CHOOSE g : g = [n \in 0 .. Len(list) |->
                        IF n = 0 THEN [chunks |-> <<>>, open |-> <<>>, size |-> 0]
                                 ELSE Added(g[n - 1], list[n])]
<1>1. PICK N \in Nat : N = Len(list)
  BY LenProperties DEF Chunk
<1>2. Laid(list) = laid[N]
  BY <1>1 DEF Laid
<1>3. laid = [n \in 0 .. Len(list) |-> IF n = 0 THEN NoneLaid ELSE Added(laid[n - 1], list[n])]
  BY DEF NoneLaid
<1>. HIDE DEF laid
<1>4. laid[0] = f[0]
  BY <1>1, <1>3
<1>5. ASSUME NEW n \in 1 .. N, laid[n - 1] = f[n - 1] PROVE laid[n] = f[n]
  <2>1. n # 0 /\ n \in 0 .. Len(list)
    BY <1>1
  <2>. QED  BY <1>3, <1>5, <2>1
<1>. QED  BY <1>1, <1>2, <1>4, <1>5, RecursionIsUnique

\* The loop lays out the whole list.
LEMMA LaidIsLaidOut ==
    ASSUME NEW list \in Chunk
    PROVE  Laid(list) \in Layouts /\ LaidOut(Laid(list), list)
<1>1. PICK N \in Nat : N = Len(list) /\ \A n \in 1 .. N : list[n] \in Listings
  BY ElementOfSeq DEF Chunk
<1>. DEFINE next == [pair \in Layouts \X (1 .. N) |-> Added(pair[1], list[pair[2]])]
<1>2. next \in [Layouts \X (1 .. N) -> Layouts] /\ NoneLaid \in Layouts
  <2>1. NoneLaid \in Layouts
    BY DEF NoneLaid, Layouts, Chunk
  <2>2. next \in [Layouts \X (1 .. N) -> Layouts]
    BY <1>1, AddedTyped
  <2>. QED  BY <2>1, <2>2
<1>. HIDE DEF next
<1>3. PICK f : f \in Recursions(N, Layouts, NoneLaid, next)
  BY <1>2, RecursionExists
<1>4. f \in [0 .. N -> Layouts] /\ f[0] = NoneLaid
  BY <1>3 DEF Recursions
<1>5. ASSUME NEW n \in 1 .. N PROVE f[n] = Added(f[n - 1], list[n])
  <2>1. n - 1 \in 0 .. N /\ f[n - 1] \in Layouts
    BY <1>4
  <2>. QED  BY <1>3, <2>1 DEF Recursions, next
<1>6. Laid(list) = f[N]
  <2>1. \A n \in 0 .. N : n = 0 \/ n \in 1 .. N
    OBVIOUS
  <2>2. f = [n \in 0 .. N |-> IF n = 0 THEN NoneLaid ELSE Added(f[n - 1], list[n])]
    BY <1>4, <1>5, <2>1
  <2>. QED  BY <1>1, <2>2, LaidIs
<1>. DEFINE T == {n \in 0 .. N : LaidOut(f[n], SubSeq(list, 1, n))}
<1>7. 0 \in T
  <2>1. SubSeq(list, 1, 0) = <<>> /\ FlattenSeq(<<>>) = <<>> /\ <<>> \o <<>> = <<>>
    BY SubSeqEmpty DEF FlattenSeq
  <2>2. LaidOut(NoneLaid, <<>>)
    BY <2>1 DEF LaidOut, NoneLaid
  <2>. QED  BY <1>4, <2>1, <2>2
<1>8. ASSUME NEW n \in 0 .. N, n < N, n \in T PROVE n + 1 \in T
  <2>1. n + 1 \in 1 .. N /\ (n + 1) - 1 = n /\ n + 1 \in 0 .. N
    BY <1>8
  <2>2. SubSeq(list, 1, n) \in Chunk
    BY <1>1, SubSeqProperties DEF Chunk
  <2>3. SubSeq(list, 1, n + 1) = Append(SubSeq(list, 1, n), list[n + 1])
    <3>1. 1 \in 1 .. Len(list) /\ n + 1 \in 1 .. Len(list)
      BY <1>1, <2>1
    <3>2. SubSeq(list, 1, n + 1) = SubSeq(list, 1, n) \o <<list[n + 1]>>
      BY <2>1, <3>1, SubSeqRecursiveSecond DEF Chunk
    <3>. QED  BY <1>1, <2>1, <2>2, <3>2, AppendIsConcat DEF Chunk
  <2>4. LaidOut(Added(f[n], list[n + 1]), Append(SubSeq(list, 1, n), list[n + 1]))
    BY <1>1, <1>4, <1>8, <2>1, <2>2, AddedLaidOut
  <2>. QED  BY <1>5, <2>1, <2>3, <2>4
<1>. HIDE DEF T
<1>9. N \in T
  <2>1. \A n \in 0 .. N : n \in T
    BY <1>7, <1>8, SetInduction
  <2>. QED  BY <2>1
<1>10. SubSeq(list, 1, N) = list
  BY <1>1, SubSeqFull DEF Chunk
<1>. QED  BY <1>4, <1>6, <1>9, <1>10 DEF T

\* The chunks hold the whole list in its order, and only an only one may be empty.
LEMMA LayoutIsComplete ==
    ASSUME NEW list \in Chunk
    PROVE  /\ Layout(list) \in Seq(Chunk)
           /\ FlattenSeq(Layout(list)) = list
           /\ \A i \in 1 .. Len(Layout(list)) :
                  Fits(Layout(list)[i]) \/ (Layout(list)[i] = <<>> /\ Len(Layout(list)) = 1)
<1>. DEFINE laid == Laid(list)
            chunks == laid.chunks
            open == laid.open
<1>1. laid \in Layouts /\ LaidOut(laid, list) /\ chunks \in Seq(Chunk) /\ open \in Chunk
  BY LaidIsLaidOut DEF Layouts
<1>2. CASE open # <<>> \/ chunks = <<>>
  <2>1. Layout(list) = Append(chunks, open)
    <3>1. Layout(list) = Finalized(laid).chunks
      BY <1>2 DEF Layout
    <3>. QED  BY <1>1, <3>1 DEF Finalized, Layouts
  <2>2. Layout(list) \in Seq(Chunk) /\ FlattenSeq(Layout(list)) = list
    <3>1. FlattenSeq(chunks) \o open = list
      BY <1>1 DEF LaidOut
    <3>. HIDE DEF chunks, open, laid
    <3>2. Append(chunks, open) \in Seq(Chunk)
      BY <1>1, AppendProperties
    <3>3. FlattenSeq(Append(chunks, open)) = FlattenSeq(chunks) \o open
      BY <1>1, FlattenAppend
    <3>. QED  BY <2>1, <3>1, <3>2, <3>3
  <2>3. /\ \A i \in 1 .. Len(chunks) : Fits(chunks[i])
        /\ open # <<>> => Fits(open)
    BY <1>1 DEF LaidOut
  <2>. HIDE DEF chunks, open, laid
  <2>4. /\ Len(Append(chunks, open)) = Len(chunks) + 1 /\ Len(chunks) \in Nat
        /\ \A i \in 1 .. Len(chunks) : Append(chunks, open)[i] = chunks[i]
        /\ Append(chunks, open)[Len(chunks) + 1] = open
    BY <1>1, AppendProperties, LenProperties
  <2>5. ASSUME NEW i \in 1 .. Len(Layout(list))
        PROVE  Fits(Layout(list)[i]) \/ (Layout(list)[i] = <<>> /\ Len(Layout(list)) = 1)
    <3>1. CASE i \in 1 .. Len(chunks)
      BY <2>1, <2>3, <2>4, <3>1
    <3>2. CASE i = Len(chunks) + 1 /\ open # <<>>
      BY <2>1, <2>3, <2>4, <3>2
    <3>3. CASE i = Len(chunks) + 1 /\ open = <<>>
      <4>1. Len(chunks) = 0
        BY <1>2, <3>3
      <4>. QED  BY <2>1, <2>4, <3>3, <4>1
    <3>. QED  BY <2>1, <2>4, <3>1, <3>2, <3>3
  <2>. QED  BY <2>2, <2>5
<1>3. CASE ~(open # <<>> \/ chunks = <<>>)
  <2>1. Layout(list) = chunks
    BY <1>3 DEF Layout
  <2>2. FlattenSeq(chunks) \in Chunk /\ FlattenSeq(chunks) \o <<>> = FlattenSeq(chunks)
    BY <1>1, FlattenAppend, ConcatEmptySeq DEF Chunk
  <2>3. FlattenSeq(chunks) = list /\ \A i \in 1 .. Len(chunks) : Fits(chunks[i])
    BY <1>1, <1>3, <2>2 DEF LaidOut
  <2>. QED  BY <1>1, <2>1, <2>3
<1>. QED  BY <1>2, <1>3

-----------------------------------------------------------------------------
(* The inductive invariant *)

\* What is shown is what the query found, but for listings that are gone.
ShownOf(ids, shown, gone) ==
    \E kept \in SUBSET Listings : shown = Kept(ids, kept) /\ ToSet(ids) \ kept \subseteq gone

Stored(entries, rows) == \A i \in 1 .. Len(entries) : [chunk |-> entries[i]] \in rows

\* A builder has put the first chunks of the layout into its group, and each of them is
\* a blob.
OnTrack(build, rows, gone) ==
    /\ build.at = "ids" => build.entries = <<>>
    /\ build.at \in {"chunks", "index", "row"} =>
           /\ ShownOf(build.ids, build.shown, gone)
           /\ build.entries \o build.todo = Layout(build.shown)
           /\ Stored(build.entries, rows)
           /\ build.at # "chunks" => build.todo = <<>>
           /\ build.at = "row" => [index |-> ToSet(build.entries)] \in rows

Built(cache, rows, gone) ==
    /\ ShownOf(cache.ids, cache.shown, gone)
    /\ cache.entries = Layout(cache.shown)
    /\ Stored(cache.entries, rows)
    /\ cache.index = [index |-> ToSet(cache.entries)] /\ cache.index \in rows

ChunkInv ==
    /\ ChunksTypeOK
    /\ \A b \in Builders : OnTrack(builder[b], blobs, deleted)
    /\ latest # NoCache => Built(latest, blobs, deleted)

\* Blobs and deletions stay.
LEMMA MoreBlobs ==
    ASSUME NEW rows, NEW moreRows, rows \subseteq moreRows,
           NEW gone, NEW moreGone, gone \subseteq moreGone, NEW build
    PROVE  /\ OnTrack(build, rows, gone) => OnTrack(build, moreRows, moreGone)
           /\ Built(build, rows, gone) => Built(build, moreRows, moreGone)
<1>1. \A ids, shown : ShownOf(ids, shown, gone) => ShownOf(ids, shown, moreGone)
  BY DEF ShownOf
<1>2. \A entries : Stored(entries, rows) => Stored(entries, moreRows)
  BY DEF Stored
<1>. QED  BY <1>1, <1>2 DEF OnTrack, Built

\* A step of one builder, or of none.
LEMMA BuilderMoves ==
    ASSUME ChunkInv, NEW b \in Builders, NEW record \in Build, Step(b, record),
           blobs \subseteq blobs', blobs' \subseteq Blob, OnTrack(record, blobs', deleted),
           UNCHANGED <<listed, deleted, edits, latest>>, failures' \in 0 .. MaxFailures
    PROVE  ChunkInv'
<1>1. ChunksTypeOK'
  BY DEF ChunkInv, ChunksTypeOK, Step
<1>2. ASSUME NEW d \in Builders PROVE OnTrack(builder'[d], blobs', deleted')
  <2>1. builder'[d] = IF d = b THEN record ELSE builder[d]
    BY DEF ChunkInv, ChunksTypeOK, Step
  <2>. QED  BY <2>1, MoreBlobs DEF ChunkInv
<1>3. latest' # NoCache => Built(latest', blobs', deleted')
  BY MoreBlobs DEF ChunkInv
<1>. QED  BY <1>1, <1>2, <1>3 DEF ChunkInv

LEMMA ListsAreChunks == Lists \subseteq Chunk
  BY DEF Lists, Chunk

LEMMA UnbegunHolds == Unbegun \in Build /\ \A rows, gone : OnTrack(Unbegun, rows, gone)
<1>1. <<>> \in Lists
  <2>1. Cardinality(Listings) \in Nat
    BY ChunksAssumption, FS_CardinalityType
  <2>2. <<>> \in [1 .. 0 -> Listings] /\ IsInjective(<<>>)
    BY DEF IsInjective
  <2>. QED  BY <2>1, <2>2 DEF Lists
<1>. QED  BY <1>1 DEF Unbegun, Build, OnTrack

-----------------------------------------------------------------------------
(* The steps *)

LEMMA ChunksInitHolds == ASSUME ChunksInit PROVE ChunkInv
  BY ChunksAssumption, UnbegunHolds DEF ChunksInit, ChunkInv, ChunksTypeOK

LEMMA QueryIdsHolds == ASSUME ChunkInv, NEW b \in Builders, QueryIds(b) PROVE ChunkInv'
<1>. DEFINE record == [Unbegun EXCEPT !.at = "ids", !.ids = listed]
<1>1. record \in Build /\ OnTrack(record, blobs', deleted)
  BY UnbegunHolds DEF ChunkInv, ChunksTypeOK, Unbegun, Build, OnTrack
<1>2. Step(b, record) /\ UNCHANGED <<listed, deleted, edits, blobs, latest, failures>>
  BY DEF QueryIds
<1>. HIDE DEF record
<1>. QED  BY <1>1, <1>2, BuilderMoves DEF ChunkInv, ChunksTypeOK

LEMMA LoadListingsHolds == ASSUME ChunkInv, NEW b \in Builders, LoadListings(b) PROVE ChunkInv'
<1>. DEFINE ids == builder[b].ids
            shown == Kept(ids, Listings \ deleted)
            record == [builder[b] EXCEPT !.at = "chunks", !.shown = shown, !.todo = Layout(shown)]
<1>1. /\ Step(b, record) /\ UNCHANGED <<listed, deleted, edits, blobs, latest, failures>>
      /\ builder[b].at = "ids" /\ builder[b] \in Build /\ ids \in Lists
  BY DEF LoadListings, ChunkInv, ChunksTypeOK, Build
<1>2. shown \in Lists /\ Layout(shown) \in Seq(Chunk)
  BY <1>1, KeptIsPart, ListsAreChunks, LayoutIsComplete
<1>3. ShownOf(ids, shown, deleted)
  <2>1. ToSet(ids) \subseteq Listings
    BY <1>1 DEF Lists, ToSet
  <2>. QED  BY <2>1 DEF ShownOf
<1>4. <<>> \o Layout(shown) = Layout(shown)
  BY <1>2, ConcatEmptySeq
<1>5. record \in Build /\ OnTrack(record, blobs', deleted)
  <2>. HIDE DEF shown
  <2>1. record \in Build
    BY <1>1, <1>2 DEF Build
  <2>2. builder[b].entries = <<>>
    BY <1>1 DEF ChunkInv, OnTrack
  <2>3. /\ record.at = "chunks" /\ record.entries = <<>> /\ record.todo = Layout(shown)
        /\ record.ids = ids /\ record.shown = shown
    BY <1>1, <2>2 DEF Build
  <2>4. Stored(<<>>, blobs')
    BY DEF Stored
  <2>. HIDE DEF record
  <2>. QED  BY <1>3, <1>4, <2>1, <2>3, <2>4 DEF OnTrack
<1>. HIDE DEF record
<1>. QED  BY <1>1, <1>5, BuilderMoves DEF ChunkInv, ChunksTypeOK

\* A blob that has been found or created goes into the group, or is the row's index.
LEMMA HasBlobHolds ==
    ASSUME ChunkInv, NEW b \in Builders, WantsBlob(b), HasBlob(b), Content(b) \in blobs',
           blobs \subseteq blobs', blobs' \subseteq Blob,
           UNCHANGED <<listed, deleted, edits, latest, failures>>
    PROVE  ChunkInv'
<1>. DEFINE build == builder[b]
<1>1. build \in Build /\ OnTrack(build, blobs', deleted) /\ failures' \in 0 .. MaxFailures
  BY MoreBlobs DEF ChunkInv, ChunksTypeOK
<1>2. CASE build.at = "chunks"
  <2>. DEFINE head == Head(build.todo)
              tail == Tail(build.todo)
              entries == Append(build.entries, head)
              record == [build EXCEPT !.entries = entries, !.todo = tail, !.missing = FALSE]
  <2>1. Step(b, record) /\ [chunk |-> head] \in blobs' /\ build.todo # <<>>
    BY <1>2 DEF WantsBlob, HasBlob, Content
  <2>2. /\ build.entries \in Seq(Chunk) /\ build.todo \in Seq(Chunk)
        /\ head \in Chunk /\ tail \in Seq(Chunk) /\ entries \in Seq(Chunk)
        /\ Len(entries) = Len(build.entries) + 1 /\ Len(build.entries) \in Nat
        /\ entries[Len(build.entries) + 1] = head
        /\ \A i \in 1 .. Len(build.entries) : entries[i] = build.entries[i]
    <3>1. build.entries \in Seq(Chunk) /\ build.todo \in Seq(Chunk)
      BY <1>1 DEF Build
    <3>2. head \in Chunk /\ tail \in Seq(Chunk)
      BY <2>1, <3>1, HeadTailProperties
    <3>. QED  BY <3>1, <3>2, AppendProperties, LenProperties
  <2>3. entries \o tail = build.entries \o build.todo
    <3>1. build.todo = <<head>> \o tail
      BY <2>1, <2>2
    <3>2. entries = build.entries \o <<head>>
      BY <2>2, AppendIsConcat
    <3>3. ASSUME NEW x \in Seq(Chunk), NEW y \in Seq(Chunk), NEW z \in Seq(Chunk)
          PROVE  (x \o y) \o z = x \o (y \o z)
      BY ConcatAssociative
    <3>4. <<head>> \in Seq(Chunk)
      BY <2>2
    <3>5. (build.entries \o <<head>>) \o tail = build.entries \o (<<head>> \o tail)
      <4>1. build.entries \in Seq(Chunk) /\ tail \in Seq(Chunk)
        BY <2>2
      <4>. DEFINE one == <<head>>
                  before == build.entries
      <4>2. before \in Seq(Chunk) /\ one \in Seq(Chunk)
        BY <3>4, <4>1
      <4>. HIDE DEF tail, one, before
      <4>3. (before \o one) \o tail = before \o (one \o tail)
        BY <3>3, <4>1, <4>2
      <4>. QED  BY <4>3 DEF one, before
    <3>. HIDE DEF head, tail, entries
    <3>. QED  BY <3>1, <3>2, <3>5
  <2>4. Stored(entries, blobs')
    <3>1. Stored(build.entries, blobs')
      BY <1>1, <1>2 DEF OnTrack
    <3>. HIDE DEF head, entries
    <3>. QED  BY <2>1, <2>2, <3>1 DEF Stored
  <2>5. record \in Build /\ OnTrack(record, blobs', deleted)
    <3>. HIDE DEF head, tail, entries
    <3>1. record \in Build
      BY <1>1, <2>2 DEF Build
    <3>2. /\ record.at = "chunks" /\ record.entries = entries /\ record.todo = tail
          /\ record.ids = build.ids /\ record.shown = build.shown
      BY <1>1, <1>2 DEF Build
    <3>. HIDE DEF record
    <3>. QED  BY <1>1, <1>2, <2>3, <2>4, <3>1, <3>2 DEF OnTrack
  <2>. HIDE DEF record
  <2>. QED  BY <1>1, <2>1, <2>5, BuilderMoves
<1>3. CASE build.at # "chunks"
  <2>. DEFINE record == [build EXCEPT !.at = "row", !.missing = FALSE]
  <2>1. build.at = "index" /\ Step(b, record) /\ [index |-> ToSet(build.entries)] \in blobs'
    BY <1>3 DEF WantsBlob, HasBlob, Content
  <2>2. record \in Build /\ OnTrack(record, blobs', deleted)
    BY <1>1, <2>1 DEF Build, OnTrack
  <2>. HIDE DEF record
  <2>. QED  BY <1>1, <2>1, <2>2, BuilderMoves
<1>. QED  BY <1>2, <1>3

LEMMA ContentIsBlob ==
    ASSUME ChunkInv, NEW b \in Builders, WantsBlob(b)
    PROVE  Content(b) \in Blob
<1>1. builder[b].todo \in Seq(Chunk) /\ builder[b].entries \in Seq(Chunk)
  BY DEF ChunkInv, ChunksTypeOK, Build
<1>2. builder[b].todo # <<>> => Head(builder[b].todo) \in Chunk
  BY <1>1, HeadTailProperties
<1>3. ToSet(builder[b].entries) \subseteq Chunk
  BY <1>1, LenProperties, ElementOfSeq DEF ToSet
<1>. QED  BY <1>2, <1>3 DEF WantsBlob, Content, Blob

LEMMA FindBlobHolds == ASSUME ChunkInv, NEW b \in Builders, FindBlob(b) PROVE ChunkInv'
<1>1. WantsBlob(b) /\ UNCHANGED <<listed, deleted, edits, blobs, latest, failures>>
  BY DEF FindBlob
<1>2. blobs' \subseteq Blob /\ failures' \in 0 .. MaxFailures /\ builder[b] \in Build
  BY <1>1 DEF ChunkInv, ChunksTypeOK
<1>3. CASE Content(b) \in blobs
  <2>1. HasBlob(b)
    BY <1>3 DEF FindBlob
  <2>. QED  BY <1>1, <1>2, <1>3, <2>1, HasBlobHolds
<1>4. CASE Content(b) \notin blobs
  <2>. DEFINE record == [builder[b] EXCEPT !.missing = TRUE]
  <2>1. Step(b, record)
    BY <1>4 DEF FindBlob
  <2>2. record \in Build /\ OnTrack(record, blobs', deleted)
    BY <1>1, <1>2 DEF ChunkInv, Build, OnTrack
  <2>. HIDE DEF record
  <2>. QED  BY <1>1, <1>2, <2>1, <2>2, BuilderMoves
<1>. QED  BY <1>3, <1>4

LEMMA CreateBlobHolds == ASSUME ChunkInv, NEW b \in Builders, CreateBlob(b) PROVE ChunkInv'
<1>1. WantsBlob(b) /\ UNCHANGED <<listed, deleted, edits, latest, failures>>
  BY DEF CreateBlob
<1>2. blobs \subseteq Blob /\ failures' \in 0 .. MaxFailures
  BY <1>1 DEF ChunkInv, ChunksTypeOK
<1>3. CASE Content(b) \in blobs
  <2>1. Step(b, Unbegun) /\ UNCHANGED blobs
    BY <1>3 DEF CreateBlob
  <2>. QED  BY <1>1, <1>2, <2>1, UnbegunHolds, BuilderMoves
<1>4. CASE Content(b) \notin blobs
  <2>1. blobs' = blobs \cup {Content(b)} /\ HasBlob(b)
    BY <1>4 DEF CreateBlob
  <2>2. blobs' \subseteq Blob
    BY <1>1, <1>2, <2>1, ContentIsBlob
  <2>. QED  BY <1>1, <2>1, <2>2, HasBlobHolds
<1>. QED  BY <1>3, <1>4

LEMMA SetCompleteHolds == ASSUME ChunkInv, NEW b \in Builders, SetComplete(b) PROVE ChunkInv'
<1>. DEFINE record == [builder[b] EXCEPT !.at = "index"]
<1>1. Step(b, record) /\ UNCHANGED <<listed, deleted, edits, blobs, latest, failures>>
  BY DEF SetComplete
<1>2. record \in Build /\ OnTrack(record, blobs', deleted)
  BY <1>1 DEF SetComplete, ChunkInv, ChunksTypeOK, Build, OnTrack
<1>. HIDE DEF record
<1>. QED  BY <1>1, <1>2, BuilderMoves DEF ChunkInv, ChunksTypeOK

LEMMA BuildEndsHolds ==
    ASSUME ChunkInv, NEW b \in Builders, CreateCache(b) \/ BuildFails(b)
    PROVE  ChunkInv'
<1>1. Step(b, Unbegun) /\ UNCHANGED <<listed, deleted, edits, blobs>>
  BY DEF CreateCache, BuildFails
<1>2. ASSUME NEW d \in Builders PROVE OnTrack(builder'[d], blobs', deleted')
  <2>1. builder'[d] = IF d = b THEN Unbegun ELSE builder[d]
    BY <1>1 DEF ChunkInv, ChunksTypeOK, Step
  <2>. QED  BY <1>1, <2>1, UnbegunHolds DEF ChunkInv
<1>3. builder' \in [Builders -> Build]
  BY <1>1, UnbegunHolds DEF ChunkInv, ChunksTypeOK, Step
<1>4. CASE CreateCache(b)
  <2>. DEFINE build == builder[b]
  <2>1. /\ build.at = "row" /\ build \in Build /\ failures' = failures
        /\ latest' = [ids |-> build.ids, shown |-> build.shown, entries |-> build.entries,
                      index |-> [index |-> ToSet(build.entries)]]
    BY <1>4 DEF CreateCache, Content, ChunkInv, ChunksTypeOK
  <2>2. OnTrack(build, blobs, deleted)
    BY DEF ChunkInv
  <2>3. build.entries = Layout(build.shown)
    <3>1. build.entries \in Seq(Chunk) /\ build.todo = <<>>
      BY <2>1, <2>2 DEF OnTrack, Build
    <3>2. build.entries \o <<>> = build.entries
      BY <3>1, ConcatEmptySeq
    <3>. QED  BY <2>1, <2>2, <3>1, <3>2 DEF OnTrack
  <2>4. Built(latest', blobs', deleted')
    BY <1>1, <2>1, <2>2, <2>3 DEF OnTrack, Built
  <2>5. latest' \in Cache
    <3>1. [index |-> ToSet(build.entries)] \in Blob
      BY <2>1, <2>2 DEF OnTrack, ChunkInv, ChunksTypeOK
    <3>. QED  BY <2>1, <3>1 DEF Build, Cache
  <2>. QED  BY <1>1, <1>2, <1>3, <2>1, <2>4, <2>5 DEF ChunkInv, ChunksTypeOK
<1>5. CASE BuildFails(b)
  <2>1. failures' \in 0 .. MaxFailures /\ UNCHANGED latest
    BY <1>5, ChunksAssumption DEF BuildFails, ChunkInv, ChunksTypeOK
  <2>. QED  BY <1>1, <1>2, <1>3, <2>1 DEF ChunkInv, ChunksTypeOK
<1>. QED  BY <1>4, <1>5

LEMMA ListingChangesHold ==
    ASSUME ChunkInv, NEW l \in Listings, EditListing(l) \/ DeleteListing(l)
    PROVE  ChunkInv'
<1>1. /\ edits' \in 0 .. MaxEdits /\ deleted \subseteq deleted' /\ deleted' \subseteq Listings
      /\ UNCHANGED <<blobs, builder, latest, failures>>
  BY ChunksAssumption DEF EditListing, DeleteListing, ChunkInv, ChunksTypeOK
<1>2. listed' \in Lists
  BY KeptIsPart DEF EditListing, DeleteListing, Without, ChunkInv, ChunksTypeOK
<1>3. ASSUME NEW d \in Builders PROVE OnTrack(builder'[d], blobs', deleted')
  BY <1>1, MoreBlobs DEF ChunkInv
<1>4. latest' # NoCache => Built(latest', blobs', deleted')
  BY <1>1, MoreBlobs DEF ChunkInv
<1>. QED  BY <1>1, <1>2, <1>3, <1>4 DEF ChunkInv, ChunksTypeOK

-----------------------------------------------------------------------------
(* The theorems *)

LEMMA ChunkStepHolds == ChunkInv /\ [ChunksNext]_chunkVars => ChunkInv'
<1>. SUFFICES ASSUME ChunkInv, [ChunksNext]_chunkVars PROVE ChunkInv'
  OBVIOUS
<1>1. ASSUME NEW b \in Builders, QueryIds(b) PROVE ChunkInv'
  BY <1>1, QueryIdsHolds
<1>2. ASSUME NEW b \in Builders, LoadListings(b) PROVE ChunkInv'
  BY <1>2, LoadListingsHolds
<1>3. ASSUME NEW b \in Builders, FindBlob(b) PROVE ChunkInv'
  BY <1>3, FindBlobHolds
<1>4. ASSUME NEW b \in Builders, CreateBlob(b) PROVE ChunkInv'
  BY <1>4, CreateBlobHolds
<1>5. ASSUME NEW b \in Builders, SetComplete(b) PROVE ChunkInv'
  BY <1>5, SetCompleteHolds
<1>6. ASSUME NEW b \in Builders, CreateCache(b) \/ BuildFails(b) PROVE ChunkInv'
  BY <1>6, BuildEndsHolds
<1>7. ASSUME NEW l \in Listings, EditListing(l) \/ DeleteListing(l) PROVE ChunkInv'
  BY <1>7, ListingChangesHold
<1>8. CASE UNCHANGED chunkVars
  BY <1>8 DEF chunkVars, ChunkInv, ChunksTypeOK
<1>. QED  BY <1>1, <1>2, <1>3, <1>4, <1>5, <1>6, <1>7, <1>8 DEF ChunksNext, BuilderStep

LEMMA ChunkInvIsEnough == ChunkInv => ChunkedIsComplete
<1>. SUFFICES ASSUME ChunkInv, latest # NoCache PROVE ChunkedIsComplete
  BY DEF ChunkedIsComplete
<1>1. Built(latest, blobs, deleted) /\ latest \in Cache
  BY DEF ChunkInv, ChunksTypeOK
<1>2. latest.shown \in Chunk /\ latest.entries \in Seq(Chunk)
  BY <1>1, ListsAreChunks DEF Cache
<1>3. /\ FlattenSeq(latest.entries) = latest.shown
      /\ \A i \in 1 .. Len(latest.entries) :
             \/ Fits(latest.entries[i])
             \/ latest.entries[i] = <<>> /\ Len(latest.entries) = 1
  BY <1>1, <1>2, LayoutIsComplete DEF Built
<1>4. ASSUME NEW chunk \in ToSet(latest.entries)
      PROVE  /\ [chunk |-> chunk] \in blobs
             /\ Len(chunk) > 1 => Bytes(chunk) <= ChunkLimit + 1
             /\ chunk = <<>> => Len(latest.entries) = 1
  <2>1. PICK i \in 1 .. Len(latest.entries) : chunk = latest.entries[i]
    BY <1>2, LenProperties DEF ToSet
  <2>2. [chunk |-> chunk] \in blobs
    BY <1>1, <2>1 DEF Built, Stored
  <2>3. CASE Fits(chunk)
    BY <2>2, <2>3 DEF Fits
  <2>4. CASE chunk = <<>> /\ Len(latest.entries) = 1
    BY <2>2, <2>4
  <2>. QED  BY <1>3, <2>1, <2>3, <2>4
<1>. QED  BY <1>1, <1>3, <1>4 DEF Built, ShownOf, ChunkedIsComplete

\* The inductive invariant of the chunked cache holds in every reachable state.
THEOREM ChunkInvariance == ChunksSpec => []ChunkInv
<1>1. ChunksInit => ChunkInv
  BY ChunksInitHolds
<1>. QED  BY <1>1, ChunkStepHolds, PTL DEF ChunksSpec

\* APIV1ChunkedPackageCache: whatever listings a community has and however they are cut
\* into chunks, however many builders overlap and fail, the latest cache can be read to
\* the end.
THEOREM LatestIsComplete == ChunksSpec => []ChunkedIsComplete
  BY ChunkInvariance, ChunkInvIsEnough, PTL

-----------------------------------------------------------------------------
(* Part 3: the walk through the versions.  A version that was there all    *)
(* the time is yielded, still ahead of the cursor or overtaken.            *)

\* Rows have ids of their own, below the sequence.
IdsDiffer ==
    /\ \A u \in Uploads : version[u].id < nextId
    /\ \A u, v \in Uploads :
           /\ u # v /\ version[u].at \in {"inserted", "committed"}
           /\ version[v].at \in {"inserted", "committed"}
           => version[u].id # version[v].id

\* All that is yielded is there for good, and stands in the order of the query.
YieldedInOrder ==
    /\ \A i \in 1 .. Len(walk.yielded) : version[walk.yielded[i]].at = "committed"
    /\ \A i, j \in 1 .. Len(walk.yielded) : i < j => Before(walk.yielded[i], walk.yielded[j])

\* What was there all the time is yielded, still ahead of the cursor or overtaken.
SteadyAhead ==
    \A u \in steady :
        \/ u \in ToSet(walk.yielded)
        \/ walk.at # "done" /\ AfterCursor(u)
        \/ \E v \in ToSet(walk.yielded) : Overtaken(u, v)

CursorInv ==
    /\ CursorTypeOK /\ IdsDiffer /\ YieldedInOrder /\ SteadyAhead
    /\ steady \subseteq Visible
    /\ walk.at = "off" => walk.yielded = <<>>

-----------------------------------------------------------------------------
(* Versions and their order *)

LEMMA CursorNumbers ==
    ASSUME CursorTypeOK
    PROVE  /\ \A u \in Uploads : version[u].date \in Nat /\ version[u].id \in Nat
           /\ nextId \in Nat /\ walk.yielded \in Seq(Uploads)
           /\ \A i \in 1 .. Len(walk.yielded) : walk.yielded[i] \in Uploads
           /\ ToSet(walk.yielded) = {walk.yielded[i] : i \in 1 .. Len(walk.yielded)}
<1>1. walk.yielded \in Seq(Uploads)
  BY DEF CursorTypeOK
<1>. QED  BY <1>1, ElementOfSeq, CursorAssumption DEF CursorTypeOK, ToSet

LEMMA BeforeIsAnOrder ==
    ASSUME CursorTypeOK, NEW u \in Uploads, NEW v \in Uploads, NEW w \in Uploads
    PROVE  /\ ~Before(u, u)
           /\ Before(u, v) /\ Before(v, w) => Before(u, w)
  BY CursorNumbers DEF Before

\* The walk is not disturbed by a step that leaves committed versions their dates and ids.
LEMMA UploadStep ==
    ASSUME CursorInv, CursorTypeOK', UNCHANGED walk, steady' \subseteq steady,
           \A u \in Uploads : version[u].at = "committed" =>
               /\ version'[u].at = "committed"
               /\ version'[u].date = version[u].date /\ version'[u].id = version[u].id,
           \A u \in steady' : version'[u].active = version[u].active
    PROVE  /\ YieldedInOrder' /\ SteadyAhead'
           /\ steady' \subseteq Visible'
           /\ walk'.at = "off" => walk'.yielded = <<>>
<1>1. \A i \in 1 .. Len(walk.yielded) :
          walk.yielded[i] \in Uploads /\ version[walk.yielded[i]].at = "committed"
  BY CursorNumbers DEF CursorInv, YieldedInOrder
<1>2. YieldedInOrder'
  BY <1>1 DEF CursorInv, YieldedInOrder, Before
<1>3. steady' \subseteq Visible'
  BY DEF CursorInv, Visible
<1>4. \A v \in ToSet(walk.yielded) : v \in Uploads /\ version[v].at = "committed"
  <2>1. ToSet(walk.yielded) = {walk.yielded[i] : i \in 1 .. Len(walk.yielded)}
    BY CursorNumbers DEF CursorInv
  <2>. QED  BY <1>1, <2>1
<1>5. \A u \in steady : u \in Uploads /\ version[u].at = "committed"
  BY DEF CursorInv, Visible
<1>6. walk.yielded # <<>> => Last(walk.yielded) \in ToSet(walk.yielded)
  <2>. SUFFICES ASSUME walk.yielded # <<>> PROVE Last(walk.yielded) \in ToSet(walk.yielded)
    OBVIOUS
  <2>1. Len(walk.yielded) \in 1 .. Len(walk.yielded)
    BY CursorNumbers, EmptySeq DEF CursorInv
  <2>. QED  BY <2>1, CursorNumbers DEF CursorInv, Last
<1>7. SteadyAhead'
  <2>. SUFFICES ASSUME NEW u \in steady'
                PROVE  \/ u \in ToSet(walk.yielded)
                       \/ walk.at # "done" /\ AfterCursor(u)'
                       \/ \E v \in ToSet(walk.yielded) : Overtaken(u, v)'
    BY DEF SteadyAhead
  <2>1. CASE u \in ToSet(walk.yielded)
    BY <2>1
  <2>2. CASE walk.at # "done" /\ AfterCursor(u)
    BY <1>4, <1>5, <1>6, <2>2 DEF AfterCursor
  <2>3. CASE \E v \in ToSet(walk.yielded) : Overtaken(u, v)
    BY <1>4, <1>5, <2>3 DEF Overtaken
  <2>. QED  BY <2>1, <2>2, <2>3 DEF CursorInv, SteadyAhead
<1>. QED  BY <1>2, <1>3, <1>7 DEF CursorInv

-----------------------------------------------------------------------------
(* The steps *)

LEMMA CursorInitHolds == ASSUME CursorInit PROVE CursorInv
<1>1. CursorTypeOK
  BY CursorAssumption, EmptySeq DEF CursorInit, CursorTypeOK
<1>. QED  BY <1>1 DEF CursorInit, CursorInv, IdsDiffer, YieldedInOrder, SteadyAhead

LEMMA TakeDateHolds == ASSUME CursorInv, NEW u \in Uploads, TakeDate(u) PROVE CursorInv'
<1>1. CursorTypeOK'
  <2>1. version[u] \in [at : {"none", "dated", "inserted", "committed"},
                        date : 0 .. MaxDate, id : Nat, active : BOOLEAN]
    BY DEF CursorInv, CursorTypeOK
  <2>2. [version[u] EXCEPT !.at = "dated", !.date = today]
            \in [at : {"none", "dated", "inserted", "committed"},
                date : 0 .. MaxDate, id : Nat, active : BOOLEAN]
    BY <2>1 DEF CursorInv, CursorTypeOK
  <2>3. version' = [version EXCEPT ![u] = [version[u] EXCEPT !.at = "dated", !.date = today]]
    BY DEF TakeDate
  <2>. QED  BY <2>2, <2>3 DEF CursorInv, CursorTypeOK, TakeDate
<1>2. \A v \in Uploads : version'[v] = IF v = u
                             THEN [version[u] EXCEPT !.at = "dated", !.date = today]
                             ELSE version[v]
  BY DEF CursorInv, CursorTypeOK, TakeDate
<1>3. IdsDiffer'
  <2>1. ASSUME NEW v \in Uploads
        PROVE  /\ version'[v].id = version[v].id
               /\ version'[v].at \in {"inserted", "committed"} => version'[v].at = version[v].at
    <3>1. version[v] \in [at : {"none", "dated", "inserted", "committed"},
                          date : 0 .. MaxDate, id : Nat, active : BOOLEAN]
      BY DEF CursorInv, CursorTypeOK
    <3>. QED  BY <1>2, <3>1
  <2>2. IdsDiffer /\ nextId' = nextId
    BY DEF CursorInv, TakeDate
  <2>. QED  BY <2>1, <2>2 DEF IdsDiffer
<1>4. \A v \in steady : version[v].at = "committed" /\ v \in Uploads
  BY DEF CursorInv, Visible
<1>. QED  BY <1>1, <1>2, <1>3, <1>4, UploadStep DEF TakeDate, CursorInv

LEMMA InsertHolds == ASSUME CursorInv, NEW u \in Uploads, InsertVersion(u) PROVE CursorInv'
<1>1. CursorTypeOK'
  <2>1. nextId \in Nat /\ nextId' \in Nat \ {0}
    BY DEF CursorInv, CursorTypeOK, InsertVersion
  <2>2. [version[u] EXCEPT !.at = "inserted", !.id = nextId]
            \in [at : {"none", "dated", "inserted", "committed"}, date : 0 .. MaxDate, id : Nat,
                active : BOOLEAN]
    BY <2>1 DEF CursorInv, CursorTypeOK
  <2>3. version' = [version EXCEPT ![u] = [version[u] EXCEPT !.at = "inserted", !.id = nextId]]
    BY DEF CursorInv, CursorTypeOK, InsertVersion
  <2>. QED  BY <2>1, <2>2, <2>3 DEF CursorInv, CursorTypeOK, InsertVersion
<1>2. \A v \in Uploads : version'[v] = IF v = u
                             THEN [version[u] EXCEPT !.at = "inserted", !.id = nextId]
                             ELSE version[v]
  BY DEF CursorInv, CursorTypeOK, InsertVersion
<1>3. version'[u].id = nextId /\ version'[u].at = "inserted" /\ nextId' = nextId + 1
  BY <1>2 DEF CursorInv, CursorTypeOK, InsertVersion
<1>4. IdsDiffer'
  <2>1. \A v \in Uploads : v # u => version'[v] = version[v] /\ version[v].id < nextId
    BY <1>2 DEF CursorInv, IdsDiffer
  <2>2. \A v \in Uploads : version'[v].id < nextId'
    BY <1>3, <2>1, CursorNumbers DEF CursorInv
  <2>3. ASSUME NEW v \in Uploads, NEW w \in Uploads, v # w,
               version'[v].at \in {"inserted", "committed"},
               version'[w].at \in {"inserted", "committed"}
        PROVE  version'[v].id # version'[w].id
    BY <1>3, <2>1, <2>3, CursorNumbers DEF CursorInv, IdsDiffer
  <2>. QED  BY <2>2, <2>3 DEF IdsDiffer
<1>5. \A v \in steady : version[v].at = "committed" /\ v \in Uploads
  BY DEF CursorInv, Visible
<1>. QED  BY <1>1, <1>2, <1>4, <1>5, UploadStep DEF InsertVersion, CursorInv

LEMMA CommitVersionHolds ==
    ASSUME CursorInv, NEW u \in Uploads, CommitVersion(u)
    PROVE  CursorInv'
<1>1. CursorTypeOK'
  BY DEF CursorInv, CursorTypeOK, CommitVersion
<1>2. \A v \in Uploads : version'[v] = IF v = u THEN [version[u] EXCEPT !.at = "committed"]
                                       ELSE version[v]
  BY DEF CursorInv, CursorTypeOK, CommitVersion
<1>3. \A v \in Uploads : /\ version'[v].id = version[v].id /\ version'[v].date = version[v].date
                         /\ version'[v].active = version[v].active
                         /\ version'[v].at = version[v].at \/ version[v].at = "inserted"
  BY <1>2 DEF CursorInv, CursorTypeOK, CommitVersion
<1>4. IdsDiffer'
  BY <1>3 DEF CursorInv, IdsDiffer, CommitVersion
<1>5. \A v \in steady : version[v].at = "committed" /\ v \in Uploads
  BY DEF CursorInv, Visible
<1>. QED  BY <1>1, <1>3, <1>4, <1>5, UploadStep DEF CommitVersion, CursorInv

LEMMA ToggleHolds == ASSUME CursorInv, NEW u \in Uploads, ToggleActive(u) PROVE CursorInv'
<1>1. CursorTypeOK'
  <2>1. [version[u] EXCEPT !.active = ~@] \in [at : {"none", "dated", "inserted", "committed"},
            date : 0 .. MaxDate, id : Nat, active : BOOLEAN]
    BY DEF CursorInv, CursorTypeOK
  <2>2. version' = [version EXCEPT ![u] = [version[u] EXCEPT !.active = ~@]]
    BY DEF CursorInv, CursorTypeOK, ToggleActive
  <2>3. version' \in [Uploads -> [at : {"none", "dated", "inserted", "committed"},
            date : 0 .. MaxDate, id : Nat, active : BOOLEAN]]
    BY <2>1, <2>2 DEF CursorInv, CursorTypeOK
  <2>4. today' = today /\ nextId' = nextId /\ walk' = walk /\ steady' \subseteq steady
        /\ toggles' \in 0 .. MaxToggles
    BY CursorAssumption DEF CursorInv, CursorTypeOK, ToggleActive
  <2>. QED  BY <2>3, <2>4 DEF CursorInv, CursorTypeOK
<1>2. \A v \in Uploads : /\ version'[v].id = version[v].id /\ version'[v].date = version[v].date
                         /\ version'[v].at = version[v].at
                         /\ v # u => version'[v].active = version[v].active
  BY DEF CursorInv, CursorTypeOK, ToggleActive
<1>3. IdsDiffer'
  BY <1>2 DEF CursorInv, IdsDiffer, ToggleActive
<1>4. \A v \in steady' : v \in Uploads /\ v # u
  BY DEF CursorInv, Visible, ToggleActive
<1>. QED  BY <1>1, <1>2, <1>3, <1>4, UploadStep DEF ToggleActive, CursorInv

LEMMA BeginWalkHolds == ASSUME CursorInv, BeginWalk PROVE CursorInv'
<1>1. /\ walk' = [at |-> "on", yielded |-> <<>>] /\ steady' = Visible
      /\ UNCHANGED <<today, version, nextId, toggles>>
  BY DEF BeginWalk, CursorInv, CursorTypeOK
<1>2. CursorTypeOK'
  BY <1>1, EmptySeq DEF CursorInv, CursorTypeOK, Visible
<1>3. Visible' = Visible
  BY <1>1 DEF Visible
<1>. QED  BY <1>1, <1>2, <1>3 DEF CursorInv, IdsDiffer, YieldedInOrder, SteadyAhead, AfterCursor

\* A page continues the order of what was yielded: its versions have later ids than the
\* cursor's and no earlier dates.
LEMMA PageContinues ==
    ASSUME CursorInv, NEW u \in Rest, NEW i \in 1 .. Len(walk.yielded)
    PROVE  Before(walk.yielded[i], u)
<1>. DEFINE last == Last(walk.yielded)
            size == Len(walk.yielded)
<1>1. size \in Nat /\ i <= size /\ i \in Nat /\ size \in 1 .. size
  BY CursorNumbers, LenProperties DEF CursorInv
<1>2. last = walk.yielded[size] /\ walk.yielded # <<>>
  BY <1>1, CursorNumbers, EmptySeq DEF CursorInv, Last
<1>3. last \in Uploads /\ u \in Uploads /\ walk.yielded[i] \in Uploads
  BY <1>1, <1>2, CursorNumbers DEF CursorInv, Rest, Visible
<1>4. Before(last, u)
  BY <1>2, <1>3, CursorNumbers DEF CursorInv, Rest, AfterCursor, Before
<1>5. i = size \/ Before(walk.yielded[i], last)
  BY <1>1, <1>2 DEF CursorInv, YieldedInOrder
<1>. QED  BY <1>2, <1>3, <1>4, <1>5, BeforeIsAnOrder DEF CursorInv

\* What a page passes over stays ahead of its last version, or was overtaken by it.
LEMMA FetchPageHolds == ASSUME CursorInv, FetchPage PROVE CursorInv'
<1>. DEFINE fetches(page) ==
         /\ IsPage(page)
         /\ walk' = IF page = <<>> THEN [walk EXCEPT !.at = "done"]
                                   ELSE [walk EXCEPT !.yielded = @ \o page]
<1>0. PICK size \in 0 .. PageSize : \E page \in [1 .. size -> Rest] : fetches(page)
  BY DEF FetchPage
<1>1. PICK page \in [1 .. size -> Rest] : fetches(page)
  BY <1>0
<1>2. /\ size \in Nat /\ page \in Seq(Rest) /\ page \in Seq(Uploads) /\ Len(page) = size
      /\ Rest \subseteq Visible /\ Visible \subseteq Uploads
      /\ \A i \in 1 .. size : page[i] \in Rest
  <2>1. Rest \subseteq Visible /\ Visible \subseteq Uploads /\ Rest \subseteq Uploads
    BY DEF Rest, Visible
  <2>2. size \in Nat /\ page \in Seq(Rest) /\ Len(page) = size
    BY CursorAssumption
  <2>. QED  BY <2>1, <2>2, SeqMonotonic
<1>3. /\ walk.at = "on" /\ UNCHANGED <<today, version, nextId, steady, toggles>>
      /\ Visible' = Visible /\ walk.yielded \in Seq(Uploads)
      /\ walk \in [at : {"off", "on", "done"}, yielded : Seq(Uploads)]
  BY DEF FetchPage, Visible, CursorInv, CursorTypeOK
<1>4. IdsDiffer' /\ steady' \subseteq Visible'
  BY <1>3 DEF CursorInv, IdsDiffer
<1>5. CASE page = <<>>
  <2>1. walk'.at = "done" /\ walk'.yielded = walk.yielded /\ CursorTypeOK'
    BY <1>1, <1>3, <1>5 DEF CursorInv, CursorTypeOK
  <2>2. YieldedInOrder'
    BY <1>3, <2>1 DEF CursorInv, YieldedInOrder, Before
  <2>3. Rest = {}
    BY <1>1, <1>5, CursorAssumption DEF IsPage, ToSet
  <2>4. \A u \in steady : ~AfterCursor(u)
    BY <2>3 DEF Rest, CursorInv
  <2>5. SteadyAhead'
    BY <1>3, <2>1, <2>4 DEF CursorInv, SteadyAhead, Overtaken
  <2>. QED  BY <1>4, <2>1, <2>2, <2>5 DEF CursorInv
<1>6. CASE page # <<>>
  <2>. DEFINE m == Len(walk.yielded)
              yielded == walk.yielded \o page
              last == page[size]
  <2>1. /\ walk'.at = "on" /\ walk'.yielded = yielded /\ yielded \in Seq(Uploads)
        /\ m \in Nat /\ Len(yielded) = m + size
        /\ \A i \in 1 .. m + size :
               yielded[i] = IF i <= m THEN walk.yielded[i] ELSE page[i - m]
    BY <1>1, <1>2, <1>3, <1>6, ConcatProperties, LenProperties
  <2>2. CursorTypeOK' /\ size \in 1 .. size
    <3>1. size # 0
      BY <1>2, <1>6, LenProperties, EmptySeq
    <3>. HIDE DEF m, yielded
    <3>2. walk' \in [at : {"off", "on", "done"}, yielded : Seq(Uploads)]
      BY <1>1, <1>3, <1>6, <2>1 DEF yielded
    <3>. QED  BY <1>2, <1>3, <3>1, <3>2 DEF CursorInv, CursorTypeOK
  <2>. HIDE DEF m, yielded
  <2>3. ASSUME NEW i \in 1 .. m + size
        PROVE  \/ i \in 1 .. m /\ yielded[i] = walk.yielded[i]
               \/ i - m \in 1 .. size /\ yielded[i] = page[i - m] /\ yielded[i] \in Rest
    BY <1>2, <2>1
  <2>4. \A i \in 1 .. m + size : version[yielded[i]].at = "committed"
    BY <1>2, <2>3 DEF CursorInv, YieldedInOrder, Visible, m
  <2>5. ASSUME NEW i \in 1 .. m + size, NEW j \in 1 .. m + size, i < j
        PROVE  Before(yielded[i], yielded[j])
    <3>1. CASE j \in 1 .. m
      <4>1. i \in 1 .. m /\ ~(j - m \in 1 .. size) /\ ~(i - m \in 1 .. size)
        BY <1>2, <2>1, <2>5, <3>1
      <4>. QED  BY <2>3, <2>5, <3>1, <4>1 DEF CursorInv, YieldedInOrder, m
    <3>2. CASE j \notin 1 .. m /\ i \in 1 .. m
      <4>1. ~(i - m \in 1 .. size)
        BY <1>2, <2>1, <3>2
      <4>. QED  BY <2>3, <3>2, <4>1, PageContinues DEF m
    <3>3. CASE j \notin 1 .. m /\ i \notin 1 .. m
      <4>1. /\ i - m \in 1 .. size /\ j - m \in 1 .. size /\ i - m < j - m
            /\ yielded[i] = page[i - m] /\ yielded[j] = page[j - m]
        BY <1>2, <2>1, <2>3, <2>5, <3>3
      <4>. QED  BY <1>1, <1>2, <4>1 DEF IsPage
    <3>. QED  BY <2>1, <3>1, <3>2, <3>3
  <2>6. YieldedInOrder'
    BY <1>3, <2>1, <2>4, <2>5 DEF YieldedInOrder, Before
  <2>7. ToSet(yielded) = ToSet(walk.yielded) \cup ToSet(page) /\ Last(yielded) = last
    <3>1. ToSet(yielded) = {yielded[i] : i \in 1 .. m + size}
      BY <2>1, LenProperties DEF ToSet
    <3>2. /\ ToSet(walk.yielded) = {walk.yielded[i] : i \in 1 .. m}
          /\ ToSet(page) = {page[i] : i \in 1 .. size}
      BY <1>2, <1>3, LenProperties DEF ToSet, m
    <3>3. ToSet(yielded) \subseteq ToSet(walk.yielded) \cup ToSet(page)
      BY <2>3, <3>1, <3>2
    <3>4. ToSet(walk.yielded) \subseteq ToSet(yielded)
      BY <1>2, <2>1, <3>1, <3>2
    <3>5. ASSUME NEW i \in 1 .. size PROVE page[i] \in ToSet(yielded)
      <4>1. m + i \in 1 .. m + size /\ ~(m + i <= m) /\ (m + i) - m = i
        BY <1>2, <2>1
      <4>. QED  BY <2>1, <3>1, <4>1
    <3>6. m + size \in 1 .. m + size /\ ~(m + size <= m) /\ (m + size) - m = size
      BY <1>2, <2>1, <2>2
    <3>. QED  BY <2>1, <3>2, <3>3, <3>4, <3>5, <3>6 DEF Last
  <2>8. last \in ToSet(page) /\ last \in Uploads /\ last \in Visible /\ yielded # <<>>
    BY <1>2, <2>1, <2>2, LenProperties, EmptySeq DEF ToSet
  <2>9. SteadyAhead'
    <3>. SUFFICES ASSUME NEW u \in steady
                  PROVE  \/ u \in ToSet(yielded)
                         \/ AfterCursor(u)'
                         \/ \E v \in ToSet(yielded) : Overtaken(u, v)
      BY <1>3, <2>1 DEF SteadyAhead, Overtaken
    <3>1. CASE u \in ToSet(walk.yielded) \/ \E v \in ToSet(walk.yielded) : Overtaken(u, v)
      BY <2>7, <3>1
    <3>2. CASE AfterCursor(u) /\ u \notin ToSet(yielded)
      <4>1. u \in Rest /\ u \notin ToSet(page) /\ u \in Uploads /\ u # last
        BY <2>7, <2>8, <3>2 DEF CursorInv, Rest, Visible
      <4>2. Before(last, u)
        BY <1>1, <2>8, <4>1 DEF IsPage
      <4>3. /\ version[last].date \in Nat /\ version[last].id \in Nat
            /\ version[u].date \in Nat /\ version[u].id \in Nat
            /\ version[last].date <= version[u].date
        BY <2>8, <4>1, <4>2, CursorNumbers DEF CursorInv, Before
      <4>4. version[u].id # version[last].id
        BY <2>8, <4>1 DEF CursorInv, IdsDiffer, Visible
      <4>5. CASE version[u].id > version[last].id
        BY <1>3, <2>1, <2>7, <4>3, <4>5 DEF AfterCursor
      <4>6. CASE version[u].id < version[last].id
        BY <2>7, <2>8, <4>3, <4>6 DEF Overtaken
      <4>. QED  BY <4>3, <4>4, <4>5, <4>6
    <3>. QED  BY <3>1, <3>2 DEF CursorInv, SteadyAhead
  <2>. QED  BY <1>4, <2>1, <2>2, <2>6, <2>9 DEF CursorInv
<1>. QED  BY <1>5, <1>6

-----------------------------------------------------------------------------
(* The theorems *)

LEMMA CursorStepHolds == CursorInv /\ [CursorNext]_cursorVars => CursorInv'
<1>. SUFFICES ASSUME CursorInv, [CursorNext]_cursorVars PROVE CursorInv'
  OBVIOUS
<1>1. ASSUME NEW u \in Uploads, TakeDate(u) PROVE CursorInv'
  BY <1>1, TakeDateHolds
<1>2. ASSUME NEW u \in Uploads, InsertVersion(u) PROVE CursorInv'
  BY <1>2, InsertHolds
<1>3. ASSUME NEW u \in Uploads, CommitVersion(u) PROVE CursorInv'
  BY <1>3, CommitVersionHolds
<1>4. ASSUME NEW u \in Uploads, ToggleActive(u) PROVE CursorInv'
  BY <1>4, ToggleHolds
<1>5. CASE BeginWalk
  BY <1>5, BeginWalkHolds
<1>6. CASE FetchPage
  BY <1>6, FetchPageHolds
<1>7. CASE NextDate \/ UNCHANGED cursorVars
  <2>1. UNCHANGED <<version, nextId, walk, steady>> /\ CursorTypeOK'
    BY <1>7, CursorAssumption DEF NextDate, cursorVars, CursorInv, CursorTypeOK
  <2>2. IdsDiffer'
    BY <2>1 DEF CursorInv, IdsDiffer
  <2>. QED  BY <2>1, <2>2, UploadStep DEF CursorInv
<1>. QED  BY <1>1, <1>2, <1>3, <1>4, <1>5, <1>6, <1>7 DEF CursorNext

LEMMA CursorInvIsEnough == CursorInv => MissesOnlyOvertaken
<1>. SUFFICES ASSUME CursorInv PROVE MissesOnlyOvertaken
  OBVIOUS
<1>1. IsInjective(walk.yielded)
  <2>1. DOMAIN walk.yielded = 1 .. Len(walk.yielded) /\ Len(walk.yielded) \in Nat
    BY CursorNumbers, LenProperties DEF CursorInv
  <2>2. ASSUME NEW i \in 1 .. Len(walk.yielded), NEW j \in 1 .. Len(walk.yielded), i < j
        PROVE  walk.yielded[i] # walk.yielded[j]
    BY <2>2, CursorNumbers, BeforeIsAnOrder DEF CursorInv, YieldedInOrder
  <2>3. ASSUME NEW i \in 1 .. Len(walk.yielded), NEW j \in 1 .. Len(walk.yielded),
               walk.yielded[i] = walk.yielded[j]
        PROVE  i = j
    BY <2>1, <2>2, <2>3
  <2>. QED  BY <2>1, <2>3 DEF IsInjective
<1>. QED  BY <1>1 DEF CursorInv, SteadyAhead, MissesOnlyOvertaken

\* The inductive invariant of the cursor holds in every reachable state.
THEOREM CursorInvariance == CursorSpec => []CursorInv
<1>1. CursorInit => CursorInv
  BY CursorInitHolds
<1>. QED  BY <1>1, CursorStepHolds, PTL DEF CursorSpec

\* PackageVersionQuerySet.chunked_enumerate: however many versions are uploaded or
\* switched on and off while it walks, and however long its pages, it yields no version
\* twice, and leaves out one that was there all the time only if that one had overtaken
\* a version it yielded.
THEOREM LosesOnlyOvertaken == CursorSpec => []MissesOnlyOvertaken
  BY CursorInvariance, CursorInvIsEnough, PTL

==============================================================================
