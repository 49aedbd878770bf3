----------------------------- MODULE MapLibrary -----------------------------
(***************************************************************************)
(* The advanced maps and the uploaded datasets they show.  A snapshot of a *)
(* map refers to datasets; datasets are deleted or made private while maps *)
(* are saved, published and deleted.  Each write is a transaction that     *)
(* takes row locks and one advisory lock per dataset, and checks again     *)
(* under them what the request was allowed on.                             *)
(*                                                                         *)
(* One user owns all maps and datasets; visibility "unlisted" and "public" *)
(* of a dataset count as shared.  A transaction's writes appear at its     *)
(* commit, which is what other transactions see under READ COMMITTED.      *)
(***************************************************************************)
EXTENDS FiniteSets, FiniteSetsExt, Naturals

CONSTANTS
  Maps,
  SavedMaps,      \* those that have a snapshot at the start
  Datasets,       \* numbers, so that they can be sorted
  Requests,       \* executions of requests
  SnapshotCap,    \* ADVANCED_MAP_ANALYTICS_SNAPSHOT_CAP
  MaxWrites       \* bound: requests made

ASSUME DatasetsAssumption ==
  Datasets \subseteq Nat /\ IsFiniteSet(Datasets) /\ SavedMaps \subseteq Maps
ASSUME LimitsAssumption ==
  IsFiniteSet(Maps) /\ SnapshotCap \in Nat \ {0} /\ MaxWrites \in Nat

VARIABLES
  maps,           \* rows of advancedmapanalyticsmaps with their snapshots' references
  datasets,       \* rows of advancedmapdatasets: visibility, reference_count
  writes,         \* the execution of each request
  mapLock,        \* who holds a map's row
  rowLock,        \* who holds a dataset's row
  advisory,       \* who holds a dataset's advisory lock
  made            \* requests made so far

mapVars == <<maps, datasets, writes, mapLock, rowLock, advisory, made>>

NoWrite == [op |-> "none", on |-> CHOOSE m \in Maps : TRUE, refs |-> {}, next |-> "private", at |-> "idle"]
Free == "free"
ASSUME FreeAssumption == Free \notin Requests
MapOps == {"save", "update", "deleteMap"}
Stages == {"idle", "map", "locks", "delta", "commit"}

MapTypeOK ==
  /\ maps \in [Maps -> [live: BOOLEAN, visibility: {"private", "public"},
                        last: SUBSET Datasets, older: SUBSET Datasets, count: Nat]]
  /\ datasets \in [Datasets -> [visibility: {"private", "shared", "deleted"}, count: Nat]]
  /\ writes \in [Requests -> [op: MapOps \cup {"none", "setVisibility", "deleteDataset"},
                              on: Maps \cup Datasets, refs: SUBSET Datasets,
                              next: {"private", "public", "shared"}, at: Stages]]
  /\ mapLock \in [Maps -> Requests \cup {Free}]
  /\ rowLock \in [Datasets -> Requests \cup {Free}]
  /\ advisory \in [Datasets -> Requests \cup {Free}]
  /\ made \in 0..MaxWrites

\* Maps that were saved and published before: any rows that agree.
NewMap(visibility, refs) ==
  [live |-> TRUE, visibility |-> visibility, last |-> refs, older |-> {},
   count |-> IF refs = {} THEN 0 ELSE 1]
MapInit ==
  /\ maps \in [Maps -> {NewMap(v, refs) : v \in {"private", "public"}, refs \in SUBSET Datasets}]
  /\ \A m \in Maps \ SavedMaps : maps[m] = NewMap("private", {})
  /\ \E visibility \in [Datasets -> {"private", "shared"}] :
       /\ \A m \in Maps, d \in Datasets :
            maps[m].visibility = "public" /\ d \in maps[m].last => visibility[d] = "shared"
       /\ datasets = [d \in Datasets |->
            [visibility |-> visibility[d], count |-> Cardinality({m \in Maps : d \in maps[m].last})]]
  /\ writes = [w \in Requests |-> NoWrite]
  /\ mapLock = [m \in Maps |-> Free]
  /\ rowLock = [d \in Datasets |-> Free] /\ advisory = [d \in Datasets |-> Free]
  /\ made = 0

-----------------------------------------------------------------------------
(* Requests.  The use cases read without locks what a request leaves as it *)
(* is, and refuse early what the transaction would refuse again.           *)

Op(w) == writes[w].op
On(w) == writes[w].on
Asked(w) == writes[w].next
Begin(w, request) ==
  /\ writes[w].at = "idle" /\ made < MaxWrites
  /\ made' = made + 1
  /\ writes' = [writes EXCEPT ![w] = request]
  /\ UNCHANGED <<maps, datasets, mapLock, rowLock, advisory>>

\* The visibility a request asks for, or the one the map had when it was read.
NextVisibility(m) == {"private", "public", maps[m].visibility}

SaveMapSnapshot(w, m) ==
  /\ maps[m].live /\ maps[m].count < SnapshotCap
  /\ \E refs \in SUBSET Datasets, next \in NextVisibility(m) :
       Begin(w, [op |-> "save", on |-> m, refs |-> refs, next |-> next, at |-> "map"])

UpdateMap(w, m) ==
  /\ maps[m].live
  /\ \E next \in NextVisibility(m) :
       Begin(w, [op |-> "update", on |-> m, refs |-> {}, next |-> next, at |-> "map"])

DeleteMap(w, m) ==
  Begin(w, [op |-> "deleteMap", on |-> m, refs |-> {}, next |-> "private", at |-> "map"])

ReferencingNow(d) == {m \in Maps : maps[m].live /\ d \in maps[m].last}

\* Maps that refer to a dataset in any of their snapshots.
Referencing(d) == {m \in Maps : maps[m].live /\ d \in maps[m].last \cup maps[m].older}
PublicReferencing(d) == {m \in Referencing(d) : maps[m].visibility = "public"}

\* updateDatasetMetadata may also leave the visibility as it is, or was.
Conflicts(op, d, next) ==
  \/ op = "deleteDataset" /\ Referencing(d) # {}
  \/ /\ op = "setVisibility" /\ datasets[d].visibility # "private" /\ next = "private"
     /\ PublicReferencing(d) # {}

WriteDataset(w, d) ==
  /\ datasets[d].visibility # "deleted"
  /\ \E op \in {"setVisibility", "deleteDataset"}, next \in {"private", "shared"} :
       /\ ~Conflicts(op, d, next)
       /\ Begin(w, [op |-> op, on |-> d, refs |-> {}, next |-> next, at |-> "locks"])

-----------------------------------------------------------------------------
(* Locks *)

Advance(w, stage) == writes' = [writes EXCEPT ![w].at = stage]
Holding(lock, w) == {x \in DOMAIN lock : lock[x] = w}
Released(lock, w) == [x \in DOMAIN lock |-> IF lock[x] = w THEN Free ELSE lock[x]]
End(w) ==
  /\ writes' = [writes EXCEPT ![w] = NoWrite]
  /\ mapLock' = Released(mapLock, w)
  /\ rowLock' = Released(rowLock, w) /\ advisory' = Released(advisory, w)

\* The datasets a write takes advisory locks of.
ToLock(w) ==
  CASE Op(w) = "save" -> maps[On(w)].last \cup writes[w].refs
    [] Op(w) = "update" -> maps[On(w)].last
    [] Op(w) = "deleteMap" -> {}
    [] OTHER -> {On(w)}

\* ... and the rows: FOR UPDATE before the check, then for the counts.
RowsToCheck(w) == IF Op(w) = "save" THEN writes[w].refs
                  ELSE IF Op(w) = "deleteMap" THEN {} ELSE ToLock(w)
RowsToCount(w) ==
  CASE Op(w) = "save" -> (maps[On(w)].last \ writes[w].refs) \cup (writes[w].refs \ maps[On(w)].last)
    [] Op(w) = "deleteMap" -> maps[On(w)].last
    [] OTHER -> {}
LocksWanted(w) == IF writes[w].at = "locks" THEN ToLock(w) \ Holding(advisory, w) ELSE {}
Checking(w) == writes[w].at = "locks" /\ LocksWanted(w) = {}
RowsWanted(w) ==
  (CASE Checking(w) -> RowsToCheck(w) [] writes[w].at = "delta" -> RowsToCount(w) [] OTHER -> {})
    \ Holding(rowLock, w)

AtCap(m) == maps[m].count >= SnapshotCap

\* SELECT ... FOR UPDATE of the map; what is decided on that row alone.
LockMap(w) ==
  /\ writes[w].at = "map" /\ mapLock[On(w)] = Free
  /\ IF ~maps[On(w)].live \/ (Op(w) = "save" /\ AtCap(On(w)))
     THEN End(w)
     ELSE /\ mapLock' = [mapLock EXCEPT ![On(w)] = w]
          /\ Advance(w, CASE Op(w) = "deleteMap" -> "delta"
                          [] Op(w) = "update" /\ Asked(w) # "public" -> "commit"
                          [] OTHER -> "locks")
          /\ UNCHANGED <<rowLock, advisory>>
  /\ UNCHANGED <<maps, datasets, made>>

\* Locks removed datasets before added ones.
NextLockAsListed(w) ==
  LET removed == LocksWanted(w) \cap (IF On(w) \in Maps THEN maps[On(w)].last ELSE {})
  IN  Min(IF removed # {} THEN removed ELSE LocksWanted(w))
\* acquireAdvancedMapDatasetTransactionLocks sorts.
NextLock(w) == Min(LocksWanted(w))

LockDataset(w) ==
  /\ LocksWanted(w) # {} /\ advisory[NextLock(w)] = Free
  /\ advisory' = [advisory EXCEPT ![NextLock(w)] = w]
  /\ UNCHANGED <<maps, datasets, writes, mapLock, rowLock, made>>

\* A statement locks its rows in the order the plan finds them.
LockRow(w) ==
  /\ \E d \in RowsWanted(w) :
       rowLock[d] = Free /\ rowLock' = [rowLock EXCEPT ![d] = w]
  /\ UNCHANGED <<maps, datasets, writes, mapLock, advisory, made>>

-----------------------------------------------------------------------------
(* The decisive check under the locks, and the commit *)

\* validateUploadedDatasetAccessForMapWrite
Allowed(w) ==
  IF Op(w) \in MapOps
  THEN \A d \in RowsToCheck(w) :
         datasets[d].visibility \in (IF Asked(w) = "public" THEN {"shared"} ELSE {"private", "shared"})
  ELSE datasets[On(w)].visibility # "deleted" /\ ~Conflicts(Op(w), On(w), Asked(w))

CheckUnderLocks(w) ==
  /\ Checking(w) /\ RowsWanted(w) = {}
  /\ IF Allowed(w)
     THEN /\ Advance(w, IF Op(w) = "save" THEN "delta" ELSE "commit")
          /\ UNCHANGED <<mapLock, rowLock, advisory>>
     ELSE End(w)
  /\ UNCHANGED <<maps, datasets, made>>

\* applyDatasetReferenceDelta
Counted(removed, added) ==
  [d \in Datasets |->
     [datasets[d] EXCEPT !.count =
        IF d \in removed \ added THEN (IF @ > 0 THEN @ - 1 ELSE 0)
        ELSE IF d \in added \ removed THEN @ + 1 ELSE @]]

CommitSave(w) ==
  /\ Op(w) = "save" /\ writes[w].at = "delta" /\ RowsWanted(w) = {}
  /\ LET m == On(w) IN
       /\ maps' = [maps EXCEPT ![m].visibility = Asked(w), ![m].last = writes[w].refs,
                               ![m].older = @ \cup maps[m].last, ![m].count = @ + 1]
       /\ datasets' = Counted(maps[m].last, writes[w].refs)
  /\ End(w) /\ UNCHANGED made

CommitUpdate(w) ==
  /\ Op(w) = "update" /\ writes[w].at = "commit"
  /\ maps' = [maps EXCEPT ![On(w)].visibility = Asked(w)]
  /\ End(w) /\ UNCHANGED <<datasets, made>>

CommitDeleteMap(w) ==
  /\ Op(w) = "deleteMap" /\ writes[w].at = "delta" /\ RowsWanted(w) = {}
  /\ maps' = [maps EXCEPT ![On(w)].live = FALSE]
  /\ datasets' = Counted(maps[On(w)].last, {})
  /\ End(w) /\ UNCHANGED made

CommitDataset(w) ==
  /\ Op(w) \in {"setVisibility", "deleteDataset"} /\ writes[w].at = "commit"
  /\ datasets' = [datasets EXCEPT ![On(w)].visibility =
                    IF Op(w) = "deleteDataset" THEN "deleted" ELSE Asked(w)]
  /\ End(w) /\ UNCHANGED <<maps, made>>

\* Transactions of which each may wait for a lock of the other.
Awaits(w) ==
  {rowLock[d] : d \in RowsWanted(w)}
    \cup (IF LocksWanted(w) # {} THEN {advisory[NextLock(w)]} ELSE {})
    \cup (IF writes[w].at = "map" THEN {mapLock[On(w)]} ELSE {})
Deadlocked(v, w) == v # w /\ w \in Awaits(v) /\ v \in Awaits(w)

\* The database ends one of them.  (Any other transaction that fails releases
\* its locks and leaves no trace, like one that was never begun.)
Rollback(w) ==
  /\ \E v \in Requests : Deadlocked(v, w)
  /\ End(w) /\ UNCHANGED <<maps, datasets, made>>

MapNext ==
  \E w \in Requests :
    \/ \E m \in Maps : SaveMapSnapshot(w, m) \/ UpdateMap(w, m) \/ DeleteMap(w, m)
    \/ \E d \in Datasets : WriteDataset(w, d)
    \/ LockMap(w) \/ LockDataset(w) \/ LockRow(w) \/ CheckUnderLocks(w)
    \/ CommitSave(w) \/ CommitUpdate(w) \/ CommitDeleteMap(w) \/ CommitDataset(w)
    \/ Rollback(w)

MapSpec == MapInit /\ [][MapNext]_mapVars

-----------------------------------------------------------------------------
(* Properties *)

\* Whatever order saves, publications, deletions and restrictions commit in, what
\* a map shows exists, and what a public map shows is shared; reference_count is
\* the number of live maps whose current snapshot refers to the dataset, and no
\* map has more snapshots than the cap.
LibraryAgrees ==
  /\ \A m \in Maps : maps[m].live =>
       /\ \A d \in maps[m].last \cup maps[m].older : datasets[d].visibility # "deleted"
       /\ maps[m].visibility = "public" => \A d \in maps[m].last : datasets[d].visibility = "shared"
       /\ maps[m].count <= SnapshotCap
  /\ \A d \in Datasets :
       datasets[d].count = Cardinality({m \in Maps : maps[m].live /\ d \in maps[m].last})

\* Two transactions wait for each other only if one of them deletes a map:
\* that one updates the datasets' rows without their advisory locks.
OnlyDeletionsDeadlock ==
  \A v, w \in Requests :
    Deadlocked(v, w) => "deleteMap" \in {Op(v), Op(w)}
=============================================================================
