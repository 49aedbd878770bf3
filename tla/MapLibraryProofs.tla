-------------------------- MODULE MapLibraryProofs --------------------------
(***************************************************************************)
(* The locks of the map library, proved to be enough for any number of     *)
(* maps, datasets and requests.                                            *)
(***************************************************************************)
EXTENDS MapLibrary, FiniteSetTheorems, WellFoundedInduction, TLAPS

-----------------------------------------------------------------------------
(* The inductive invariant                                                   *)

DatasetOps == {"setVisibility", "deleteDataset"}
MapRows == [live: BOOLEAN, visibility: {"private", "public"},
            last: SUBSET Datasets, older: SUBSET Datasets, count: Nat]
DatasetRows == [visibility: {"private", "shared", "deleted"}, count: Nat]
WriteRecords == [op: MapOps \cup DatasetOps \cup {"none"},
                 on: Maps \cup Datasets \cup {NoWrite.on}, refs: SUBSET Datasets,
                 next: {"private", "public", "shared"}, at: Stages]

\* MapTypeOK, also of a library without maps.
LibraryTypes ==
  /\ maps \in [Maps -> MapRows] /\ datasets \in [Datasets -> DatasetRows]
  /\ writes \in [Requests -> WriteRecords]
  /\ mapLock \in [Maps -> Requests \cup {Free}]
  /\ rowLock \in [Datasets -> Requests \cup {Free}]
  /\ advisory \in [Datasets -> Requests \cup {Free}]
  /\ made \in 0..MaxWrites

StageOf(w) == writes[w].at
Transacting(w) == StageOf(w) \in {"locks", "delta", "commit"}
\* Writes that take no advisory lock: what they do restricts no one.
Unguarded(w) == Op(w) = "deleteMap" \/ (Op(w) = "update" /\ Asked(w) # "public")

\* Which steps a request has.
StepsOK(w) ==
  /\ StageOf(w) = "idle" <=> Op(w) = "none"
  /\ Op(w) \in MapOps => On(w) \in Maps /\ Asked(w) \in {"private", "public"}
  /\ Op(w) \in DatasetOps => On(w) \in Datasets /\ Asked(w) \in {"private", "shared"}
  /\ StageOf(w) = "map" => Op(w) \in MapOps
  /\ StageOf(w) = "locks" => ~Unguarded(w)
  /\ StageOf(w) = "delta" => Op(w) \in {"save", "deleteMap"}
  /\ StageOf(w) = "commit" => Op(w) \in {"update"} \cup DatasetOps

\* The row lock of the map, and what was seen under it.
MapHeld(w) ==
  Transacting(w) /\ Op(w) \in MapOps =>
    /\ mapLock[On(w)] = w /\ maps[On(w)].live
    /\ Op(w) = "save" => ~AtCap(On(w))

\* The locks of datasets: none before the transaction, in their order while it
\* takes them, all of them once it has checked.
DatasetsHeld(w) ==
  /\ StageOf(w) \in {"idle", "map"} =>
       /\ \A m \in Maps : mapLock[m] # w
       /\ \A d \in Datasets : rowLock[d] # w /\ advisory[d] # w
  /\ StageOf(w) = "locks" =>
       \A d \in Datasets, e \in ToLock(w) : advisory[d] = w /\ advisory[e] # w => d < e
  /\ StageOf(w) \in {"delta", "commit"} /\ ~Unguarded(w) => \A d \in ToLock(w) : advisory[d] = w
  /\ Op(w) # "deleteMap" => \A d \in Datasets : rowLock[d] = w => advisory[d] = w

\* What the check under the locks found, which they keep.
Shown(d) == {m \in Maps : maps[m].live /\ d \in maps[m].last}
CheckedOK(w) ==
  /\ Op(w) = "save" /\ StageOf(w) = "delta" =>
       \A d \in writes[w].refs :
         /\ datasets[d].visibility # "deleted"
         /\ Asked(w) = "public" => datasets[d].visibility = "shared"
  /\ Op(w) = "update" /\ StageOf(w) = "commit" /\ Asked(w) = "public" =>
       \A d \in maps[On(w)].last : datasets[d].visibility = "shared"
  /\ Op(w) = "setVisibility" /\ StageOf(w) = "commit" =>
       /\ datasets[On(w)].visibility # "deleted"
       /\ Asked(w) = "private" => \A m \in Shown(On(w)) : maps[m].visibility # "public"
  /\ Op(w) = "deleteDataset" /\ StageOf(w) = "commit" => Referencing(On(w)) = {}

RequestOK(w) == StepsOK(w) /\ MapHeld(w) /\ DatasetsHeld(w)
LibraryInv ==
  /\ LibraryTypes /\ LibraryAgrees
  /\ \A w \in Requests : RequestOK(w) /\ CheckedOK(w)

-----------------------------------------------------------------------------
(* What the operators do                                                     *)

LEMMA LeastElement ==
  ASSUME NEW S \in SUBSET Nat, S # {}
  PROVE  Min(S) \in S /\ \A y \in S : Min(S) <= y
<1>1. PICK n \in S : TRUE
  OBVIOUS
<1> DEFINE below == {b \in S : b <= n}
           intervals == {0 .. b : b \in below}
<1>2. below \in SUBSET (0 .. n) /\ n \in below /\ n \in Nat
  <2>1. n \in Nat /\ \A b \in below : b \in 0 .. n
    BY <1>1
  <2>2. n \in below
    BY <2>1
  <2> HIDE DEF below
  <2>3. QED BY <2>1, <2>2
<1>3. IsFiniteSet(0 .. n)
  BY <1>2, FS_Interval
<1>4. intervals \subseteq SUBSET (0 .. n) /\ intervals # {}
  <2>1. \A b \in below : 0 .. b \in SUBSET (0 .. n)
    BY <1>2
  <2>2. QED BY <1>2, <2>1, Zenon
<1>5. IsWellFoundedOn(StrictSubsetOrdering(0 .. n), SUBSET (0 .. n))
  BY <1>3, FS_StrictSubsetOrderingWellFounded, FS_FiniteSubsetsOfFinite
<1>6. PICK x \in intervals : \A y \in intervals : ~(<<y, x>> \in StrictSubsetOrdering(0 .. n))
  <2> HIDE DEF intervals
  <2>1. QED BY <1>4, <1>5, WFMin
<1>7. PICK c \in below : x = 0 .. c
  OBVIOUS
<1>8. \A y \in S : c <= y
  <2>1. SUFFICES ASSUME NEW y \in S, y < c PROVE FALSE
    BY <1>2, <1>7
  <2>2. y \in below /\ 0 .. y \in intervals
    BY <1>2, <1>7, <2>1
  <2>3. 0 .. y \in SUBSET (0 .. n) /\ x \in SUBSET (0 .. n)
    BY <1>2, <1>7, <2>2
  <2>4. 0 .. y \subseteq x /\ c \in x /\ c \notin 0 .. y
    BY <1>2, <1>7, <2>1
  <2>5. <<0 .. y, x>> \in StrictSubsetOrdering(0 .. n)
    <3> HIDE DEF intervals, below
    <3>1. 0 .. y # x
      BY <2>4
    <3>2. QED BY <2>3, <2>4, <3>1 DEF StrictSubsetOrdering
  <2>6. QED BY <1>6, <2>2, <2>5
<1>9. QED BY <1>7, <1>8 DEF Min

LEMMA Shape ==
  ASSUME LibraryTypes, NEW w \in Requests, StepsOK(w)
  PROVE  /\ writes[w] \in WriteRecords /\ writes[w].refs \subseteq Datasets
         /\ Op(w) \in MapOps => On(w) \in Maps /\ maps[On(w)] \in MapRows
         /\ Op(w) \in DatasetOps => On(w) \in Datasets
<1>1. writes[w] \in WriteRecords
  BY DEF LibraryTypes
<1>2. QED BY <1>1 DEF LibraryTypes, StepsOK, WriteRecords

\* The cases of ToLock, RowsToCheck and RowsToCount.
LEMMA Wants ==
  ASSUME LibraryTypes, NEW w \in Requests, StepsOK(w)
  PROVE  /\ Op(w) = "save" => /\ ToLock(w) = maps[On(w)].last \cup writes[w].refs
                              /\ RowsToCheck(w) = writes[w].refs
                              /\ RowsToCount(w) \subseteq ToLock(w)
         /\ Op(w) = "update" => /\ ToLock(w) = maps[On(w)].last /\ RowsToCheck(w) = ToLock(w)
                                /\ RowsToCount(w) = {}
         /\ Op(w) = "deleteMap" => ToLock(w) = {}
         /\ Op(w) \in DatasetOps => /\ ToLock(w) = {On(w)} /\ RowsToCheck(w) = ToLock(w)
                                    /\ RowsToCount(w) = {}
         /\ Op(w) # "none" => ToLock(w) \subseteq Datasets
         /\ Op(w) \in MapOps \cup DatasetOps \cup {"none"}
<1>1. CASE Op(w) = "save"
  BY <1>1, Shape DEF ToLock, RowsToCheck, RowsToCount, MapOps, DatasetOps, MapRows
<1>2. CASE Op(w) = "update"
  BY <1>2, Shape DEF ToLock, RowsToCheck, RowsToCount, MapOps, DatasetOps, MapRows
<1>3. CASE Op(w) = "deleteMap"
  BY <1>3 DEF ToLock, MapOps, DatasetOps
<1>4. CASE Op(w) \in DatasetOps
  BY <1>4, Shape DEF ToLock, RowsToCheck, RowsToCount, MapOps, DatasetOps
<1>5. Op(w) \in MapOps \cup DatasetOps \cup {"none"}
  BY Shape DEF WriteRecords, Op
<1>6. QED BY <1>1, <1>2, <1>3, <1>4, <1>5 DEF MapOps, DatasetOps

\* The next lock is one that is wanted, before all other wanted ones.
LEMMA NextLockLeast ==
  ASSUME LibraryTypes, NEW w \in Requests, StepsOK(w), LocksWanted(w) # {}
  PROVE  /\ StageOf(w) = "locks" /\ Op(w) \notin {"none", "deleteMap"}
         /\ ToLock(w) \subseteq Datasets /\ LocksWanted(w) = {d \in ToLock(w) : advisory[d] # w}
         /\ NextLock(w) \in LocksWanted(w) /\ NextLock(w) \in Nat
         /\ \A d \in LocksWanted(w) : NextLock(w) <= d
<1>1. StageOf(w) = "locks" /\ Op(w) \notin {"none", "deleteMap"}
  BY DEF LocksWanted, StepsOK, StageOf, Unguarded
<1>2. ToLock(w) \subseteq Datasets
  BY <1>1, Wants
<1>3. LocksWanted(w) = {d \in ToLock(w) : advisory[d] # w}
  BY <1>1, <1>2 DEF LocksWanted, Holding, StageOf, LibraryTypes
<1>4. LocksWanted(w) \in SUBSET Nat
  BY <1>2, <1>3, DatasetsAssumption
<1>5. NextLock(w) \in LocksWanted(w) /\ \A d \in LocksWanted(w) : NextLock(w) <= d
  BY <1>4, LeastElement DEF NextLock
<1>6. QED BY <1>1, <1>2, <1>3, <1>4, <1>5

-----------------------------------------------------------------------------
(* What a step leaves of a request that is not its own                        *)

\* The locks that a request holds.
SameLocks(v) ==
  /\ \A m \in Maps : mapLock'[m] = v <=> mapLock[m] = v
  /\ \A d \in Datasets : /\ rowLock'[d] = v <=> rowLock[d] = v
                         /\ advisory'[d] = v <=> advisory[d] = v

LEMMA OthersRest ==
  ASSUME LibraryTypes, NEW v \in Requests, RequestOK(v), writes'[v] = writes[v], SameLocks(v),
         Transacting(v) /\ Op(v) \in MapOps => maps'[On(v)] = maps[On(v)]
  PROVE  RequestOK(v)' /\ (Transacting(v) => ToLock(v)' = ToLock(v))
<1>1. /\ Op(v)' = Op(v) /\ On(v)' = On(v) /\ Asked(v)' = Asked(v) /\ StageOf(v)' = StageOf(v)
      /\ Transacting(v)' = Transacting(v) /\ Unguarded(v)' = Unguarded(v)
  BY DEF Op, On, Asked, StageOf, Transacting, Unguarded
<1>2. StepsOK(v) /\ StepsOK(v)'
  BY <1>1 DEF RequestOK, StepsOK
<1>3. MapHeld(v)'
  BY <1>1, <1>2, Shape DEF RequestOK, MapHeld, AtCap, SameLocks
<1>4. Transacting(v) => ToLock(v)' = ToLock(v) /\ ToLock(v) \subseteq Datasets
  <2>1. Transacting(v) => Op(v) # "none"
    BY <1>2 DEF StepsOK, Transacting
  <2>2. Transacting(v) => ToLock(v)' = ToLock(v)
    BY <1>1, <1>2, <2>1, Wants DEF ToLock, MapOps
  <2>3. QED BY <1>2, <2>1, <2>2, Wants
<1>5. DatasetsHeld(v)'
  BY <1>1, <1>4 DEF RequestOK, DatasetsHeld, SameLocks, Transacting
<1>6. QED BY <1>2, <1>3, <1>4, <1>5 DEF RequestOK

LEMMA OthersChecked ==
  ASSUME NEW v \in Requests, writes'[v] = writes[v], UNCHANGED <<maps, datasets>>, CheckedOK(v)
  PROVE  CheckedOK(v)'
BY DEF CheckedOK, Op, On, Asked, StageOf, Shown, Referencing
\* A request that ends holds nothing, and the others what they held.
LEMMA Ends ==
  ASSUME LibraryTypes, NEW w \in Requests, End(w)
  PROVE  /\ writes' \in [Requests -> WriteRecords]
         /\ mapLock' \in [Maps -> Requests \cup {Free}]
         /\ rowLock' \in [Datasets -> Requests \cup {Free}]
         /\ advisory' \in [Datasets -> Requests \cup {Free}]
         /\ RequestOK(w)' /\ CheckedOK(w)'
         /\ \A v \in Requests \ {w} : writes'[v] = writes[v] /\ SameLocks(v)
<1>1. NoWrite \in WriteRecords /\ NoWrite.at = "idle" /\ NoWrite.op = "none"
  BY DEF NoWrite, WriteRecords, Stages
<1>2. writes' \in [Requests -> WriteRecords] /\ writes'[w] = NoWrite
      /\ \A v \in Requests \ {w} : writes'[v] = writes[v]
  BY <1>1 DEF End, LibraryTypes
<1>3. /\ mapLock' \in [Maps -> Requests \cup {Free}]
      /\ \A m \in Maps : mapLock'[m] # w /\ \A v \in Requests \ {w} : mapLock'[m] = v <=> mapLock[m] = v
  BY FreeAssumption DEF End, Released, LibraryTypes
<1>4. /\ rowLock' \in [Datasets -> Requests \cup {Free}]
      /\ \A d \in Datasets : rowLock'[d] # w /\ \A v \in Requests \ {w} : rowLock'[d] = v <=> rowLock[d] = v
  BY FreeAssumption DEF End, Released, LibraryTypes
<1>5. /\ advisory' \in [Datasets -> Requests \cup {Free}]
      /\ \A d \in Datasets : advisory'[d] # w /\ \A v \in Requests \ {w} : advisory'[d] = v <=> advisory[d] = v
  BY FreeAssumption DEF End, Released, LibraryTypes
<1>6. Op(w)' = "none" /\ StageOf(w)' = "idle"
  BY <1>1, <1>2 DEF Op, StageOf
<1>7. StepsOK(w)' /\ MapHeld(w)' /\ CheckedOK(w)'
  BY <1>6 DEF StepsOK, MapHeld, CheckedOK, MapOps, DatasetOps, Transacting
<1>8. DatasetsHeld(w)'
  BY <1>3, <1>4, <1>5, <1>6 DEF DatasetsHeld
<1>9. QED BY <1>2, <1>3, <1>4, <1>5, <1>7, <1>8 DEF RequestOK, SameLocks

LEMMA EndStep ==
  ASSUME LibraryInv, NEW w \in Requests, End(w), UNCHANGED made,
         maps' \in [Maps -> MapRows], datasets' \in [Datasets -> DatasetRows], LibraryAgrees',
         \A v \in Requests \ {w} :
           /\ Transacting(v) /\ Op(v) \in MapOps => maps'[On(v)] = maps[On(v)]
           /\ CheckedOK(v)'
  PROVE  LibraryInv'
<1>1. LibraryTypes'
  BY Ends DEF LibraryInv, LibraryTypes
<1>2. \A v \in Requests : RequestOK(v)' /\ CheckedOK(v)'
  <2>1. ASSUME NEW v \in Requests \ {w} PROVE RequestOK(v)'
    BY <2>1, Ends, OthersRest DEF LibraryInv
  <2>2. RequestOK(w)' /\ CheckedOK(w)'
    BY Ends DEF LibraryInv
  <2>3. QED BY <2>1, <2>2
<1>3. QED BY <1>1, <1>2 DEF LibraryInv

LEMMA SameLibrary ==
  ASSUME LibraryAgrees, UNCHANGED <<maps, datasets>>
  PROVE  LibraryAgrees'
BY DEF LibraryAgrees

LEMMA GivenUp ==
  ASSUME LibraryInv, NEW w \in Requests, End(w), UNCHANGED <<maps, datasets, made>>
  PROVE  LibraryInv'
<1>1. ASSUME NEW v \in Requests \ {w} PROVE CheckedOK(v)'
  BY <1>1, Ends, OthersChecked DEF LibraryInv
<1>2. maps' \in [Maps -> MapRows] /\ datasets' \in [Datasets -> DatasetRows]
  BY DEF LibraryInv, LibraryTypes
<1>3. LibraryAgrees'
  BY SameLibrary DEF LibraryInv
<1>4. QED BY <1>1, <1>2, <1>3, EndStep

\* A step of one request that changes neither maps nor datasets.
LEMMA OwnStep ==
  ASSUME LibraryInv, NEW w \in Requests, UNCHANGED <<maps, datasets>>, LibraryTypes',
         RequestOK(w)', CheckedOK(w)',
         \A v \in Requests \ {w} : writes'[v] = writes[v] /\ SameLocks(v)
  PROVE  LibraryInv'
<1>1. ASSUME NEW v \in Requests \ {w} PROVE RequestOK(v)' /\ CheckedOK(v)'
  BY <1>1, OthersRest, OthersChecked DEF LibraryInv
<1>2. LibraryAgrees'
  BY SameLibrary DEF LibraryInv
<1>3. QED BY <1>1, <1>2 DEF LibraryInv

-----------------------------------------------------------------------------
(* The steps                                                                 *)

LEMMA BeginStep ==
  ASSUME LibraryInv, NEW w \in Requests, NEW request \in WriteRecords, Begin(w, request),
         \/ /\ request.at = "map" /\ request.op \in MapOps /\ request.on \in Maps
            /\ request.next \in {"private", "public"}
         \/ /\ request.at = "locks" /\ request.op \in DatasetOps /\ request.on \in Datasets
            /\ request.next \in {"private", "shared"}
  PROVE  LibraryInv'
<1>1. /\ StageOf(w) = "idle" /\ writes' = [writes EXCEPT ![w] = request]
      /\ UNCHANGED <<maps, datasets, mapLock, rowLock, advisory>>
  BY DEF Begin, StageOf
<1>2. made' \in 0..MaxWrites
  BY LimitsAssumption DEF Begin, LibraryInv, LibraryTypes
<1>3. LibraryTypes'
  BY <1>1, <1>2 DEF LibraryInv, LibraryTypes
<1>4. /\ Op(w)' = request.op /\ On(w)' = request.on /\ Asked(w)' = request.next /\ StageOf(w)' = request.at
      /\ \A v \in Requests \ {w} : writes'[v] = writes[v] /\ SameLocks(v)
  BY <1>1 DEF LibraryInv, LibraryTypes, Op, On, Asked, StageOf, SameLocks
<1>5. StepsOK(w)'
  BY <1>4 DEF StepsOK, MapOps, DatasetOps, Unguarded
<1>6. MapHeld(w)' /\ CheckedOK(w)'
  BY <1>4 DEF MapHeld, CheckedOK, MapOps, DatasetOps, Transacting
<1>7. \A m \in Maps : mapLock'[m] # w
  BY <1>1 DEF LibraryInv, RequestOK, DatasetsHeld
<1>8. \A d \in Datasets : rowLock'[d] # w /\ advisory'[d] # w
  BY <1>1 DEF LibraryInv, RequestOK, DatasetsHeld
<1>9. DatasetsHeld(w)'
  BY <1>4, <1>7, <1>8 DEF DatasetsHeld
<1>10. QED BY <1>1, <1>3, <1>4, <1>5, <1>6, <1>9, OwnStep DEF RequestOK

LEMMA RequestsStep ==
  ASSUME LibraryInv, NEW w \in Requests,
         \/ \E m \in Maps : SaveMapSnapshot(w, m) \/ UpdateMap(w, m) \/ DeleteMap(w, m)
         \/ \E d \in Datasets : WriteDataset(w, d)
  PROVE  LibraryInv'
<1>1. ASSUME NEW m \in Maps, SaveMapSnapshot(w, m) \/ UpdateMap(w, m) \/ DeleteMap(w, m)
      PROVE  LibraryInv'
  <2>1. PICK op \in MapOps, refs \in SUBSET Datasets, next \in {"private", "public"} :
          Begin(w, [op |-> op, on |-> m, refs |-> refs, next |-> next, at |-> "map"])
    <3>1. NextVisibility(m) \subseteq {"private", "public"}
      BY DEF NextVisibility, LibraryInv, LibraryTypes, MapRows
    <3>2. CASE SaveMapSnapshot(w, m)
      BY <3>1, <3>2 DEF SaveMapSnapshot, MapOps
    <3>3. CASE UpdateMap(w, m)
      BY <3>1, <3>3 DEF UpdateMap, MapOps
    <3>4. CASE DeleteMap(w, m)
      BY <3>4 DEF DeleteMap, MapOps
    <3>5. QED BY <1>1, <3>2, <3>3, <3>4
  <2>2. PICK request \in WriteRecords :
          /\ Begin(w, request) /\ request.at = "map" /\ request.op = op /\ request.on = m
          /\ request.next = next
    <3>1. [op |-> op, on |-> m, refs |-> refs, next |-> next, at |-> "map"] \in WriteRecords
      BY DEF WriteRecords, Stages
    <3>2. QED BY <2>1, <3>1
  <2>3. QED BY <2>2, BeginStep
<1>2. ASSUME NEW d \in Datasets, WriteDataset(w, d)
      PROVE  LibraryInv'
  <2>1. PICK op \in DatasetOps, next \in {"private", "shared"} :
          Begin(w, [op |-> op, on |-> d, refs |-> {}, next |-> next, at |-> "locks"])
    BY <1>2 DEF WriteDataset, DatasetOps
  <2>2. PICK request \in WriteRecords :
          /\ Begin(w, request) /\ request.at = "locks" /\ request.op = op /\ request.on = d
          /\ request.next = next
    <3>1. [op |-> op, on |-> d, refs |-> {}, next |-> next, at |-> "locks"] \in WriteRecords
      BY DEF WriteRecords, Stages
    <3>2. QED BY <2>1, <3>1
  <2>3. QED BY <2>2, BeginStep
<1>3. QED BY <1>1, <1>2
LEMMA LockMapStep ==
  ASSUME LibraryInv, NEW w \in Requests, LockMap(w)
  PROVE  LibraryInv'
<1>1. StageOf(w) = "map" /\ StepsOK(w) /\ Op(w) \in MapOps /\ On(w) \in Maps /\ mapLock[On(w)] = Free
  BY DEF LockMap, LibraryInv, RequestOK, StepsOK, StageOf
<1>2. CASE End(w)
  BY <1>2, GivenUp DEF LockMap
<1>3. ASSUME ~(~maps[On(w)].live \/ (Op(w) = "save" /\ AtCap(On(w))))
      PROVE  LibraryInv'
  <2>1. /\ UNCHANGED <<maps, datasets, rowLock, advisory, made>>
        /\ mapLock' = [mapLock EXCEPT ![On(w)] = w]
    BY <1>3 DEF LockMap
  <2>2. PICK stage \in {"locks", "delta", "commit"} :
          /\ writes' = [writes EXCEPT ![w].at = stage]
          /\ stage = "delta" <=> Op(w) = "deleteMap"
          /\ stage = "commit" <=> Op(w) = "update" /\ Asked(w) # "public"
    BY <1>3 DEF LockMap, Advance
  <2>3. /\ writes' \in [Requests -> WriteRecords]
        /\ Op(w)' = Op(w) /\ On(w)' = On(w) /\ Asked(w)' = Asked(w) /\ StageOf(w)' = stage
        /\ \A v \in Requests \ {w} : writes'[v] = writes[v]
    BY <2>2 DEF LibraryInv, LibraryTypes, WriteRecords, Stages, Op, On, Asked, StageOf
  <2>4. mapLock' \in [Maps -> Requests \cup {Free}]
        /\ mapLock'[On(w)] = w /\ \A m \in Maps \ {On(w)} : mapLock'[m] = mapLock[m]
    BY <1>1, <2>1 DEF LibraryInv, LibraryTypes
  <2>5. LibraryTypes'
    BY <2>1, <2>3, <2>4 DEF LibraryInv, LibraryTypes
  <2>6. \A v \in Requests \ {w} : SameLocks(v)
    BY <1>1, <2>1, <2>4, FreeAssumption DEF SameLocks
  <2>7. StepsOK(w)'
    BY <1>1, <2>2, <2>3 DEF StepsOK, Unguarded, MapOps, DatasetOps
  <2>8. MapHeld(w)'
    BY <1>1, <1>3, <2>1, <2>3, <2>4 DEF MapHeld, AtCap
  <2>9. DatasetsHeld(w)'
    <3>1. \A d \in Datasets : rowLock'[d] # w /\ advisory'[d] # w
      BY <1>1, <2>1 DEF LibraryInv, RequestOK, DatasetsHeld
    <3>2. stage \in {"delta", "commit"} => Unguarded(w)'
      BY <2>2, <2>3 DEF Unguarded
    <3>3. QED BY <2>3, <3>1, <3>2 DEF DatasetsHeld
  <2>10. CheckedOK(w)'
    BY <1>1, <2>2, <2>3 DEF CheckedOK, MapOps
  <2>11. QED BY <2>1, <2>3, <2>5, <2>6, <2>7, <2>8, <2>9, <2>10, OwnStep DEF RequestOK
<1>4. QED BY <1>2, <1>3 DEF LockMap

LEMMA LockDatasetStep ==
  ASSUME LibraryInv, NEW w \in Requests, LockDataset(w)
  PROVE  LibraryInv'
<1> DEFINE n == NextLock(w)
<1>1. /\ StageOf(w) = "locks" /\ n \in Nat /\ n \in Datasets /\ n \in ToLock(w) /\ ToLock(w) \subseteq Datasets
      /\ \A e \in ToLock(w) : advisory[e] # w => n <= e
      /\ advisory[n] = Free /\ StepsOK(w) /\ Op(w) # "none"
  BY NextLockLeast DEF LockDataset, LibraryInv, RequestOK
<1>2. /\ UNCHANGED <<maps, datasets, writes, mapLock, rowLock, made>>
      /\ advisory' \in [Datasets -> Requests \cup {Free}]
      /\ advisory'[n] = w /\ \A d \in Datasets \ {n} : advisory'[d] = advisory[d]
  BY <1>1 DEF LockDataset, LibraryInv, LibraryTypes
<1>3. LibraryTypes' /\ \A v \in Requests \ {w} : writes'[v] = writes[v] /\ SameLocks(v)
  BY <1>1, <1>2, FreeAssumption DEF LibraryInv, LibraryTypes, SameLocks
<1>4. ToLock(w)' = ToLock(w)
  BY <1>2 DEF ToLock, Op, On
<1>5. StepsOK(w)' /\ MapHeld(w)' /\ CheckedOK(w)'
  BY <1>2 DEF LibraryInv, RequestOK, StepsOK, MapHeld, CheckedOK, Op, On, Asked, StageOf, Transacting,
       Unguarded, AtCap, Shown, Referencing
<1>6. DatasetsHeld(w)'
  <2> HIDE DEF n
  <2>1. StageOf(w)' = "locks" /\ Op(w)' = Op(w)
    BY <1>1, <1>2 DEF StageOf, Op
  <2>2. ASSUME NEW d \in Datasets, NEW e \in ToLock(w), advisory'[d] = w, advisory'[e] # w
        PROVE  d < e
    <3>1. e # n /\ e \in Datasets /\ advisory[e] # w /\ e \in Nat
      BY <1>1, <1>2, <2>2, DatasetsAssumption
    <3>2. CASE d = n
      BY <1>1, <3>1, <3>2
    <3>3. CASE d # n
      BY <1>1, <1>2, <2>2, <3>1, <3>3 DEF LibraryInv, RequestOK, DatasetsHeld
    <3>4. QED BY <3>2, <3>3
  <2>3. \A d \in Datasets : Op(w) # "deleteMap" /\ rowLock'[d] = w => advisory'[d] = w
    BY <1>2 DEF LibraryInv, RequestOK, DatasetsHeld
  <2>4. QED BY <1>4, <2>1, <2>2, <2>3 DEF DatasetsHeld
<1>7. QED BY <1>2, <1>3, <1>5, <1>6, OwnStep DEF RequestOK

\* Rows are only locked of datasets that are already locked, but to delete a map.
LEMMA RowsGuarded ==
  ASSUME LibraryTypes, NEW w \in Requests, RequestOK(w), Op(w) # "deleteMap", NEW d \in RowsWanted(w)
  PROVE  d \in Datasets /\ advisory[d] = w
<1>1. StepsOK(w)
  BY DEF RequestOK
<1>2. CASE Checking(w)
  <2>1. Op(w) # "none" /\ d \in RowsToCheck(w) /\ LocksWanted(w) = {} /\ StageOf(w) = "locks"
    BY <1>1, <1>2 DEF RowsWanted, Checking, StepsOK, StageOf
  <2>2. RowsToCheck(w) \subseteq ToLock(w) /\ ToLock(w) \subseteq Datasets
    BY <1>1, <2>1, Wants DEF MapOps
  <2>3. QED BY <2>1, <2>2 DEF LocksWanted, Holding, StageOf, LibraryTypes
<1>3. CASE StageOf(w) = "delta"
  <2>1. Op(w) = "save" /\ ~Checking(w)
    BY <1>1, <1>3 DEF StepsOK, Checking, StageOf
  <2>2. d \in RowsToCount(w) /\ d \in ToLock(w)
    BY <1>1, <1>3, <2>1, Wants DEF RowsWanted, StageOf
  <2>3. QED BY <1>1, <1>3, <2>1, <2>2, Wants DEF RequestOK, DatasetsHeld, Unguarded
<1>4. QED BY <1>2, <1>3 DEF RowsWanted, StageOf

LEMMA LockRowStep ==
  ASSUME LibraryInv, NEW w \in Requests, LockRow(w)
  PROVE  LibraryInv'
<1>1. PICK d \in RowsWanted(w) : rowLock[d] = Free /\ rowLock' = [rowLock EXCEPT ![d] = w]
  BY DEF LockRow
<1>2. /\ UNCHANGED <<maps, datasets, writes, mapLock, advisory, made>>
      /\ rowLock' \in [Datasets -> Requests \cup {Free}]
      /\ \A e \in Datasets : rowLock'[e] = IF e = d THEN w ELSE rowLock[e]
  BY <1>1 DEF LockRow, LibraryInv, LibraryTypes
<1>3. LibraryTypes' /\ \A v \in Requests \ {w} : writes'[v] = writes[v] /\ SameLocks(v)
  BY <1>1, <1>2, FreeAssumption DEF LibraryInv, LibraryTypes, SameLocks
<1>4. ToLock(w)' = ToLock(w)
  BY <1>2 DEF ToLock, Op, On
<1>5. StepsOK(w)' /\ MapHeld(w)' /\ CheckedOK(w)'
  BY <1>2 DEF LibraryInv, RequestOK, StepsOK, MapHeld, CheckedOK, Op, On, Asked, StageOf, Transacting,
       Unguarded, AtCap, Shown, Referencing
<1>6. DatasetsHeld(w)'
  <2>1. StageOf(w)' = StageOf(w) /\ Op(w)' = Op(w) /\ Unguarded(w)' = Unguarded(w)
    BY <1>2 DEF StageOf, Op, Unguarded, Asked
  <2>2. StageOf(w) \in {"locks", "delta"}
    BY <1>1 DEF RowsWanted, Checking, StageOf
  <2>3. ASSUME Op(w) # "deleteMap", NEW e \in Datasets, rowLock'[e] = w PROVE advisory'[e] = w
    <3>1. CASE e = d
      BY <1>2, <2>3, <3>1, RowsGuarded DEF LibraryInv
    <3>2. CASE e # d
      BY <1>2, <2>3, <3>2 DEF LibraryInv, RequestOK, DatasetsHeld
    <3>3. QED BY <3>1, <3>2
  <2>4. QED BY <1>2, <1>4, <2>1, <2>2, <2>3 DEF LibraryInv, RequestOK, DatasetsHeld
<1>7. QED BY <1>2, <1>3, <1>5, <1>6, OwnStep DEF RequestOK

\* What the check under the locks found still holds.
LEMMA CheckFound ==
  ASSUME LibraryInv, NEW w \in Requests, StageOf(w) = "locks", Allowed(w), NEW stage \in {"delta", "commit"},
         stage = "delta" <=> Op(w) = "save", UNCHANGED <<maps, datasets>>,
         Op(w)' = Op(w), On(w)' = On(w), Asked(w)' = Asked(w), StageOf(w)' = stage,
         writes'[w].refs = writes[w].refs
  PROVE  CheckedOK(w)'
<1>1. StepsOK(w) /\ LibraryTypes
  BY DEF LibraryInv, RequestOK
<1>2. CASE Op(w) = "save"
  <2>1. \A d \in writes[w].refs :
          datasets[d].visibility \in (IF Asked(w) = "public" THEN {"shared"} ELSE {"private", "shared"})
    BY <1>1, <1>2, Wants DEF Allowed, MapOps
  <2>2. QED BY <1>2, <2>1 DEF CheckedOK
<1>3. CASE Op(w) = "update"
  <2>1. Asked(w) = "public" /\ \A d \in maps[On(w)].last : datasets[d].visibility = "shared"
    BY <1>1, <1>3, Wants DEF Allowed, MapOps, StepsOK, Unguarded
  <2>2. QED BY <1>3, <2>1 DEF CheckedOK
<1>4. CASE Op(w) = "setVisibility"
  <2>1. /\ On(w) \in Datasets /\ datasets[On(w)].visibility # "deleted"
        /\ ~Conflicts("setVisibility", On(w), Asked(w))
    BY <1>1, <1>4 DEF Allowed, MapOps, StepsOK, DatasetOps
  <2>2. ASSUME Asked(w) = "private", NEW m \in Shown(On(w)) PROVE maps[m].visibility # "public"
    <3>1. m \in Maps /\ maps[m].live /\ On(w) \in maps[m].last
      BY DEF Shown
    <3>2. CASE datasets[On(w)].visibility = "private"
      BY <3>1, <3>2 DEF LibraryInv, LibraryAgrees
    <3>3. CASE PublicReferencing(On(w)) = {}
      BY <3>1, <3>3 DEF PublicReferencing, Referencing
    <3>4. QED BY <2>1, <2>2, <3>2, <3>3 DEF Conflicts
  <2>3. QED BY <1>4, <2>1, <2>2 DEF CheckedOK, Shown
<1>5. CASE Op(w) = "deleteDataset"
  BY <1>1, <1>5 DEF Allowed, MapOps, Conflicts, CheckedOK, Referencing
<1>6. Op(w) # "deleteMap"
  BY <1>1 DEF StepsOK, Unguarded
<1>7. QED BY <1>1, <1>2, <1>3, <1>4, <1>5, <1>6, Wants DEF CheckedOK

LEMMA CheckStep ==
  ASSUME LibraryInv, NEW w \in Requests, CheckUnderLocks(w)
  PROVE  LibraryInv'
<1>1. StageOf(w) = "locks" /\ LocksWanted(w) = {} /\ StepsOK(w) /\ Op(w) # "none" /\ ~Unguarded(w)
  BY DEF CheckUnderLocks, Checking, StageOf, LibraryInv, RequestOK, StepsOK
<1>2. CASE End(w)
  BY <1>2, GivenUp DEF CheckUnderLocks
<1>3. ASSUME Allowed(w) PROVE LibraryInv'
  <2>1. UNCHANGED <<maps, datasets, mapLock, rowLock, advisory, made>>
    BY <1>3 DEF CheckUnderLocks
  <2>2. PICK stage \in {"delta", "commit"} :
          writes' = [writes EXCEPT ![w].at = stage] /\ (stage = "delta" <=> Op(w) = "save")
    BY <1>3 DEF CheckUnderLocks, Advance
  <2>3. /\ writes' \in [Requests -> WriteRecords] /\ writes'[w].refs = writes[w].refs
        /\ Op(w)' = Op(w) /\ On(w)' = On(w) /\ Asked(w)' = Asked(w) /\ StageOf(w)' = stage
        /\ \A v \in Requests \ {w} : writes'[v] = writes[v]
    BY <2>2 DEF LibraryInv, LibraryTypes, WriteRecords, Stages, Op, On, Asked, StageOf
  <2>4. LibraryTypes' /\ \A v \in Requests \ {w} : SameLocks(v)
    BY <2>1, <2>3 DEF LibraryInv, LibraryTypes, SameLocks
  <2>5. StepsOK(w)'
    <3>1. Op(w) \in MapOps \cup DatasetOps
      BY <1>1, Wants DEF LibraryInv
    <3>2. QED BY <1>1, <2>2, <2>3, <3>1 DEF StepsOK, Unguarded, MapOps, DatasetOps
  <2>6. MapHeld(w)'
    BY <1>1, <2>1, <2>3 DEF LibraryInv, RequestOK, MapHeld, Transacting, AtCap
  <2>7. DatasetsHeld(w)'
    <3>1. ToLock(w)' = ToLock(w) /\ ToLock(w) \subseteq Datasets
      <4>1. ToLock(w)' = ToLock(w)
        BY <2>1, <2>3 DEF ToLock
      <4>2. QED BY <1>1, <4>1, Wants DEF LibraryInv
    <3>2. \A d \in ToLock(w) : advisory[d] = w
      BY <1>1, <3>1 DEF LocksWanted, Holding, StageOf, LibraryInv, LibraryTypes
    <3>3. QED BY <2>1, <2>3, <3>1, <3>2 DEF LibraryInv, RequestOK, DatasetsHeld
  <2>8. CheckedOK(w)'
    BY <1>1, <1>3, <2>1, <2>2, <2>3, CheckFound
  <2>9. QED BY <2>1, <2>3, <2>4, <2>5, <2>6, <2>7, <2>8, OwnStep DEF RequestOK
<1>4. QED BY <1>2, <1>3 DEF CheckUnderLocks
-----------------------------------------------------------------------------
(* The commits                                                               *)

\* Two transactions have different maps, and after their checks no dataset of
\* both.
Guarded(w) == StageOf(w) \in {"delta", "commit"} /\ ~Unguarded(w)
LEMMA Apart ==
  ASSUME LibraryInv, NEW v \in Requests, NEW w \in Requests, v # w
  PROVE  /\ Transacting(v) /\ Transacting(w) /\ Op(v) \in MapOps /\ Op(w) \in MapOps => On(v) # On(w)
         /\ Guarded(v) /\ Guarded(w) => \A d \in ToLock(v) : d \notin ToLock(w)
<1>1. Transacting(v) /\ Op(v) \in MapOps => mapLock[On(v)] = v
  BY DEF LibraryInv, RequestOK, MapHeld
<1>2. Transacting(w) /\ Op(w) \in MapOps => mapLock[On(w)] = w
  BY DEF LibraryInv, RequestOK, MapHeld
<1>3. Guarded(v) => \A d \in ToLock(v) : advisory[d] = v
  BY DEF LibraryInv, RequestOK, DatasetsHeld, Guarded
<1>4. Guarded(w) => \A d \in ToLock(w) : advisory[d] = w
  BY DEF LibraryInv, RequestOK, DatasetsHeld, Guarded
<1>5. QED BY <1>1, <1>2, <1>3, <1>4

\* The datasets that each check is about are among those it has locked.
LEMMA ChecksGuarded ==
  ASSUME LibraryInv, NEW v \in Requests
  PROVE  /\ Op(v) = "save" /\ StageOf(v) = "delta" => Guarded(v) /\ writes[v].refs \subseteq ToLock(v)
         /\ Op(v) = "update" /\ StageOf(v) = "commit" /\ Asked(v) = "public" =>
              Guarded(v) /\ ToLock(v) = maps[On(v)].last
         /\ Op(v) \in DatasetOps /\ StageOf(v) = "commit" => Guarded(v) /\ ToLock(v) = {On(v)}
<1>1. StepsOK(v) /\ LibraryTypes
  BY DEF LibraryInv, RequestOK
<1>2. QED BY <1>1, Wants DEF Guarded, Unguarded, DatasetOps

\* Which checks of others a change of one map leaves true.
LEMMA ChecksSurviveMaps ==
  ASSUME LibraryInv, NEW w \in Requests, NEW v \in Requests \ {w}, NEW m \in Maps,
         writes'[v] = writes[v],
         \A n \in Maps \ {m} : maps'[n] = maps[n],
         \A d \in Datasets : datasets'[d].visibility = datasets[d].visibility,
         Transacting(v) /\ Op(v) \in MapOps => On(v) # m,
         \A d \in Datasets :
           /\ m \in Referencing(d)' => m \in Referencing(d) \/ (Guarded(w) /\ d \in ToLock(w))
           /\ m \in Shown(d)' /\ maps'[m].visibility = "public" =>
                \/ m \in Shown(d) /\ maps[m].visibility = "public"
                \/ Guarded(w) /\ d \in ToLock(w)
  PROVE  CheckedOK(v)'
<1>1. /\ Op(v)' = Op(v) /\ On(v)' = On(v) /\ Asked(v)' = Asked(v) /\ StageOf(v)' = StageOf(v)
      /\ writes'[v].refs = writes[v].refs
  BY DEF Op, On, Asked, StageOf
<1>2. StepsOK(v) /\ LibraryTypes /\ CheckedOK(v) /\ writes[v].refs \subseteq Datasets
  BY Shape DEF LibraryInv, RequestOK
<1>3. CASE Op(v) = "save"
  BY <1>1, <1>2, <1>3 DEF CheckedOK
<1>4. CASE Op(v) = "update"
  <2>1. StageOf(v) = "commit" => maps'[On(v)] = maps[On(v)] /\ maps[On(v)].last \subseteq Datasets
    BY <1>2, <1>4, Shape DEF Transacting, MapOps, MapRows
  <2>2. QED BY <1>1, <1>2, <1>4, <2>1 DEF CheckedOK
<1>5. CASE Op(v) \in DatasetOps
  <2>1. SUFFICES ASSUME StageOf(v) = "commit" PROVE CheckedOK(v)'
    BY <1>1, <1>5 DEF CheckedOK, DatasetOps
  <2>2. On(v) \in Datasets /\ ~(Guarded(w) /\ On(v) \in ToLock(w))
    BY <1>2, <1>5, <2>1, Shape, ChecksGuarded, Apart
  <2>3. CASE Op(v) = "setVisibility"
    <3>1. datasets'[On(v)].visibility # "deleted"
      BY <1>2, <2>1, <2>2, <2>3 DEF CheckedOK
    <3>2. ASSUME Asked(v) = "private", NEW n \in Shown(On(v))' PROVE maps'[n].visibility # "public"
      <4>1. n \in Maps /\ (n # m => n \in Shown(On(v)) /\ maps'[n] = maps[n])
        BY <1>1, <3>2 DEF Shown
      <4>2. QED BY <1>1, <1>2, <2>1, <2>2, <2>3, <3>2, <4>1 DEF CheckedOK
    <3>3. QED BY <1>1, <2>1, <2>3, <3>1, <3>2 DEF CheckedOK
  <2>4. CASE Op(v) = "deleteDataset"
    <3>1. Referencing(On(v)) = {}
      BY <1>2, <2>1, <2>4 DEF CheckedOK
    <3>2. m \notin Referencing(On(v))'
      BY <1>1, <2>2, <3>1
    <3>3. \A n \in Maps \ {m} : n \in Referencing(On(v))' => n \in Referencing(On(v))
      BY <1>1 DEF Referencing
    <3>4. Referencing(On(v))' = {}
      BY <3>1, <3>2, <3>3 DEF Referencing
    <3>5. QED BY <1>1, <2>4, <3>4 DEF CheckedOK
  <2>5. QED BY <1>5, <2>3, <2>4 DEF DatasetOps
<1>6. QED BY <1>1, <1>3, <1>4, <1>5 DEF CheckedOK, DatasetOps

\* reference_count follows what a map that is saved or deleted shows.
LEMMA CountsFollow ==
  ASSUME LibraryInv, NEW m \in Maps, NEW added \in SUBSET Datasets, maps[m].live,
         datasets' = Counted(maps[m].last, added),
         \A d \in Datasets : Shown(d)' = IF d \in added THEN Shown(d) \cup {m} ELSE Shown(d) \ {m}
  PROVE  /\ datasets' \in [Datasets -> DatasetRows]
         /\ \A d \in Datasets : /\ datasets'[d].visibility = datasets[d].visibility
                                /\ datasets'[d].count = Cardinality(Shown(d)')
<1>1. SUFFICES ASSUME NEW d \in Datasets
               PROVE  /\ datasets'[d] \in DatasetRows
                      /\ datasets'[d].visibility = datasets[d].visibility
                      /\ datasets'[d].count = Cardinality(Shown(d)')
  <2>1. datasets' = [d \in Datasets |-> datasets'[d]]
    BY DEF Counted
  <2>2. QED BY <1>1, <2>1
<1>2. /\ datasets[d] \in DatasetRows /\ datasets[d].count = Cardinality(Shown(d))
      /\ m \in Shown(d) <=> d \in maps[m].last
  BY DEF LibraryInv, LibraryTypes, LibraryAgrees, Shown
<1>3. IsFiniteSet(Shown(d))
  BY LimitsAssumption, FS_Subset DEF Shown
<1>4. /\ Cardinality(Shown(d)) \in Nat /\ (m \in Shown(d) => Cardinality(Shown(d)) > 0)
  BY <1>3, FS_CardinalityType, FS_EmptySet
<1>5. PICK count \in Nat :
        /\ datasets'[d] = [datasets[d] EXCEPT !.count = count]
        /\ count = IF d \in maps[m].last \ added
                   THEN (IF datasets[d].count > 0 THEN datasets[d].count - 1 ELSE 0)
                   ELSE IF d \in added \ maps[m].last THEN datasets[d].count + 1 ELSE datasets[d].count
  <2> DEFINE c == IF d \in maps[m].last \ added
                  THEN (IF datasets[d].count > 0 THEN datasets[d].count - 1 ELSE 0)
                  ELSE IF d \in added \ maps[m].last THEN datasets[d].count + 1 ELSE datasets[d].count
  <2>1. datasets[d].count \in Nat
    BY <1>2, <1>4
  <2>2. c \in Nat
    BY <2>1
  <2>3. datasets'[d] = [datasets[d] EXCEPT !.count = c]
    BY DEF Counted
  <2> HIDE DEF c
  <2>4. QED BY <2>2, <2>3 DEF c
<1>6. datasets'[d] \in DatasetRows /\ datasets'[d].visibility = datasets[d].visibility
      /\ datasets'[d].count = count
  BY <1>2, <1>5 DEF DatasetRows
<1>7. CASE d \in added
  <2>1. Cardinality(Shown(d)') = IF m \in Shown(d) THEN Cardinality(Shown(d)) ELSE Cardinality(Shown(d)) + 1
    BY <1>3, <1>7, FS_AddElement
  <2>2. QED BY <1>2, <1>5, <1>6, <1>7, <2>1
<1>8. CASE d \notin added
  <2>1. Cardinality(Shown(d)') = IF m \in Shown(d) THEN Cardinality(Shown(d)) - 1 ELSE Cardinality(Shown(d))
    BY <1>3, <1>8, FS_RemoveElement
  <2>2. QED BY <1>2, <1>4, <1>5, <1>6, <1>8, <2>1
<1>9. QED BY <1>7, <1>8

\* LibraryAgrees, in the names of this module.
MapAgrees(m) ==
  maps[m].live =>
    /\ \A d \in maps[m].last \cup maps[m].older : datasets[d].visibility # "deleted"
    /\ maps[m].visibility = "public" => \A d \in maps[m].last : datasets[d].visibility = "shared"
    /\ maps[m].count <= SnapshotCap
LEMMA Agreement ==
  /\ LibraryAgrees <=> /\ \A m \in Maps : MapAgrees(m)
                       /\ \A d \in Datasets : datasets[d].count = Cardinality(Shown(d))
  /\ LibraryAgrees' <=> /\ \A m \in Maps : MapAgrees(m)'
                        /\ \A d \in Datasets : datasets'[d].count = Cardinality(Shown(d)')
BY DEF LibraryAgrees, MapAgrees, Shown

\* Another map agrees as before when no dataset's visibility has changed.
LEMMA OtherMaps ==
  ASSUME LibraryInv, NEW m \in Maps, maps'[m] = maps[m],
         \A d \in Datasets : datasets'[d].visibility = datasets[d].visibility
  PROVE  MapAgrees(m)'
<1>1. MapAgrees(m) /\ maps[m] \in MapRows
  BY Agreement DEF LibraryInv, LibraryTypes
<1>2. QED BY <1>1 DEF MapAgrees, MapRows
LEMMA CommitSaveStep ==
  ASSUME LibraryInv, NEW w \in Requests, CommitSave(w)
  PROVE  LibraryInv'
<1>1. /\ Op(w) = "save" /\ StageOf(w) = "delta" /\ End(w) /\ UNCHANGED made
      /\ StepsOK(w) /\ CheckedOK(w) /\ LibraryTypes /\ Transacting(w)
  BY DEF CommitSave, StageOf, Transacting, LibraryInv, RequestOK
<1>2. PICK m \in Maps : m = On(w)
  BY <1>1, Shape DEF MapOps
<1>3. PICK refs \in SUBSET Datasets : refs = writes[w].refs
  BY <1>1, Shape
<1>4. /\ maps[m] \in MapRows /\ maps[m].live /\ maps[m].count < SnapshotCap
      /\ Asked(w) \in {"private", "public"}
  BY <1>1, <1>2, LimitsAssumption
     DEF LibraryInv, LibraryTypes, MapRows, RequestOK, MapHeld, AtCap, StepsOK, MapOps
<1>5. PICK row \in MapRows :
        /\ maps' = [maps EXCEPT ![m] = row]
        /\ row.live /\ row.visibility = Asked(w) /\ row.last = refs
        /\ row.older = maps[m].older \cup maps[m].last /\ row.count = maps[m].count + 1
  <2> DEFINE saved == [live |-> TRUE, visibility |-> Asked(w), last |-> refs,
                       older |-> maps[m].older \cup maps[m].last, count |-> maps[m].count + 1]
  <2>1. saved \in MapRows
    BY <1>4 DEF MapRows
  <2>2. maps' = [maps EXCEPT ![m] = saved]
    BY <1>1, <1>2, <1>3, <1>4 DEF CommitSave, LibraryTypes, MapRows
  <2>3. QED BY <2>1, <2>2
<1>6. maps' \in [Maps -> MapRows] /\ maps'[m] = row /\ \A n \in Maps \ {m} : maps'[n] = maps[n]
  BY <1>1, <1>5 DEF LibraryTypes
<1>7. \A d \in Datasets : Shown(d)' = IF d \in refs THEN Shown(d) \cup {m} ELSE Shown(d) \ {m}
  BY <1>5, <1>6 DEF Shown
<1>8. /\ datasets' \in [Datasets -> DatasetRows]
      /\ \A d \in Datasets : /\ datasets'[d].visibility = datasets[d].visibility
                             /\ datasets'[d].count = Cardinality(Shown(d)')
  <2>1. datasets' = Counted(maps[m].last, refs)
    BY <1>2, <1>3 DEF CommitSave
  <2>2. QED BY <1>4, <1>7, <2>1, CountsFollow
<1>9. MapAgrees(m)'
  <2>1. MapAgrees(m)
    BY Agreement DEF LibraryInv
  <2>2. \A d \in refs : /\ datasets[d].visibility # "deleted"
                        /\ Asked(w) = "public" => datasets[d].visibility = "shared"
    BY <1>1, <1>3 DEF CheckedOK
  <2>3. \A d \in maps[m].last \cup maps[m].older : d \in Datasets /\ datasets[d].visibility # "deleted"
    BY <1>4, <2>1 DEF MapAgrees, MapRows
  <2>4. row.count <= SnapshotCap
    BY <1>4, <1>5, LimitsAssumption DEF MapRows
  <2>5. QED BY <1>5, <1>6, <1>8, <2>2, <2>3, <2>4 DEF MapAgrees
<1>10. LibraryAgrees'
  BY <1>6, <1>8, <1>9, OtherMaps, Agreement
<1>11. ASSUME NEW v \in Requests \ {w}
       PROVE  (Transacting(v) /\ Op(v) \in MapOps => maps'[On(v)] = maps[On(v)]) /\ CheckedOK(v)'
  <2>1. writes'[v] = writes[v]
    BY <1>1, <1>11, Ends
  <2>2. Transacting(v) /\ Op(v) \in MapOps => On(v) # m /\ On(v) \in Maps
    BY <1>1, <1>2, <1>11, Apart, Shape DEF MapOps, LibraryInv, RequestOK
  <2>3. Guarded(w) /\ refs \subseteq ToLock(w)
    BY <1>1, <1>3, ChecksGuarded
  <2>4. \A d \in Datasets :
          /\ m \in Referencing(d)' => m \in Referencing(d) \/ d \in ToLock(w)
          /\ m \in Shown(d)' => d \in ToLock(w)
    BY <1>4, <1>5, <1>6, <2>3 DEF Referencing, Shown
  <2>5. CheckedOK(v)'
    BY <1>6, <1>8, <1>11, <2>1, <2>2, <2>3, <2>4, ChecksSurviveMaps
  <2>6. QED BY <1>6, <2>2, <2>5
<1>12. QED BY <1>1, <1>6, <1>8, <1>10, <1>11, EndStep

LEMMA CommitUpdateStep ==
  ASSUME LibraryInv, NEW w \in Requests, CommitUpdate(w)
  PROVE  LibraryInv'
<1>1. /\ Op(w) = "update" /\ StageOf(w) = "commit" /\ End(w) /\ UNCHANGED <<datasets, made>>
      /\ StepsOK(w) /\ CheckedOK(w) /\ LibraryTypes /\ Transacting(w)
  BY DEF CommitUpdate, StageOf, Transacting, LibraryInv, RequestOK
<1>2. PICK m \in Maps : m = On(w)
  BY <1>1, Shape DEF MapOps
<1>3. maps[m] \in MapRows /\ Asked(w) \in {"private", "public"}
  BY <1>1, <1>2 DEF LibraryTypes, StepsOK, MapOps
<1>4. PICK row \in MapRows :
        /\ maps' = [maps EXCEPT ![m] = row] /\ row.visibility = Asked(w)
        /\ row.live = maps[m].live /\ row.last = maps[m].last
        /\ row.older = maps[m].older /\ row.count = maps[m].count
  <2>1. [maps[m] EXCEPT !.visibility = Asked(w)] \in MapRows
    BY <1>3 DEF MapRows
  <2>2. maps' = [maps EXCEPT ![m] = [maps[m] EXCEPT !.visibility = Asked(w)]]
    BY <1>2 DEF CommitUpdate
  <2>3. QED BY <1>3, <2>1, <2>2 DEF MapRows
<1>5. maps' \in [Maps -> MapRows] /\ maps'[m] = row /\ \A n \in Maps \ {m} : maps'[n] = maps[n]
  BY <1>1, <1>4 DEF LibraryTypes
<1>6. datasets' \in [Datasets -> DatasetRows] /\ \A d \in Datasets : datasets'[d] = datasets[d]
  BY <1>1 DEF LibraryTypes
<1>7. \A d \in Datasets : Shown(d)' = Shown(d)
  BY <1>4, <1>5 DEF Shown
<1>8. MapAgrees(m)'
  <2>1. MapAgrees(m)
    BY Agreement DEF LibraryInv
  <2>2. Asked(w) = "public" => \A d \in maps[m].last : datasets[d].visibility = "shared"
    BY <1>1, <1>2 DEF CheckedOK
  <2>3. QED BY <1>1, <1>4, <1>5, <2>1, <2>2 DEF MapAgrees
<1>9. LibraryAgrees'
  BY <1>5, <1>6, <1>7, <1>8, OtherMaps, Agreement DEF LibraryInv
<1>10. ASSUME NEW v \in Requests \ {w}
       PROVE  (Transacting(v) /\ Op(v) \in MapOps => maps'[On(v)] = maps[On(v)]) /\ CheckedOK(v)'
  <2>1. writes'[v] = writes[v]
    BY <1>1, <1>10, Ends
  <2>2. Transacting(v) /\ Op(v) \in MapOps => On(v) # m /\ On(v) \in Maps
    BY <1>1, <1>2, <1>10, Apart, Shape DEF MapOps, LibraryInv, RequestOK
  <2>3. Asked(w) = "public" => Guarded(w) /\ ToLock(w) = maps[m].last
    BY <1>1, <1>2, ChecksGuarded
  <2>4. \A d \in Datasets :
          /\ m \in Referencing(d)' => m \in Referencing(d)
          /\ m \in Shown(d)' /\ maps'[m].visibility = "public" => Guarded(w) /\ d \in ToLock(w)
    BY <1>4, <1>5, <2>3 DEF Referencing, Shown
  <2>5. CheckedOK(v)'
    BY <1>5, <1>6, <1>10, <2>1, <2>2, <2>4, ChecksSurviveMaps
  <2>6. QED BY <1>5, <2>2, <2>5
<1>11. QED BY <1>1, <1>5, <1>6, <1>9, <1>10, EndStep

LEMMA CommitDeleteMapStep ==
  ASSUME LibraryInv, NEW w \in Requests, CommitDeleteMap(w)
  PROVE  LibraryInv'
<1>1. /\ Op(w) = "deleteMap" /\ StageOf(w) = "delta" /\ End(w) /\ UNCHANGED made
      /\ StepsOK(w) /\ LibraryTypes /\ Transacting(w)
  BY DEF CommitDeleteMap, StageOf, Transacting, LibraryInv, RequestOK
<1>2. PICK m \in Maps : m = On(w)
  BY <1>1, Shape DEF MapOps
<1>3. maps[m] \in MapRows /\ maps[m].live
  BY <1>1, <1>2 DEF LibraryInv, LibraryTypes, RequestOK, MapHeld, MapOps
<1>4. PICK row \in MapRows : maps' = [maps EXCEPT ![m] = row] /\ ~row.live
  <2>1. [maps[m] EXCEPT !.live = FALSE] \in MapRows /\ ~[maps[m] EXCEPT !.live = FALSE].live
    BY <1>3 DEF MapRows
  <2>2. maps' = [maps EXCEPT ![m] = [maps[m] EXCEPT !.live = FALSE]]
    BY <1>2 DEF CommitDeleteMap
  <2>3. QED BY <2>1, <2>2
<1>5. maps' \in [Maps -> MapRows] /\ maps'[m] = row /\ \A n \in Maps \ {m} : maps'[n] = maps[n]
  BY <1>1, <1>4 DEF LibraryTypes
<1>6. \A d \in Datasets : Shown(d)' = Shown(d) \ {m} /\ m \notin Referencing(d)'
  BY <1>4, <1>5 DEF Shown, Referencing
<1>7. /\ datasets' \in [Datasets -> DatasetRows]
      /\ \A d \in Datasets : /\ datasets'[d].visibility = datasets[d].visibility
                             /\ datasets'[d].count = Cardinality(Shown(d)')
  <2>1. datasets' = Counted(maps[m].last, {})
    BY <1>2 DEF CommitDeleteMap
  <2>2. QED BY <1>3, <1>6, <2>1, CountsFollow
<1>8. LibraryAgrees'
  <2>1. MapAgrees(m)'
    BY <1>4, <1>5 DEF MapAgrees
  <2>2. QED BY <1>5, <1>7, <2>1, OtherMaps, Agreement
<1>9. ASSUME NEW v \in Requests \ {w}
      PROVE  (Transacting(v) /\ Op(v) \in MapOps => maps'[On(v)] = maps[On(v)]) /\ CheckedOK(v)'
  <2>1. writes'[v] = writes[v]
    BY <1>1, <1>9, Ends
  <2>2. Transacting(v) /\ Op(v) \in MapOps => On(v) # m /\ On(v) \in Maps
    BY <1>1, <1>2, <1>9, Apart, Shape DEF MapOps, LibraryInv, RequestOK
  <2>3. CheckedOK(v)'
    BY <1>5, <1>6, <1>7, <1>9, <2>1, <2>2, ChecksSurviveMaps
  <2>4. QED BY <1>5, <2>2, <2>3
<1>10. QED BY <1>1, <1>5, <1>7, <1>8, <1>9, EndStep

\* A dataset changes that nobody else has checked.
LEMMA CommitDatasetStep ==
  ASSUME LibraryInv, NEW w \in Requests, CommitDataset(w)
  PROVE  LibraryInv'
<1>1. /\ Op(w) \in DatasetOps /\ StageOf(w) = "commit" /\ End(w) /\ UNCHANGED <<maps, made>>
      /\ StepsOK(w) /\ CheckedOK(w) /\ LibraryTypes
  BY DEF CommitDataset, StageOf, DatasetOps, LibraryInv, RequestOK
<1>2. PICK d \in Datasets : d = On(w)
  BY <1>1, Shape
<1>3. PICK visibility \in {"private", "shared", "deleted"} :
        /\ datasets' = [datasets EXCEPT ![d].visibility = visibility]
        /\ visibility = "deleted" <=> Op(w) = "deleteDataset"
        /\ visibility = "private" => Op(w) = "setVisibility" /\ Asked(w) = "private"
  BY <1>1, <1>2 DEF CommitDataset, DatasetOps, StepsOK
<1>4. /\ datasets' \in [Datasets -> DatasetRows] /\ datasets'[d].visibility = visibility
      /\ \A e \in Datasets : datasets'[e].count = datasets[e].count
      /\ \A e \in Datasets \ {d} : datasets'[e] = datasets[e]
  BY <1>1, <1>3 DEF LibraryTypes, DatasetRows
<1>5. maps' \in [Maps -> MapRows] /\ \A e \in Datasets : Shown(e)' = Shown(e) /\ Referencing(e)' = Referencing(e)
  BY <1>1 DEF LibraryTypes, Shown, Referencing
<1>6. LibraryAgrees'
  <2>1. ASSUME NEW m \in Maps PROVE MapAgrees(m)'
    <3>1. MapAgrees(m) /\ maps'[m] = maps[m] /\ maps[m] \in MapRows
      BY <1>1, Agreement DEF LibraryInv, LibraryTypes
    <3>2. visibility = "deleted" /\ maps[m].live => d \notin maps[m].last \cup maps[m].older
      BY <1>1, <1>2, <1>3 DEF CheckedOK, Referencing
    <3>3. visibility = "private" /\ maps[m].live /\ maps[m].visibility = "public" => d \notin maps[m].last
      BY <1>1, <1>2, <1>3 DEF CheckedOK, Shown
    <3>4. \A e \in maps[m].last \cup maps[m].older : e \in Datasets
      BY <3>1 DEF MapRows
    <3>5. QED BY <1>4, <3>1, <3>2, <3>3, <3>4 DEF MapAgrees
  <2>2. QED BY <1>4, <1>5, <2>1, Agreement DEF LibraryInv
<1>7. ASSUME NEW v \in Requests \ {w} PROVE CheckedOK(v)'
  <2>1. /\ writes'[v] = writes[v] /\ Op(v)' = Op(v) /\ On(v)' = On(v) /\ Asked(v)' = Asked(v)
        /\ StageOf(v)' = StageOf(v)
    BY <1>1, <1>7, Ends DEF Op, On, Asked, StageOf
  <2>2. Guarded(v) => d \notin ToLock(v)
    BY <1>1, <1>2, <1>7, Apart, ChecksGuarded
  <2>3. StepsOK(v) /\ CheckedOK(v) /\ writes[v].refs \subseteq Datasets
    BY <1>7, Shape DEF LibraryInv, RequestOK
  <2>4. CASE Op(v) = "save"
    BY <1>4, <1>7, <2>1, <2>2, <2>3, <2>4, ChecksGuarded DEF CheckedOK
  <2>5. CASE Op(v) = "update"
    <3>1. maps[On(v)].last \subseteq Datasets
      BY <1>1, <1>7, <2>3, <2>5, Shape DEF MapOps, MapRows
    <3>2. QED BY <1>1, <1>4, <1>7, <2>1, <2>2, <2>3, <2>5, <3>1, ChecksGuarded DEF CheckedOK
  <2>6. CASE Op(v) \in DatasetOps
    <3>1. On(v) \in Datasets /\ (StageOf(v) = "commit" => On(v) # d)
      BY <1>1, <1>7, <2>2, <2>3, <2>6, Shape, ChecksGuarded
    <3>2. QED BY <1>1, <1>4, <1>5, <2>1, <2>3, <2>6, <3>1 DEF CheckedOK, DatasetOps
  <2>7. QED BY <2>1, <2>4, <2>5, <2>6 DEF CheckedOK, DatasetOps
<1>8. QED BY <1>1, <1>4, <1>5, <1>6, <1>7, EndStep
-----------------------------------------------------------------------------
(* The theorems                                                              *)

LEMMA LibraryInit ==
  ASSUME MapInit PROVE LibraryInv
<1>1. LibraryTypes
  <2>1. \A m \in Maps : maps[m] \in MapRows
    <3>1. \A v \in {"private", "public"}, refs \in SUBSET Datasets : NewMap(v, refs) \in MapRows
      BY DEF NewMap, MapRows
    <3>2. QED BY <3>1 DEF MapInit
  <2>2. maps \in [Maps -> MapRows]
    BY <2>1 DEF MapInit
  <2>3. datasets \in [Datasets -> DatasetRows]
    <3>1. \A d \in Datasets : Cardinality({m \in Maps : d \in maps[m].last}) \in Nat
      BY LimitsAssumption, FS_Subset, FS_CardinalityType
    <3>2. QED BY <3>1 DEF MapInit, DatasetRows
  <2>4. writes \in [Requests -> WriteRecords]
    BY DEF MapInit, NoWrite, WriteRecords, Stages
  <2>5. QED BY <2>2, <2>3, <2>4, LimitsAssumption DEF MapInit, LibraryTypes
<1>2. LibraryAgrees
  <2>1. \A m \in Maps : maps[m].live /\ maps[m].older = {} /\ maps[m].count \in {0, 1}
    BY DEF MapInit, NewMap
  <2>2. \A d \in Datasets : datasets[d].visibility # "deleted"
    BY DEF MapInit
  <2>3. \A m \in Maps, d \in Datasets :
          maps[m].visibility = "public" /\ d \in maps[m].last => datasets[d].visibility = "shared"
    BY DEF MapInit
  <2>4. ASSUME NEW m \in Maps PROVE MapAgrees(m)
    BY <1>1, <2>1, <2>2, <2>3, LimitsAssumption DEF MapAgrees, LibraryTypes, MapRows
  <2>5. \A d \in Datasets : Shown(d) = {m \in Maps : d \in maps[m].last}
    BY <2>1 DEF Shown
  <2>6. \A d \in Datasets : datasets[d].count = Cardinality(Shown(d))
    BY <2>5 DEF MapInit
  <2>7. QED BY <2>4, <2>6, Agreement
<1>3. ASSUME NEW w \in Requests PROVE RequestOK(w) /\ CheckedOK(w)
  <2>1. Op(w) = "none" /\ StageOf(w) = "idle"
    BY DEF MapInit, NoWrite, Op, StageOf
  <2>2. DatasetsHeld(w)
    BY <2>1, FreeAssumption DEF MapInit, DatasetsHeld
  <2>3. QED BY <2>1, <2>2
             DEF RequestOK, StepsOK, MapHeld, CheckedOK, MapOps, DatasetOps, Transacting
<1>4. QED BY <1>1, <1>2, <1>3 DEF LibraryInv

THEOREM LibraryInvariant == MapSpec => []LibraryInv
<1>1. LibraryInv /\ [MapNext]_mapVars => LibraryInv'
  <2> SUFFICES ASSUME LibraryInv, [MapNext]_mapVars PROVE LibraryInv'
    OBVIOUS
  <2>1. CASE UNCHANGED mapVars
    <3>1. UNCHANGED <<maps, datasets, writes, mapLock, rowLock, advisory, made>>
      BY <2>1 DEF mapVars
    <3>2. LibraryTypes' /\ LibraryAgrees'
      BY <3>1, SameLibrary DEF LibraryInv, LibraryTypes
    <3>3. \A w \in Requests : writes'[w] = writes[w] /\ SameLocks(w)
      BY <3>1 DEF SameLocks
    <3>4. \A w \in Requests : RequestOK(w)' /\ CheckedOK(w)'
      BY <3>1, <3>3, OthersRest, OthersChecked DEF LibraryInv
    <3>5. QED BY <3>2, <3>4 DEF LibraryInv
  <2>2. ASSUME NEW w \in Requests, Rollback(w) PROVE LibraryInv'
    BY <2>2, GivenUp DEF Rollback
  <2>3. QED
    BY <2>1, <2>2, RequestsStep, LockMapStep, LockDatasetStep, LockRowStep, CheckStep,
       CommitSaveStep, CommitUpdateStep, CommitDeleteMapStep, CommitDatasetStep DEF MapNext
<1>2. QED BY <1>1, LibraryInit, PTL DEF MapSpec

\* What every map shows exists, what a public one shows is shared, and the
\* counts are right, whatever was decided before the locks were taken.
THEOREM LibraryAgreesAlways == MapSpec => []LibraryAgrees
<1>1. LibraryInv => LibraryAgrees
  BY DEF LibraryInv
<1>2. QED BY <1>1, LibraryInvariant, PTL

\* Whoever waits, but for a deletion's rows, waits for an advisory lock: each of
\* two would hold a dataset before the one it wants.
LEMMA WaitsInOrder ==
  ASSUME LibraryInv, NEW v \in Requests, NEW w \in Requests, Deadlocked(v, w),
         Op(v) # "deleteMap", Op(w) # "deleteMap"
  PROVE  /\ LocksWanted(v) # {} /\ advisory[NextLock(v)] = w
<1>1. v # w /\ w \in Awaits(v) /\ v \in Awaits(w)
  BY DEF Deadlocked
<1>2. RequestOK(v) /\ RequestOK(w) /\ LibraryTypes /\ StepsOK(v) /\ StepsOK(w)
  BY DEF LibraryInv, RequestOK
<1>3. StageOf(v) # "map"
  \* before its transaction it holds nothing that the other could wait for
  <2>1. SUFFICES ASSUME StageOf(v) = "map" PROVE FALSE
    OBVIOUS
  <2>2. /\ \A m \in Maps : mapLock[m] # v
        /\ \A d \in Datasets : rowLock[d] # v /\ advisory[d] # v
    BY <1>2, <2>1 DEF RequestOK, DatasetsHeld
  <2>3. \A d \in RowsWanted(w) : d \in Datasets
    BY <1>2, RowsGuarded
  <2>4. LocksWanted(w) # {} => NextLock(w) \in Datasets
    BY <1>2, NextLockLeast
  <2>5. writes[w].at = "map" => On(w) \in Maps
    BY <1>2 DEF StepsOK, StageOf
  <2>6. QED BY <1>1, <2>2, <2>3, <2>4, <2>5 DEF Awaits
<1>4. \A d \in RowsWanted(v) : rowLock[d] # w
  <2>1. ASSUME NEW d \in RowsWanted(v), rowLock[d] = w PROVE FALSE
    <3>1. d \in Datasets /\ advisory[d] = v
      BY <1>2, RowsGuarded
    <3>2. advisory[d] = w
      BY <1>2, <2>1, <3>1 DEF RequestOK, DatasetsHeld
    <3>3. QED BY <1>1, <3>1, <3>2
  <2>2. QED BY <2>1
<1>5. QED BY <1>1, <1>3, <1>4 DEF Awaits, StageOf

\* Two transactions wait for each other only if one of them deletes a map.
THEOREM OnlyDeletionsDeadlockAlways == MapSpec => []OnlyDeletionsDeadlock
<1>1. ASSUME LibraryInv, NEW v \in Requests, NEW w \in Requests, Deadlocked(v, w)
      PROVE  "deleteMap" \in {Op(v), Op(w)}
  <2>1. SUFFICES ASSUME Op(v) # "deleteMap", Op(w) # "deleteMap" PROVE FALSE
    OBVIOUS
  <2>2. Deadlocked(w, v) /\ v # w
    BY <1>1 DEF Deadlocked
  <2>3. LocksWanted(v) # {} /\ LocksWanted(w) # {} /\ advisory[NextLock(v)] = w /\ advisory[NextLock(w)] = v
    BY <1>1, <2>1, <2>2, WaitsInOrder
  <2>4. RequestOK(v) /\ RequestOK(w) /\ LibraryTypes /\ StepsOK(v) /\ StepsOK(w)
    BY <1>1 DEF LibraryInv, RequestOK
  <2>5. /\ StageOf(v) = "locks" /\ NextLock(v) \in ToLock(v) /\ NextLock(v) \in Datasets
        /\ StageOf(w) = "locks" /\ NextLock(w) \in ToLock(w) /\ NextLock(w) \in Datasets
        /\ NextLock(v) \in Nat /\ NextLock(w) \in Nat
    BY <2>3, <2>4, NextLockLeast
  <2>6. NextLock(w) < NextLock(v)
    BY <2>2, <2>3, <2>4, <2>5 DEF RequestOK, DatasetsHeld
  <2>7. NextLock(v) < NextLock(w)
    BY <2>2, <2>3, <2>4, <2>5 DEF RequestOK, DatasetsHeld
  <2>8. QED BY <2>5, <2>6, <2>7
<1>2. LibraryInv => OnlyDeletionsDeadlock
  BY <1>1 DEF OnlyDeletionsDeadlock
<1>3. QED BY <1>2, LibraryInvariant, PTL

=============================================================================
