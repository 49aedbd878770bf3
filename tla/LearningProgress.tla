-------------------------- MODULE LearningProgress --------------------------
(***************************************************************************)
(* Synchronisation and review of interactive records                       *)
(* (modules/learning-progress).                                            *)
(*                                                                         *)
(* A row of table userinteractions belongs to a user and a record key.     *)
(* Devices of the user send batches of events, campaign administrators     *)
(* judge pending records, and a hook approves a pending record whose       *)
(* value an administrator has approved before, for another user.  Each     *)
(* request is one database transaction: it sees what has been committed    *)
(* and its own writes, holds a row's lock from its first locking read and  *)
(* the advisory lock of a record key from the moment it asks for it, and   *)
(* releases both when it ends.  Devices then pull what has changed since   *)
(* their cursor.                                                           *)
(***************************************************************************)
EXTENDS Naturals, Sequences, FiniteSets

CONSTANTS
  Users, Keys,       \* a row is a pair of a user and a record key
  ReuseKeys,         \* keys of the interactions enabled for automatic reuse
  Values, FirstValue,  \* what a user can answer, after normalization
  Transactions,      \* concurrent executions
  Workloads,         \* what may arrive, see IsWorkload
  Ids,               \* event ids
  Devices, Owner,    \* pulling devices and the user each belongs to
  None,
  DistinctStamps     \* TRUE: no two writes in the same millisecond

Rows == Users \X Keys
Phases == {"absent", "draft", "pending", "resolved", "failed"}
Verdicts == {"approved", "rejected"}

\* A batch: events of one sync, or reviews, or one automatic approval, which is
\* a transaction of its own.  Every audited event has an id, and no event
\* makes a record that does not exist.
Operations == [op : {"update", "echo", "reset", "review", "reuse"}, user : Users, key : Keys,
               id : Ids \cup {"none"}, phase : Phases, value : Values \cup {None}, at : Nat,
               audit : BOOLEAN, verdict : Verdicts \cup {"none"}]
IsBatch(batch) ==
  /\ batch \in Seq(Operations) /\ batch # <<>>
  /\ \A i \in DOMAIN batch :
       /\ batch[i].audit => batch[i].id \in Ids
       /\ batch[i].op = "update" => batch[i].phase # "absent"
       /\ batch[i].op = "review" => batch[i].verdict \in Verdicts
       /\ batch[i].op = "reuse" => Len(batch) = 1

\* The rows submitted before, the batches that may arrive, the devices that
\* pull, and bounds on arrivals and failed calls.
IsWorkload(w) ==
  /\ w.backlog \in Seq(Rows) /\ \A batch \in w.requests : IsBatch(batch)
  /\ w.devices \subseteq Devices
  /\ w.arrivals \in Nat /\ w.failures \in Nat

ASSUME LearningAssumption ==
  /\ ReuseKeys \subseteq Keys /\ FirstValue \in Values
  /\ \A w \in Workloads : IsWorkload(w)
  /\ None \notin Transactions \cup Values
  /\ Owner \in [Devices -> Users]
  /\ DistinctStamps \in BOOLEAN

VARIABLES
  rows,              \* committed rows
  sequence,          \* userinteractions_updated_seq
  clock,             \* the server's millisecond clock
  rowLock, keyLock,  \* holders of row locks and of advisory locks
  tx,                \* the executions
  loaded,            \* the row as an administrator last loaded it
  device,            \* what each device has pulled
  workload, requests, failures

lockVars == <<rowLock, keyLock>>
vars == <<rows, sequence, clock, lockVars, tx, loaded, device, workload, requests, failures>>

NoReview == [verdict |-> "none", by |-> "none", decided |-> 0, of |-> 0, judged |-> 0]
\* "created" stands for created_at; the last three fields of a review and
\* nothing else are history: the sequence value of the decision, of the row
\* version that was loaded for it and of the version that it judged.
Absent == [phase |-> "absent", value |-> None, at |-> 0, review |-> NoReview,
           seq |-> 0, stamp |-> 0, created |-> 0, audits |-> <<>>]
Exists(row) == row.phase # "absent"

\* "judged", "retried" and "blind" are history: the decisions an automatic
\* approval has looked at, the rows put back to pending, and the rows stored
\* although they did not exist when they were normalized.
Idle == [pc |-> "idle", todo |-> <<>>, writes |-> <<>>, rec |-> Absent, expected |-> <<>>,
         judged |-> {}, retried |-> {}, blind |-> {}]

Init ==
  /\ workload \in Workloads
  /\ rows = [r \in Rows |->
       IF \E i \in DOMAIN workload.backlog : workload.backlog[i] = r
         THEN LET i == CHOOSE j \in DOMAIN workload.backlog : workload.backlog[j] = r
              IN [Absent EXCEPT !.phase = "pending", !.value = FirstValue, !.at = 1,
                                !.seq = i, !.stamp = i, !.created = i]
         ELSE Absent]
  /\ sequence = Len(workload.backlog) /\ clock = Len(workload.backlog) + 1
  /\ rowLock = [r \in Rows |-> None] /\ keyLock = [k \in Keys |-> None]
  /\ tx = [p \in Transactions |-> Idle]
  /\ loaded = [r \in Rows |-> [seq |-> 0, stamp |-> 0]]
  /\ device = [d \in Devices |-> [cursor |-> 0, known |-> [k \in Keys |-> 0], missed |-> {}]]
  /\ requests = 0 /\ failures = 0

-----------------------------------------------------------------------------
(* What a transaction sees, and its locks.                                  *)

\* Its own writes, and otherwise what has been committed.
Seen(p, r) == IF r \in DOMAIN tx[p].writes THEN tx[p].writes[r] ELSE rows[r]
Written(p, r, row) ==
  [s \in DOMAIN tx[p].writes \cup {r} |-> IF s = r THEN row ELSE tx[p].writes[s]]

Operation(p) == Head(tx[p].todo)
RowOf(p) == <<Operation(p).user, Operation(p).key>>
At(p, pc) == tx[p].pc = pc
Goes(p, pc) == tx' = [tx EXCEPT ![p].pc = pc]

RowFree(p, r) == rowLock[r] \in {None, p}
KeyFree(p, k) == keyLock[k] \in {None, p}
LockRow(p, r) == RowFree(p, r) /\ rowLock' = [rowLock EXCEPT ![r] = p]

\* acquireLearningProgressAutoReviewReuseTransactionLock
LockKey(p, k) == KeyFree(p, k) /\ keyLock' = [keyLock EXCEPT ![k] = p]

\* Mutant: advisory locks of the session, not of the transaction.
ReleaseRows(p) ==
  /\ rowLock' = [r \in Rows |-> IF rowLock[r] = p THEN None ELSE rowLock[r]]
  /\ UNCHANGED keyLock

Release(p) ==
  /\ rowLock' = [r \in Rows |-> IF rowLock[r] = p THEN None ELSE rowLock[r]]
  /\ keyLock' = [k \in Keys |-> IF keyLock[k] = p THEN None ELSE keyLock[k]]

Tick == clock' \in (IF DistinctStamps THEN {clock + 1} ELSE {clock, clock + 1})

\* The rest of a batch, or its end.
AfterOperation(todo) == IF todo = <<>> THEN "commit" ELSE "start"
SkipOperation(p) ==
  tx' = [tx EXCEPT ![p].pc = AfterOperation(Tail(tx[p].todo)), ![p].todo = Tail(@),
                   ![p].rec = Absent]
Later(a, b) == IF a > b THEN a ELSE b

-----------------------------------------------------------------------------
(* Public events: syncEvents.                                               *)

\* shouldAcquireAutoReviewReuseTransactionLock
NeedsKeyLock(e) == e.phase = "pending" /\ e.key \in ReuseKeys

Incoming(e) == [phase |-> e.phase, value |-> e.value, at |-> e.at]
Client(row) == [phase |-> row.phase, value |-> row.value, at |-> row.at]

\* Mutant: any newer record clears the review.
RetriesAnyhow(e, row) == e.at > row.at

\* shouldClearStoredReview
Retries(e, row) == e.phase = "pending" /\ e.at > row.at

\* normalizePublicInteractiveRecord and validatePublicInteractiveRecord: a
\* reviewed record only re-enters pending or is repeated as it is.
Acceptable(e, row) ==
  \/ row.review = NoReview
  \/ Retries(e, row)
  \/ Incoming(e) = Client(row)
NormalizedReview(e, row) == IF Retries(e, row) THEN NoReview ELSE row.review

Submitted(row, e) == \E i \in DOMAIN row.audits : row.audits[i].id = e.id

SameRecord(row, rec) ==
  row.phase = rec.phase /\ row.value = rec.value /\ row.at = rec.at /\ row.review = rec.review

\* The row with this record and the audit entry of a client's event.
Stored(row, rec, e) ==
  [phase |-> rec.phase, value |-> rec.value, at |-> rec.at, review |-> rec.review,
   seq |-> sequence + 1, stamp |-> clock,
   created |-> IF Exists(row) THEN row.created ELSE sequence + 1,
   audits |-> IF e.audit THEN Append(row.audits, [id |-> e.id, seq |-> sequence + 1])
                         ELSE row.audits]

\* Mutants: an older record replaces the stored one; the stored audit entries
\* are lost; an entry merged into a newer record does not move its sequence.
MergedAnyway(row, rec, e) == Stored(row, rec, e)
MergedOver(row, rec, e) == Stored([row EXCEPT !.audits = <<>>], rec, e)
MergedInPlace(row, rec, e) ==
  IF rec.at >= row.at THEN Stored(row, rec, e)
                      ELSE [Stored(row, row, e) EXCEPT !.seq = row.seq]

\* doUpsertInteractiveRecord on the row it has locked: the row to be stored.
Merged(row, rec, e) == Stored(row, IF rec.at >= row.at THEN rec ELSE row, e)

\* Mutant: a repeated event is recognised by its record only.
MergesAgain(row, rec, e) ==
  Exists(row) => IF e.audit THEN TRUE ELSE rec.at >= row.at /\ ~SameRecord(row, rec)

\* Whether the upsert writes at all.
Merges(row, rec, e) ==
  Exists(row) => IF e.audit THEN ~Submitted(row, e)
                            ELSE rec.at >= row.at /\ ~SameRecord(row, rec)

upsertInteractiveRecord(p, r, rec, e) ==
  LET row == Seen(p, r)
      todo == Tail(tx[p].todo)
  IN IF Merges(row, rec, e)
       THEN /\ tx' = [tx EXCEPT ![p] =
                 [@ EXCEPT !.pc = AfterOperation(todo), !.todo = todo, !.rec = Absent,
                           !.writes = Written(p, r, Merged(row, rec, e)),
                           !.retried = tx[p].retried \cup (IF e.phase = "pending" THEN {r} ELSE {}),
                           !.blind = tx[p].blind \cup (IF At(p, "upsert") THEN {r} ELSE {})]]
            /\ sequence' = sequence + 1 /\ Tick
       ELSE SkipOperation(p) /\ UNCHANGED <<sequence, clock>>

rest == <<rows, loaded, device, workload, requests, failures>>

StartUpdate(p) ==
  /\ At(p, "start") /\ Operation(p).op = "update"
  /\ IF NeedsKeyLock(Operation(p)) THEN LockKey(p, Operation(p).key) ELSE UNCHANGED keyLock
  /\ Goes(p, "read")
  /\ UNCHANGED <<rest, sequence, clock, rowLock>>

\* getRecordForUpdate.  A row that does not exist yet is not locked: what it
\* is normalized against may be out of date when it is stored.
ReadForUpdate(p) ==
  LET e == Operation(p)
      r == RowOf(p)
      row == Seen(p, r)
      rec == [phase |-> e.phase, value |-> e.value, at |-> e.at,
              review |-> NormalizedReview(e, row)]
  IN
  /\ At(p, "read")
  /\ IF ~Exists(row) /\ ~Exists(rows[r])
       THEN /\ tx' = [tx EXCEPT ![p] = [@ EXCEPT !.pc = "upsert",
                                                !.rec = [Absent EXCEPT !.phase = e.phase,
                                                                       !.value = e.value, !.at = e.at]]]
            /\ UNCHANGED <<rowLock, sequence, clock>>
       ELSE /\ LockRow(p, r)
            /\ IF Acceptable(e, row)
                 THEN upsertInteractiveRecord(p, r, rec, e)
                 ELSE SkipOperation(p) /\ UNCHANGED <<sequence, clock>>
  /\ UNCHANGED <<rest, keyLock>>

\* Mutant: the second attempt does not lock the row.
InsertOrMergeUnlocked(p) ==
  /\ At(p, "upsert") /\ RowFree(p, RowOf(p))
  /\ upsertInteractiveRecord(p, RowOf(p), tx[p].rec, Operation(p))
  /\ UNCHANGED <<rest, lockVars>>

\* The insert waits for another transaction's insert of the same row; when
\* that one commits, the second attempt finds and locks its row.
InsertOrMerge(p) ==
  /\ At(p, "upsert")
  /\ LockRow(p, RowOf(p))
  /\ upsertInteractiveRecord(p, RowOf(p), tx[p].rec, Operation(p))
  /\ UNCHANGED <<rest, keyLock>>

\* progress.reset deletes the user's rows that are committed or its own; it
\* waits for the transactions that hold them.
ResetProgress(p) ==
  LET own == {r \in Rows : r[1] = Operation(p).user /\ (Exists(rows[r]) \/ r \in DOMAIN tx[p].writes)}
      todo == Tail(tx[p].todo)
  IN
  /\ At(p, "start") /\ Operation(p).op = "reset"
  /\ \A r \in own : RowFree(p, r)
  /\ rowLock' = [r \in Rows |-> IF r \in own THEN p ELSE rowLock[r]]
  /\ tx' = [tx EXCEPT ![p] = [@ EXCEPT !.pc = AfterOperation(todo), !.todo = todo,
                              !.writes = [r \in DOMAIN tx[p].writes \cup own |->
                                           IF r \in own THEN Absent ELSE tx[p].writes[r]]]]
  /\ UNCHANGED <<rest, sequence, clock, keyLock>>

-----------------------------------------------------------------------------
(* Reviews: updateInteractionReview.                                        *)

\* The record with the verdict, stored under the next timestamp.
ReviewedRow(row, verdict, by, of) ==
  LET at == Later(clock, row.at + 1) IN
  [row EXCEPT !.phase = IF verdict = "approved" THEN "resolved" ELSE "failed",
              !.at = at,
              !.review = [verdict |-> verdict, by |-> by, decided |-> sequence + 1,
                          of |-> of, judged |-> row.seq],
              !.seq = sequence + 1, !.stamp = clock]

\* Mutant: the review does not wait for its key's lock.
StartReviewUnlocked(p) ==
  /\ At(p, "start") /\ Operation(p).op = "review"
  /\ Goes(p, IF Exists(Seen(p, RowOf(p))) THEN "judge" ELSE "abort")
  /\ UNCHANGED <<rest, sequence, clock, lockVars>>

\* getRecord, then the key's lock; every reviewable row is entity-scoped.
StartReview(p) ==
  /\ At(p, "start") /\ Operation(p).op = "review"
  /\ IF Exists(Seen(p, RowOf(p)))
       THEN LockKey(p, Operation(p).key) /\ Goes(p, "judge")
       ELSE Goes(p, "abort") /\ UNCHANGED keyLock
  /\ UNCHANGED <<rest, sequence, clock, rowLock>>

\* Mutant: the version that was loaded is not compared.
JudgeUnseen(p) ==
  LET r == RowOf(p)
      row == Seen(p, r)
      todo == Tail(tx[p].todo)
  IN
  /\ At(p, "judge") /\ LockRow(p, r)
  /\ IF row.phase = "pending"
       THEN /\ tx' = [tx EXCEPT ![p] =
                 [@ EXCEPT !.pc = AfterOperation(todo), !.todo = todo,
                           !.writes = Written(p, r, ReviewedRow(row, Operation(p).verdict,
                                                                "admin", tx[p].expected[r].seq))]]
            /\ sequence' = sequence + 1 /\ Tick
       ELSE Goes(p, "abort") /\ UNCHANGED <<sequence, clock>>
  /\ UNCHANGED <<rest, keyLock>>

\* The locked row must be pending and as it was loaded (or carry the very
\* same review already); otherwise the whole batch is rolled back.
Judge(p) ==
  LET r == RowOf(p)
      row == Seen(p, r)
      verdict == Operation(p).verdict
      todo == Tail(tx[p].todo)
      repeated == row.review.verdict = verdict /\ row.review.by = "admin"
  IN
  /\ At(p, "judge")
  /\ IF Exists(rows[r]) THEN LockRow(p, r) ELSE UNCHANGED rowLock
  /\ IF row.phase = "pending" /\ row.stamp = tx[p].expected[r].stamp
       THEN /\ tx' = [tx EXCEPT ![p] =
                 [@ EXCEPT !.pc = AfterOperation(todo), !.todo = todo,
                           !.writes = Written(p, r, ReviewedRow(row, verdict, "admin",
                                                                tx[p].expected[r].seq))]]
            /\ sequence' = sequence + 1 /\ Tick
       ELSE /\ IF Exists(row) /\ row.phase # "pending" /\ repeated
                 THEN SkipOperation(p) ELSE Goes(p, "abort")
            /\ UNCHANGED <<sequence, clock>>
  /\ UNCHANGED <<rest, keyLock>>

-----------------------------------------------------------------------------
(* Automatic approval: autoResolvePendingInteractionFromReviewedMatch, run  *)
(* by the hook after a sync and, for every pending row, by reconciliation.  *)

AdminReviewed(row) == row.phase \in {"resolved", "failed"} /\ row.review.by = "admin"

\* findLatestCampaignAdminReviewedExactKeyMatches: the reviewed rows of the
\* key, as this transaction sees them, that carry the newest updated_at.
Precedents(p, k) == {r \in Rows : r[2] = k /\ AdminReviewed(Seen(p, r))}
LatestPrecedents(p, k) ==
  {r \in Precedents(p, k) :
     \A s \in Precedents(p, k) : Seen(p, s).stamp <= Seen(p, r).stamp}

\* Mutant: the verdict is not looked at.
JudgedByPrecedent(p, k, value) ==
  LatestPrecedents(p, k) # {} /\ \A r \in LatestPrecedents(p, k) : Seen(p, r).value = value

\* All of the latest must agree on an approval of this value.
ApprovedByPrecedent(p, k, value) ==
  /\ LatestPrecedents(p, k) # {}
  /\ \A r \in LatestPrecedents(p, k) :
       Seen(p, r).review.verdict = "approved" /\ Seen(p, r).value = value

StartReuse(p) ==
  /\ At(p, "start") /\ Operation(p).op = "reuse"
  /\ IF Seen(p, RowOf(p)).phase = "pending" /\ Operation(p).key \in ReuseKeys
       THEN LockKey(p, Operation(p).key) /\ Goes(p, "match")
       ELSE Goes(p, "abort") /\ UNCHANGED keyLock
  /\ UNCHANGED <<rest, sequence, clock, rowLock>>

Match(p) ==
  LET r == RowOf(p)
      row == Seen(p, r)
  IN
  /\ At(p, "match")
  /\ IF Exists(rows[r]) THEN LockRow(p, r) ELSE UNCHANGED rowLock
  /\ IF row.phase = "pending" /\ ApprovedByPrecedent(p, r[2], row.value)
       THEN /\ tx' = [tx EXCEPT ![p] =
                 [@ EXCEPT !.pc = "commit", !.todo = <<>>,
                           !.judged = {Seen(p, s).review.decided : s \in Precedents(p, r[2])},
                           !.writes = Written(p, r, ReviewedRow(row, "approved", "reuse", row.seq))]]
            /\ sequence' = sequence + 1 /\ Tick
       ELSE Goes(p, "abort") /\ UNCHANGED <<sequence, clock>>
  /\ UNCHANGED <<rest, keyLock>>

-----------------------------------------------------------------------------
(* Requests and the end of their transactions.                              *)

Target(operation) == <<operation.user, operation.key>>
Reviewed(batch) == {Target(batch[i]) : i \in {j \in DOMAIN batch : batch[j].op = "review"}}

\* A device may send a record back as it has received it, with a new event.
Composed(operation) ==
  LET row == rows[Target(operation)]
  IN IF operation.op = "echo"
       THEN [operation EXCEPT !.op = "update", !.phase = row.phase, !.value = row.value, !.at = row.at]
       ELSE operation

\* A review carries the version that its administrator has loaded.
Arrive(p, batch) ==
  /\ At(p, "idle") /\ requests < workload.arrivals
  /\ \A i \in DOMAIN batch : batch[i].op = "echo" => Exists(rows[Target(batch[i])])
  /\ requests' = requests + 1
  /\ tx' = [tx EXCEPT ![p] = [Idle EXCEPT !.pc = "start",
                              !.todo = [i \in DOMAIN batch |-> Composed(batch[i])],
                              !.expected = [r \in Reviewed(batch) |-> loaded[r]]]]
  /\ UNCHANGED <<rows, sequence, clock, lockVars, loaded, device, workload, failures>>

Load(r) ==
  /\ Exists(rows[r])
  /\ \E batch \in workload.requests : r \in Reviewed(batch)
  /\ loaded' = [loaded EXCEPT ![r] = [seq |-> rows[r].seq, stamp |-> rows[r].stamp]]
  /\ UNCHANGED <<rows, sequence, clock, lockVars, tx, device, workload, requests, failures>>

Commit(p) ==
  /\ At(p, "commit")
  /\ rows' = [r \in Rows |-> Seen(p, r)]
  /\ Release(p)
  /\ tx' = [tx EXCEPT ![p] = Idle]
  /\ UNCHANGED <<sequence, clock, loaded, device, workload, requests, failures>>

Rollback(p) ==
  /\ Release(p)
  /\ tx' = [tx EXCEPT ![p] = Idle]
  /\ UNCHANGED <<rows, sequence, clock, loaded, device, workload, requests>>

Abort(p) == At(p, "abort") /\ Rollback(p) /\ UNCHANGED failures

FailCall(p) ==
  /\ ~At(p, "idle") /\ failures < workload.failures
  /\ failures' = failures + 1
  /\ Rollback(p)

\* Who p waits for: the holder of the lock its next statement needs.
Blockers(p) ==
  LET wanted == CASE At(p, "start") /\ Operation(p).op = "update" ->
                       IF NeedsKeyLock(Operation(p)) THEN {keyLock[Operation(p).key]} ELSE {}
                  [] At(p, "start") /\ Operation(p).op = "reset" ->
                       {rowLock[r] : r \in {s \in Rows : s[1] = Operation(p).user /\ Exists(rows[s])}}
                  [] At(p, "start") /\ Operation(p).op \in {"review", "reuse"} -> {keyLock[Operation(p).key]}
                  [] tx[p].pc \in {"read", "judge", "match"} ->
                       IF Exists(rows[RowOf(p)]) THEN {rowLock[RowOf(p)]} ELSE {}
                  [] At(p, "upsert") -> {rowLock[RowOf(p)]}
                  [] OTHER -> {}
  IN wanted \ {None, p}

\* The database rolls one transaction of a cycle of waits back.
Deadlocked(p) ==
  \E q \in Blockers(p) : p \in Blockers(q) \/ \E s \in Blockers(q) : p \in Blockers(s)
BreakDeadlock(p) == Deadlocked(p) /\ Rollback(p) /\ UNCHANGED failures

-----------------------------------------------------------------------------
(* Devices: getProgress with a cursor.                                      *)

RowsOf(d) == {<<Owner[d], k>> : k \in Keys}

\* buildDeltaEventsFromRecords and getLatestCursor: the rows beyond the cursor
\* that was sent, and the largest sequence value of all rows.  The history
\* "missed" holds the values allocated but not committed below that cursor.
Pull(d) ==
  LET latest == CHOOSE c \in {rows[r].seq : r \in RowsOf(d)} :
                  \A r \in RowsOf(d) : rows[r].seq <= c
      allocated == UNION {{tx[p].writes[r].seq : r \in DOMAIN tx[p].writes \cap RowsOf(d)} :
                            p \in Transactions}
  IN
  /\ device' = [device EXCEPT ![d] =
       [cursor |-> latest,
        known |-> [k \in Keys |-> LET row == rows[<<Owner[d], k>>]
                                  IN IF row.seq > @.cursor THEN row.stamp ELSE @.known[k]],
        missed |-> @.missed \cup {c \in allocated : c <= latest}]]
  /\ UNCHANGED <<rows, sequence, clock, lockVars, tx, loaded, workload, requests, failures>>

-----------------------------------------------------------------------------
Step(p) ==
  \/ StartUpdate(p) \/ ReadForUpdate(p) \/ InsertOrMerge(p) \/ ResetProgress(p)
  \/ StartReview(p) \/ Judge(p) \/ StartReuse(p) \/ Match(p)
  \/ Commit(p) \/ Abort(p) \/ BreakDeadlock(p)

Next ==
  \/ \E p \in Transactions : Step(p) \/ FailCall(p) \/ \E batch \in workload.requests : Arrive(p, batch)
  \/ \E r \in Rows : Load(r)
  \/ \E d \in workload.devices : Pull(d)

Spec == Init /\ [][Next]_vars

\* The database goes on with every transaction that does not wait.
FairSpec == Spec /\ \A p \in Transactions : WF_vars(Step(p))

-----------------------------------------------------------------------------
(* Types.                                                                    *)

RowRecords == [phase : Phases, value : Values \cup {None}, at : Nat,
               review : [verdict : Verdicts \cup {"none"}, by : {"none", "admin", "reuse"},
                         decided : Nat, of : Nat, judged : Nat],
               seq : Nat, stamp : Nat, created : Nat, audits : Seq([id : Ids, seq : Nat])]

TypeOK ==
  /\ \A r \in Rows : rows[r] \in RowRecords /\ (Exists(rows[r]) => rows[r].seq > 0)
  /\ rowLock \in [Rows -> Transactions \cup {None}]
  /\ keyLock \in [Keys -> Transactions \cup {None}]
  /\ \A p \in Transactions : \A r \in DOMAIN tx[p].writes :
       tx[p].writes[r] \in RowRecords /\ rowLock[r] = p

-----------------------------------------------------------------------------
(* Properties.                                                               *)

SameRow(r) == Exists(rows[r]) /\ Exists(rows'[r]) /\ rows'[r].created = rows[r].created

\* An event that is sent again, or twice at once, adds its audit entry once.
SubmittedOnce ==
  \A r \in Rows : \A i, j \in DOMAIN rows[r].audits :
    rows[r].audits[i].id = rows[r].audits[j].id => i = j

\* Concurrent writes never drop or reorder a row's audit entries; only a reset
\* does, and it deletes the row.
AuditsKept ==
  [][\A r \in Rows : SameRow(r) =>
       \A i \in DOMAIN rows[r].audits :
         i \in DOMAIN rows'[r].audits /\ rows'[r].audits[i] = rows[r].audits[i]]_vars

\* A record is never replaced by an older one, whatever order requests take.
FreshestWins == [][\A r \in Rows : SameRow(r) => rows'[r].at >= rows[r].at]_vars

\* What an administrator judged is the version that was loaded for it.
ReviewsWhatWasLoaded ==
  \A r \in Rows : rows[r].review.by = "admin" => rows[r].review.of = rows[r].review.judged

DropsReview(r) ==
  SameRow(r) /\ rows[r].review # NoReview /\ rows'[r].review # rows[r].review

\* A review disappears only when its user submits the record again.
ReviewKeptUntilRetry ==
  [][\A r \in Rows : DropsReview(r) =>
       \E p \in Transactions : At(p, "commit") /\ r \in tx[p].retried]_vars

\* Or by a batch that was checked before the row existed.
ReviewDroppedOnlyBlindly ==
  [][\A r \in Rows : DropsReview(r) =>
       \E p \in Transactions : At(p, "commit") /\ r \in tx[p].retried \cup tx[p].blind]_vars

Approves(p, r) == At(p, "commit") /\ r \in DOMAIN tx[p].writes /\ tx[p].judged # {}

\* An administrator's decision on a key does not slip between the decisions
\* that an automatic approval has looked at and its commit.
NoDecisionOvertakesReuse ==
  \A p \in Transactions, r \in Rows : Approves(p, r) =>
    \A u \in Users : AdminReviewed(rows[<<u, r[2]>>]) =>
      rows[<<u, r[2]>>].review.decided \in tx[p].judged

\* No row of the key carries this decision any more: its user was reset or its
\* row stored blindly, neither of which waits for the key's lock.
Undone(decision, k) == \A u \in Users : rows[<<u, k>>].review.decided # decision

\* An automatic approval repeats an approval that an administrator gave to
\* another row of the key for the same value, unless a decision that it has
\* looked at was undone before it commits.
ReuseNeedsHumanApproval ==
  \A p \in Transactions, r \in Rows : Approves(p, r) =>
    \/ \E u \in Users : LET row == rows[<<u, r[2]>>] IN
         row.review.by = "admin" /\ row.review.verdict = "approved" /\ row.value = tx[p].writes[r].value
    \/ \E decision \in tx[p].judged : Undone(decision, r[2])

\* "The system must not search older rows to find a matching approval after a
\* newer human decision already disagreed."
NewestDecisionIsAuthoritative ==
  \A p \in Transactions, r \in Rows : Approves(p, r) =>
    LET decided == {row \in {rows[<<u, r[2]>>] : u \in Users} : AdminReviewed(row)}
    IN \A row \in decided :
         (\A other \in decided : other.review.decided <= row.review.decided) =>
           row.review.verdict = "approved" /\ row.value = tx[p].writes[r].value

Behind(d, k) == LET row == rows[<<Owner[d], k>>] IN
  Exists(row) /\ row.seq <= device[d].cursor /\ device[d].known[k] # row.stamp

\* A device that pulls by cursor has every row up to its cursor.
DeltasAreComplete == \A d \in Devices, k \in Keys : ~Behind(d, k)

\* What it lacks was allocated, but not committed, when its cursor passed it.
DeltasMissOnlyUncommitted ==
  \A d \in Devices, k \in Keys : Behind(d, k) => rows[<<Owner[d], k>>].seq \in device[d].missed

\* No request waits for ever, in whatever order batches take their locks.
TransactionsEnd == \A p \in Transactions : ~At(p, "idle") ~> At(p, "idle")
=============================================================================
