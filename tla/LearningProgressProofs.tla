----------------------- MODULE LearningProgressProofs -----------------------
(***************************************************************************)
(* Theorems about the synchronisation and review of records, for any       *)
(* users, record keys, batches, transactions and devices.                  *)
(***************************************************************************)
EXTENDS LearningProgress, SequenceTheorems, FiniteSetTheorems, TLAPS

-----------------------------------------------------------------------------
(* Types.                                                                    *)

ReviewRecords == [verdict : Verdicts \cup {"none"}, by : {"none", "admin", "reuse"},
                  decided : Nat, of : Nat, judged : Nat]
AuditEntries == [id : Ids, seq : Nat]
Loadings == [seq : Nat, stamp : Nat]

\* What a transaction works off: a batch with its echoes composed.
Events == {e \in Operations : /\ e.op \in {"update", "reset", "review", "reuse"}
                              /\ e.audit => e.id \in Ids
                              /\ e.op = "update" => e.phase # "absent"
                              /\ e.op = "review" => e.verdict \in Verdicts}

Writes == UNION {[S -> RowRecords] : S \in SUBSET Rows}
Expectations == UNION {[S -> Loadings] : S \in SUBSET Rows}
Pcs == {"idle", "start", "read", "upsert", "judge", "match", "commit", "abort"}
TxRecords == [pc : Pcs, todo : Seq(Events), writes : Writes, rec : RowRecords,
              expected : Expectations, judged : SUBSET Nat,
              retried : SUBSET Rows, blind : SUBSET Rows]

Types ==
  /\ workload \in Workloads
  /\ tx \in [Transactions -> TxRecords]
  /\ rows \in [Rows -> RowRecords]
  /\ rowLock \in [Rows -> Transactions \cup {None}]
  /\ keyLock \in [Keys -> Transactions \cup {None}]
  /\ sequence \in Nat /\ clock \in Nat
  /\ loaded \in [Rows -> Loadings]
  /\ DistinctStamps => /\ clock = sequence + 1
                       /\ \A r \in Rows : loaded[r].seq = loaded[r].stamp

\* Where an execution is, and what its batch still holds.
ExecutionOK(p) ==
  LET t == tx[p] IN
  /\ t.pc \in {"start", "read", "upsert", "judge", "match"} => t.todo # <<>>
  /\ t.pc \in {"read", "upsert"} => Operation(p).op = "update"
  /\ t.pc = "judge" => Operation(p).op = "review" /\ keyLock[Operation(p).key] = p
  /\ t.pc = "match" => Operation(p).op = "reuse" /\ keyLock[Operation(p).key] = p
  /\ t.pc = "upsert" => t.rec.phase # "absent" /\ t.rec.review = NoReview
  /\ \A i \in DOMAIN t.todo :
       /\ t.todo[i].op = "review" => Target(t.todo[i]) \in DOMAIN t.expected
       /\ t.todo[i].op = "reuse" => Len(t.todo) = 1 /\ DOMAIN t.writes = {}
  /\ DistinctStamps => \A r \in DOMAIN t.expected : t.expected[r].seq = t.expected[r].stamp
  /\ t.judged # {} => t.pc = "commit"

ExecutionsOK == \A p \in Transactions : ExecutionOK(p)

-----------------------------------------------------------------------------
(* Versions of a row: the committed one and those not committed yet.         *)

\* What is true of every version while sequence values up to n are allocated.
Valid(row, n) ==
  /\ row \in RowRecords
  /\ IF Exists(row) THEN row.created \in 1 .. row.seq /\ row.seq <= n ELSE row = Absent
  /\ row.review # NoReview => row.phase \in {"resolved", "failed"} /\ row.review.decided \in 1 .. n
  /\ DistinctStamps =>
       row.stamp = row.seq /\ (row.review.by = "admin" => row.review.of = row.review.judged)
  /\ \A i, j \in DOMAIN row.audits : row.audits[i].id = row.audits[j].id => i = j

Versions(r) ==
  {rows[r]} \cup {tx[p].writes[r] : p \in {q \in Transactions : r \in DOMAIN tx[q].writes}}

VersionsValid == \A r \in Rows : \A v \in Versions(r) : Valid(v, sequence)

\* No two rows carry the same decision.
DecisionsUnique ==
  \A r, s \in Rows : r # s => \A v \in Versions(r), w \in Versions(s) :
    v.review # NoReview /\ w.review # NoReview => v.review.decided # w.review.decided

\* How a version may replace another of the same row, which exists in both: its
\* audit entries are kept, it is not older, and it drops a review only if the
\* row is marked as retried or blind.
Succeeds(row, new, r, marks) ==
  Exists(row) /\ Exists(new) /\ new.created = row.created =>
    /\ Len(row.audits) <= Len(new.audits)
    /\ \A i \in 1 .. Len(row.audits) : new.audits[i] = row.audits[i]
    /\ new.at >= row.at
    /\ row.review # NoReview /\ new.review # row.review => r \in marks

\* Without the lock of the row's key a version only repeats or drops a review.
Repeats(row, new) ==
  \/ new.review = NoReview
  \/ new.review = row.review /\ new.phase = row.phase /\ new.value = row.value

Marks(p) == tx[p].retried \cup tx[p].blind

\* A transaction's writes are of rows that it has locked.
WriteOK(p, r) ==
  LET new == tx[p].writes[r] IN
  /\ rowLock[r] = p
  /\ Succeeds(rows[r], new, r, Marks(p))
  /\ Repeats(rows[r], new) \/ keyLock[r[2]] = p
WritesOK == \A p \in Transactions : \A r \in DOMAIN tx[p].writes : WriteOK(p, r)

\* Until it commits, an automatic approval holds its key's lock: the decisions on
\* the key are among those that it looked at, and one of them approves the value,
\* unless one of them was undone.
ReuseOK(p, r) ==
  tx[p].judged # {} =>
    /\ keyLock[r[2]] = p
    /\ 0 \notin tx[p].judged
    /\ \A u \in Users : AdminReviewed(rows[<<u, r[2]>>]) =>
         rows[<<u, r[2]>>].review.decided \in tx[p].judged
    /\ \/ \E u \in Users :
            /\ rows[<<u, r[2]>>].review.by = "admin"
            /\ rows[<<u, r[2]>>].review.verdict = "approved"
            /\ rows[<<u, r[2]>>].value = tx[p].writes[r].value
       \/ \E decision \in tx[p].judged : Undone(decision, r[2])
ReusesOK == \A p \in Transactions : \A r \in DOMAIN tx[p].writes : ReuseOK(p, r)

\* A device lacks no version up to its cursor but those recorded as missed, and
\* what is not committed yet is recorded.
DeltaOK(d, k) ==
  LET r == <<Owner[d], k>> IN
  /\ device[d].cursor \in 0 .. sequence
  /\ Exists(rows[r]) /\ rows[r].seq <= device[d].cursor =>
       device[d].known[k] = rows[r].stamp \/ rows[r].seq \in device[d].missed
  /\ \A p \in Transactions :
       r \in DOMAIN tx[p].writes /\ Exists(tx[p].writes[r])
         /\ tx[p].writes[r].seq <= device[d].cursor => tx[p].writes[r].seq \in device[d].missed
DeltasOK ==
  /\ device = [d \in Devices |-> device[d]]
  /\ \A d \in Devices, k \in Keys : DeltaOK(d, k)

IInv == Types /\ ExecutionsOK /\ VersionsValid /\ DecisionsUnique /\ WritesOK /\ ReusesOK /\ DeltasOK

-----------------------------------------------------------------------------
(* The data.                                                                 *)

LEMMA AbsentValid ==
  ASSUME NEW n \in Nat
  PROVE  Valid(Absent, n) /\ ~Exists(Absent) /\ Absent.review = NoReview
<1>1. <<>> \in Seq(AuditEntries) /\ DOMAIN <<>> = {}
  OBVIOUS
<1>2. NoReview \in ReviewRecords
  BY DEF NoReview, ReviewRecords
<1>3. Absent \in RowRecords
  BY <1>1, <1>2 DEF Absent, RowRecords, Phases, AuditEntries, ReviewRecords
<1>4. /\ ~Exists(Absent) /\ Absent.review = NoReview /\ Absent.audits = <<>>
      /\ Absent.stamp = 0 /\ Absent.seq = 0
  BY DEF Absent, Exists
<1>5. NoReview.by = "none"
  BY DEF NoReview
<1>6. QED BY <1>1, <1>3, <1>4, <1>5 DEF Valid

\* More sequence values allocated leave a version valid.
LEMMA ValidLater ==
  ASSUME NEW row, NEW n \in Nat, NEW m \in Nat, n <= m, Valid(row, n)
  PROVE  Valid(row, m)
<1>1. row.seq \in Nat /\ row.review.decided \in Nat
  BY DEF Valid, RowRecords
<1>2. QED BY <1>1 DEF Valid

\* Fields of a row.
LEMMA RowFields ==
  ASSUME NEW row \in RowRecords
  PROVE  /\ row.phase \in Phases /\ row.value \in Values \cup {None} /\ row.at \in Nat
         /\ row.review \in ReviewRecords /\ row.review.decided \in Nat
         /\ row.seq \in Nat /\ row.stamp \in Nat /\ row.created \in Nat
         /\ row.audits \in Seq(AuditEntries) /\ DOMAIN row.audits = 1 .. Len(row.audits)
         /\ Len(row.audits) \in Nat
<1>1. row.audits \in Seq(AuditEntries)
  BY DEF RowRecords, AuditEntries
<1>2. DOMAIN row.audits = 1 .. Len(row.audits) /\ Len(row.audits) \in Nat
  BY <1>1, LenProperties
<1>3. QED BY <1>1, <1>2 DEF RowRecords, ReviewRecords

\* Whoever is replaced stays replaced when the replacement is replaced.
LEMMA SucceedsTrans ==
  ASSUME NEW n \in Nat, NEW row, NEW mid, NEW new, NEW r, NEW marks, NEW more,
         Valid(row, n), Valid(mid, n), new \in RowRecords, marks \subseteq more,
         ~Exists(mid) => new.created > n,
         Succeeds(row, mid, r, marks), Succeeds(mid, new, r, more),
         Exists(mid) => new.created = mid.created
  PROVE  Succeeds(row, new, r, more)
<1> SUFFICES ASSUME Exists(row), Exists(new), new.created = row.created
             PROVE  /\ Len(row.audits) <= Len(new.audits)
                    /\ \A i \in 1 .. Len(row.audits) : new.audits[i] = row.audits[i]
                    /\ new.at >= row.at
                    /\ row.review # NoReview /\ new.review # row.review => r \in more
  BY DEF Succeeds
<1>1. /\ row \in RowRecords /\ mid \in RowRecords /\ row.created <= n
  BY RowFields DEF Valid
<1>2. Exists(mid) /\ mid.created = row.created
  BY <1>1, RowFields
<1>3. /\ Len(row.audits) \in Nat /\ Len(mid.audits) \in Nat /\ Len(new.audits) \in Nat
      /\ row.at \in Nat /\ mid.at \in Nat /\ new.at \in Nat
  BY <1>1, RowFields
<1>4. /\ Len(row.audits) <= Len(mid.audits) /\ Len(mid.audits) <= Len(new.audits)
      /\ \A i \in 1 .. Len(row.audits) : mid.audits[i] = row.audits[i]
      /\ \A i \in 1 .. Len(mid.audits) : new.audits[i] = mid.audits[i]
      /\ mid.at >= row.at /\ new.at >= mid.at
      /\ row.review # NoReview /\ mid.review # row.review => r \in marks
      /\ mid.review # NoReview /\ new.review # mid.review => r \in more
  BY <1>2 DEF Succeeds
<1>5. QED BY <1>3, <1>4

\* Stored: the row's audit entries and at most one more, of an event that is new.
LEMMA StoredValid ==
  ASSUME NEW row, NEW rec, NEW e \in Events,
         sequence \in Nat, clock \in Nat, DistinctStamps => clock = sequence + 1,
         Valid(row, sequence), e.audit => ~Submitted(row, e),
         rec.phase \in Phases \ {"absent"}, rec.value \in Values \cup {None}, rec.at \in Nat,
         rec.review \in ReviewRecords, rec.review = NoReview \/ SameRecord(row, rec)
  PROVE  /\ Valid(Stored(row, rec, e), sequence + 1) /\ Exists(Stored(row, rec, e))
         /\ Stored(row, rec, e).seq = sequence + 1
         /\ Stored(row, rec, e).created = IF Exists(row) THEN row.created ELSE sequence + 1
         /\ Len(row.audits) <= Len(Stored(row, rec, e).audits)
         /\ \A i \in 1 .. Len(row.audits) : Stored(row, rec, e).audits[i] = row.audits[i]
<1> DEFINE entry == [id |-> e.id, seq |-> sequence + 1]
           new == Stored(row, rec, e)
<1>1. row \in RowRecords
  BY DEF Valid
<1>2. /\ e.audit \in BOOLEAN /\ (e.audit => e.id \in Ids)
  BY DEF Events, Operations
<1>3. e.audit => entry \in AuditEntries
  BY <1>2 DEF AuditEntries
<1>4. /\ new.phase = rec.phase /\ new.value = rec.value /\ new.at = rec.at /\ new.review = rec.review
      /\ new.seq = sequence + 1 /\ new.stamp = clock
      /\ new.created = IF Exists(row) THEN row.created ELSE sequence + 1
      /\ new.audits = IF e.audit THEN Append(row.audits, entry) ELSE row.audits
  BY DEF Stored
<1>5. /\ new.audits \in Seq(AuditEntries)
      /\ Len(new.audits) = IF e.audit THEN Len(row.audits) + 1 ELSE Len(row.audits)
      /\ \A i \in 1 .. Len(row.audits) : new.audits[i] = row.audits[i]
      /\ e.audit => new.audits[Len(row.audits) + 1] = entry
  <2>1. row.audits \in Seq(AuditEntries)
    BY <1>1, RowFields
  <2>2. CASE e.audit
    BY <1>3, <1>4, <2>1, <2>2, AppendProperties
  <2>3. CASE ~e.audit
    BY <1>4, <2>1, <2>3
  <2>4. QED BY <2>2, <2>3
<1>6. new.created \in 1 .. sequence + 1
  BY <1>1, <1>4, RowFields DEF Valid
<1>7. new \in RowRecords
  <2>1. new = [phase |-> rec.phase, value |-> rec.value, at |-> rec.at, review |-> rec.review,
               seq |-> sequence + 1, stamp |-> clock, created |-> new.created, audits |-> new.audits]
    BY DEF Stored
  <2> HIDE DEF new
  <2>2. QED BY <1>5, <1>6, <2>1 DEF RowRecords, AuditEntries, ReviewRecords
<1>8. Exists(new)
  BY <1>4 DEF Exists
<1>9. \A i, j \in DOMAIN new.audits : new.audits[i].id = new.audits[j].id => i = j
  <2>1. /\ DOMAIN row.audits = 1 .. Len(row.audits) /\ Len(row.audits) \in Nat
        /\ DOMAIN new.audits = 1 .. Len(new.audits)
    BY <1>1, <1>7, RowFields
  <2>2. \A i, j \in 1 .. Len(row.audits) : row.audits[i].id = row.audits[j].id => i = j
    BY <2>1 DEF Valid
  <2>3. e.audit => \A i \in 1 .. Len(row.audits) : row.audits[i].id # e.id
    BY <2>1 DEF Submitted
  <2>4. entry.id = e.id
    OBVIOUS
  <2> HIDE DEF new, entry
  <2>5. CASE ~e.audit
    BY <1>5, <2>1, <2>2, <2>5
  <2>6. CASE e.audit
    <3>1. DOMAIN new.audits = 1 .. Len(row.audits) + 1
      BY <1>5, <2>1, <2>6
    <3>2. new.audits[Len(row.audits) + 1].id = e.id
      BY <1>5, <2>4, <2>6
    <3>3. \A i \in 1 .. Len(row.audits) : new.audits[i].id = row.audits[i].id
      BY <1>5
    <3>4. \A i \in 1 .. Len(row.audits) + 1 : i \in 1 .. Len(row.audits) \/ i = Len(row.audits) + 1
      BY <2>1
    <3>5. QED BY <2>2, <2>3, <2>6, <3>1, <3>2, <3>3, <3>4
  <2>7. QED BY <2>5, <2>6
<1>10. /\ new.review # NoReview =>
            new.phase \in {"resolved", "failed"} /\ new.review.decided \in 1 .. sequence + 1
       /\ DistinctStamps => (new.review.by = "admin" => new.review.of = new.review.judged)
  <2>1. CASE rec.review = NoReview
    BY <1>4, <2>1 DEF NoReview
  <2>2. CASE SameRecord(row, rec)
    <3>1. row.review = rec.review /\ row.phase = rec.phase /\ row.review.decided \in Nat
      BY <1>1, <2>2, RowFields DEF SameRecord
    <3>2. QED BY <1>4, <3>1 DEF Valid
  <2>3. QED BY <2>1, <2>2
<1>11. Valid(new, sequence + 1)
  <2> HIDE DEF new
  <2>1. QED BY <1>4, <1>6, <1>7, <1>8, <1>9, <1>10 DEF Valid
<1> HIDE DEF new
<1>12. Len(row.audits) <= Len(new.audits)
  <2>1. Len(row.audits) \in Nat
    BY <1>1, RowFields
  <2>2. QED BY <1>5, <2>1
<1>13. QED BY <1>4, <1>5, <1>8, <1>11, <1>12 DEF new

\* Merged, when the upsert writes at all: the newer of the two records.
LEMMA MergedSucceeds ==
  ASSUME NEW row, NEW rec, NEW e \in Events, NEW r, NEW marks,
         sequence \in Nat, clock \in Nat, DistinctStamps => clock = sequence + 1,
         Valid(row, sequence), Merges(row, rec, e),
         rec.phase \in Phases \ {"absent"}, rec.value \in Values \cup {None}, rec.at \in Nat,
         rec.review \in ReviewRecords, rec.review = NoReview \/ SameRecord(row, rec),
         row.review # NoReview /\ rec.review # row.review => r \in marks
  PROVE  /\ Valid(Merged(row, rec, e), sequence + 1) /\ Exists(Merged(row, rec, e))
         /\ Merged(row, rec, e).seq = sequence + 1
         /\ Merged(row, rec, e).created = IF Exists(row) THEN row.created ELSE sequence + 1
         /\ Succeeds(row, Merged(row, rec, e), r, marks)
         /\ Repeats(row, Merged(row, rec, e))
         /\ Merged(row, rec, e).review \in {NoReview, row.review}
<1>1. row \in RowRecords
  BY DEF Valid
<1>2. e.audit => ~Submitted(row, e)
  <2>1. CASE Exists(row)
    BY <2>1 DEF Merges
  <2>2. CASE ~Exists(row)
    <3>1. row.audits = <<>>
      BY <2>2 DEF Valid, Absent
    <3>2. QED BY <3>1 DEF Submitted
  <2>3. QED BY <2>1, <2>2
<1>3. CASE rec.at >= row.at
  <2>1. Merged(row, rec, e) = Stored(row, rec, e)
    BY <1>3 DEF Merged
  <2>2. /\ Stored(row, rec, e).review = rec.review /\ Stored(row, rec, e).at = rec.at
        /\ Stored(row, rec, e).phase = rec.phase /\ Stored(row, rec, e).value = rec.value
    BY DEF Stored
  <2>3. Repeats(row, Stored(row, rec, e)) /\ rec.review \in {NoReview, row.review}
    BY <2>2 DEF Repeats, SameRecord
  <2>4. Succeeds(row, Stored(row, rec, e), r, marks)
    BY <1>2, <1>3, <2>2, StoredValid DEF Succeeds
  <2>5. QED BY <1>2, <2>1, <2>2, <2>3, <2>4, StoredValid
<1>4. CASE ~(rec.at >= row.at)
  <2>1. Merged(row, rec, e) = Stored(row, row, e)
    BY <1>4 DEF Merged
  <2>2. /\ Stored(row, row, e).review = row.review /\ Stored(row, row, e).at = row.at
        /\ Stored(row, row, e).phase = row.phase /\ Stored(row, row, e).value = row.value
    BY DEF Stored
  <2>3. row.at \in Nat /\ row.at # 0
    BY <1>1, <1>4, RowFields
  <2>4. Exists(row)
    BY <2>3 DEF Valid, Absent
  <2>5. /\ row.phase \in Phases \ {"absent"} /\ row.value \in Values \cup {None} /\ row.at \in Nat
        /\ row.review \in ReviewRecords /\ SameRecord(row, row)
    BY <1>1, <2>4, RowFields DEF Exists, SameRecord
  <2>6. Repeats(row, Stored(row, row, e))
    BY <2>2 DEF Repeats
  <2>7. Succeeds(row, Stored(row, row, e), r, marks)
    BY <1>2, <2>2, <2>3, <2>5, StoredValid DEF Succeeds
  <2>8. QED BY <1>2, <2>1, <2>2, <2>5, <2>6, <2>7, StoredValid
<1>5. QED BY <1>3, <1>4

\* A verdict on a pending version: a decision of its own, nothing else lost.
LEMMA ReviewedSucceeds ==
  ASSUME NEW row, NEW verdict \in Verdicts, NEW by \in {"admin", "reuse"}, NEW of \in Nat,
         NEW r, NEW marks, sequence \in Nat, clock \in Nat, DistinctStamps => clock = sequence + 1,
         Valid(row, sequence), row.phase = "pending",
         DistinctStamps /\ by = "admin" => of = row.seq
  PROVE  LET new == ReviewedRow(row, verdict, by, of) IN
         /\ Valid(new, sequence + 1) /\ Exists(new)
         /\ new.seq = sequence + 1 /\ new.created = row.created /\ new.value = row.value
         /\ Succeeds(row, new, r, marks)
         /\ new.review.decided = sequence + 1
<1> DEFINE new == ReviewedRow(row, verdict, by, of)
           review == [verdict |-> verdict, by |-> by, decided |-> sequence + 1,
                      of |-> of, judged |-> row.seq]
<1>1. row \in RowRecords /\ Exists(row) /\ row.review = NoReview
  BY DEF Valid, Exists
<1>2. /\ row.at \in Nat /\ row.seq \in Nat /\ row.created \in Nat
      /\ Later(clock, row.at + 1) \in Nat /\ Later(clock, row.at + 1) >= row.at
  BY <1>1, RowFields DEF Later
<1>3. /\ new.phase \in {"resolved", "failed"} /\ new.value = row.value /\ new.review = review
      /\ new.at = Later(clock, row.at + 1) /\ new.seq = sequence + 1 /\ new.stamp = clock
      /\ new.created = row.created /\ new.audits = row.audits
  BY <1>1 DEF ReviewedRow, RowRecords
<1>4. review \in ReviewRecords
  BY <1>2 DEF ReviewRecords
<1>5. new \in RowRecords
  <2>1. PICK phase \in {"resolved", "failed"}, at \in Nat :
          new = [row EXCEPT !.phase = phase, !.at = at, !.review = review,
                            !.seq = sequence + 1, !.stamp = clock]
    BY <1>2 DEF ReviewedRow
  <2> HIDE DEF new, review
  <2>2. phase \in Phases /\ sequence + 1 \in Nat
    BY DEF Phases
  <2>3. QED BY <1>1, <1>4, <2>1, <2>2 DEF RowRecords, ReviewRecords
<1>6. /\ review.decided = sequence + 1 /\ review.judged = row.seq /\ review.of = of /\ review.by = by
  OBVIOUS
<1> HIDE DEF new, review
<1>7. Exists(new)
  BY <1>3 DEF Exists
<1>8. new.created \in 1 .. new.seq
  BY <1>1, <1>2, <1>3 DEF Valid
<1>9. Valid(new, sequence + 1)
  BY <1>3, <1>5, <1>6, <1>7, <1>8 DEF Valid
<1>10. Succeeds(row, new, r, marks)
  <2>1. Len(row.audits) \in Nat
    BY <1>1, RowFields
  <2>2. QED BY <1>1, <1>2, <1>3, <2>1 DEF Succeeds
<1>11. QED BY <1>3, <1>6, <1>7, <1>9, <1>10 DEF new

\* A write of one row.
LEMMA WritesTypes ==
  ASSUME NEW w \in Writes
  PROVE  DOMAIN w \subseteq Rows /\ \A r \in DOMAIN w : w[r] \in RowRecords
BY DEF Writes

LEMMA WrittenTypes ==
  ASSUME NEW p \in Transactions, tx[p].writes \in Writes, NEW r \in Rows, NEW row \in RowRecords
  PROVE  /\ Written(p, r, row) \in Writes
         /\ DOMAIN Written(p, r, row) = DOMAIN tx[p].writes \cup {r}
         /\ Written(p, r, row)[r] = row
         /\ \A s \in DOMAIN tx[p].writes \ {r} : Written(p, r, row)[s] = tx[p].writes[s]
<1> DEFINE S == DOMAIN tx[p].writes \cup {r}
           w == [s \in S |-> IF s = r THEN row ELSE tx[p].writes[s]]
<1>1. S \in SUBSET Rows /\ \A s \in DOMAIN tx[p].writes : tx[p].writes[s] \in RowRecords
  BY WritesTypes
<1>2. w \in [S -> RowRecords]
  BY <1>1
<1>3. w \in Writes
  BY <1>1, <1>2 DEF Writes
<1>4. w = Written(p, r, row)
  BY DEF Written
<1>5. QED BY <1>3, <1>4

-----------------------------------------------------------------------------
(* A step of one transaction that does not end it.                           *)

\* What such a step leaves alone, and what it may allocate and lock.
Frame(p) ==
  /\ rows' = rows /\ device' = device /\ loaded' = loaded /\ workload' = workload
  /\ tx' \in [Transactions -> TxRecords] /\ \A q \in Transactions \ {p} : tx'[q] = tx[q]
  /\ rowLock' \in [Rows -> Transactions \cup {None}]
  /\ \A r \in Rows : rowLock[r] # None => rowLock'[r] = rowLock[r]
  /\ keyLock' \in [Keys -> Transactions \cup {None}]
  /\ \A k \in Keys : keyLock[k] # None => keyLock'[k] = keyLock[k]
  /\ \/ sequence' = sequence /\ clock' = clock
     \/ sequence' = sequence + 1 /\ Tick

\* What it writes: nothing, or a version of row r that replaces the committed
\* one; a decision is copied from another version, or it is a new one on r.
MayWrite(p, s, r) ==
  LET new == tx'[p].writes[s] IN
  \/ s \in DOMAIN tx[p].writes /\ new = tx[p].writes[s]
  \/ /\ Valid(new, sequence')
     /\ rowLock'[s] = p
     /\ Succeeds(rows[s], new, s, Marks(p)')
     /\ Repeats(rows[s], new) \/ keyLock'[s[2]] = p
     /\ Exists(new) => new.seq > sequence
     /\ \/ new.review = NoReview
        \/ \E v \in Versions(s) : new.review = v.review
        \/ s = r /\ new.review.decided > sequence

LEMMA RowParts ==
  ASSUME NEW r \in Rows
  PROVE  r[1] \in Users /\ r[2] \in Keys /\ r = <<r[1], r[2]>>
BY DEF Rows

LEMMA WriteRows ==
  ASSUME Types, NEW q \in Transactions
  PROVE  DOMAIN tx[q].writes \subseteq Rows /\ \A r \in DOMAIN tx[q].writes : tx[q].writes[r] \in RowRecords
<1>1. tx[q].writes \in Writes
  BY DEF Types, TxRecords
<1>2. QED BY <1>1, WritesTypes

LEMMA FrameTypes ==
  ASSUME Types, NEW p \in Transactions, Frame(p)
  PROVE  Types' /\ sequence \in Nat /\ sequence' \in Nat /\ sequence <= sequence'
<1>1. /\ sequence' \in Nat /\ clock' \in Nat /\ sequence <= sequence'
      /\ DistinctStamps => clock' = sequence' + 1
  BY LearningAssumption DEF Types, Frame, Tick
<1>2. QED BY <1>1 DEF Types, Frame

\* The versions there are afterwards, each with the one it stems from.
LEMMA FrameVersions ==
  ASSUME Types, NEW p \in Transactions, NEW r, Frame(p),
         \A s \in DOMAIN tx'[p].writes : MayWrite(p, s, r)
  PROVE  \A s \in Rows : \A v \in Versions(s)' :
           \/ v \in Versions(s)
           \/ /\ Valid(v, sequence')
              /\ \/ v.review = NoReview
                 \/ \E old \in Versions(s) : v.review = old.review
                 \/ s = r /\ v.review.decided > sequence
<1> TAKE s \in Rows
<1> TAKE v \in Versions(s)'
<1>1. CASE v = rows'[s]
  BY <1>1 DEF Frame, Versions
<1>2. CASE \E q \in Transactions : s \in DOMAIN tx'[q].writes /\ v = tx'[q].writes[s]
  <2>1. PICK q \in Transactions : s \in DOMAIN tx'[q].writes /\ v = tx'[q].writes[s]
    BY <1>2
  <2>2. CASE q # p
    <3>1. tx'[q] = tx[q]
      BY <2>2 DEF Frame
    <3>2. QED BY <2>1, <3>1 DEF Versions
  <2>3. CASE q = p
    <3>1. MayWrite(p, s, r)
      BY <2>1, <2>3
    <3>2. QED BY <2>1, <2>3, <3>1 DEF MayWrite, Versions
  <2>4. QED BY <2>2, <2>3
<1>3. QED BY <1>1, <1>2 DEF Versions

LEMMA FrameValid ==
  ASSUME Types, VersionsValid, NEW p \in Transactions, NEW r, Frame(p),
         \A s \in DOMAIN tx'[p].writes : MayWrite(p, s, r)
  PROVE  VersionsValid'
<1>1. sequence \in Nat /\ sequence' \in Nat /\ sequence <= sequence'
  BY FrameTypes
<1>2. SUFFICES ASSUME NEW s \in Rows, NEW v \in Versions(s)'
               PROVE  Valid(v, sequence')
  BY DEF VersionsValid
<1>3. CASE v \in Versions(s)
  <2>1. Valid(v, sequence)
    BY <1>3 DEF VersionsValid
  <2>2. QED BY <1>1, <2>1, ValidLater
<1>4. CASE Valid(v, sequence')
  BY <1>4
<1>5. QED BY <1>2, <1>3, <1>4, FrameVersions

LEMMA FrameDecisions ==
  ASSUME Types, VersionsValid, DecisionsUnique, NEW p \in Transactions, NEW r, Frame(p),
         \A s \in DOMAIN tx'[p].writes : MayWrite(p, s, r)
  PROVE  DecisionsUnique'
<1>1. sequence \in Nat
  BY FrameTypes
<1>2. \A s \in Rows : \A v \in Versions(s)' : v.review # NoReview =>
        \/ \E old \in Versions(s) : v.review = old.review
        \/ s = r /\ v.review.decided > sequence
  BY FrameVersions
<1>3. \A s \in Rows : \A v \in Versions(s) : v.review # NoReview => v.review.decided \in 1 .. sequence
  BY DEF VersionsValid, Valid
<1>4. SUFFICES ASSUME NEW s \in Rows, NEW t \in Rows, s # t,
                      NEW v \in Versions(s)', NEW w \in Versions(t)',
                      v.review # NoReview, w.review # NoReview,
                      v.review.decided = w.review.decided
               PROVE  FALSE
  BY DEF DecisionsUnique
<1>5. CASE s # r /\ t # r
  <2>1. PICK old \in Versions(s) : v.review = old.review
    BY <1>2, <1>4, <1>5
  <2>2. PICK other \in Versions(t) : w.review = other.review
    BY <1>2, <1>4, <1>5
  <2>3. QED BY <1>4, <2>1, <2>2 DEF DecisionsUnique
<1>6. CASE s = r
  <2>1. PICK other \in Versions(t) : w.review = other.review
    BY <1>2, <1>4, <1>6
  <2>2. CASE \E old \in Versions(s) : v.review = old.review
    BY <1>4, <2>1, <2>2 DEF DecisionsUnique
  <2>3. CASE v.review.decided > sequence
    BY <1>1, <1>3, <1>4, <2>1, <2>3
  <2>4. QED BY <1>2, <1>4, <2>2, <2>3
<1>7. CASE t = r
  <2>1. PICK old \in Versions(s) : v.review = old.review
    BY <1>2, <1>4, <1>7
  <2>2. CASE \E other \in Versions(t) : w.review = other.review
    BY <1>4, <2>1, <2>2 DEF DecisionsUnique
  <2>3. CASE w.review.decided > sequence
    BY <1>1, <1>3, <1>4, <2>1, <2>3
  <2>4. QED BY <1>2, <1>4, <2>2, <2>3
<1>8. QED BY <1>5, <1>6, <1>7

LEMMA FrameWrites ==
  ASSUME Types, WritesOK, NEW p \in Transactions, NEW r, Frame(p),
         Marks(p) \subseteq Marks(p)' \/ DOMAIN tx'[p].writes = {},
         \A s \in DOMAIN tx'[p].writes : MayWrite(p, s, r)
  PROVE  WritesOK'
<1>1. Types'
  BY FrameTypes
<1>2. SUFFICES ASSUME NEW q \in Transactions, NEW s \in DOMAIN tx'[q].writes
               PROVE  WriteOK(q, s)'
  BY DEF WritesOK
<1>3. s \in Rows /\ s[2] \in Keys
  <2>1. DOMAIN tx'[q].writes \subseteq Rows
    <3>1. tx'[q].writes \in Writes
      BY <1>1 DEF Types, TxRecords
    <3>2. QED BY <3>1, WritesTypes
  <2>2. QED BY <2>1, RowParts
<1>4. q # None /\ rows' = rows
  BY LearningAssumption DEF Frame
<1>5. ASSUME s \in DOMAIN tx[q].writes, tx'[q].writes[s] = tx[q].writes[s], Marks(q) \subseteq Marks(q)'
      PROVE  WriteOK(q, s)'
  <2>1. WriteOK(q, s)
    BY <1>5 DEF WritesOK
  <2>2. rowLock'[s] = q
    BY <1>3, <1>4, <2>1 DEF WriteOK, Frame
  <2>3. Succeeds(rows[s], tx'[q].writes[s], s, Marks(q)')
    BY <1>5, <2>1 DEF WriteOK, Succeeds
  <2>4. Repeats(rows[s], tx'[q].writes[s]) \/ keyLock'[s[2]] = q
    BY <1>3, <1>4, <1>5, <2>1 DEF WriteOK, Frame
  <2>5. QED BY <1>4, <2>2, <2>3, <2>4 DEF WriteOK
<1>6. CASE q # p
  <2>1. tx'[q] = tx[q]
    BY <1>6 DEF Frame
  <2>2. QED BY <1>5, <2>1 DEF Marks
<1>7. CASE q = p
  <2>1. MayWrite(p, s, r)
    BY <1>2, <1>7
  <2>2. CASE s \in DOMAIN tx[p].writes /\ tx'[p].writes[s] = tx[p].writes[s]
    BY <1>5, <1>7, <2>2
  <2>3. CASE ~(s \in DOMAIN tx[p].writes /\ tx'[p].writes[s] = tx[p].writes[s])
    BY <1>4, <1>7, <2>1, <2>3 DEF MayWrite, WriteOK
  <2>4. QED BY <2>2, <2>3
<1>8. QED BY <1>6, <1>7

LEMMA FrameReuses ==
  ASSUME Types, ReusesOK, NEW p \in Transactions, Frame(p),
         \A s \in DOMAIN tx'[p].writes : ReuseOK(p, s)'
  PROVE  ReusesOK'
<1>1. SUFFICES ASSUME NEW q \in Transactions, NEW s \in DOMAIN tx'[q].writes, q # p
               PROVE  ReuseOK(q, s)'
  BY DEF ReusesOK
<1>2. tx'[q] = tx[q] /\ rows' = rows
  BY <1>1 DEF Frame
<1>3. ReuseOK(q, s)
  BY <1>2 DEF ReusesOK
<1>4. s[2] \in Keys /\ q # None
  BY <1>2, WriteRows, RowParts, LearningAssumption
<1>5. keyLock[s[2]] = q => keyLock'[s[2]] = q
  BY <1>4 DEF Frame
<1>6. QED BY <1>2, <1>3, <1>5 DEF ReuseOK, Undone

LEMMA FrameDeltas ==
  ASSUME Types, DeltasOK, NEW p \in Transactions, NEW r, Frame(p),
         \A s \in DOMAIN tx'[p].writes : MayWrite(p, s, r)
  PROVE  DeltasOK'
<1>1. rows' = rows /\ device' = device /\ sequence \in Nat /\ sequence' \in Nat /\ sequence <= sequence'
  BY FrameTypes DEF Frame
<1>2. SUFFICES ASSUME NEW d \in Devices, NEW k \in Keys
               PROVE  DeltaOK(d, k)'
  BY <1>1 DEF DeltasOK
<1> DEFINE s == <<Owner[d], k>>
<1>3. DeltaOK(d, k) /\ device[d].cursor \in 0 .. sequence
  BY DEF DeltasOK, DeltaOK
<1>4. ASSUME NEW q \in Transactions, s \in DOMAIN tx'[q].writes, Exists(tx'[q].writes[s]),
             tx'[q].writes[s].seq <= device[d].cursor
      PROVE  tx'[q].writes[s].seq \in device[d].missed
  <2>1. ASSUME s \in DOMAIN tx[q].writes, tx'[q].writes[s] = tx[q].writes[s]
        PROVE  tx'[q].writes[s].seq \in device[d].missed
    BY <1>3, <1>4, <2>1 DEF DeltaOK
  <2>2. CASE q # p
    <3>1. tx'[q] = tx[q]
      BY <2>2 DEF Frame
    <3>2. QED BY <1>4, <2>1, <3>1
  <2>3. CASE q = p
    <3>1. MayWrite(p, s, r)
      BY <1>4, <2>3
    <3>2. tx'[p].writes[s].seq \in Nat
      BY <1>4, <2>3, FrameTypes, WriteRows, WritesTypes, RowFields DEF Frame, TxRecords
    <3>3. CASE tx'[p].writes[s].seq > sequence
      BY <1>3, <1>4, <2>3, <3>2, <3>3, <1>1
    <3>4. QED BY <1>4, <2>1, <2>3, <3>1, <3>3 DEF MayWrite
  <2>4. QED BY <2>2, <2>3
<1>5. device'[d].cursor \in 0 .. sequence'
  BY <1>1, <1>3
<1>6. QED BY <1>1, <1>3, <1>4, <1>5 DEF DeltaOK

\* An execution that does nothing keeps its place and its key's lock.
LEMMA ExecutionKept ==
  ASSUME Types, NEW q \in Transactions, ExecutionOK(q), tx'[q] = tx[q],
         \A k \in Keys : keyLock[k] = q => keyLock'[k] = q
  PROVE  ExecutionOK(q)'
<1>1. tx[q].pc \in {"judge", "match"} => Operation(q).key \in Keys
  <2>1. tx[q].todo \in Seq(Events)
    BY DEF Types, TxRecords
  <2>2. tx[q].pc \in {"judge", "match"} => tx[q].todo # <<>>
    BY DEF ExecutionOK
  <2>3. tx[q].todo # <<>> => Head(tx[q].todo) \in Events
    BY <2>1
  <2>4. QED BY <2>2, <2>3 DEF Operation, Events, Operations
<1>2. tx[q].pc \in {"judge", "match"} => keyLock'[Operation(q).key] = q
  BY <1>1 DEF ExecutionOK
<1>3. QED BY <1>2 DEF ExecutionOK, Operation

LEMMA FrameStep ==
  ASSUME IInv, NEW p \in Transactions, NEW r, Frame(p), ExecutionOK(p)',
         Marks(p) \subseteq Marks(p)' \/ DOMAIN tx'[p].writes = {},
         \A s \in DOMAIN tx'[p].writes : MayWrite(p, s, r) /\ ReuseOK(p, s)'
  PROVE  IInv'
<1>1. Types /\ VersionsValid /\ DecisionsUnique /\ WritesOK /\ ReusesOK /\ DeltasOK /\ ExecutionsOK
  BY DEF IInv
<1>2. Types'
  BY <1>1, FrameTypes
<1>3. ExecutionsOK'
  <2>1. SUFFICES ASSUME NEW q \in Transactions, q # p
                 PROVE  ExecutionOK(q)'
    BY DEF ExecutionsOK
  <2>2. tx'[q] = tx[q] /\ q # None /\ ExecutionOK(q)
    BY <1>1, <2>1, LearningAssumption DEF Frame, ExecutionsOK
  <2>3. \A k \in Keys : keyLock[k] = q => keyLock'[k] = q
    BY <2>2 DEF Frame
  <2>4. QED BY <1>1, <2>2, <2>3, ExecutionKept
<1>4. VersionsValid'
  BY <1>1, FrameValid
<1>5. DecisionsUnique'
  BY <1>1, FrameDecisions
<1>6. WritesOK'
  BY <1>1, FrameWrites
<1>7. ReusesOK'
  BY <1>1, FrameReuses
<1>8. DeltasOK'
  BY <1>1, FrameDeltas
<1>9. QED BY <1>2, <1>3, <1>4, <1>5, <1>6, <1>7, <1>8 DEF IInv

\* A step that writes nothing.
LEMMA QuietStep ==
  ASSUME IInv, NEW p \in Transactions, Frame(p), ExecutionOK(p)',
         tx'[p].writes = tx[p].writes, Marks(p)' = Marks(p), tx'[p].judged = {}
  PROVE  IInv'
<1>1. \A s \in DOMAIN tx'[p].writes : MayWrite(p, s, <<>>) /\ ReuseOK(p, s)'
  BY DEF MayWrite, ReuseOK
<1>2. QED BY <1>1, FrameStep
-----------------------------------------------------------------------------
(* Executions and their batches.                                             *)

LEMMA TodoTypes ==
  ASSUME Types, NEW p \in Transactions, tx[p].todo # <<>>
  PROVE  /\ tx[p].todo \in Seq(Events) /\ Operation(p) \in Events /\ Operation(p) = tx[p].todo[1]
         /\ Operation(p).user \in Users /\ Operation(p).key \in Keys /\ RowOf(p) \in Rows
         /\ RowOf(p)[2] = Operation(p).key /\ RowOf(p)[1] = Operation(p).user
         /\ RowOf(p) = Target(Operation(p))
         /\ 1 \in DOMAIN tx[p].todo
<1>1. tx[p].todo \in Seq(Events)
  BY DEF Types, TxRecords
<1>2. Operation(p) \in Events /\ Operation(p) = tx[p].todo[1] /\ 1 \in DOMAIN tx[p].todo
  BY <1>1 DEF Operation
<1>3. Operation(p).user \in Users /\ Operation(p).key \in Keys
  BY <1>2 DEF Events, Operations
<1>4. QED BY <1>1, <1>2, <1>3 DEF RowOf, Rows, Target

LEMMA TailTypes ==
  ASSUME NEW todo \in Seq(Events), todo # <<>>
  PROVE  /\ Tail(todo) \in Seq(Events)
         /\ \A i \in DOMAIN Tail(todo) : i + 1 \in DOMAIN todo /\ Tail(todo)[i] = todo[i + 1]
         /\ Len(todo) = 1 => DOMAIN Tail(todo) = {}
         /\ AfterOperation(Tail(todo)) \in {"commit", "start"}
         /\ AfterOperation(Tail(todo)) = "start" => Tail(todo) # <<>>
<1>1. /\ Tail(todo) \in Seq(Events) /\ Len(todo) \in Nat /\ Len(Tail(todo)) = Len(todo) - 1
      /\ \A i \in 1 .. Len(Tail(todo)) : Tail(todo)[i] = todo[i + 1]
      /\ DOMAIN todo = 1 .. Len(todo) /\ DOMAIN Tail(todo) = 1 .. Len(Tail(todo))
  OBVIOUS
<1>2. QED BY <1>1 DEF AfterOperation

\* The execution that has worked off an operation.
LEMMA DoneOK ==
  ASSUME Types, NEW p \in Transactions, ExecutionOK(p), tx[p].todo # <<>>,
         tx[p].pc # "commit",
         tx'[p].pc = AfterOperation(Tail(tx[p].todo)), tx'[p].todo = Tail(tx[p].todo),
         tx'[p].expected = tx[p].expected, tx'[p].judged = tx[p].judged
  PROVE  ExecutionOK(p)' /\ tx'[p].judged = {}
<1> DEFINE todo == tx[p].todo
<1>1. todo \in Seq(Events)
  BY TodoTypes
<1>2. tx[p].judged = {}
  BY DEF ExecutionOK
<1>3. tx'[p].pc \in {"commit", "start"} /\ (tx'[p].pc = "start" => tx'[p].todo # <<>>)
  BY <1>1, TailTypes
<1>4. \A i \in DOMAIN tx'[p].todo : i + 1 \in DOMAIN todo /\ tx'[p].todo[i] = todo[i + 1]
  BY <1>1, TailTypes
<1>5. \A i \in DOMAIN tx'[p].todo : tx'[p].todo[i].op # "reuse"
  <2>1. SUFFICES ASSUME NEW i \in DOMAIN tx'[p].todo, tx'[p].todo[i].op = "reuse"
                 PROVE  FALSE
    OBVIOUS
  <2>2. Len(todo) = 1
    BY <1>4, <2>1 DEF ExecutionOK
  <2>3. QED BY <1>1, <2>1, <2>2, TailTypes
<1>6. \A i \in DOMAIN tx'[p].todo :
        tx'[p].todo[i].op = "review" => Target(tx'[p].todo[i]) \in DOMAIN tx'[p].expected
  BY <1>4 DEF ExecutionOK
<1>7. DistinctStamps => \A r \in DOMAIN tx'[p].expected : tx'[p].expected[r].seq = tx'[p].expected[r].stamp
  BY DEF ExecutionOK
<1>8. QED BY <1>2, <1>3, <1>5, <1>6, <1>7 DEF ExecutionOK

\* The execution that goes on with the same operation.
LEMMA GoesOK ==
  ASSUME Types, NEW p \in Transactions, ExecutionOK(p), NEW pc \in Pcs, Goes(p, pc),
         tx[p].pc # "commit"
  PROVE  /\ tx' \in [Transactions -> TxRecords] /\ \A q \in Transactions \ {p} : tx'[q] = tx[q]
         /\ tx'[p].pc = pc /\ tx'[p].todo = tx[p].todo /\ tx'[p].writes = tx[p].writes
         /\ tx'[p].rec = tx[p].rec /\ tx'[p].expected = tx[p].expected
         /\ tx'[p].judged = {} /\ Marks(p)' = Marks(p)
         /\ Operation(p)' = Operation(p)
         /\ \A i \in DOMAIN tx'[p].todo :
              /\ tx'[p].todo[i].op = "review" => Target(tx'[p].todo[i]) \in DOMAIN tx'[p].expected
              /\ tx'[p].todo[i].op = "reuse" => Len(tx'[p].todo) = 1 /\ DOMAIN tx'[p].writes = {}
         /\ DistinctStamps =>
              \A r \in DOMAIN tx'[p].expected : tx'[p].expected[r].seq = tx'[p].expected[r].stamp
<1>1. tx[p] \in TxRecords
  BY DEF Types
<1>2. [tx[p] EXCEPT !.pc = pc] \in TxRecords
  BY <1>1 DEF TxRecords
<1>3. tx' = [tx EXCEPT ![p] = [tx[p] EXCEPT !.pc = pc]]
  BY DEF Goes, Types
<1>4. tx' \in [Transactions -> TxRecords] /\ \A q \in Transactions \ {p} : tx'[q] = tx[q]
  BY <1>2, <1>3 DEF Types
<1>5. tx'[p] = [tx[p] EXCEPT !.pc = pc]
  BY <1>3 DEF Types
<1>6. /\ tx'[p].pc = pc /\ tx'[p].todo = tx[p].todo /\ tx'[p].writes = tx[p].writes
      /\ tx'[p].rec = tx[p].rec /\ tx'[p].expected = tx[p].expected
      /\ tx'[p].judged = tx[p].judged /\ tx'[p].retried = tx[p].retried /\ tx'[p].blind = tx[p].blind
  BY <1>1, <1>5 DEF TxRecords
<1>7. tx[p].judged = {}
  BY DEF ExecutionOK
<1>8. QED BY <1>4, <1>6, <1>7 DEF ExecutionOK, Marks, Operation

\* The execution that skips an operation.
LEMMA SkipOK ==
  ASSUME Types, NEW p \in Transactions, ExecutionOK(p), SkipOperation(p), tx[p].todo # <<>>,
         tx[p].pc # "commit"
  PROVE  /\ tx' \in [Transactions -> TxRecords] /\ \A q \in Transactions \ {p} : tx'[q] = tx[q]
         /\ tx'[p].writes = tx[p].writes /\ Marks(p)' = Marks(p) /\ tx'[p].judged = {}
         /\ ExecutionOK(p)'
<1> DEFINE new == [tx[p] EXCEPT !.pc = AfterOperation(Tail(tx[p].todo)), !.todo = Tail(tx[p].todo),
                                !.rec = Absent]
<1>1. tx[p] \in TxRecords
  BY DEF Types
<1>2. Absent \in RowRecords
  BY AbsentValid DEF Valid
<1>3. Tail(tx[p].todo) \in Seq(Events) /\ AfterOperation(Tail(tx[p].todo)) \in Pcs
  BY TodoTypes, TailTypes DEF Pcs
<1>4. new \in TxRecords
  BY <1>1, <1>2, <1>3 DEF TxRecords
<1>5. tx' = [tx EXCEPT ![p] = new]
  BY DEF SkipOperation, Types
<1>6. tx' \in [Transactions -> TxRecords] /\ \A q \in Transactions \ {p} : tx'[q] = tx[q]
  BY <1>4, <1>5 DEF Types
<1>7. tx'[p] = new
  BY <1>5 DEF Types
<1>8. /\ tx'[p].pc = AfterOperation(Tail(tx[p].todo)) /\ tx'[p].todo = Tail(tx[p].todo)
      /\ tx'[p].expected = tx[p].expected /\ tx'[p].writes = tx[p].writes
      /\ tx'[p].judged = tx[p].judged /\ tx'[p].retried = tx[p].retried /\ tx'[p].blind = tx[p].blind
  BY <1>1, <1>7 DEF TxRecords
<1>9. QED BY <1>6, <1>8, DoneOK DEF Marks

\* Locks are only acquired.
LEMMA RowLocked ==
  ASSUME Types, NEW p \in Transactions, NEW r \in Rows, LockRow(p, r)
  PROVE  /\ rowLock' \in [Rows -> Transactions \cup {None}] /\ rowLock'[r] = p
         /\ \A s \in Rows : rowLock[s] # None => rowLock'[s] = rowLock[s]
BY DEF Types, LockRow, RowFree

LEMMA KeyLocked ==
  ASSUME Types, NEW p \in Transactions, NEW k \in Keys, LockKey(p, k)
  PROVE  /\ keyLock' \in [Keys -> Transactions \cup {None}] /\ keyLock'[k] = p
         /\ \A s \in Keys : keyLock[s] # None => keyLock'[s] = keyLock[s]
BY DEF Types, LockKey, KeyFree

-----------------------------------------------------------------------------
(* Writing a row.                                                            *)

LEMMA SeenOK ==
  ASSUME IInv, NEW p \in Transactions, NEW r \in Rows
  PROVE  /\ Valid(Seen(p, r), sequence) /\ Seen(p, r) \in Versions(r)
         /\ Valid(rows[r], sequence)
         /\ Succeeds(rows[r], Seen(p, r), r, Marks(p))
         /\ Repeats(rows[r], Seen(p, r)) \/ keyLock[r[2]] = p
<1>1. rows[r] \in Versions(r) /\ Valid(rows[r], sequence)
  BY DEF IInv, VersionsValid, Versions
<1>2. CASE r \in DOMAIN tx[p].writes
  <2>1. Seen(p, r) = tx[p].writes[r] /\ Seen(p, r) \in Versions(r)
    BY <1>2 DEF Seen, Versions
  <2>2. Valid(Seen(p, r), sequence)
    BY <2>1 DEF IInv, VersionsValid
  <2>3. WriteOK(p, r)
    BY <1>2 DEF IInv, WritesOK
  <2>4. QED BY <1>1, <2>1, <2>2, <2>3 DEF WriteOK
<1>3. CASE r \notin DOMAIN tx[p].writes
  <2>1. Seen(p, r) = rows[r]
    BY <1>3 DEF Seen
  <2>2. Repeats(rows[r], rows[r])
    BY DEF Repeats
  <2>3. rows[r].at \in Nat /\ Len(rows[r].audits) \in Nat
    BY RowFields DEF IInv, Types
  <2>4. Succeeds(rows[r], rows[r], r, Marks(p))
    BY <2>3 DEF Succeeds
  <2>5. QED BY <1>1, <2>1, <2>2, <2>4
<1>4. QED BY <1>2, <1>3

\* A version stored over the one that the transaction sees.
LEMMA WriteStep ==
  ASSUME IInv, NEW p \in Transactions, NEW r \in Rows, Frame(p), NEW new,
         tx'[p].writes = Written(p, r, new), Marks(p) \subseteq Marks(p)',
         rowLock'[r] = p, sequence' = sequence + 1,
         Valid(new, sequence + 1), new.seq = sequence + 1,
         new.created = (IF Exists(Seen(p, r)) THEN Seen(p, r).created ELSE sequence + 1),
         Succeeds(Seen(p, r), new, r, Marks(p)'),
         Repeats(Seen(p, r), new) \/ keyLock'[r[2]] = p,
         \/ new.review = NoReview
         \/ new.review = Seen(p, r).review
         \/ new.review.decided = sequence + 1
  PROVE  \A s \in DOMAIN tx'[p].writes : MayWrite(p, s, r)
<1> DEFINE row == rows[r]
           mid == Seen(p, r)
<1>1. /\ Valid(mid, sequence) /\ mid \in Versions(r) /\ Valid(row, sequence)
      /\ Succeeds(row, mid, r, Marks(p)) /\ (Repeats(row, mid) \/ keyLock[r[2]] = p)
  BY SeenOK
<1>2. sequence \in Nat /\ Types /\ new \in RowRecords /\ p # None
  BY LearningAssumption DEF IInv, Types, Valid
<1>3. Succeeds(row, new, r, Marks(p)')
  <2> DEFINE n == sequence
             more == Marks(p)'
  <2>1. ~Exists(mid) => new.created > n
    BY <1>2
  <2>2. Exists(mid) => new.created = mid.created
    OBVIOUS
  <2>3. Succeeds(mid, new, r, more) /\ Marks(p) \subseteq more
    OBVIOUS
  <2> HIDE DEF mid, row, n, more
  <2>4. n \in Nat /\ Valid(row, n) /\ Valid(mid, n) /\ Succeeds(row, mid, r, Marks(p))
    BY <1>1, <1>2 DEF n
  <2>5. Succeeds(row, new, r, more)
    BY <1>2, <2>1, <2>2, <2>3, <2>4, SucceedsTrans
  <2>6. QED BY <2>5 DEF more
<1>4. Repeats(row, new) \/ keyLock'[r[2]] = p
  <2>1. r[2] \in Keys
    BY RowParts
  <2>2. keyLock[r[2]] = p => keyLock'[r[2]] = p
    BY <1>2, <2>1 DEF Frame
  <2>3. Repeats(row, mid) /\ Repeats(mid, new) => Repeats(row, new)
    BY DEF Repeats
  <2>4. QED BY <1>1, <2>2, <2>3
<1>5. /\ DOMAIN tx'[p].writes = DOMAIN tx[p].writes \cup {r} /\ tx'[p].writes[r] = new
      /\ \A s \in DOMAIN tx[p].writes \ {r} : tx'[p].writes[s] = tx[p].writes[s]
  <2>1. tx[p].writes \in Writes
    BY <1>2 DEF Types, TxRecords
  <2>2. QED BY <1>2, <2>1, WrittenTypes
<1>6. MayWrite(p, r, r)
  <2>1. new.seq > sequence /\ (new.review.decided = sequence + 1 => new.review.decided > sequence)
    BY <1>2
  <2>2. QED BY <1>1, <1>3, <1>4, <1>5, <2>1 DEF MayWrite
<1>7. \A s \in DOMAIN tx[p].writes \ {r} : MayWrite(p, s, r)
  BY <1>5 DEF MayWrite
<1>8. QED BY <1>5, <1>6, <1>7

\* upsertInteractiveRecord on a row that the transaction locks.
LEMMA UpsertStep ==
  ASSUME IInv, NEW p \in Transactions, NEW rec,
         tx[p].pc \in {"read", "upsert"}, LockRow(p, RowOf(p)), UNCHANGED <<rest, keyLock>>,
         upsertInteractiveRecord(p, RowOf(p), rec, Operation(p)),
         rec.phase \in Phases \ {"absent"}, rec.value \in Values \cup {None}, rec.at \in Nat,
         rec.review \in ReviewRecords,
         rec.review = NoReview \/ SameRecord(Seen(p, RowOf(p)), rec),
         Seen(p, RowOf(p)).review # NoReview /\ rec.review # Seen(p, RowOf(p)).review =>
           Operation(p).phase = "pending" \/ At(p, "upsert")
  PROVE  IInv'
<1> DEFINE r == RowOf(p)
           e == Operation(p)
           row == Seen(p, r)
           todo == Tail(tx[p].todo)
<1>1. Types /\ ExecutionOK(p) /\ tx[p].todo # <<>> /\ tx[p] \in TxRecords
  BY DEF IInv, ExecutionsOK, ExecutionOK, Types
<1>2. e \in Events /\ r \in Rows
  BY <1>1, TodoTypes
<1>3. /\ rowLock' \in [Rows -> Transactions \cup {None}] /\ rowLock'[r] = p
      /\ \A s \in Rows : rowLock[s] # None => rowLock'[s] = rowLock[s]
  BY <1>1, <1>2, RowLocked
<1>4. CASE ~Merges(row, rec, e)
  <2>1. SkipOperation(p) /\ sequence' = sequence /\ clock' = clock
    BY <1>4 DEF upsertInteractiveRecord
  <2>2. /\ tx' \in [Transactions -> TxRecords] /\ \A q \in Transactions \ {p} : tx'[q] = tx[q]
        /\ tx'[p].writes = tx[p].writes /\ Marks(p)' = Marks(p) /\ tx'[p].judged = {}
        /\ ExecutionOK(p)'
    BY <1>1, <2>1, SkipOK
  <2>3. Frame(p)
    BY <1>1, <1>3, <2>1, <2>2 DEF Frame, rest, Types
  <2>4. QED BY <2>2, <2>3, QuietStep
<1>5. CASE Merges(row, rec, e)
  <2> DEFINE new == Merged(row, rec, e)
             retried == tx[p].retried \cup (IF e.phase = "pending" THEN {r} ELSE {})
             blind == tx[p].blind \cup (IF At(p, "upsert") THEN {r} ELSE {})
             after == [tx[p] EXCEPT !.pc = AfterOperation(todo), !.todo = todo, !.rec = Absent,
                                    !.writes = Written(p, r, new), !.retried = retried,
                                    !.blind = blind]
  <2>1. tx' = [tx EXCEPT ![p] = after] /\ sequence' = sequence + 1 /\ Tick
    <3>1. sequence' = sequence + 1 /\ Tick
      BY <1>5 DEF upsertInteractiveRecord
    <3>2. tx' = [tx EXCEPT ![p] = after]
      BY <1>1, <1>5 DEF upsertInteractiveRecord, Types
    <3>3. QED BY <3>1, <3>2
  <2>2. /\ Valid(row, sequence) /\ sequence \in Nat /\ clock \in Nat
        /\ DistinctStamps => clock = sequence + 1
    BY <1>1, <1>2, SeenOK DEF Types
  <2> DEFINE marks == tx[p].retried \cup tx[p].blind
                       \cup (IF e.phase = "pending" \/ At(p, "upsert") THEN {r} ELSE {})
  <2>3. /\ Valid(new, sequence + 1) /\ Exists(new) /\ new.seq = sequence + 1
        /\ new.created = IF Exists(row) THEN row.created ELSE sequence + 1
        /\ Succeeds(row, new, r, marks) /\ Repeats(row, new) /\ new.review \in {NoReview, row.review}
    <3>1. row.review # NoReview /\ rec.review # row.review => r \in marks
      OBVIOUS
    <3> HIDE DEF marks, e, row, r
    <3>2. rec.review = NoReview \/ SameRecord(row, rec)
      BY DEF row, r
    <3>3. QED BY <1>2, <1>5, <2>2, <3>1, <3>2, MergedSucceeds
  <2>4. after \in TxRecords
    <3>1. AfterOperation(todo) \in Pcs /\ todo \in Seq(Events)
      BY <1>1, TodoTypes, TailTypes DEF Pcs
    <3>2. Written(p, r, new) \in Writes /\ Absent \in RowRecords
      BY <1>1, <1>2, <2>3, WrittenTypes, AbsentValid DEF Valid, TxRecords
    <3>3. retried \in SUBSET Rows /\ blind \in SUBSET Rows
      BY <1>1, <1>2 DEF TxRecords
    <3> HIDE DEF retried, blind, new, todo, r
    <3>4. QED BY <1>1, <3>1, <3>2, <3>3 DEF TxRecords
  <2>5. tx'[p] = after /\ tx' \in [Transactions -> TxRecords]
        /\ \A q \in Transactions \ {p} : tx'[q] = tx[q]
    <3> HIDE DEF after
    <3>1. QED BY <1>1, <2>1, <2>4 DEF Types
  <2>6. /\ tx'[p].pc = AfterOperation(todo) /\ tx'[p].todo = todo
        /\ tx'[p].writes = Written(p, r, new) /\ tx'[p].retried = retried /\ tx'[p].blind = blind
        /\ tx'[p].expected = tx[p].expected /\ tx'[p].judged = tx[p].judged
    BY <1>1, <2>5 DEF TxRecords
  <2>7. Marks(p)' = marks /\ Marks(p) \subseteq marks
    BY <2>6 DEF Marks
  <2>8. Frame(p)
    BY <1>1, <1>3, <2>1, <2>5 DEF Frame, rest, Types
  <2>9. ExecutionOK(p)' /\ tx'[p].judged = {}
    BY <1>1, <2>6, DoneOK
  <2>10. \A s \in DOMAIN tx'[p].writes : MayWrite(p, s, r)
    <3>1. Succeeds(row, new, r, Marks(p)') /\ Marks(p) \subseteq Marks(p)'
      BY <2>3, <2>7
    <3>2. new.review = NoReview \/ new.review = row.review
      BY <2>3
    <3> HIDE DEF new, r
    <3>3. QED BY <1>2, <1>3, <2>1, <2>3, <2>6, <2>8, <3>1, <3>2, WriteStep
  <2>11. QED BY <2>7, <2>8, <2>9, <2>10, FrameStep DEF ReuseOK
<1>6. QED BY <1>4, <1>5

-----------------------------------------------------------------------------
(* The operations of a transaction.                                          *)

\* The batch goes on with its operation, or it will be rolled back.
LEMMA GoesStep ==
  ASSUME IInv, NEW p \in Transactions, NEW pc \in {"read", "judge", "match", "abort"}, Goes(p, pc),
         tx[p].pc \in {"start", "judge", "match"},
         UNCHANGED <<rest, sequence, clock>>,
         UNCHANGED rowLock \/ LockRow(p, RowOf(p)),
         UNCHANGED keyLock \/ LockKey(p, Operation(p).key),
         pc = "read" => Operation(p).op = "update",
         pc = "judge" => Operation(p).op = "review" /\ LockKey(p, Operation(p).key),
         pc = "match" => Operation(p).op = "reuse" /\ LockKey(p, Operation(p).key)
  PROVE  IInv'
<1>1. Types /\ ExecutionOK(p) /\ tx[p].todo # <<>>
  BY DEF IInv, ExecutionsOK, ExecutionOK
<1>2. /\ tx' \in [Transactions -> TxRecords] /\ \A q \in Transactions \ {p} : tx'[q] = tx[q]
      /\ tx'[p].pc = pc /\ tx'[p].todo = tx[p].todo /\ tx'[p].writes = tx[p].writes
      /\ tx'[p].judged = {} /\ Marks(p)' = Marks(p) /\ Operation(p)' = Operation(p)
      /\ \A i \in DOMAIN tx'[p].todo :
           /\ tx'[p].todo[i].op = "review" => Target(tx'[p].todo[i]) \in DOMAIN tx'[p].expected
           /\ tx'[p].todo[i].op = "reuse" => Len(tx'[p].todo) = 1 /\ DOMAIN tx'[p].writes = {}
      /\ DistinctStamps =>
           \A r \in DOMAIN tx'[p].expected : tx'[p].expected[r].seq = tx'[p].expected[r].stamp
  <2>1. pc \in Pcs
    BY DEF Pcs
  <2>2. QED BY <1>1, <2>1, GoesOK
<1>3. RowOf(p) \in Rows /\ Operation(p).key \in Keys
  BY <1>1, TodoTypes
<1>4. /\ rowLock' \in [Rows -> Transactions \cup {None}]
      /\ \A s \in Rows : rowLock[s] # None => rowLock'[s] = rowLock[s]
  BY <1>1, <1>3, RowLocked DEF Types
<1>5. /\ keyLock' \in [Keys -> Transactions \cup {None}]
      /\ \A s \in Keys : keyLock[s] # None => keyLock'[s] = keyLock[s]
      /\ LockKey(p, Operation(p).key) => keyLock'[Operation(p).key] = p
  BY <1>1, <1>3, KeyLocked DEF Types
<1>6. Frame(p)
  BY <1>1, <1>2, <1>4, <1>5 DEF Frame, rest
<1>7. ExecutionOK(p)'
  <2>1. Operation(p)' = Operation(p) /\ tx'[p].todo # <<>>
    BY <1>1, <1>2
  <2>2. QED BY <1>2, <1>5, <2>1 DEF ExecutionOK
<1>8. QED BY <1>2, <1>6, <1>7, QuietStep

LEMMA StartUpdateStep == ASSUME IInv, NEW p \in Transactions, StartUpdate(p) PROVE IInv'
BY GoesStep DEF StartUpdate, At

LEMMA StartReviewStep == ASSUME IInv, NEW p \in Transactions, StartReview(p) PROVE IInv'
BY GoesStep DEF StartReview, At

LEMMA StartReuseStep == ASSUME IInv, NEW p \in Transactions, StartReuse(p) PROVE IInv'
BY GoesStep DEF StartReuse, At

\* A reviewed record only re-enters pending or is repeated.
LEMMA NormalizedOK ==
  ASSUME NEW n \in Nat, NEW row, Valid(row, n), NEW e \in Events, e.op = "update", Acceptable(e, row)
  PROVE  LET rec == [phase |-> e.phase, value |-> e.value, at |-> e.at,
                     review |-> NormalizedReview(e, row)] IN
         /\ rec.phase \in Phases \ {"absent"} /\ rec.value \in Values \cup {None} /\ rec.at \in Nat
         /\ rec.review \in ReviewRecords /\ (rec.review = NoReview \/ SameRecord(row, rec))
         /\ row.review # NoReview /\ rec.review # row.review => e.phase = "pending"
<1>1. row.review \in ReviewRecords /\ NoReview \in ReviewRecords
  BY RowFields DEF Valid, NoReview, ReviewRecords
<1>2. e.phase \in Phases \ {"absent"} /\ e.value \in Values \cup {None} /\ e.at \in Nat
  BY DEF Events, Operations
<1>3. CASE Retries(e, row)
  BY <1>1, <1>2, <1>3 DEF NormalizedReview, Retries
<1>4. CASE ~Retries(e, row)
  <2>1. NormalizedReview(e, row) = row.review
    BY <1>4 DEF NormalizedReview
  <2>2. row.review = NoReview \/ (e.phase = row.phase /\ e.value = row.value /\ e.at = row.at)
    BY <1>4 DEF Acceptable, Incoming, Client
  <2>3. QED BY <1>1, <1>2, <2>1, <2>2 DEF SameRecord
<1>5. QED BY <1>3, <1>4

LEMMA ReadForUpdateStep == ASSUME IInv, NEW p \in Transactions, ReadForUpdate(p) PROVE IInv'
<1> DEFINE r == RowOf(p)
           e == Operation(p)
           row == Seen(p, r)
<1>1. Types /\ ExecutionOK(p) /\ tx[p].pc = "read" /\ tx[p].todo # <<>> /\ tx[p] \in TxRecords
  BY DEF IInv, ExecutionsOK, ExecutionOK, ReadForUpdate, At, Types
<1>2. /\ e \in Events /\ r \in Rows /\ e.op = "update" /\ e.key \in Keys
      /\ e.phase \in Phases \ {"absent"} /\ e.value \in Values \cup {None} /\ e.at \in Nat
  <2>1. e \in Events /\ r \in Rows /\ e.op = "update" /\ e.key \in Keys
    BY <1>1, TodoTypes DEF ExecutionOK
  <2>2. QED BY <2>1 DEF Events, Operations
<1>3. CASE ~Exists(row) /\ ~Exists(rows[r])
  <2> DEFINE rec == [Absent EXCEPT !.phase = e.phase, !.value = e.value, !.at = e.at]
             after == [tx[p] EXCEPT !.pc = "upsert", !.rec = rec]
  <2>1. tx' = [tx EXCEPT ![p] = after] /\ UNCHANGED <<rowLock, sequence, clock, rest, keyLock>>
    BY <1>1, <1>3 DEF ReadForUpdate, Types
  <2>2. rec \in RowRecords /\ rec.phase # "absent" /\ rec.review = NoReview
    <3>1. Absent \in RowRecords
      BY AbsentValid DEF Valid
    <3>2. rec \in RowRecords
      BY <1>2, <3>1 DEF RowRecords
    <3>3. rec.phase = e.phase /\ rec.review = Absent.review
      BY DEF Absent
    <3>4. QED BY <1>2, <3>2, <3>3, AbsentValid
  <2>3. after \in TxRecords
    <3> HIDE DEF rec
    <3>1. QED BY <1>1, <2>2 DEF TxRecords, Pcs
  <2>4. tx'[p] = after /\ tx' \in [Transactions -> TxRecords]
        /\ \A q \in Transactions \ {p} : tx'[q] = tx[q]
    <3> HIDE DEF after
    <3>1. QED BY <1>1, <2>1, <2>3 DEF Types
  <2>5. /\ tx'[p].pc = "upsert" /\ tx'[p].rec = rec /\ tx'[p].todo = tx[p].todo
        /\ tx'[p].writes = tx[p].writes /\ tx'[p].retried = tx[p].retried /\ tx'[p].blind = tx[p].blind
        /\ tx'[p].expected = tx[p].expected /\ tx'[p].judged = tx[p].judged
    BY <1>1, <2>4 DEF TxRecords
  <2>6. tx[p].judged = {}
    BY <1>1 DEF ExecutionOK
  <2>7. ExecutionOK(p)'
    <3>1. Operation(p)' = Operation(p)
      BY <2>5 DEF Operation
    <3> HIDE DEF rec, after
    <3>2. QED BY <1>1, <1>2, <2>2, <2>5, <2>6, <3>1 DEF ExecutionOK
  <2>8. Frame(p)
    BY <1>1, <2>1, <2>4 DEF Frame, rest, Types
  <2>9. Marks(p)' = Marks(p)
    BY <2>5 DEF Marks
  <2>10. QED BY <2>5, <2>6, <2>7, <2>8, <2>9, QuietStep
<1>4. CASE ~(~Exists(row) /\ ~Exists(rows[r]))
  <2>1. LockRow(p, r) /\ UNCHANGED <<rest, keyLock>>
    BY <1>4 DEF ReadForUpdate
  <2>2. CASE Acceptable(e, row)
    <3> DEFINE rec == [phase |-> e.phase, value |-> e.value, at |-> e.at,
                       review |-> NormalizedReview(e, row)]
    <3>1. upsertInteractiveRecord(p, r, rec, e)
      BY <1>4, <2>2 DEF ReadForUpdate
    <3>2. Valid(row, sequence) /\ sequence \in Nat
      BY <1>1, <1>2, SeenOK DEF Types
    <3>3. /\ rec.phase \in Phases \ {"absent"} /\ rec.value \in Values \cup {None} /\ rec.at \in Nat
          /\ rec.review \in ReviewRecords /\ (rec.review = NoReview \/ SameRecord(row, rec))
          /\ row.review # NoReview /\ rec.review # row.review => e.phase = "pending"
      <4> HIDE DEF e, row
      <4>1. e \in Events /\ e.op = "update" /\ sequence \in Nat
        BY <1>2, <3>2
      <4>2. QED BY <2>2, <3>2, <4>1, NormalizedOK
    <3> HIDE DEF rec
    <3>4. QED BY <1>1, <2>1, <3>1, <3>3, UpsertStep
  <2>3. CASE ~Acceptable(e, row)
    <3>1. SkipOperation(p) /\ UNCHANGED <<sequence, clock>>
      BY <1>4, <2>3 DEF ReadForUpdate
    <3>2. /\ tx' \in [Transactions -> TxRecords] /\ \A q \in Transactions \ {p} : tx'[q] = tx[q]
          /\ tx'[p].writes = tx[p].writes /\ Marks(p)' = Marks(p) /\ tx'[p].judged = {}
          /\ ExecutionOK(p)'
      BY <1>1, <3>1, SkipOK
    <3>3. /\ rowLock' \in [Rows -> Transactions \cup {None}]
          /\ \A s \in Rows : rowLock[s] # None => rowLock'[s] = rowLock[s]
      BY <1>1, <1>2, <2>1, RowLocked
    <3>4. Frame(p)
      BY <1>1, <2>1, <3>1, <3>2, <3>3 DEF Frame, rest, Types
    <3>5. QED BY <3>2, <3>4, QuietStep
  <2>4. QED BY <2>2, <2>3
<1>5. QED BY <1>3, <1>4

LEMMA InsertOrMergeStep == ASSUME IInv, NEW p \in Transactions, InsertOrMerge(p) PROVE IInv'
<1>1. Types /\ ExecutionOK(p) /\ tx[p].pc = "upsert" /\ tx[p] \in TxRecords
  BY DEF IInv, ExecutionsOK, InsertOrMerge, At, Types
<1>2. tx[p].rec \in RowRecords /\ tx[p].rec.phase # "absent" /\ tx[p].rec.review = NoReview
  BY <1>1 DEF ExecutionOK, TxRecords
<1>3. QED BY <1>1, <1>2, RowFields, UpsertStep DEF InsertOrMerge, At

LEMMA ResetProgressStep == ASSUME IInv, NEW p \in Transactions, ResetProgress(p) PROVE IInv'
<1> DEFINE own == {r \in Rows : r[1] = Operation(p).user
                                /\ (Exists(rows[r]) \/ r \in DOMAIN tx[p].writes)}
           todo == Tail(tx[p].todo)
           writes == [r \in DOMAIN tx[p].writes \cup own |->
                        IF r \in own THEN Absent ELSE tx[p].writes[r]]
           after == [tx[p] EXCEPT !.pc = AfterOperation(todo), !.todo = todo, !.writes = writes]
<1>1. Types /\ ExecutionOK(p) /\ tx[p].pc = "start" /\ tx[p].todo # <<>> /\ tx[p] \in TxRecords
  BY DEF IInv, ExecutionsOK, ExecutionOK, ResetProgress, At, Types
<1>2. /\ tx' = [tx EXCEPT ![p] = after] /\ UNCHANGED <<rest, sequence, clock, keyLock>>
      /\ \A r \in own : RowFree(p, r)
      /\ rowLock' = [r \in Rows |-> IF r \in own THEN p ELSE rowLock[r]]
  BY <1>1 DEF ResetProgress, Types
<1>3. writes \in Writes
  <2>1. DOMAIN tx[p].writes \subseteq Rows /\ \A r \in DOMAIN tx[p].writes : tx[p].writes[r] \in RowRecords
    BY <1>1, WriteRows
  <2>2. Absent \in RowRecords
    BY AbsentValid DEF Valid
  <2>3. writes \in [DOMAIN tx[p].writes \cup own -> RowRecords]
    BY <2>1, <2>2
  <2>4. DOMAIN tx[p].writes \cup own \in SUBSET Rows
    BY <2>1
  <2>5. QED BY <2>3, <2>4 DEF Writes
<1>4. after \in TxRecords
  <2>1. AfterOperation(todo) \in Pcs /\ todo \in Seq(Events)
    BY <1>1, TodoTypes, TailTypes DEF Pcs
  <2> HIDE DEF writes, todo
  <2>2. QED BY <1>1, <1>3, <2>1 DEF TxRecords
<1>5. /\ tx'[p] = after /\ tx' \in [Transactions -> TxRecords]
      /\ \A q \in Transactions \ {p} : tx'[q] = tx[q]
  <2> HIDE DEF after
  <2>1. QED BY <1>1, <1>2, <1>4 DEF Types
<1>6. /\ tx'[p].pc = AfterOperation(todo) /\ tx'[p].todo = todo /\ tx'[p].writes = writes
      /\ tx'[p].retried = tx[p].retried /\ tx'[p].blind = tx[p].blind
      /\ tx'[p].expected = tx[p].expected /\ tx'[p].judged = tx[p].judged
  <2> HIDE DEF writes, todo
  <2>1. QED BY <1>1, <1>5 DEF TxRecords
<1>7. ExecutionOK(p)' /\ tx'[p].judged = {}
  <2> HIDE DEF writes
  <2>1. QED BY <1>1, <1>6, DoneOK
<1>8. /\ rowLock' \in [Rows -> Transactions \cup {None}]
      /\ \A r \in Rows : rowLock[r] # None => rowLock'[r] = rowLock[r]
      /\ \A r \in own : rowLock'[r] = p
  <2>1. own \subseteq Rows /\ \A r \in own : rowLock[r] \in {None, p}
    BY <1>2 DEF RowFree
  <2> HIDE DEF own
  <2>2. QED BY <1>1, <1>2, <2>1 DEF Types
<1>9. Frame(p)
  BY <1>1, <1>2, <1>5, <1>8 DEF Frame, rest, Types
<1>10. \A s \in DOMAIN tx'[p].writes : MayWrite(p, s, <<>>)
  <2>1. SUFFICES ASSUME NEW s \in DOMAIN tx'[p].writes PROVE MayWrite(p, s, <<>>)
    OBVIOUS
  <2>2. CASE s \in own
    <3>1. tx'[p].writes[s] = Absent
      BY <1>6, <2>2
    <3>2. Succeeds(rows[s], Absent, s, Marks(p)') /\ Repeats(rows[s], Absent)
      BY AbsentValid DEF Succeeds, Repeats
    <3>3. Valid(Absent, sequence') /\ ~Exists(Absent) /\ Absent.review = NoReview
      <4>1. sequence' \in Nat
        BY <1>1, <1>9, FrameTypes
      <4>2. QED BY <4>1, AbsentValid
    <3>4. rowLock'[s] = p
      BY <1>8, <2>2
    <3>5. QED BY <3>1, <3>2, <3>3, <3>4 DEF MayWrite
  <2>3. CASE s \notin own
    BY <1>6, <2>1, <2>3 DEF MayWrite
  <2>4. QED BY <2>2, <2>3
<1>11. Marks(p)' = Marks(p)
  BY <1>6 DEF Marks
<1>12. \A s \in DOMAIN tx'[p].writes : ReuseOK(p, s)'
  BY <1>7 DEF ReuseOK
<1>13. QED BY <1>7, <1>9, <1>10, <1>11, <1>12, FrameStep

\* A verdict stored by the transaction that holds the lock of the row's key.
LEMMA ReviewStep ==
  ASSUME IInv, NEW p \in Transactions, NEW r \in Rows, Frame(p),
         NEW verdict \in Verdicts, NEW by \in {"admin", "reuse"}, NEW of \in Nat,
         Seen(p, r).phase = "pending", DistinctStamps /\ by = "admin" => of = Seen(p, r).seq,
         tx'[p].writes = Written(p, r, ReviewedRow(Seen(p, r), verdict, by, of)),
         Marks(p)' = Marks(p), keyLock[r[2]] = p, keyLock' = keyLock,
         IF Exists(rows[r]) THEN LockRow(p, r) ELSE UNCHANGED rowLock,
         sequence' = sequence + 1
  PROVE  /\ \A s \in DOMAIN tx'[p].writes : MayWrite(p, s, r)
         /\ ReviewedRow(Seen(p, r), verdict, by, of).value = Seen(p, r).value
         /\ ReviewedRow(Seen(p, r), verdict, by, of) \in RowRecords
<1> DEFINE row == Seen(p, r)
           new == ReviewedRow(row, verdict, by, of)
<1>1. /\ Types /\ sequence \in Nat /\ clock \in Nat /\ (DistinctStamps => clock = sequence + 1)
      /\ Valid(row, sequence)
  BY SeenOK DEF IInv, Types
<1>2. /\ Valid(new, sequence + 1) /\ Exists(new)
      /\ new.seq = sequence + 1 /\ new.created = row.created /\ new.value = row.value
      /\ Succeeds(row, new, r, Marks(p)) /\ new.review.decided = sequence + 1
  <2> DEFINE marks == Marks(p)
  <2> HIDE DEF row, marks
  <2>1. row.phase = "pending" /\ (DistinctStamps /\ by = "admin" => of = row.seq)
    BY DEF row
  <2>2. /\ Valid(new, sequence + 1) /\ Exists(new)
        /\ new.seq = sequence + 1 /\ new.created = row.created /\ new.value = row.value
        /\ Succeeds(row, new, r, marks) /\ new.review.decided = sequence + 1
    BY <1>1, <2>1, ReviewedSucceeds
  <2>3. QED BY <2>2 DEF marks
<1>3. Exists(row)
  BY DEF Exists
<1>4. rowLock'[r] = p
  <2>1. CASE Exists(rows[r])
    BY <1>1, <2>1, RowLocked
  <2>2. CASE ~Exists(rows[r])
    <3>1. r \in DOMAIN tx[p].writes
      BY <1>3, <2>2 DEF Seen
    <3>2. rowLock[r] = p
      BY <3>1 DEF IInv, WritesOK, WriteOK
    <3>3. QED BY <2>2, <3>2
  <2>3. QED BY <2>1, <2>2
<1>5. \A s \in DOMAIN tx'[p].writes : MayWrite(p, s, r)
  <2>1. Succeeds(row, new, r, Marks(p)') /\ Marks(p) \subseteq Marks(p)' /\ keyLock'[r[2]] = p
    BY <1>2
  <2>2. tx'[p].writes = Written(p, r, new)
    OBVIOUS
  <2> HIDE DEF new
  <2>3. QED BY <1>2, <1>3, <1>4, <2>1, <2>2, WriteStep
<1>6. QED BY <1>2, <1>5 DEF Valid

LEMMA JudgeStep == ASSUME IInv, NEW p \in Transactions, Judge(p) PROVE IInv'
<1> DEFINE r == RowOf(p)
           row == Seen(p, r)
           verdict == Operation(p).verdict
           todo == Tail(tx[p].todo)
           of == tx[p].expected[r].seq
<1>1. Types /\ ExecutionOK(p) /\ tx[p].pc = "judge" /\ tx[p].todo # <<>> /\ tx[p] \in TxRecords
  BY DEF IInv, ExecutionsOK, ExecutionOK, Judge, At, Types
<1>2. /\ Operation(p) \in Events /\ r \in Rows /\ Operation(p).op = "review"
      /\ keyLock[r[2]] = p /\ r = Target(tx[p].todo[1]) /\ Operation(p) = tx[p].todo[1]
      /\ 1 \in DOMAIN tx[p].todo
  BY <1>1, TodoTypes DEF ExecutionOK
<1>3. verdict \in Verdicts
  BY <1>2 DEF Events
<1>4. /\ r \in DOMAIN tx[p].expected /\ tx[p].expected[r] \in Loadings
      /\ DistinctStamps => tx[p].expected[r].seq = tx[p].expected[r].stamp
  <2>1. r \in DOMAIN tx[p].expected
    BY <1>1, <1>2 DEF ExecutionOK
  <2>2. tx[p].expected \in Expectations
    BY <1>1 DEF TxRecords
  <2>3. QED BY <1>1, <2>1, <2>2 DEF ExecutionOK, Expectations
<1>5. /\ IF Exists(rows[r]) THEN LockRow(p, r) ELSE UNCHANGED rowLock
      /\ UNCHANGED <<rest, keyLock>>
  BY DEF Judge
<1>6. /\ rowLock' \in [Rows -> Transactions \cup {None}]
      /\ \A s \in Rows : rowLock[s] # None => rowLock'[s] = rowLock[s]
  BY <1>1, <1>2, <1>5, RowLocked DEF Types
<1>7. CASE row.phase = "pending" /\ row.stamp = tx[p].expected[r].stamp
  <2> DEFINE new == ReviewedRow(row, verdict, "admin", of)
             after == [tx[p] EXCEPT !.pc = AfterOperation(todo), !.todo = todo,
                                    !.writes = Written(p, r, new)]
  <2>1. tx' = [tx EXCEPT ![p] = after] /\ sequence' = sequence + 1 /\ Tick
    BY <1>1, <1>7 DEF Judge, Types
  <2>2. of \in Nat
    BY <1>4 DEF Loadings
  <2>3. DistinctStamps => of = row.seq
    <3>1. Valid(row, sequence)
      BY <1>2, SeenOK
    <3>2. QED BY <1>4, <1>7, <3>1 DEF Valid
  <2>4. new \in RowRecords
    <3>1. /\ Valid(row, sequence) /\ row.phase = "pending" /\ sequence \in Nat /\ clock \in Nat
          /\ DistinctStamps => clock = sequence + 1
      BY <1>1, <1>2, <1>7, SeenOK DEF Types
    <3>2. Valid(new, sequence + 1)
      <4> HIDE DEF row, of, verdict
      <4>1. QED BY <1>3, <2>2, <2>3, <3>1, ReviewedSucceeds
    <3>3. QED BY <3>2 DEF Valid
  <2>5. after \in TxRecords
    <3>1. AfterOperation(todo) \in Pcs /\ todo \in Seq(Events)
      BY <1>1, TodoTypes, TailTypes DEF Pcs
    <3>2. Written(p, r, new) \in Writes
      BY <1>1, <1>2, <2>4, WrittenTypes DEF TxRecords
    <3> HIDE DEF new, todo, r
    <3>3. QED BY <1>1, <3>1, <3>2 DEF TxRecords
  <2>6. /\ tx'[p] = after /\ tx' \in [Transactions -> TxRecords]
        /\ \A q \in Transactions \ {p} : tx'[q] = tx[q]
    <3> HIDE DEF after
    <3>1. QED BY <1>1, <2>1, <2>5 DEF Types
  <2>7. /\ tx'[p].pc = AfterOperation(todo) /\ tx'[p].todo = todo
        /\ tx'[p].writes = Written(p, r, new)
        /\ tx'[p].retried = tx[p].retried /\ tx'[p].blind = tx[p].blind
        /\ tx'[p].expected = tx[p].expected /\ tx'[p].judged = tx[p].judged
    <3> HIDE DEF new, todo, r
    <3>1. QED BY <1>1, <2>6 DEF TxRecords
  <2>8. Frame(p)
    BY <1>1, <1>5, <1>6, <2>1, <2>6 DEF Frame, rest, Types
  <2>9. ExecutionOK(p)' /\ tx'[p].judged = {}
    BY <1>1, <2>7, DoneOK
  <2>10. Marks(p)' = Marks(p)
    BY <2>7 DEF Marks
  <2>11. \A s \in DOMAIN tx'[p].writes : MayWrite(p, s, r)
    <3>1. Seen(p, r).phase = "pending" /\ (DistinctStamps => of = Seen(p, r).seq)
      BY <1>7, <2>3
    <3>2. tx'[p].writes = Written(p, r, ReviewedRow(Seen(p, r), verdict, "admin", of))
      BY <2>7
    <3> HIDE DEF r, of, verdict
    <3>3. QED BY <1>2, <1>3, <1>5, <2>1, <2>2, <2>8, <2>10, <3>1, <3>2, ReviewStep
  <2>12. \A s \in DOMAIN tx'[p].writes : ReuseOK(p, s)'
    BY <2>9 DEF ReuseOK
  <2>13. QED BY <2>8, <2>9, <2>10, <2>11, <2>12, FrameStep
<1>8. CASE ~(row.phase = "pending" /\ row.stamp = tx[p].expected[r].stamp)
  <2>1. (SkipOperation(p) \/ Goes(p, "abort")) /\ UNCHANGED <<sequence, clock>>
    BY <1>8 DEF Judge
  <2>2. CASE SkipOperation(p)
    <3>1. /\ tx' \in [Transactions -> TxRecords] /\ \A q \in Transactions \ {p} : tx'[q] = tx[q]
          /\ tx'[p].writes = tx[p].writes /\ Marks(p)' = Marks(p) /\ tx'[p].judged = {}
          /\ ExecutionOK(p)'
      BY <1>1, <2>2, SkipOK
    <3>2. Frame(p)
      BY <1>1, <1>5, <1>6, <2>1, <3>1 DEF Frame, rest, Types
    <3>3. QED BY <3>1, <3>2, QuietStep
  <2>3. CASE Goes(p, "abort")
    <3>1. UNCHANGED rowLock \/ LockRow(p, RowOf(p))
      BY <1>5
    <3>2. QED BY <1>1, <1>5, <2>1, <2>3, <3>1, GoesStep
  <2>4. QED BY <2>1, <2>2, <2>3
<1>9. QED BY <1>7, <1>8

\* What an automatic approval finds: it has written nothing, so these are the
\* committed decisions on its key.
LEMMA ReuseFound ==
  ASSUME IInv, NEW p \in Transactions, NEW r \in Rows, DOMAIN tx[p].writes = {}, NEW value,
         ApprovedByPrecedent(p, r[2], value),
         NEW judged, judged = {Seen(p, s).review.decided : s \in Precedents(p, r[2])}
  PROVE  /\ judged \in SUBSET Nat /\ 0 \notin judged
         /\ \A u \in Users : AdminReviewed(rows[<<u, r[2]>>]) =>
              rows[<<u, r[2]>>].review.decided \in judged
         /\ \E u \in Users : /\ rows[<<u, r[2]>>].review.by = "admin"
                             /\ rows[<<u, r[2]>>].review.verdict = "approved"
                             /\ rows[<<u, r[2]>>].value = value
<1>1. \A s \in Rows : Seen(p, s) = rows[s] /\ Valid(rows[s], sequence)
  BY SeenOK DEF Seen
<1>2. \A s \in Precedents(p, r[2]) : /\ s \in Rows /\ s[2] = r[2] /\ AdminReviewed(rows[s])
                                     /\ rows[s].review.decided \in 1 .. sequence
  <2>1. SUFFICES ASSUME NEW s \in Precedents(p, r[2])
                 PROVE  /\ s \in Rows /\ s[2] = r[2] /\ AdminReviewed(rows[s])
                        /\ rows[s].review.decided \in 1 .. sequence
    OBVIOUS
  <2>2. s \in Rows /\ s[2] = r[2] /\ AdminReviewed(rows[s])
    BY <1>1, <2>1 DEF Precedents
  <2>3. rows[s].review # NoReview
    BY <2>2 DEF AdminReviewed, NoReview
  <2>4. QED BY <1>1, <2>2, <2>3 DEF Valid
<1>3. sequence \in Nat
  BY DEF IInv, Types
<1>4. judged \in SUBSET Nat /\ 0 \notin judged
  BY <1>1, <1>2, <1>3
<1>5. \A u \in Users : AdminReviewed(rows[<<u, r[2]>>]) => rows[<<u, r[2]>>].review.decided \in judged
  <2>1. SUFFICES ASSUME NEW u \in Users, AdminReviewed(rows[<<u, r[2]>>])
                 PROVE  rows[<<u, r[2]>>].review.decided \in judged
    OBVIOUS
  <2>2. <<u, r[2]>> \in Rows /\ <<u, r[2]>>[2] = r[2]
    BY RowParts DEF Rows
  <2>3. <<u, r[2]>> \in Precedents(p, r[2])
    BY <1>1, <2>1, <2>2 DEF Precedents
  <2>4. QED BY <1>1, <2>2, <2>3
<1>6. PICK s \in LatestPrecedents(p, r[2]) :
        Seen(p, s).review.verdict = "approved" /\ Seen(p, s).value = value
  BY DEF ApprovedByPrecedent
<1>7. s \in Rows /\ s = <<s[1], r[2]>> /\ s[1] \in Users /\ AdminReviewed(rows[s])
  BY <1>2, RowParts DEF LatestPrecedents
<1>8. QED BY <1>1, <1>4, <1>5, <1>6, <1>7 DEF AdminReviewed

LEMMA MatchStep == ASSUME IInv, NEW p \in Transactions, Match(p) PROVE IInv'
<1> DEFINE r == RowOf(p)
           row == Seen(p, r)
           judged == {Seen(p, s).review.decided : s \in Precedents(p, r[2])}
<1>1. Types /\ ExecutionOK(p) /\ tx[p].pc = "match" /\ tx[p].todo # <<>> /\ tx[p] \in TxRecords
  BY DEF IInv, ExecutionsOK, ExecutionOK, Match, At, Types
<1>2. /\ r \in Rows /\ keyLock[r[2]] = p /\ DOMAIN tx[p].writes = {}
  <2>1. /\ r \in Rows /\ Operation(p).op = "reuse" /\ Operation(p) = tx[p].todo[1]
        /\ 1 \in DOMAIN tx[p].todo /\ r[2] = Operation(p).key
    BY <1>1, TodoTypes DEF ExecutionOK
  <2>2. QED BY <1>1, <2>1 DEF ExecutionOK
<1>3. /\ IF Exists(rows[r]) THEN LockRow(p, r) ELSE UNCHANGED rowLock
      /\ UNCHANGED <<rest, keyLock>>
  BY DEF Match
<1>4. /\ rowLock' \in [Rows -> Transactions \cup {None}]
      /\ \A s \in Rows : rowLock[s] # None => rowLock'[s] = rowLock[s]
  BY <1>1, <1>2, <1>3, RowLocked DEF Types
<1>5. CASE row.phase = "pending" /\ ApprovedByPrecedent(p, r[2], row.value)
  <2> DEFINE new == ReviewedRow(row, "approved", "reuse", row.seq)
             after == [tx[p] EXCEPT !.pc = "commit", !.todo = <<>>, !.judged = judged,
                                    !.writes = Written(p, r, new)]
  <2>1. tx' = [tx EXCEPT ![p] = after] /\ sequence' = sequence + 1 /\ Tick
    BY <1>1, <1>5 DEF Match, Types
  <2>2. /\ judged \in SUBSET Nat /\ 0 \notin judged
        /\ \A u \in Users : AdminReviewed(rows[<<u, r[2]>>]) =>
             rows[<<u, r[2]>>].review.decided \in judged
        /\ \E u \in Users : /\ rows[<<u, r[2]>>].review.by = "admin"
                            /\ rows[<<u, r[2]>>].review.verdict = "approved"
                            /\ rows[<<u, r[2]>>].value = row.value
    <3> HIDE DEF row, r
    <3>1. ApprovedByPrecedent(p, r[2], row.value)
      BY <1>5
    <3>2. judged = {Seen(p, s).review.decided : s \in Precedents(p, r[2])}
      OBVIOUS
    <3> HIDE DEF judged
    <3>3. QED BY <1>2, <3>1, <3>2, ReuseFound, SMTT(30)
  <2>3. /\ Valid(row, sequence) /\ row.phase = "pending" /\ row.seq \in Nat
        /\ sequence \in Nat /\ clock \in Nat /\ (DistinctStamps => clock = sequence + 1)
    BY <1>1, <1>2, <1>5, SeenOK, RowFields DEF Types, Valid
  <2>4. new \in RowRecords /\ new.value = row.value
    <3>1. Valid(new, sequence + 1) /\ new.value = row.value
      <4> HIDE DEF row
      <4>1. "approved" \in Verdicts
        BY DEF Verdicts
      <4>2. QED BY <2>3, <4>1, ReviewedSucceeds
    <3>2. QED BY <3>1 DEF Valid
  <2>5. Written(p, r, new) \in Writes /\ DOMAIN Written(p, r, new) = {r} /\ Written(p, r, new)[r] = new
    <3>1. tx[p].writes \in Writes
      BY <1>1 DEF TxRecords
    <3> HIDE DEF new, r
    <3>2. QED BY <1>2, <2>4, <3>1, WrittenTypes
  <2>6. after \in TxRecords
    <3>1. <<>> \in Seq(Events)
      OBVIOUS
    <3> HIDE DEF new, r, judged
    <3>2. QED BY <1>1, <2>2, <2>5, <3>1 DEF TxRecords, Pcs
  <2>7. /\ tx'[p] = after /\ tx' \in [Transactions -> TxRecords]
        /\ \A q \in Transactions \ {p} : tx'[q] = tx[q]
    <3> HIDE DEF after
    <3>1. QED BY <1>1, <2>1, <2>6 DEF Types
  <2>8. /\ tx'[p].pc = "commit" /\ tx'[p].todo = <<>> /\ tx'[p].writes = Written(p, r, new)
        /\ tx'[p].retried = tx[p].retried /\ tx'[p].blind = tx[p].blind
        /\ tx'[p].expected = tx[p].expected /\ tx'[p].judged = judged
    <3> HIDE DEF new, r, judged
    <3>1. QED BY <1>1, <2>7 DEF TxRecords
  <2>9. Frame(p)
    BY <1>1, <1>3, <1>4, <2>1, <2>7 DEF Frame, rest, Types
  <2>10. Marks(p)' = Marks(p)
    BY <2>8 DEF Marks
  <2>11. ExecutionOK(p)'
    <3>1. DOMAIN tx'[p].todo = {}
      BY <2>8
    <3>2. QED BY <1>1, <2>8, <3>1 DEF ExecutionOK
  <2>12. \A s \in DOMAIN tx'[p].writes : MayWrite(p, s, r)
    <3>1. Seen(p, r).phase = "pending" /\ "approved" \in Verdicts /\ Seen(p, r).seq \in Nat
      BY <2>3 DEF Verdicts
    <3>2. tx'[p].writes = Written(p, r, ReviewedRow(Seen(p, r), "approved", "reuse", Seen(p, r).seq))
      BY <2>8
    <3> HIDE DEF r
    <3>3. QED BY <1>2, <1>3, <2>1, <2>9, <2>10, <3>1, <3>2, ReviewStep
  <2>13. \A s \in DOMAIN tx'[p].writes : ReuseOK(p, s)'
    <3>1. DOMAIN tx'[p].writes = {r} /\ tx'[p].writes[r].value = row.value
      BY <2>4, <2>5, <2>8
    <3>2. rows' = rows /\ keyLock' = keyLock
      BY <1>3 DEF rest
    <3>3. PICK s \in Rows : s = r
      BY <1>2
    <3> HIDE DEF row, judged, r
    <3>4. ReuseOK(p, s)'
      BY <1>2, <2>2, <2>8, <3>1, <3>2, <3>3 DEF ReuseOK
    <3>5. QED BY <3>1, <3>3, <3>4
  <2>14. QED BY <2>9, <2>10, <2>11, <2>12, <2>13, FrameStep
<1>6. CASE ~(row.phase = "pending" /\ ApprovedByPrecedent(p, r[2], row.value))
  <2>1. Goes(p, "abort") /\ UNCHANGED <<sequence, clock>>
    BY <1>6 DEF Match
  <2>2. UNCHANGED rowLock \/ LockRow(p, RowOf(p))
    BY <1>3
  <2>3. QED BY <1>1, <1>3, <2>1, <2>2, GoesStep
<1>7. QED BY <1>5, <1>6

-----------------------------------------------------------------------------
(* The end of a transaction.                                                 *)

LEMMA IdleOK ==
  /\ Idle \in TxRecords /\ DOMAIN Idle.writes = {} /\ Idle.pc = "idle" /\ DOMAIN Idle.todo = {}
  /\ DOMAIN Idle.expected = {} /\ Idle.judged = {} /\ Idle.retried = {} /\ Idle.blind = {}
<1>1. <<>> \in Writes /\ <<>> \in Expectations /\ <<>> \in Seq(Events) /\ DOMAIN <<>> = {}
  <2>1. <<>> \in Seq(Events) /\ DOMAIN <<>> = {}
    OBVIOUS
  <2>2. <<>> \in [{} -> RowRecords] /\ <<>> \in [{} -> Loadings]
    BY <2>1
  <2>3. QED BY <2>1, <2>2 DEF Writes, Expectations
<1>2. Absent \in RowRecords
  BY AbsentValid DEF Valid
<1>3. QED BY <1>1, <1>2 DEF Idle, TxRecords, Pcs

\* A transaction that ends commits what it has written, or nothing.
Ends(p) ==
  /\ tx' = [tx EXCEPT ![p] = Idle] /\ Release(p)
  /\ rows' \in [Rows -> RowRecords]
  /\ \A r \in Rows : \/ rows'[r] = rows[r]
                     \/ r \in DOMAIN tx[p].writes /\ rows'[r] = tx[p].writes[r]
  /\ UNCHANGED <<sequence, clock, loaded, device, workload>>

LEMMA EndsTypes ==
  ASSUME Types, NEW p \in Transactions, Ends(p)
  PROVE  /\ Types' /\ tx'[p] = Idle /\ \A q \in Transactions \ {p} : tx'[q] = tx[q]
         /\ \A q \in Transactions \ {p} :
              /\ \A r \in Rows : rowLock[r] = q => rowLock'[r] = q
              /\ \A k \in Keys : keyLock[k] = q => keyLock'[k] = q
<1>1. tx' \in [Transactions -> TxRecords] /\ tx'[p] = Idle /\ \A q \in Transactions \ {p} : tx'[q] = tx[q]
  BY IdleOK DEF Types, Ends
<1>2. /\ rowLock' \in [Rows -> Transactions \cup {None}]
      /\ keyLock' \in [Keys -> Transactions \cup {None}]
      /\ \A q \in Transactions \ {p} :
           /\ \A r \in Rows : rowLock[r] = q => rowLock'[r] = q
           /\ \A k \in Keys : keyLock[k] = q => keyLock'[k] = q
  BY DEF Types, Ends, Release
<1>3. QED BY <1>1, <1>2 DEF Types, Ends

LEMMA EndsVersions ==
  ASSUME Types, NEW p \in Transactions, Ends(p), NEW r \in Rows
  PROVE  Versions(r)' \subseteq Versions(r) /\ rows[r] \in Versions(r) /\ rows'[r] \in Versions(r)
<1>1. rows[r] \in Versions(r) /\ rows'[r] \in Versions(r)
  BY DEF Ends, Versions
<1>2. \A q \in Transactions : r \in DOMAIN tx'[q].writes => tx'[q] = tx[q]
  BY EndsTypes, IdleOK
<1>3. \A q \in Transactions : r \in DOMAIN tx'[q].writes => tx'[q].writes[r] \in Versions(r)
  BY <1>2 DEF Versions
<1>4. QED BY <1>1, <1>3 DEF Versions

\* What happens to the key of an automatic approval when another ends: a row
\* keeps its review, its phase and its value, or it loses its review.
LEMMA EndsRepeats ==
  ASSUME IInv, NEW p \in Transactions, NEW k \in Keys, keyLock[k] # p, Ends(p), NEW u \in Users
  PROVE  /\ <<u, k>> \in Rows
         /\ \/ rows'[<<u, k>>].review = NoReview
            \/ /\ rows'[<<u, k>>].review = rows[<<u, k>>].review
               /\ rows'[<<u, k>>].phase = rows[<<u, k>>].phase
               /\ rows'[<<u, k>>].value = rows[<<u, k>>].value
<1>1. PICK r \in Rows : r = <<u, k>> /\ r[2] = k
  <2>1. <<u, k>> \in Rows
    BY DEF Rows
  <2>2. <<u, k>>[2] = k
    OBVIOUS
  <2>3. QED BY <2>1, <2>2
<1>2. CASE rows'[r] = rows[r]
  BY <1>1, <1>2
<1>3. CASE r \in DOMAIN tx[p].writes /\ rows'[r] = tx[p].writes[r]
  <2>1. Repeats(rows[r], rows'[r])
    BY <1>1, <1>3 DEF IInv, WritesOK, WriteOK
  <2>2. QED BY <1>1, <2>1 DEF Repeats
<1>4. QED BY <1>1, <1>2, <1>3 DEF Ends

LEMMA EndsReuses ==
  ASSUME IInv, NEW p \in Transactions, Ends(p), NEW q \in Transactions \ {p},
         NEW r \in DOMAIN tx[q].writes, ReuseOK(q, r)
  PROVE  ReuseOK(q, r)'
<1>1. Types /\ tx'[q] = tx[q] /\ r \in Rows /\ r[2] \in Keys /\ NoReview.decided = 0 /\ NoReview.by = "none"
  <2>1. Types
    BY DEF IInv
  <2>2. r \in Rows
    BY <2>1, WriteRows
  <2>3. QED BY <2>1, <2>2, EndsTypes, RowParts DEF NoReview
<1> DEFINE k == r[2]
           judged == tx[q].judged
           value == tx[q].writes[r].value
<1> HIDE DEF k
<1>2. SUFFICES ASSUME judged # {}
               PROVE  /\ keyLock'[k] = q
                      /\ \A u \in Users : AdminReviewed(rows'[<<u, k>>]) =>
                           rows'[<<u, k>>].review.decided \in judged
                      /\ \/ \E u \in Users : /\ rows'[<<u, k>>].review.by = "admin"
                                             /\ rows'[<<u, k>>].review.verdict = "approved"
                                             /\ rows'[<<u, k>>].value = value
                         \/ \E decision \in judged : \A u \in Users :
                              rows'[<<u, k>>].review.decided # decision
  BY <1>1 DEF ReuseOK, Undone, k
<1>3. /\ keyLock[k] = q /\ 0 \notin judged /\ k \in Keys
      /\ \A u \in Users : AdminReviewed(rows[<<u, k>>]) => rows[<<u, k>>].review.decided \in judged
      /\ \/ \E u \in Users : /\ rows[<<u, k>>].review.by = "admin"
                             /\ rows[<<u, k>>].review.verdict = "approved"
                             /\ rows[<<u, k>>].value = value
         \/ \E decision \in judged : \A u \in Users : rows[<<u, k>>].review.decided # decision
  BY <1>1, <1>2 DEF ReuseOK, Undone, k
<1>4. keyLock'[k] = q
  BY <1>1, <1>3, EndsTypes
<1>5. \A u \in Users : /\ <<u, k>> \in Rows
                       /\ \/ rows'[<<u, k>>].review = NoReview
                          \/ /\ rows'[<<u, k>>].review = rows[<<u, k>>].review
                             /\ rows'[<<u, k>>].phase = rows[<<u, k>>].phase
                             /\ rows'[<<u, k>>].value = rows[<<u, k>>].value
  BY <1>3, EndsRepeats
<1>6. \A u \in Users : AdminReviewed(rows'[<<u, k>>]) => rows'[<<u, k>>].review.decided \in judged
  BY <1>1, <1>3, <1>5 DEF AdminReviewed
<1>7. CASE \E decision \in judged : \A u \in Users : rows[<<u, k>>].review.decided # decision
  <2>1. PICK decision \in judged : \A u \in Users : rows[<<u, k>>].review.decided # decision
    BY <1>7
  <2>2. \A u \in Users : rows'[<<u, k>>].review.decided # decision
    BY <1>1, <1>3, <1>5, <2>1
  <2>3. QED BY <1>4, <1>6, <2>2
<1>8. CASE \E u \in Users : /\ rows[<<u, k>>].review.by = "admin"
                            /\ rows[<<u, k>>].review.verdict = "approved"
                            /\ rows[<<u, k>>].value = value
  <2>1. PICK u \in Users : /\ rows[<<u, k>>].review.by = "admin"
                           /\ rows[<<u, k>>].review.verdict = "approved"
                           /\ rows[<<u, k>>].value = value
    BY <1>8
  <2>2. CASE rows'[<<u, k>>].review = NoReview
    <3> DEFINE decision == rows[<<u, k>>].review.decided
    <3>1. /\ rows[<<u, k>>].review # NoReview /\ Valid(rows[<<u, k>>], sequence)
          /\ rows[<<u, k>>] \in Versions(<<u, k>>)
      <4>1. <<u, k>> \in Rows /\ rows[<<u, k>>].review # NoReview
        BY <1>1, <1>5, <2>1
      <4>2. rows[<<u, k>>] \in Versions(<<u, k>>)
        BY DEF Versions
      <4>3. QED BY <4>1, <4>2 DEF IInv, VersionsValid
    <3>2. AdminReviewed(rows[<<u, k>>])
      BY <2>1, <3>1 DEF AdminReviewed, Valid
    <3>3. decision \in judged
      BY <1>3, <3>2
    <3>4. \A v \in Users : rows'[<<v, k>>].review.decided # decision
      <4>1. SUFFICES ASSUME NEW v \in Users, rows'[<<v, k>>].review # NoReview, v # u
                     PROVE  rows'[<<v, k>>].review.decided # decision
        BY <1>1, <1>3, <2>2, <3>3
      <4>2. <<u, k>> \in Rows /\ <<v, k>> \in Rows /\ <<u, k>> # <<v, k>>
        BY <1>5, <4>1
      <4>3. rows'[<<v, k>>] \in Versions(<<v, k>>)
        BY <1>1, <4>2, EndsVersions
      <4>4. QED BY <3>1, <4>1, <4>2, <4>3 DEF IInv, DecisionsUnique
    <3>5. QED BY <1>4, <1>6, <3>3, <3>4
  <2>3. CASE rows'[<<u, k>>].review # NoReview
    <3>1. /\ rows'[<<u, k>>].review = rows[<<u, k>>].review
          /\ rows'[<<u, k>>].value = rows[<<u, k>>].value
      BY <1>5, <2>3
    <3>2. QED BY <1>4, <1>6, <2>1, <3>1
  <2>4. QED BY <2>2, <2>3
<1>9. QED BY <1>3, <1>7, <1>8

LEMMA EndsStep ==
  ASSUME IInv, NEW p \in Transactions, Ends(p)
  PROVE  IInv'
<1>1. /\ Types /\ Types' /\ tx'[p] = Idle /\ \A q \in Transactions \ {p} : tx'[q] = tx[q]
      /\ \A q \in Transactions \ {p} :
           /\ \A r \in Rows : rowLock[r] = q => rowLock'[r] = q
           /\ \A k \in Keys : keyLock[k] = q => keyLock'[k] = q
  BY EndsTypes DEF IInv
<1>2. ExecutionsOK'
  <2>1. SUFFICES ASSUME NEW q \in Transactions PROVE ExecutionOK(q)'
    BY DEF ExecutionsOK
  <2>2. CASE q = p
    BY <1>1, <2>2, IdleOK DEF ExecutionOK
  <2>3. CASE q # p
    BY <1>1, <2>3, ExecutionKept DEF IInv, ExecutionsOK
  <2>4. QED BY <2>2, <2>3
<1>3. VersionsValid'
  BY <1>1, EndsVersions DEF IInv, VersionsValid, Ends
<1>4. DecisionsUnique'
  <2>1. SUFFICES ASSUME NEW r \in Rows, NEW s \in Rows, r # s,
                        NEW v \in Versions(r)', NEW w \in Versions(s)',
                        v.review # NoReview, w.review # NoReview
                 PROVE  v.review.decided # w.review.decided
    BY DEF DecisionsUnique
  <2>2. v \in Versions(r) /\ w \in Versions(s)
    BY <1>1, EndsVersions
  <2>3. QED BY <2>1, <2>2 DEF IInv, DecisionsUnique
<1>5. \A q \in Transactions : \A r \in DOMAIN tx'[q].writes :
        /\ q # p /\ tx'[q] = tx[q] /\ r \in DOMAIN tx[q].writes
        /\ r \in Rows /\ r[2] \in Keys
        /\ rowLock[r] = q /\ rows'[r] = rows[r]
  <2>1. SUFFICES ASSUME NEW q \in Transactions, NEW r \in DOMAIN tx'[q].writes
                 PROVE  /\ q # p /\ tx'[q] = tx[q] /\ r \in DOMAIN tx[q].writes
                        /\ r \in Rows /\ r[2] \in Keys
                        /\ rowLock[r] = q /\ rows'[r] = rows[r]
    OBVIOUS
  <2>2. q # p /\ tx'[q] = tx[q] /\ r \in DOMAIN tx[q].writes
    BY <1>1, <2>1, IdleOK
  <2>3. r \in Rows /\ r[2] \in Keys
    BY <1>1, <2>2, WriteRows, RowParts
  <2>4. rowLock[r] = q
    BY <2>2 DEF IInv, WritesOK, WriteOK
  <2>5. r \notin DOMAIN tx[p].writes
    BY <2>2, <2>4 DEF IInv, WritesOK, WriteOK
  <2>6. QED BY <2>2, <2>3, <2>4, <2>5 DEF Ends
<1>6. WritesOK'
  <2>1. SUFFICES ASSUME NEW q \in Transactions, NEW r \in DOMAIN tx'[q].writes
                 PROVE  WriteOK(q, r)'
    BY DEF WritesOK
  <2>2. WriteOK(q, r)
    BY <1>5 DEF IInv, WritesOK
  <2>3. rowLock'[r] = q /\ (keyLock[r[2]] = q => keyLock'[r[2]] = q)
    BY <1>1, <1>5
  <2>4. QED BY <1>5, <2>2, <2>3 DEF WriteOK, Marks
<1>7. ReusesOK'
  <2>1. SUFFICES ASSUME NEW q \in Transactions, NEW r \in DOMAIN tx'[q].writes
                 PROVE  ReuseOK(q, r)'
    BY DEF ReusesOK
  <2>2. q # p /\ r \in DOMAIN tx[q].writes
    BY <1>5
  <2>3. ReuseOK(q, r)
    BY <2>2 DEF IInv, ReusesOK
  <2>4. QED BY <2>2, <2>3, EndsReuses
<1>8. DeltasOK'
  <2>1. device' = device /\ sequence' = sequence
    BY DEF Ends
  <2>2. SUFFICES ASSUME NEW d \in Devices, NEW k \in Keys PROVE DeltaOK(d, k)'
    BY <2>1 DEF IInv, DeltasOK
  <2>3. PICK r \in Rows : r = <<Owner[d], k>>
    BY LearningAssumption DEF Rows
  <2>4. DeltaOK(d, k)
    BY DEF IInv, DeltasOK
  <2>5. \A q \in Transactions : r \in DOMAIN tx'[q].writes => tx'[q] = tx[q]
    BY <1>5
  <2>6. rows'[r] = rows[r] \/ (r \in DOMAIN tx[p].writes /\ rows'[r] = tx[p].writes[r])
    BY DEF Ends
  <2>7. CASE rows'[r] = rows[r]
    BY <2>1, <2>3, <2>4, <2>5, <2>7 DEF DeltaOK
  <2>8. CASE r \in DOMAIN tx[p].writes /\ rows'[r] = tx[p].writes[r]
    BY <2>1, <2>3, <2>4, <2>5, <2>8 DEF DeltaOK
  <2>9. QED BY <2>6, <2>7, <2>8
<1>9. QED BY <1>1, <1>2, <1>3, <1>4, <1>6, <1>7, <1>8 DEF IInv

LEMMA CommitEnds ==
  ASSUME Types, NEW p \in Transactions, Commit(p)
  PROVE  Ends(p)
<1>1. \A r \in Rows : rows'[r] = Seen(p, r)
  BY DEF Commit
<1>2. \A r \in Rows : \/ rows'[r] = rows[r]
                      \/ r \in DOMAIN tx[p].writes /\ rows'[r] = tx[p].writes[r]
  BY <1>1 DEF Seen
<1>3. \A r \in Rows : Seen(p, r) \in RowRecords
  BY WriteRows DEF Seen, Types
<1>4. QED BY <1>2, <1>3 DEF Commit, Ends

LEMMA RollbackEnds ==
  ASSUME Types, NEW p \in Transactions, Rollback(p)
  PROVE  Ends(p)
BY DEF Rollback, Ends, Types

-----------------------------------------------------------------------------
(* Requests, loading and pulling.                                            *)

LEMMA ComposedEvent ==
  ASSUME Types, VersionsValid, NEW operation \in Operations, operation.audit => operation.id \in Ids,
         operation.op = "update" => operation.phase # "absent",
         operation.op = "review" => operation.verdict \in Verdicts,
         operation.op = "echo" => Exists(rows[Target(operation)])
  PROVE  /\ Composed(operation) \in Events
         /\ Composed(operation).op \in {"review", "reuse"} => Composed(operation) = operation
<1>1. Target(operation) \in Rows
  BY DEF Target, Rows, Operations
<1> DEFINE row == rows[Target(operation)]
<1>2. row.phase \in Phases /\ row.value \in Values \cup {None} /\ row.at \in Nat
  BY <1>1 DEF Types, RowRecords
<1>3. CASE operation.op = "echo"
  <2> HIDE DEF row
  <2> DEFINE composed == [operation EXCEPT !.op = "update", !.phase = row.phase,
                                           !.value = row.value, !.at = row.at]
  <2>1. composed \in Operations
    BY <1>2 DEF Operations
  <2>2. /\ composed.op = "update" /\ composed.phase = row.phase
        /\ composed.audit = operation.audit /\ composed.id = operation.id
    BY DEF Operations
  <2>3. Composed(operation) = composed /\ row.phase # "absent"
    BY <1>3 DEF Composed, row, Exists
  <2> HIDE DEF composed
  <2>4. QED BY <2>1, <2>2, <2>3 DEF Events
<1>4. CASE operation.op # "echo"
  <2>1. Composed(operation) = operation /\ operation.op \in {"update", "reset", "review", "reuse"}
    BY <1>4 DEF Composed, Operations
  <2>2. QED BY <2>1 DEF Events
<1>5. QED BY <1>3, <1>4

LEMMA BatchTypes ==
  ASSUME Types, NEW batch \in workload.requests
  PROVE  IsBatch(batch) /\ Reviewed(batch) \in SUBSET Rows
<1>1. IsBatch(batch)
  BY LearningAssumption DEF Types, IsWorkload
<1>2. \A i \in DOMAIN batch : Target(batch[i]) \in Rows
  <2>1. \A i \in DOMAIN batch : batch[i] \in Operations
    BY <1>1 DEF IsBatch
  <2>2. QED BY <2>1 DEF Target, Rows, Operations
<1>3. QED BY <1>1, <1>2 DEF Reviewed

LEMMA ArriveStep ==
  ASSUME IInv, NEW p \in Transactions, NEW batch \in workload.requests, Arrive(p, batch)
  PROVE  IInv'
<1> DEFINE todo == [i \in DOMAIN batch |-> Composed(batch[i])]
           expected == [r \in Reviewed(batch) |-> loaded[r]]
           after == [Idle EXCEPT !.pc = "start", !.todo = todo, !.expected = expected]
<1>1. /\ Types /\ VersionsValid /\ tx[p].pc = "idle"
      /\ IsBatch(batch) /\ Reviewed(batch) \in SUBSET Rows
  BY BatchTypes DEF IInv, Arrive, At
<1>2. /\ tx' = [tx EXCEPT ![p] = after]
      /\ UNCHANGED <<rows, sequence, clock, lockVars, loaded, device, workload>>
      /\ \A i \in DOMAIN batch : batch[i].op = "echo" => Exists(rows[Target(batch[i])])
  BY DEF Arrive
<1>3. /\ batch \in Seq(Operations) /\ batch # <<>>
      /\ \A i \in DOMAIN batch : batch[i] \in Operations
  BY <1>1 DEF IsBatch
<1>4. \A i \in DOMAIN batch :
        /\ Composed(batch[i]) \in Events
        /\ Composed(batch[i]).op \in {"review", "reuse"} => Composed(batch[i]) = batch[i]
  <2>1. SUFFICES ASSUME NEW i \in DOMAIN batch
                 PROVE  /\ Composed(batch[i]) \in Events
                        /\ Composed(batch[i]).op \in {"review", "reuse"} => Composed(batch[i]) = batch[i]
    OBVIOUS
  <2>2. /\ batch[i] \in Operations /\ (batch[i].audit => batch[i].id \in Ids)
        /\ (batch[i].op = "update" => batch[i].phase # "absent")
        /\ (batch[i].op = "review" => batch[i].verdict \in Verdicts)
        /\ (batch[i].op = "echo" => Exists(rows[Target(batch[i])]))
    BY <1>1, <1>2, <1>3 DEF IsBatch
  <2>3. QED BY <1>1, <2>2, ComposedEvent
<1>5. todo \in Seq(Events) /\ DOMAIN todo = DOMAIN batch /\ Len(todo) = Len(batch) /\ todo # <<>>
  <2>1. DOMAIN batch = 1 .. Len(batch) /\ Len(batch) \in Nat /\ Len(batch) # 0
    BY <1>3
  <2>2. todo \in [1 .. Len(batch) -> Events]
    BY <1>4, <2>1
  <2>3. todo \in Seq(Events) /\ Len(todo) = Len(batch)
    <3> HIDE DEF todo
    <3>1. todo \in Seq(Events)
      BY <2>1, <2>2, SeqDef
    <3>2. QED BY <2>1, <2>2, <3>1
  <2>4. QED BY <2>1, <2>3
<1>6. \A i \in DOMAIN todo : todo[i].op \in {"review", "reuse"} => todo[i] = batch[i]
  BY <1>4
<1>7. expected \in Expectations /\ DOMAIN expected = Reviewed(batch)
  <2>1. expected \in [Reviewed(batch) -> Loadings]
    BY <1>1 DEF Types
  <2>2. QED BY <1>1, <2>1 DEF Expectations
<1>8. after \in TxRecords
  <2> HIDE DEF todo, expected
  <2>1. QED BY <1>5, <1>7, IdleOK DEF TxRecords, Pcs
<1>9. /\ tx'[p] = after /\ tx' \in [Transactions -> TxRecords]
      /\ \A q \in Transactions \ {p} : tx'[q] = tx[q]
  <2> HIDE DEF after
  <2>1. QED BY <1>1, <1>2, <1>8 DEF Types
<1>10. /\ tx'[p].pc = "start" /\ tx'[p].todo = todo /\ tx'[p].expected = expected
       /\ DOMAIN tx'[p].writes = {} /\ tx'[p].judged = {}
  <2> HIDE DEF todo, expected
  <2>1. QED BY <1>9, IdleOK DEF TxRecords, Idle
<1>11. Frame(p)
  BY <1>1, <1>2, <1>9 DEF Frame, Types, lockVars
<1>12. ExecutionOK(p)'
  <2>1. \A i \in DOMAIN tx'[p].todo :
          tx'[p].todo[i].op = "review" => Target(tx'[p].todo[i]) \in DOMAIN tx'[p].expected
    BY <1>5, <1>6, <1>7, <1>10 DEF Reviewed
  <2>2. \A i \in DOMAIN tx'[p].todo : tx'[p].todo[i].op = "reuse" => Len(tx'[p].todo) = 1
    BY <1>1, <1>5, <1>6, <1>10 DEF IsBatch
  <2>3. DistinctStamps => \A r \in DOMAIN tx'[p].expected :
          tx'[p].expected[r].seq = tx'[p].expected[r].stamp
    BY <1>1, <1>7, <1>10 DEF Types
  <2>4. tx'[p].todo # <<>>
    BY <1>5, <1>10
  <2>5. QED BY <1>10, <2>1, <2>2, <2>3, <2>4 DEF ExecutionOK
<1>13. \A s \in DOMAIN tx'[p].writes : MayWrite(p, s, <<>>) /\ ReuseOK(p, s)'
  BY <1>10
<1>14. QED BY <1>10, <1>11, <1>12, <1>13, FrameStep

\* Nothing happens to the rows and their executions.
LEMMA SameRows ==
  ASSUME IInv, UNCHANGED <<rows, sequence, rowLock, keyLock, tx>>, Types', DeltasOK'
  PROVE  IInv'
<1>1. ExecutionsOK'
  <2>1. SUFFICES ASSUME NEW q \in Transactions PROVE ExecutionOK(q)'
    BY DEF ExecutionsOK
  <2>2. QED BY ExecutionKept DEF IInv, ExecutionsOK
<1>2. VersionsValid' /\ DecisionsUnique'
  BY DEF IInv, VersionsValid, DecisionsUnique, Versions
<1>3. WritesOK'
  BY DEF IInv, WritesOK, WriteOK, Marks
<1>4. ReusesOK'
  BY DEF IInv, ReusesOK, ReuseOK, Undone
<1>5. QED BY <1>1, <1>2, <1>3, <1>4 DEF IInv

LEMMA LoadStep == ASSUME IInv, NEW r \in Rows, Load(r) PROVE IInv'
<1>1. Types /\ Valid(rows[r], sequence) /\ rows[r] \in RowRecords
  BY DEF IInv, VersionsValid, Versions, Types
<1>2. [seq |-> rows[r].seq, stamp |-> rows[r].stamp] \in Loadings
  BY <1>1, RowFields DEF Loadings
<1>3. loaded' \in [Rows -> Loadings]
  BY <1>1, <1>2 DEF Load, Types
<1>4. DistinctStamps => \A s \in Rows : loaded'[s].seq = loaded'[s].stamp
  BY <1>1 DEF Load, Types, Valid
<1>5. Types'
  BY <1>1, <1>3, <1>4 DEF Load, Types, lockVars
<1>6. DeltasOK'
  BY DEF Load, IInv, DeltasOK, DeltaOK
<1>7. QED BY <1>5, <1>6, SameRows DEF Load, lockVars

LEMMA DeviceRows ==
  ASSUME NEW d \in Devices
  PROVE  /\ RowsOf(d) \subseteq Rows
         /\ \A k \in Keys : <<Owner[d], k>> \in RowsOf(d)
<1>1. Owner[d] \in Users
  BY LearningAssumption
<1>2. \A k \in Keys : <<Owner[d], k>> \in Rows
  BY <1>1 DEF Rows
<1>3. QED BY <1>2 DEF RowsOf

\* Natural numbers that are bounded: one of them has no smaller one.
LEMMA SmallestBound ==
  ASSUME NEW n \in Nat, NEW bounds \in SUBSET (0 .. n), bounds # {}
  PROVE  \E c \in bounds : \A b \in bounds : c <= b
<1> DEFINE intervals == {0 .. b : b \in bounds}
<1>1. IsFiniteSet(0 .. n)
  BY FS_Interval
<1>2. intervals \subseteq SUBSET (0 .. n) /\ intervals # {}
  <2>1. \A b \in bounds : 0 .. b \in SUBSET (0 .. n)
    OBVIOUS
  <2>2. QED BY <2>1, Zenon
<1>3. IsWellFoundedOn(StrictSubsetOrdering(0 .. n), SUBSET (0 .. n))
  BY <1>1, FS_StrictSubsetOrderingWellFounded, FS_FiniteSubsetsOfFinite
<1>4. PICK x \in intervals : \A y \in intervals : ~(<<y, x>> \in StrictSubsetOrdering(0 .. n))
  <2> HIDE DEF intervals
  <2>1. QED BY <1>2, <1>3, WFMin
<1>5. PICK c \in bounds : x = 0 .. c
  OBVIOUS
<1>6. SUFFICES ASSUME NEW b \in bounds, b < c PROVE FALSE
  OBVIOUS
<1>7. 0 .. b \in SUBSET (0 .. n) /\ x \in SUBSET (0 .. n) /\ 0 .. b \in intervals
  BY <1>2
<1>8. 0 .. b \subseteq x /\ c \in x /\ c \notin 0 .. b
  BY <1>5, <1>6
<1>9. <<0 .. b, x>> \in StrictSubsetOrdering(0 .. n)
  <2> HIDE DEF intervals
  <2>1. 0 .. b # x
    BY <1>8
  <2>2. QED BY <1>7, <1>8, <2>1 DEF StrictSubsetOrdering
<1>10. QED BY <1>4, <1>7, <1>9

LEMMA LargestSequence ==
  ASSUME IInv, NEW d \in Devices, Keys # {}
  PROVE  /\ \E c \in {rows[r].seq : r \in RowsOf(d)} : \A r \in RowsOf(d) : rows[r].seq <= c
         /\ \A c \in {rows[r].seq : r \in RowsOf(d)} : c \in 0 .. sequence
<1> DEFINE bounds == {c \in 0 .. sequence : \A r \in RowsOf(d) : rows[r].seq <= c}
<1>1. RowsOf(d) \subseteq Rows /\ RowsOf(d) # {} /\ sequence \in Nat
  BY DeviceRows DEF IInv, Types
<1>2. \A r \in RowsOf(d) : rows[r].seq \in 0 .. sequence
  <2>1. \A r \in Rows : Valid(rows[r], sequence) /\ rows[r].seq \in Nat
    BY RowFields DEF IInv, VersionsValid, Versions, Valid
  <2>2. \A r \in Rows : rows[r].seq <= sequence
    BY <1>1, <2>1 DEF Valid, Absent
  <2>3. QED BY <1>1, <2>1, <2>2
<1>3. sequence \in bounds
  BY <1>1, <1>2
<1>4. PICK c \in bounds : \A b \in bounds : c <= b
  <2>1. bounds \in SUBSET (0 .. sequence)
    OBVIOUS
  <2> HIDE DEF bounds
  <2>2. QED BY <1>1, <1>3, <2>1, SmallestBound
<1>5. \A b \in bounds : c <= b
  BY <1>4
<1>6. c <= sequence
  BY <1>3, <1>5
<1>7. \E r \in RowsOf(d) : rows[r].seq = c
  <2>1. SUFFICES ASSUME \A r \in RowsOf(d) : rows[r].seq # c PROVE FALSE
    OBVIOUS
  <2>2. \A r \in RowsOf(d) : rows[r].seq < c
    BY <1>1, <1>2, <2>1
  <2>3. c - 1 \in bounds
    BY <1>1, <1>2, <2>2
  <2>4. QED BY <1>5, <2>3
<1>8. QED BY <1>1, <1>2, <1>7

LEMMA PullStep == ASSUME IInv, NEW d \in workload.devices, Pull(d) PROVE IInv'
<1>1. Types /\ d \in Devices
  BY LearningAssumption DEF IInv, Types, IsWorkload
<1>2. Types' /\ UNCHANGED <<rows, sequence, rowLock, keyLock, tx>>
  BY <1>1 DEF Types, Pull, lockVars
<1> DEFINE latest == CHOOSE c \in {rows[r].seq : r \in RowsOf(d)} :
                       \A r \in RowsOf(d) : rows[r].seq <= c
           allocated == UNION {{tx[p].writes[r].seq : r \in DOMAIN tx[p].writes \cap RowsOf(d)} :
                                 p \in Transactions}
           known == [k \in Keys |-> LET row == rows[<<Owner[d], k>>]
                                    IN IF row.seq > device[d].cursor THEN row.stamp
                                       ELSE device[d].known[k]]
           missed == device[d].missed \cup {c \in allocated : c <= latest}
           after == [cursor |-> latest, known |-> known, missed |-> missed]
<1>3. device' = [device EXCEPT ![d] = after]
  BY DEF Pull
<1>4. device = [e \in Devices |-> device[e]]
  BY DEF IInv, DeltasOK
<1>5. /\ device' = [e \in Devices |-> device'[e]] /\ device'[d] = after
      /\ \A e \in Devices \ {d} : device'[e] = device[e]
  <2> HIDE DEF after
  <2>1. QED BY <1>1, <1>3, <1>4
<1>6. SUFFICES ASSUME NEW e \in Devices, NEW k \in Keys PROVE DeltaOK(e, k)'
  BY <1>2, <1>5, SameRows DEF DeltasOK
<1>7. DeltaOK(e, k)
  BY DEF IInv, DeltasOK
<1>8. CASE e # d
  BY <1>2, <1>5, <1>7, <1>8 DEF DeltaOK
<1>9. CASE e = d
  <2>1. latest \in 0 .. sequence /\ \A r \in RowsOf(d) : rows[r].seq <= latest
    <3>1. /\ \E c \in {rows[r].seq : r \in RowsOf(d)} : \A r \in RowsOf(d) : rows[r].seq <= c
          /\ \A c \in {rows[r].seq : r \in RowsOf(d)} : c \in 0 .. sequence
      BY <1>1, LargestSequence
    <3>2. QED BY <3>1, Zenon
  <2>2. PICK r \in Rows : r = <<Owner[d], k>> /\ r \in RowsOf(d)
    BY <1>1, DeviceRows
  <2>3. /\ device'[d].cursor = latest /\ device'[d].missed = missed /\ device'[d].known = known
    <3> HIDE DEF latest, known, missed
    <3>1. QED BY <1>5
  <2>4. known[k] = IF rows[r].seq > device[d].cursor THEN rows[r].stamp ELSE device[d].known[k]
    BY <2>2
  <2>5. /\ rows[r].seq \in Nat /\ device[d].cursor \in Nat /\ sequence \in Nat
        /\ (Exists(rows[r]) /\ rows[r].seq <= device[d].cursor =>
             device[d].known[k] = rows[r].stamp \/ rows[r].seq \in device[d].missed)
    <3>1. rows[r] \in RowRecords /\ sequence \in Nat
      BY <1>1 DEF Types
    <3>2. QED BY <1>7, <1>9, <2>2, <3>1, RowFields DEF DeltaOK
  <2>6. \A p \in Transactions : r \in DOMAIN tx[p].writes => tx[p].writes[r].seq \in allocated
    BY <2>2
  <2> HIDE DEF latest, allocated, known, after
  <2>7. Exists(rows[r]) => known[k] = rows[r].stamp \/ rows[r].seq \in missed
    BY <2>4, <2>5
  <2>8. \A p \in Transactions : r \in DOMAIN tx[p].writes /\ tx[p].writes[r].seq <= latest =>
          tx[p].writes[r].seq \in missed
    BY <2>6
  <2> HIDE DEF missed
  <2>9. QED BY <1>2, <1>9, <2>1, <2>2, <2>3, <2>7, <2>8 DEF DeltaOK
<1>10. QED BY <1>8, <1>9

-----------------------------------------------------------------------------
(* The invariant.                                                            *)

LEMMA IInvInit == Init => IInv
<1> SUFFICES ASSUME Init PROVE IInv
  OBVIOUS
<1> DEFINE n == Len(workload.backlog)
<1>1. workload.backlog \in Seq(Rows) /\ n \in Nat /\ workload \in Workloads
  <2>1. workload \in Workloads
    BY DEF Init
  <2>2. workload.backlog \in Seq(Rows)
    BY <2>1, LearningAssumption DEF IsWorkload
  <2>3. QED BY <2>1, <2>2
<1>2. sequence = n /\ clock = n + 1
  BY DEF Init
<1>3. /\ Valid(Absent, n) /\ ~Exists(Absent) /\ Absent.review = NoReview /\ Absent \in RowRecords
  BY <1>1, AbsentValid DEF Valid
<1>4. \A i \in 1 .. n : LET row == [Absent EXCEPT !.phase = "pending", !.value = FirstValue, !.at = 1,
                                                !.seq = i, !.stamp = i, !.created = i]
                      IN Valid(row, n) /\ row.review = NoReview
  <2>1. SUFFICES ASSUME NEW i \in 1 .. n
                 PROVE  LET row == [Absent EXCEPT !.phase = "pending", !.value = FirstValue, !.at = 1,
                                                !.seq = i, !.stamp = i, !.created = i]
                        IN Valid(row, n) /\ row.review = NoReview
    OBVIOUS
  <2> DEFINE row == [Absent EXCEPT !.phase = "pending", !.value = FirstValue, !.at = 1,
                                   !.seq = i, !.stamp = i, !.created = i]
  <2>2. row \in RowRecords
    <3>1. /\ i \in Nat /\ FirstValue \in Values \cup {None} /\ "pending" \in Phases /\ 1 \in Nat
      BY <1>1, LearningAssumption DEF Phases
    <3>2. QED BY <1>3, <3>1 DEF RowRecords
  <2>3. /\ row.phase = "pending" /\ row.seq = i /\ row.stamp = i /\ row.created = i
        /\ row.review = NoReview /\ row.audits = <<>>
    BY DEF Absent
  <2>4. NoReview.by = "none" /\ DOMAIN <<>> = {}
    BY DEF NoReview
  <2> HIDE DEF row
  <2>5. Valid(row, n) /\ row.review = NoReview
    BY <1>1, <2>2, <2>3, <2>4 DEF Valid, Exists
  <2>6. QED BY <2>5 DEF row
<1>5. \A r \in Rows : Valid(rows[r], n) /\ rows[r].review = NoReview
  <2>1. SUFFICES ASSUME NEW r \in Rows PROVE Valid(rows[r], n) /\ rows[r].review = NoReview
    OBVIOUS
  <2>2. CASE \E i \in DOMAIN workload.backlog : workload.backlog[i] = r
    <3> DEFINE i == CHOOSE j \in DOMAIN workload.backlog : workload.backlog[j] = r
    <3>1. i \in 1 .. n
      BY <1>1, <2>2
    <3>2. rows[r] = [Absent EXCEPT !.phase = "pending", !.value = FirstValue, !.at = 1,
                                   !.seq = i, !.stamp = i, !.created = i]
      BY <2>2 DEF Init
    <3> HIDE DEF i
    <3>3. QED BY <1>4, <3>1, <3>2
  <2>3. CASE ~\E i \in DOMAIN workload.backlog : workload.backlog[i] = r
    <3>1. rows[r] = Absent
      BY <2>3 DEF Init
    <3>2. QED BY <1>3, <3>1
  <2>4. QED BY <2>2, <2>3
<1>6. rows \in [Rows -> RowRecords]
  BY <1>5 DEF Init, Valid
<1>7. tx \in [Transactions -> TxRecords] /\ \A p \in Transactions : tx[p] = Idle
  BY IdleOK DEF Init
<1>8. Types
  <2>1. rowLock \in [Rows -> Transactions \cup {None}] /\ keyLock \in [Keys -> Transactions \cup {None}]
    BY DEF Init
  <2>2. loaded \in [Rows -> Loadings] /\ \A r \in Rows : loaded[r].seq = loaded[r].stamp
    BY DEF Init, Loadings
  <2>3. sequence \in Nat /\ clock \in Nat /\ clock = sequence + 1
    BY <1>1, <1>2
  <2>4. QED BY <1>1, <1>6, <1>7, <2>1, <2>2, <2>3 DEF Types
<1>9. ExecutionsOK
  BY <1>7, IdleOK DEF ExecutionsOK, ExecutionOK
<1>10. \A r \in Rows : Versions(r) = {rows[r]}
  BY <1>7, IdleOK DEF Versions
<1>11. VersionsValid /\ DecisionsUnique
  BY <1>2, <1>5, <1>10 DEF VersionsValid, DecisionsUnique
<1>12. WritesOK /\ ReusesOK
  BY <1>7, IdleOK DEF WritesOK, ReusesOK
<1>13. DeltasOK
  <2>1. device = [d \in Devices |-> device[d]]
    BY DEF Init
  <2>2. SUFFICES ASSUME NEW d \in Devices, NEW k \in Keys PROVE DeltaOK(d, k)
    BY <2>1 DEF DeltasOK
  <2>3. device[d].cursor = 0
    BY DEF Init
  <2>4. PICK r \in Rows : r = <<Owner[d], k>>
    BY DeviceRows
  <2>5. Exists(rows[r]) => rows[r].seq \in Nat /\ rows[r].seq > 0
    BY <1>5, RowFields DEF Valid
  <2>6. ~(Exists(rows[r]) /\ rows[r].seq <= device[d].cursor)
    BY <2>3, <2>5
  <2>7. QED BY <1>1, <1>2, <1>7, <2>3, <2>4, <2>6, IdleOK DEF DeltaOK
<1>14. QED BY <1>8, <1>9, <1>11, <1>12, <1>13 DEF IInv

LEMMA IInvStep == IInv /\ [Next]_vars => IInv'
<1> SUFFICES ASSUME IInv, [Next]_vars PROVE IInv'
  OBVIOUS
<1>1. Types
  BY DEF IInv
<1>2. ASSUME NEW p \in Transactions, Step(p) PROVE IInv'
  <2>1. CASE Commit(p)
    BY <1>1, <2>1, CommitEnds, EndsStep
  <2>2. CASE Abort(p)
    BY <1>1, <2>2, RollbackEnds, EndsStep DEF Abort
  <2>3. CASE BreakDeadlock(p)
    BY <1>1, <2>3, RollbackEnds, EndsStep DEF BreakDeadlock
  <2>4. QED BY <1>2, <2>1, <2>2, <2>3, StartUpdateStep, ReadForUpdateStep, InsertOrMergeStep,
               ResetProgressStep, StartReviewStep, JudgeStep, StartReuseStep, MatchStep DEF Step
<1>3. ASSUME NEW p \in Transactions, FailCall(p) PROVE IInv'
  BY <1>1, <1>3, RollbackEnds, EndsStep DEF FailCall
<1>4. CASE UNCHANGED vars
  <2>1. Types' /\ DeltasOK'
    BY <1>4 DEF vars, lockVars, IInv, Types, DeltasOK, DeltaOK
  <2>2. QED BY <1>4, <2>1, SameRows DEF vars, lockVars
<1>5. QED BY <1>2, <1>3, <1>4, ArriveStep, LoadStep, PullStep DEF Next

THEOREM LearningInvariant == Spec => []IInv
<1>1. Init => IInv
  BY IInvInit
<1>2. IInv /\ [Next]_vars => IInv'
  BY IInvStep
<1>3. QED BY <1>1, <1>2, PTL DEF Spec

-----------------------------------------------------------------------------
(* The properties.                                                           *)

\* Every row is a record of its type, exists from its first sequence value on,
\* and what a transaction has written it has locked.
THEOREM TypesAlways == Spec => []TypeOK
<1>1. IInv => TypeOK
  <2> SUFFICES ASSUME IInv PROVE TypeOK
    OBVIOUS
  <2>1. \A r \in Rows : rows[r] \in RowRecords /\ (Exists(rows[r]) => rows[r].seq > 0)
    <3>1. \A r \in Rows : Valid(rows[r], sequence) /\ rows[r] \in RowRecords
      BY DEF IInv, VersionsValid, Versions, Types
    <3>2. QED BY <3>1, RowFields DEF Valid
  <2>2. \A p \in Transactions : \A r \in DOMAIN tx[p].writes :
          tx[p].writes[r] \in RowRecords /\ rowLock[r] = p
    BY WriteRows DEF IInv, WritesOK, WriteOK
  <2>3. QED BY <2>1, <2>2 DEF TypeOK, IInv, Types
<1>2. QED BY <1>1, LearningInvariant, PTL

\* An event that is sent again, or twice at once, adds its audit entry once.
THEOREM SubmittedOnceAlways == Spec => []SubmittedOnce
<1>1. IInv => SubmittedOnce
  BY DEF IInv, VersionsValid, Versions, Valid, SubmittedOnce
<1>2. QED BY <1>1, LearningInvariant, PTL

\* An administrator's verdict is on the version that was loaded for it, provided
\* that no two writes carry the same millisecond.
THEOREM ReviewsWhatWasLoadedAlways ==
  ASSUME DistinctStamps
  PROVE  Spec => []ReviewsWhatWasLoaded
<1>1. IInv => ReviewsWhatWasLoaded
  BY DEF IInv, VersionsValid, Versions, Valid, ReviewsWhatWasLoaded
<1>2. QED BY <1>1, LearningInvariant, PTL

\* No decision of an administrator on a key slips between the decisions that an
\* automatic approval has looked at and its commit.
THEOREM NoDecisionOvertakesReuseAlways == Spec => []NoDecisionOvertakesReuse
<1>1. IInv => NoDecisionOvertakesReuse
  <2> SUFFICES ASSUME IInv, NEW p \in Transactions, NEW r \in Rows, Approves(p, r)
               PROVE  \A u \in Users : AdminReviewed(rows[<<u, r[2]>>]) =>
                        rows[<<u, r[2]>>].review.decided \in tx[p].judged
    BY DEF NoDecisionOvertakesReuse
  <2>1. ReuseOK(p, r) /\ tx[p].judged # {}
    BY DEF Approves, IInv, ReusesOK
  <2>2. QED BY <2>1 DEF ReuseOK
<1>2. QED BY <1>1, LearningInvariant, PTL

\* An automatic approval repeats an administrator's approval of the same value,
\* unless a decision that it has looked at was undone before it commits.
THEOREM ReuseNeedsHumanApprovalAlways == Spec => []ReuseNeedsHumanApproval
<1>1. IInv => ReuseNeedsHumanApproval
  <2> SUFFICES ASSUME IInv, NEW p \in Transactions, NEW r \in Rows, Approves(p, r)
               PROVE  \/ \E u \in Users :
                           /\ rows[<<u, r[2]>>].review.by = "admin"
                           /\ rows[<<u, r[2]>>].review.verdict = "approved"
                           /\ rows[<<u, r[2]>>].value = tx[p].writes[r].value
                      \/ \E decision \in tx[p].judged : Undone(decision, r[2])
    BY DEF ReuseNeedsHumanApproval
  <2>1. ReuseOK(p, r) /\ tx[p].judged # {}
    BY DEF Approves, IInv, ReusesOK
  <2>2. QED BY <2>1 DEF ReuseOK
<1>2. QED BY <1>1, LearningInvariant, PTL

\* What a device that pulls by cursor lacks was allocated, and not committed,
\* when its cursor passed it.
THEOREM DeltasMissOnlyUncommittedAlways == Spec => []DeltasMissOnlyUncommitted
<1>1. IInv => DeltasMissOnlyUncommitted
  <2> SUFFICES ASSUME IInv, NEW d \in Devices, NEW k \in Keys, Behind(d, k)
               PROVE  rows[<<Owner[d], k>>].seq \in device[d].missed
    BY DEF DeltasMissOnlyUncommitted
  <2>1. DeltaOK(d, k)
    BY DEF IInv, DeltasOK
  <2>2. QED BY <2>1 DEF DeltaOK, Behind
<1>2. QED BY <1>1, LearningInvariant, PTL

\* Only the commit of a transaction that has written a row replaces the row.
LEMMA RowReplaced ==
  ASSUME IInv, [Next]_vars, NEW r \in Rows, rows'[r] # rows[r]
  PROVE  \E p \in Transactions :
           /\ At(p, "commit") /\ r \in DOMAIN tx[p].writes /\ rows'[r] = tx[p].writes[r]
           /\ Succeeds(rows[r], rows'[r], r, Marks(p))
<1>1. \/ \E p \in Transactions : Commit(p)
      \/ UNCHANGED rows
  BY DEF Next, Step, vars, StartUpdate, ReadForUpdate, InsertOrMerge, ResetProgress, StartReview,
         Judge, StartReuse, Match, Abort, BreakDeadlock, FailCall, Rollback, Arrive, Load, Pull, rest
<1>2. PICK p \in Transactions : Commit(p)
  BY <1>1
<1>3. rows'[r] = Seen(p, r) /\ At(p, "commit")
  BY <1>2 DEF Commit
<1>4. r \in DOMAIN tx[p].writes /\ rows'[r] = tx[p].writes[r]
  BY <1>3 DEF Seen
<1>5. WriteOK(p, r)
  BY <1>4 DEF IInv, WritesOK
<1>6. QED BY <1>3, <1>4, <1>5 DEF WriteOK

\* Concurrent writes keep a row's audit entries.
THEOREM AuditsKeptAlways == Spec => AuditsKept
<1>1. ASSUME IInv, [Next]_vars, NEW r \in Rows, SameRow(r)
      PROVE  \A i \in DOMAIN rows[r].audits :
               i \in DOMAIN rows'[r].audits /\ rows'[r].audits[i] = rows[r].audits[i]
  <2>1. rows[r] \in RowRecords /\ rows'[r] \in RowRecords
    BY <1>1, IInvStep DEF IInv, Types
  <2>2. /\ rows[r].audits \in Seq(AuditEntries) /\ rows'[r].audits \in Seq(AuditEntries)
        /\ Len(rows[r].audits) \in Nat /\ Len(rows'[r].audits) \in Nat
    BY <2>1, RowFields
  <2>3. /\ Len(rows[r].audits) <= Len(rows'[r].audits)
        /\ \A i \in 1 .. Len(rows[r].audits) : rows'[r].audits[i] = rows[r].audits[i]
    <3>1. CASE rows'[r] = rows[r]
      BY <2>2, <3>1
    <3>2. CASE rows'[r] # rows[r]
      <4>1. PICK p \in Transactions : Succeeds(rows[r], rows'[r], r, Marks(p))
        BY <1>1, <3>2, RowReplaced
      <4>2. QED BY <1>1, <4>1 DEF Succeeds, SameRow
    <3>3. QED BY <3>1, <3>2
  <2>4. QED BY <2>2, <2>3
<1>2. IInv /\ [Next]_vars =>
        [\A r \in Rows : SameRow(r) =>
           \A i \in DOMAIN rows[r].audits :
             i \in DOMAIN rows'[r].audits /\ rows'[r].audits[i] = rows[r].audits[i]]_vars
  BY <1>1
<1>3. QED BY <1>2, LearningInvariant, PTL DEF Spec, AuditsKept

\* A record is never replaced by an older one.
THEOREM FreshestWinsAlways == Spec => FreshestWins
<1>1. ASSUME IInv, [Next]_vars, NEW r \in Rows, SameRow(r)
      PROVE  rows'[r].at >= rows[r].at
  <2>1. CASE rows'[r] = rows[r]
    <3>1. rows[r].at \in Nat
      BY <1>1, RowFields DEF IInv, Types
    <3>2. QED BY <2>1, <3>1
  <2>2. CASE rows'[r] # rows[r]
    <3>1. PICK p \in Transactions : Succeeds(rows[r], rows'[r], r, Marks(p))
      BY <1>1, <2>2, RowReplaced
    <3>2. QED BY <1>1, <3>1 DEF Succeeds, SameRow
  <2>3. QED BY <2>1, <2>2
<1>2. IInv /\ [Next]_vars => [\A r \in Rows : SameRow(r) => rows'[r].at >= rows[r].at]_vars
  BY <1>1
<1>3. QED BY <1>2, LearningInvariant, PTL DEF Spec, FreshestWins

\* A review disappears only when its user submits the record again, or by a batch
\* that was checked before the row existed.
THEOREM ReviewDroppedOnlyBlindlyAlways == Spec => ReviewDroppedOnlyBlindly
<1>1. ASSUME IInv, [Next]_vars, NEW r \in Rows, DropsReview(r)
      PROVE  \E p \in Transactions : At(p, "commit") /\ r \in tx[p].retried \cup tx[p].blind
  <2>1. rows'[r] # rows[r]
    BY <1>1 DEF DropsReview
  <2>2. PICK p \in Transactions : At(p, "commit") /\ Succeeds(rows[r], rows'[r], r, Marks(p))
    BY <1>1, <2>1, RowReplaced
  <2>3. r \in Marks(p)
    BY <1>1, <2>2 DEF DropsReview, SameRow, Succeeds
  <2>4. QED BY <2>2, <2>3 DEF Marks
<1>2. IInv /\ [Next]_vars =>
        [\A r \in Rows : DropsReview(r) =>
           \E p \in Transactions : At(p, "commit") /\ r \in tx[p].retried \cup tx[p].blind]_vars
  BY <1>1
<1>3. QED BY <1>2, LearningInvariant, PTL DEF Spec, ReviewDroppedOnlyBlindly

=============================================================================
