--------------------------- MODULE ServerRecords ---------------------------
(***************************************************************************)
(* Two records the server itself keeps in userinteractions: the cursor of  *)
(* a user's weekly digests and the configuration of one entity.  Both are  *)
(* written by upsertInteractiveRecord without audit events, which drops a  *)
(* record older than the stored one.  The cursor is read, compared and     *)
(* written without a lock, by the send worker and by webhooks; the         *)
(* configuration under an advisory lock, against the version its editor    *)
(* read.  The servers' clocks may differ; two writes of a row never get    *)
(* the same time.                                                          *)
(***************************************************************************)
EXTENDS FiniteSets, Naturals

CONSTANTS
  Digests,      \* the digests' outbox rows, numbered by their watermark
  Reconcilers,  \* executions of reconcile: send workers and webhook handlers
  Editors,      \* executions of upsertCampaignEntityConfig
  Instants,     \* readings of a server's clock
  MaxWork       \* bound: reconciliations and edits made

ASSUME InstantsAssumption == Digests \cup Instants \subseteq Nat \ {0}
ASSUME MaxWorkAssumption == MaxWork \in Nat

VARIABLES
  cursor,       \* the cursor's record: watermark and updatedAt, 0 when there is none
  sentAt,       \* the times of sending that each digest's row has had
  reconciler,   \* the digest and the time each execution is about to write, 0 when it is idle
  config,       \* the configuration: record.updatedAt, version (updated_at), its editor's values
  editor,       \* each execution: the version its editor had read, the record it reads
  advisoryLock, \* who holds acquireCampaignEntityConfigTransactionLock
  work,         \* reconciliations and edits made
  reconciled    \* history: digests whose reconciliation succeeded

recordVars == <<cursor, sentAt, reconciler, config, editor, advisoryLock, work, reconciled>>
configVars == <<config, editor, advisoryLock>>
cursorVars == <<cursor, sentAt, reconciler, reconciled>>

Nobody == "nobody"

\* Nobody is not the session of an editor.
ASSUME EditorsAssumption == Nobody \notin Editors

Idling == [digest |-> 0, sent |-> 0]
NotEditing == [at |-> "idle", expected |-> 0, updated |-> 0]

RecordTypeOK ==
  /\ cursor \in [watermark: Digests \cup {0}, updated: Instants \cup {0}]
  /\ sentAt \in [Digests -> SUBSET Instants]
  /\ reconciler \in [Reconcilers -> [digest: Digests \cup {0}, sent: Instants \cup {0}]]
  /\ config \in [updated: Nat, version: 0..MaxWork, by: Editors \cup {Nobody}]
  /\ editor \in [Editors -> [at: {"idle", "lock", "read", "write"}, expected: 0..MaxWork, updated: Nat]]
  /\ advisoryLock \in Editors \cup {Nobody}
  /\ work \in 0..MaxWork
  /\ reconciled \subseteq Digests

RecordInit ==
  /\ cursor = [watermark |-> 0, updated |-> 0]
  /\ sentAt = [d \in Digests |-> {}] /\ reconciler = [r \in Reconcilers |-> Idling] /\ reconciled = {}
  /\ config = [updated |-> 0, version |-> 0, by |-> Nobody]
  /\ editor = [e \in Editors |-> NotEditing] /\ advisoryLock = Nobody
  /\ work = 0

UpsertedBlindly(stored, record) == record

\* doUpsertInteractiveRecord without audit events: a stale record is dropped,
\* which the caller is not told.
Upserted(stored, record) == IF record.updated < stored.updated THEN stored ELSE record

-----------------------------------------------------------------------------
(* The cursor: reconcile after a digest was sent, or was reported as sent *)

\* The send worker reconciles with its own time of sending, a webhook with the
\* row's, which the event of a delivery has set to the provider's.
SendDigest(d, now) ==
  /\ now \notin sentAt[d]
  /\ sentAt' = [sentAt EXCEPT ![d] = @ \cup {now}]
  /\ UNCHANGED <<cursor, reconciler, reconciled, configVars, work>>

\* getWeeklyDigestCursor: nothing to do when the cursor is at the digest or beyond.
ReadCursor(r, d, sent) ==
  /\ reconciler[r] = Idling /\ sent \in sentAt[d] /\ work < MaxWork
  /\ work' = work + 1
  /\ IF cursor.watermark >= d
     THEN reconciled' = reconciled \cup {d} /\ UNCHANGED reconciler
     ELSE reconciler' = [reconciler EXCEPT ![r] = [digest |-> d, sent |-> sent]] /\ UNCHANGED reconciled
  /\ UNCHANGED <<cursor, sentAt, configVars>>

\* upsertWeeklyDigestCursor: the record's updatedAt is the time of sending.
WriteCursor(r) ==
  /\ reconciler[r] # Idling
  /\ LET d == reconciler[r].digest IN
       /\ cursor' = Upserted(cursor, [watermark |-> d, updated |-> reconciler[r].sent])
       /\ reconciled' = reconciled \cup {d}
  /\ reconciler' = [reconciler EXCEPT ![r] = Idling]
  /\ UNCHANGED <<sentAt, configVars, work>>

\* A failure is logged; nothing repeats the reconciliation but another webhook.
ReconcileFails(r) ==
  /\ reconciler[r] # Idling
  /\ reconciler' = [reconciler EXCEPT ![r] = Idling]
  /\ UNCHANGED <<cursor, sentAt, reconciled, configVars, work>>

-----------------------------------------------------------------------------
(* upsertCampaignEntityConfig *)

EndEdit(e) ==
  /\ editor' = [editor EXCEPT ![e] = NotEditing]
  /\ advisoryLock' = IF advisoryLock = e THEN Nobody ELSE advisoryLock

\* expectedUpdatedAt is a version the editor has read; 0 is null.
Edit(e, version) ==
  /\ editor[e].at = "idle" /\ work < MaxWork
  /\ work' = work + 1
  /\ editor' = [editor EXCEPT ![e].at = "lock", ![e].expected = version]
  /\ UNCHANGED <<cursorVars, config, advisoryLock>>

LockConfig(e) ==
  /\ editor[e].at = "lock" /\ advisoryLock = Nobody
  /\ advisoryLock' = e
  /\ editor' = [editor EXCEPT ![e].at = "read"]
  /\ UNCHANGED <<cursorVars, config, work>>

\* getRecordForUpdate, and the conflict when the version is another: nothing
\* was expected and there is one, it has changed, or it does not exist.
ReadConfig(e) ==
  /\ editor[e].at = "read"
  /\ IF editor[e].expected # config.version THEN EndEdit(e)
     ELSE /\ editor' = [editor EXCEPT ![e].at = "write", ![e].updated = config.updated]
          /\ UNCHANGED advisoryLock
  /\ UNCHANGED <<cursorVars, config, work>>

\* getNextCampaignEntityConfigRecordUpdatedAt: later than the one it read.
NextUpdatedAt(previous, now) == IF previous # 0 /\ now <= previous THEN previous + 1 ELSE now

WriteConfig(e, now) ==
  /\ editor[e].at = "write"
  /\ config' = Upserted(config, [updated |-> NextUpdatedAt(editor[e].updated, now),
                                 version |-> config.version + 1, by |-> e])
  /\ EndEdit(e)
  /\ UNCHANGED <<cursorVars, work>>

EditFails(e) ==
  /\ editor[e].at # "idle"
  /\ EndEdit(e)
  /\ UNCHANGED <<cursorVars, config, work>>

RecordNext ==
  \/ \E d \in Digests :
       \/ \E now \in Instants : SendDigest(d, now)
       \/ \E r \in Reconcilers, sent \in Instants : ReadCursor(r, d, sent)
  \/ \E r \in Reconcilers : WriteCursor(r) \/ ReconcileFails(r)
  \/ \E e \in Editors :
       \/ \E version \in 0..config.version : Edit(e, version)
       \/ LockConfig(e) \/ ReadConfig(e) \/ EditFails(e)
       \/ \E now \in Instants : WriteConfig(e, now)

RecordSpec == RecordInit /\ [][RecordNext]_recordVars

-----------------------------------------------------------------------------
(* Properties *)

\* By the servers' and the provider's clocks a digest was sent no later than one
\* of an earlier watermark: its record counts as stale, or the other's does not.
SentOutOfOrder ==
  \E d, e \in Digests : d < e /\ \E early \in sentAt[e], late \in sentAt[d] : late >= early

\* The cursor never goes back and has every digest behind it that was
\* reconciled, however reconciliations overlap, unless digests were sent out of
\* order.  A configuration is only replaced by an edit of just that version,
\* and an accepted edit is what is stored then, whatever the servers' clocks say.
RecordsMoveForward ==
  [][/\ cursor'.watermark < cursor.watermark => SentOutOfOrder
     /\ \A d \in reconciled' : cursor'.watermark >= d \/ SentOutOfOrder
     /\ config' # config => \E e \in Editors :
          editor[e].expected = config.version /\ config'.by = e
     /\ \A e \in Editors, now \in Instants : WriteConfig(e, now) => config'.by = e]_recordVars
=============================================================================
