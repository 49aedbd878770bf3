------------------------- MODULE NotificationOutbox -------------------------
(***************************************************************************)
(* The notification outbox pipeline (modules/notification-delivery).       *)
(*                                                                         *)
(* A row of table notificationsoutbox is created by a producer, rendered   *)
(* by a compose worker, handed to the e-mail provider by a send worker,    *)
(* confirmed or refused by provider webhooks, and swept by the recovery    *)
(* worker when it stays too long where it is.  The workers share nothing   *)
(* but the row and two BullMQ queues; every database call, queue call and  *)
(* provider call below is an action of its own, so that any other actor    *)
(* can move between two of them.                                           *)
(*                                                                         *)
(* Time is a set of ages, each counted in ticks and capped at the only     *)
(* limit the code compares it with; the model needs no clock bound.        *)
(***************************************************************************)
EXTENDS Naturals, FiniteSets

CONSTANTS
  Deliveries,      \* outbox rows
  Digests,         \* those of type anaf_forexebug_digest
  Refreshables,    \* those whose producer refreshes the metadata (thread_started)
  Weeklies,        \* those of the weekly progress digest, reopened when skipped
  Senders,         \* concurrent executions of processSendJob
  Composers,       \* concurrent executions of composeExistingOutbox
  None,            \* no compose claim
  MaxAttempts,     \* MAX_RETRY_ATTEMPTS
  Threshold,       \* STUCK_SENDING_THRESHOLD_MINUTES, in ticks
  Window,          \* the 24 hours of a provider idempotency key, in ticks
  Outcomes,        \* what can become of a mail: sets of provider events
  TimelyWorkers,   \* TRUE: a live worker finishes a row before Threshold
  MaxFaults,       \* bound on failures: crashes, lost calls, stalled jobs,
                   \*   repeated events
  MaxChanges       \* bound on producer requests and source changes

ASSUME KindsAssumption ==
  /\ Digests \subseteq Deliveries
  /\ Refreshables \subseteq Deliveries \ Digests
  /\ Weeklies \subseteq Deliveries \ (Digests \cup Refreshables)
ASSUME BoundsAssumption ==
  /\ MaxAttempts \in Nat \ {0}
  /\ Threshold \in Nat \ {0}
  /\ Window \in Nat /\ Threshold < Window
  /\ MaxFaults \in Nat /\ MaxChanges \in Nat
  /\ TimelyWorkers \in BOOLEAN
ASSUME WorkersAssumption ==
  /\ None \notin Composers
  /\ {"none", "waiting"} \cap (Senders \cup Composers) = {}
  /\ IsFiniteSet(Senders)

VARIABLES
  status, version, rendered, claim, attempts,  \* columns of the row
  idle,            \* age of COALESCE(last_attempt_at, created_at)
  sentAge,         \* age of sent_at, kept while the row is sent
  source,          \* version of the notifications or the call a row is built from
  composeJob, sendJob,     \* the row's job in each queue, or its worker
  composer, sender,        \* the executions of the two processors
  sweep,           \* the entries of each row on the running recovery job's lists
  keyAge, emails, webhooks,  \* the provider: key age, mails sent, events due
  calls,           \* history: calls of the provider for an Unreset row
  robbed,          \* history: rows that a sweep took from a timely worker
  faults, changes

rowVars == <<status, version, rendered, claim, attempts, idle, sentAge>>
jobVars == <<composeJob, sendJob>>
providerVars == <<keyAge, emails, webhooks, calls>>
budgetVars == <<faults, changes>>
vars == <<rowVars, source, jobVars, composer, sender, sweep, robbed, providerVars, budgetVars>>

CLAIMABLE_STATUSES == {"pending", "failed_transient"}
TERMINAL_STATUSES == {"delivered", "webhook_timeout", "failed_permanent",
                      "suppressed", "skipped_unsubscribed", "skipped_no_email"}
DeliveryStatus == CLAIMABLE_STATUSES \cup TERMINAL_STATUSES
                    \cup {"composing", "sending", "sent"}
Statuses == DeliveryStatus \cup {"absent"}

Unrendered == 0
IsRendered(d) == rendered[d] # Unrendered
isReadyToSendDelivery(d) == status[d] \in CLAIMABLE_STATUSES /\ IsRendered(d)

\* Rows whose attempts nothing resets.
Unreset == Deliveries \ (Digests \cup Refreshables)

NoKey == Window + 1          \* the provider has never seen the row's key
Older(age, limit) == IF age < limit THEN age + 1 ELSE age

\* A sender keeps only what its remaining steps read.
Busy(d, pc, v, next) ==
  [pc |-> pc, id |-> d, version |-> v, content |-> 0, attempts |-> 0, next |-> next]
IdleSender == Busy(None, "idle", 0, "absent")
IdleComposer == [pc |-> "idle", id |-> None, version |-> 0]

ComposerPcs == {"idle", "claim", "lookup", "render", "fail", "persist", "release",
                "release_retry", "enqueue"}
SenderPcs == {"idle", "claim", "check", "mark", "refresh", "requeue", "requeue_failed",
              "send", "record"}
SweepLists == {"stuck", "composing_orphan", "awaiting", "expired"}
SweepRetries == {"retry_compose", "retry_send", "retry_stuck"}
SweepEntries == SweepLists \cup SweepRetries
Events == {"sent", "delivered", "bounced_permanent", "bounced_transient",
           "complained", "failed"}
ASSUME OutcomesAssumption == Outcomes \subseteq SUBSET Events /\ Outcomes # {}

Init ==
  /\ status = [d \in Deliveries |-> "absent"]
  /\ version = [d \in Deliveries |-> 1]
  /\ rendered = [d \in Deliveries |-> Unrendered]
  /\ claim = [d \in Deliveries |-> None]
  /\ attempts = [d \in Deliveries |-> 0]
  /\ idle = [d \in Deliveries |-> 0]
  /\ sentAge = [d \in Deliveries |-> 0]
  /\ source = [d \in Deliveries |-> 1]
  /\ composeJob = [d \in Deliveries |-> "none"]
  /\ sendJob = [d \in Deliveries |-> "none"]
  /\ composer = [c \in Composers |-> IdleComposer]
  /\ sender = [s \in Senders |-> IdleSender]
  /\ sweep = [d \in Deliveries |-> {}] /\ robbed = {}
  /\ keyAge = [d \in Deliveries |-> NoKey]
  /\ emails = [d \in Deliveries |-> 0]
  /\ webhooks = [d \in Deliveries |-> {}]
  /\ calls = [d \in Deliveries |-> 0]
  /\ faults = 0 /\ changes = 0

-----------------------------------------------------------------------------
(* Failures and requests draw on a budget, so that they are finitely many. *)

Fault == faults < MaxFaults /\ faults' = faults + 1 /\ UNCHANGED changes
NoFault == UNCHANGED budgetVars
Request == changes < MaxChanges /\ changes' = changes + 1

-----------------------------------------------------------------------------
(* The queues.  A job's id is its row's id, so adding a job that exists, in *)
(* any state, is ignored.  A finished job is removed; a job that threw is   *)
(* retried with backoff until its attempts are used up, then removed.       *)

Enqueued(job, d) == IF job[d] = "none" THEN [job EXCEPT ![d] = "waiting"] ELSE job
Finished(job, d, w) == IF job[d] = w THEN [job EXCEPT ![d] = "none"] ELSE job
Thrown(job, d, w) ==
  IF job[d] = w
    THEN {[job EXCEPT ![d] = "none"], [job EXCEPT ![d] = "waiting"]}
    ELSE {job}

EnqueueCompose(d) == composeJob' = Enqueued(composeJob, d)
enqueueSendJob(d) == sendJob' = Enqueued(sendJob, d)

-----------------------------------------------------------------------------
(* The repository's conditional updates.                                    *)

UpdateStatusIfCurrentIn(d, allowed, next) ==
  status' = IF status[d] \in allowed THEN [status EXCEPT ![d] = next] ELSE status

UpdateStatusIfStillSending(d, next) == UpdateStatusIfCurrentIn(d, {"sending"}, next)

\* The same update guarded by the compose claim that the caller was given.
UpdateStatusIfClaimed(d, c, next) ==
  status' = IF status[d] = "composing" /\ claim[d] = c
              THEN [status EXCEPT ![d] = next] ELSE status

\* Mutant: the refresh keeps the content rendered from the old metadata.
ResetForRecomposeKeepsContent(d, v) ==
  /\ status' = [status EXCEPT ![d] = "pending"]
  /\ version' = [version EXCEPT ![d] = v]
  /\ claim' = [claim EXCEPT ![d] = None]
  /\ attempts' = [attempts EXCEPT ![d] = 0]
  /\ UNCHANGED <<rendered, idle, sentAge>>

\* Both refreshes replace the metadata, and with it the compose claim, and
\* clear everything that was derived from the old metadata.  last_attempt_at
\* becomes NULL, so the row's age is counted from created_at again.
ResetForRecompose(d, v) ==
  /\ status' = [status EXCEPT ![d] = "pending"]
  /\ version' = [version EXCEPT ![d] = v]
  /\ rendered' = [rendered EXCEPT ![d] = Unrendered]
  /\ claim' = [claim EXCEPT ![d] = None]
  /\ attempts' = [attempts EXCEPT ![d] = 0]
  /\ \E age \in idle[d] .. Threshold : idle' = [idle EXCEPT ![d] = age]
  /\ sentAge' = [sentAge EXCEPT ![d] = 0]

-----------------------------------------------------------------------------
(* Producers.                                                               *)

\* enqueueCreatedOrReusedOutbox with a new delivery key; the enqueue that
\* follows the insert may fail, and the caller only reports it.
Create(d) ==
  /\ status[d] = "absent"
  /\ status' = [status EXCEPT ![d] = "pending"]
  /\ \/ EnqueueCompose(d) /\ NoFault
     \/ UNCHANGED composeJob /\ Fault
  /\ UNCHANGED <<version, rendered, claim, attempts, idle, sentAge, source,
                 sendJob, composer, sender, sweep, robbed, providerVars>>

\* The same call with a key that exists: only a compose job is added, unless
\* the producer brings metadata.
Reuse(d) ==
  /\ d \notin Refreshables /\ status[d] # "absent"
  /\ Request /\ UNCHANGED faults
  /\ EnqueueCompose(d)
  /\ UNCHANGED <<rowVars, source, sendJob, composer, sender, sweep, robbed, providerVars>>

\* refreshMetadataForRecomposeIfReplayable with the metadata of this call, then
\* the compose job; between the two the process may stop, and the enqueue may
\* fail.
RefreshReused(d) ==
  /\ d \in Refreshables /\ status[d] # "absent"
  /\ IF status[d] \in {"pending", "failed_transient", "composing"}
       THEN ResetForRecompose(d, source[d] + 1)
       ELSE UNCHANGED rowVars
  /\ source' = [source EXCEPT ![d] = @ + 1]
  /\ Request
  /\ \/ EnqueueCompose(d) /\ UNCHANGED faults
     \/ UNCHANGED composeJob /\ faults < MaxFaults /\ faults' = faults + 1
  /\ UNCHANGED <<sendJob, composer, sender, sweep, robbed, providerVars>>

Reopened == {"skipped_no_email", "skipped_unsubscribed"}

\* The weekly digest's producer reopens a row that was skipped.
ReplaySkipped(d) ==
  /\ d \in Weeklies
  /\ status[d] \in Reopened
  /\ status' = [status EXCEPT ![d] = "pending"]
  /\ Request
  /\ \/ EnqueueCompose(d) /\ UNCHANGED faults
     \/ UNCHANGED composeJob /\ faults < MaxFaults /\ faults' = faults + 1
  /\ UNCHANGED <<version, rendered, claim, attempts, idle, sentAge, source,
                 sendJob, composer, sender, sweep, robbed, providerVars>>

\* A user edits the subscriptions that a digest bundles.
SourceChanges(d) ==
  /\ d \in Digests
  /\ Request /\ UNCHANGED faults
  /\ source' = [source EXCEPT ![d] = @ + 1]
  /\ UNCHANGED <<rowVars, jobVars, composer, sender, sweep, robbed, providerVars>>

-----------------------------------------------------------------------------
(* The compose worker: composeExistingOutbox.                               *)

ComposerAt(c, pc) == composer[c].pc = pc
ComposerGoes(c, pc) == composer' = [composer EXCEPT ![c].pc = pc]

\* The job ends well, or throws and is left to the queue's retries.
ComposeFinishes(c) ==
  /\ composer' = [composer EXCEPT ![c] = IdleComposer]
  /\ composeJob' = Finished(composeJob, composer[c].id, c)
ComposeThrows(c) ==
  /\ composer' = [composer EXCEPT ![c] = IdleComposer]
  /\ composeJob' \in Thrown(composeJob, composer[c].id, c)

composeFrame == <<source, sender, sweep, robbed, providerVars>>

TakeComposeJob(c, d) ==
  /\ ComposerAt(c, "idle") /\ composeJob[d] = "waiting"
  /\ composeJob' = [composeJob EXCEPT ![d] = c]
  /\ composer' = [composer EXCEPT ![c] = [IdleComposer EXCEPT !.pc = "claim", !.id = d]]
  /\ UNCHANGED <<rowVars, sendJob, composeFrame, budgetVars>>

\* UPDATE ... SET status = 'composing', a fresh __composeClaimId: the claim is
\* identified by the execution that holds it.
claimForCompose(c) ==
  LET d == composer[c].id IN
  /\ ComposerAt(c, "claim")
  /\ \/ /\ status[d] = "pending" /\ ~IsRendered(d)
        /\ status' = [status EXCEPT ![d] = "composing"]
        /\ idle' = [idle EXCEPT ![d] = 0]
        /\ claim' = [claim EXCEPT ![d] = c]
        /\ composer' = [composer EXCEPT ![c].pc = "render", ![c].version = version[d]]
        /\ NoFault /\ UNCHANGED composeJob
     \/ /\ ~(status[d] = "pending" /\ ~IsRendered(d))
        /\ ComposerGoes(c, "lookup")
        /\ NoFault /\ UNCHANGED <<status, idle, claim, composeJob>>
     \/ /\ Fault /\ ComposeThrows(c)
        /\ UNCHANGED <<status, idle, claim>>
  /\ UNCHANGED <<version, rendered, attempts, sentAge, sendJob, composeFrame>>

\* Not claimable: a row that is ready is passed on to the send queue, any
\* other row is left alone.
LookUpUnclaimable(c) ==
  LET d == composer[c].id IN
  /\ ComposerAt(c, "lookup")
  /\ \/ /\ isReadyToSendDelivery(d)
        /\ ComposerGoes(c, "enqueue")
        /\ NoFault /\ UNCHANGED composeJob
     \/ ~isReadyToSendDelivery(d) /\ ComposeFinishes(c) /\ NoFault
     \/ ComposeThrows(c) /\ Fault
  /\ UNCHANGED <<rowVars, sendJob, composeFrame>>

\* Building the template's properties and rendering it: content, a permanent
\* failure, or (bundles only, which read the database) a retryable one.
Render(c) ==
  /\ ComposerAt(c, "render")
  /\ \/ ComposerGoes(c, "persist") /\ NoFault
     \/ ComposerGoes(c, "fail") /\ NoFault
     \/ ComposerGoes(c, "release_retry") /\ composer[c].id \in Digests /\ Fault
  /\ UNCHANGED <<rowVars, jobVars, composeFrame>>

failOutboxPermanently(c) ==
  LET d == composer[c].id IN
  /\ ComposerAt(c, "fail")
  /\ \/ UpdateStatusIfClaimed(d, c, "failed_permanent") /\ ComposeFinishes(c) /\ NoFault
     \/ UNCHANGED status /\ ComposeThrows(c) /\ Fault
  /\ UNCHANGED <<version, rendered, claim, attempts, idle, sentAge, sendJob, composeFrame>>

\* updateRenderedContent: only while the row is composing under this claim.
updateRenderedContent(c) ==
  LET d == composer[c].id IN
  /\ ComposerAt(c, "persist")
  /\ \/ /\ status[d] = "composing" /\ claim[d] = c
        /\ rendered' = [rendered EXCEPT ![d] = composer[c].version]
        /\ ComposerGoes(c, "release")
        /\ NoFault /\ UNCHANGED composeJob
     \/ /\ ~(status[d] = "composing" /\ claim[d] = c)
        /\ ComposeFinishes(c)
        /\ NoFault /\ UNCHANGED rendered
     \/ ComposerGoes(c, "release_retry") /\ Fault /\ UNCHANGED <<rendered, composeJob>>
  /\ UNCHANGED <<status, version, claim, attempts, idle, sentAge, sendJob, composeFrame>>

\* releaseComposeClaim.  Its outcome is not consulted, except for an error,
\* which throws; after a failed compose the job throws in any case.
releaseComposeClaim(c) ==
  LET d == composer[c].id IN
  /\ composer[c].pc \in {"release", "release_retry"}
  /\ \/ /\ UpdateStatusIfClaimed(d, c, "pending") /\ NoFault
        /\ IF ComposerAt(c, "release")
             THEN ComposerGoes(c, "enqueue") /\ UNCHANGED composeJob
             ELSE ComposeThrows(c)
     \/ UNCHANGED status /\ ComposeThrows(c) /\ Fault
  /\ UNCHANGED <<version, rendered, claim, attempts, idle, sentAge, sendJob, composeFrame>>

EnqueueComposed(c) ==
  /\ ComposerAt(c, "enqueue")
  /\ \/ enqueueSendJob(composer[c].id) /\ ComposeFinishes(c) /\ NoFault
     \/ UNCHANGED sendJob /\ ComposeThrows(c) /\ Fault
  /\ UNCHANGED <<rowVars, composeFrame>>

\* The process of a worker dies: the queue notices the stalled job and runs it
\* again, or drops it when it had stalled before.
CrashComposer(c) ==
  /\ ~ComposerAt(c, "idle")
  /\ ComposeThrows(c) /\ Fault
  /\ UNCHANGED <<rowVars, sendJob, composeFrame>>

\* The worker lives but its lock on the job lapses: another may run the job.
StallCompose(c) ==
  /\ ~ComposerAt(c, "idle") /\ composeJob[composer[c].id] = c
  /\ composeJob' = [composeJob EXCEPT ![composer[c].id] = "waiting"]
  /\ Fault
  /\ UNCHANGED <<rowVars, sendJob, composer, composeFrame>>

ComposerStep(c) ==
  \/ \E d \in Deliveries : TakeComposeJob(c, d)
  \/ claimForCompose(c) \/ LookUpUnclaimable(c) \/ Render(c)
  \/ failOutboxPermanently(c) \/ updateRenderedContent(c)
  \/ releaseComposeClaim(c) \/ EnqueueComposed(c)

-----------------------------------------------------------------------------
(* The provider (external): an idempotency key seen within its window is     *)
(* answered without sending; otherwise a mail goes out and its events follow. *)

EmailCap == 2     \* one duplicate is as bad as many

ProviderIgnores == UNCHANGED <<keyAge, emails, webhooks>>

ProviderAccepts(d) ==
  IF keyAge[d] < Window
    THEN ProviderIgnores
    ELSE /\ keyAge' = [keyAge EXCEPT ![d] = 0]
         /\ emails' = [emails EXCEPT ![d] = Older(@, EmailCap)]
         /\ \E outcome \in Outcomes :
              webhooks' = [webhooks EXCEPT ![d] = @ \cup {"sent"} \cup outcome]

-----------------------------------------------------------------------------
(* The send worker: processSendJob.                                          *)

SenderAt(s, pc) == sender[s].pc = pc
SenderGoes(s, pc) == sender' = [sender EXCEPT ![s] = Busy(sender[s].id, pc, 0, "absent")]
SenderMarks(s, next) == sender' = [sender EXCEPT ![s] = Busy(sender[s].id, "mark", 0, next)]

SendFinishes(s) ==
  /\ sender' = [sender EXCEPT ![s] = IdleSender]
  /\ sendJob' = Finished(sendJob, sender[s].id, s)
SendThrows(s) ==
  /\ sender' = [sender EXCEPT ![s] = IdleSender]
  /\ sendJob' \in Thrown(sendJob, sender[s].id, s)

sendFrame == <<source, composer, sweep, robbed>>

TakeSendJob(s, d) ==
  /\ SenderAt(s, "idle") /\ sendJob[d] = "waiting"
  /\ sendJob' = [sendJob EXCEPT ![d] = s]
  /\ sender' = [sender EXCEPT ![s] = Busy(d, "claim", 0, "absent")]
  /\ UNCHANGED <<rowVars, composeJob, sendFrame, providerVars, budgetVars>>

\* The worker goes on with the row as RETURNING * gave it.
SenderClaims(s, d) ==
  sender' = [sender EXCEPT ![s] =
               [pc |-> "check", id |-> d, version |-> version[d], content |-> rendered[d],
                attempts |-> attempts'[d], next |-> "absent"]]

\* Mutant: the claim does not touch last_attempt_at.
claimForSendingUntimed(s) ==
  LET d == sender[s].id IN
  /\ SenderAt(s, "claim")
  /\ IF isReadyToSendDelivery(d)
       THEN /\ status' = [status EXCEPT ![d] = "sending"]
            /\ attempts' = [attempts EXCEPT ![d] = Older(@, MaxAttempts + 1)]
            /\ SenderClaims(s, d)
            /\ UNCHANGED sendJob
       ELSE SendFinishes(s) /\ UNCHANGED <<status, attempts>>
  /\ NoFault
  /\ UNCHANGED <<version, rendered, claim, idle, sentAge, composeJob, sendFrame, providerVars>>

\* The atomic claim.  attempts is capped one above the limit it is compared
\* with.
claimForSending(s) ==
  LET d == sender[s].id IN
  /\ SenderAt(s, "claim")
  /\ \/ /\ isReadyToSendDelivery(d)
        /\ status' = [status EXCEPT ![d] = "sending"]
        /\ attempts' = [attempts EXCEPT ![d] = Older(@, MaxAttempts + 1)]
        /\ idle' = [idle EXCEPT ![d] = 0]
        /\ SenderClaims(s, d)
        /\ NoFault /\ UNCHANGED sendJob
     \/ ~isReadyToSendDelivery(d) /\ SendFinishes(s) /\ NoFault
        /\ UNCHANGED <<status, attempts, idle>>
     \/ SendThrows(s) /\ Fault /\ UNCHANGED <<status, attempts, idle>>
  /\ UNCHANGED <<version, rendered, claim, sentAge, composeJob, sendFrame, providerVars>>

\* Mutant: one attempt too many.
CheckBeforeSendOffByOne(s) ==
  /\ SenderAt(s, "check")
  /\ IF sender[s].attempts > MaxAttempts + 1
       THEN SenderMarks(s, "failed_permanent")
       ELSE sender' = [sender EXCEPT ![s].pc = "send", ![s].attempts = 0]
  /\ NoFault
  /\ UNCHANGED <<rowVars, jobVars, sendFrame, providerVars>>

\* Everything processSendJob reads before it sends: anonymization, global
\* unsubscribe, the eligibility rules of the row's type, the attempt limit,
\* the address.  The first rule that fails decides the status to write.
CheckBeforeSend(s) ==
  LET d == sender[s].id IN
  /\ SenderAt(s, "check")
  /\ \/ \E next \in {"skipped_unsubscribed", "skipped_no_email", "suppressed"} :
          SenderMarks(s, next) /\ NoFault
     \/ \E next \in {"failed_transient", "failed_permanent"} :
          SenderMarks(s, next) /\ Fault
     \/ /\ d \in Digests /\ source[d] # sender[s].version
        /\ sender' = [sender EXCEPT ![s] = Busy(d, "refresh", source[d], "absent")]
        /\ NoFault
     \/ /\ d \in Digests => source[d] = sender[s].version
        /\ IF sender[s].attempts > MaxAttempts
             THEN SenderMarks(s, "failed_permanent")
             ELSE sender' = [sender EXCEPT ![s].pc = "send", ![s].attempts = 0]
        /\ NoFault
  /\ UNCHANGED <<rowVars, jobVars, sendFrame, providerVars>>

\* A status other than sent, written only if the row is still sending.  The
\* update's own failure is not looked at; a retryable cause is thrown.
MarkAndStop(s) ==
  LET d == sender[s].id IN
  /\ SenderAt(s, "mark")
  /\ \/ UpdateStatusIfStillSending(d, sender[s].next) /\ NoFault
     \/ UNCHANGED status /\ Fault
  /\ IF sender[s].next = "failed_transient" THEN SendThrows(s) ELSE SendFinishes(s)
  /\ UNCHANGED <<version, rendered, claim, attempts, idle, sentAge, composeJob,
                 sendFrame, providerVars>>

\* refreshSendingDigestMetadataForRecompose: the digest's sources are not the
\* ones it was composed from.  The row need only be sending, by anyone.
RefreshSendingDigest(s) ==
  LET d == sender[s].id IN
  /\ SenderAt(s, "refresh")
  /\ \/ /\ status[d] = "sending"
        /\ ResetForRecompose(d, sender[s].version)
        /\ SenderGoes(s, "requeue")
        /\ NoFault /\ UNCHANGED sendJob
     \/ status[d] # "sending" /\ SendFinishes(s) /\ NoFault /\ UNCHANGED rowVars
     \/ \E next \in {"failed_transient", "failed_permanent"} :
          SenderMarks(s, next) /\ Fault /\ UNCHANGED <<rowVars, sendJob>>
  /\ UNCHANGED <<composeJob, sendFrame, providerVars>>

RequeueCompose(s) ==
  LET d == sender[s].id IN
  /\ SenderAt(s, "requeue")
  /\ \/ EnqueueCompose(d) /\ SendFinishes(s) /\ NoFault
     \/ SenderGoes(s, "requeue_failed") /\ Fault /\ UNCHANGED jobVars
  /\ UNCHANGED <<rowVars, sendFrame, providerVars>>

AbandonRecompose(s) ==
  /\ SenderAt(s, "requeue_failed")
  /\ \/ UpdateStatusIfCurrentIn(sender[s].id, {"pending"}, "failed_permanent") /\ NoFault
     \/ UNCHANGED status /\ Fault
  /\ SendFinishes(s)
  /\ UNCHANGED <<version, rendered, claim, attempts, idle, sentAge, composeJob,
                 sendFrame, providerVars>>

\* Mutant: the error result of the provider is not looked at.
SendEmailUnchecked(s) ==
  /\ SenderAt(s, "send")
  /\ SenderGoes(s, "record") /\ NoFault
  /\ ProviderAccepts(sender[s].id) \/ ProviderIgnores
  /\ UNCHANGED <<rowVars, jobVars, sendFrame, calls>>

\* emailSender.send: accepted; refused; or accepted but reported as an error,
\* when the answer is lost.
SendEmail(s) ==
  LET d == sender[s].id IN
  /\ SenderAt(s, "send")
  /\ \/ ProviderAccepts(d) /\ SenderGoes(s, "record") /\ NoFault
     \/ \E next \in {"failed_transient", "failed_permanent"} :
          /\ SenderMarks(s, next) /\ Fault
          /\ ProviderAccepts(d) \/ ProviderIgnores
  /\ calls' = IF d \in Unreset THEN [calls EXCEPT ![d] = Older(@, MaxAttempts + 1)] ELSE calls
  /\ UNCHANGED <<rowVars, jobVars, sendFrame>>

\* The status update after a successful send; its failure is only logged.
RecordSent(s) ==
  LET d == sender[s].id IN
  /\ SenderAt(s, "record")
  /\ \/ /\ UpdateStatusIfStillSending(d, "sent")
        /\ sentAge' = IF status[d] = "sending" THEN [sentAge EXCEPT ![d] = 0] ELSE sentAge
        /\ NoFault
     \/ UNCHANGED <<status, sentAge>> /\ Fault
  /\ SendFinishes(s)
  /\ UNCHANGED <<version, rendered, claim, attempts, idle, composeJob,
                 sendFrame, providerVars>>

CrashSender(s) ==
  /\ ~SenderAt(s, "idle")
  /\ SendThrows(s) /\ Fault
  /\ UNCHANGED <<rowVars, composeJob, sendFrame, providerVars>>

StallSend(s) ==
  /\ ~SenderAt(s, "idle") /\ sendJob[sender[s].id] = s
  /\ sendJob' = [sendJob EXCEPT ![sender[s].id] = "waiting"]
  /\ Fault
  /\ UNCHANGED <<rowVars, composeJob, sender, sendFrame, providerVars>>

SenderStep(s) ==
  \/ \E d \in Deliveries : TakeSendJob(s, d)
  \/ claimForSending(s) \/ CheckBeforeSend(s) \/ MarkAndStop(s)
  \/ RefreshSendingDigest(s) \/ RequeueCompose(s) \/ AbandonRecompose(s)
  \/ SendEmail(s) \/ RecordSent(s)

-----------------------------------------------------------------------------
(* The provider's webhooks: makeResendWebhookDeliverySideEffect.handle.      *)

\* Mutant: a late transient bounce may overwrite delivered.
WebhookAllowedLate(event) ==
  IF event = "sent" THEN {"sending"} ELSE {"sending", "sent", "delivered", "webhook_timeout"}

\* The statuses that an event may overwrite, and the status it writes.
WebhookAllowed(event) ==
  CASE event = "sent" -> {"sending"}
    [] event = "delivered" -> {"sending", "sent", "webhook_timeout"}
    [] event \in {"bounced_transient", "failed"} -> {"sending", "sent"}
    [] event \in {"bounced_permanent", "complained"} ->
         {"sending", "sent", "delivered", "webhook_timeout"}

WebhookStatus(event) ==
  CASE event = "sent" -> "sent"
    [] event = "delivered" -> "delivered"
    [] event = "bounced_transient" -> "failed_transient"
    [] event = "failed" -> "failed_permanent"
    [] event \in {"bounced_permanent", "complained"} -> "suppressed"

\* Events arrive in any order, and again when the provider repeats them.  A
\* failed update is logged and answered 200, so the event is lost.
HandleWebhook(d, event) ==
  /\ event \in webhooks[d]
  /\ \/ /\ UpdateStatusIfCurrentIn(d, WebhookAllowed(event), WebhookStatus(event))
        /\ sentAge' = IF status[d] \notin WebhookAllowed(event) THEN sentAge
                      ELSE [sentAge EXCEPT ![d] = IF event = "sent" THEN keyAge[d] ELSE 0]
        /\ \/ webhooks' = [webhooks EXCEPT ![d] = @ \ {event}] /\ NoFault
           \/ UNCHANGED webhooks /\ Fault
     \/ /\ Fault /\ UNCHANGED <<status, sentAge>>
        /\ webhooks' = [webhooks EXCEPT ![d] = @ \ {event}]
  /\ UNCHANGED <<version, rendered, claim, attempts, idle, source, jobVars,
                 composer, sender, sweep, robbed, keyAge, emails, calls>>

-----------------------------------------------------------------------------
(* The recovery worker: recoverStuckSending, then the retries it returns.    *)

Aged(age) == age >= Threshold

\* last_attempt_at is NULL exactly while the metadata holds no compose claim:
\* the first claim sets both and a refresh clears both.
NeverAttempted(d) == claim[d] = None

\* The threshold's condition follows status = 'sending' without parentheses, so
\* that AND binds first: a row attempted long ago is found whatever its status.
findStuckSending(d) ==
  \/ status[d] = "sending" /\ NeverAttempted(d)
  \/ ~NeverAttempted(d) /\ Aged(idle[d])

findPendingComposeOrphans(d) ==
  status[d] \in {"pending", "composing"} /\ ~IsRendered(d) /\ Aged(idle[d])
\* Mutant: rows that failed transiently are not looked for.
findReadyToSendOrphansPending(d) == status[d] = "pending" /\ IsRendered(d) /\ Aged(idle[d])

findReadyToSendOrphans(d) == isReadyToSendDelivery(d) /\ Aged(idle[d])
findSentAwaitingWebhook(d) == status[d] = "sent" /\ Aged(sentAge[d])

\* The lists a row is found on, a sent row's with the status its age calls for.
\* An orphan whose status need not change is retried as it is.
Lists(entry, d) ==
  CASE entry = "stuck" -> findStuckSending(d)
    [] entry = "composing_orphan" -> findPendingComposeOrphans(d) /\ status[d] = "composing"
    [] entry = "retry_compose" -> findPendingComposeOrphans(d) /\ status[d] # "composing"
    [] entry = "retry_send" -> findReadyToSendOrphans(d)
    [] entry = "awaiting" -> findSentAwaitingWebhook(d) /\ sentAge[d] < Window
    [] entry = "expired" -> findSentAwaitingWebhook(d) /\ sentAge[d] >= Window
    [] OTHER -> FALSE

\* A terminal status that no producer reopens: every loop passes such a row by.
AtRest(d) ==
  status[d] \in TERMINAL_STATUSES /\ (d \in Weeklies => status[d] \notin Reopened)
FoundAs(d) == {entry \in SweepEntries : ~AtRest(d) /\ Lists(entry, d)}

sweepFrame == <<version, rendered, claim, attempts, idle, source,
                composer, sender, providerVars>>

\* The four queries, run together, before any row is touched.
SweepScan ==
  /\ \A d \in Deliveries : sweep[d] = {}
  /\ \E d \in Deliveries : FoundAs(d) # {}
  /\ sweep' = [d \in Deliveries |-> FoundAs(d)]
  /\ UNCHANGED <<status, sentAge, robbed, jobVars, sweepFrame, budgetVars>>

\* The sweep takes a row that a timely worker claimed after the sweep found it.
RobsTimely(d, allowed) ==
  TimelyWorkers /\ status[d] = "sending" /\ "sending" \in allowed /\ ~Aged(idle[d])

\* One row of the loops, of which the stuck rows' is the first: the status it
\* must still have, the status it gets and the retry that follows.
SweepRow(d, found, allowed, next, retry) ==
  /\ found \in sweep[d]
  /\ found = "stuck" \/ \A e \in Deliveries : "stuck" \notin sweep[e]
  /\ \/ /\ UpdateStatusIfCurrentIn(d, allowed, next)
        /\ sweep' = [sweep EXCEPT
             ![d] = (@ \ {found}) \cup (IF status[d] \in allowed THEN retry ELSE {})]
        /\ sentAge' = IF status[d] \in allowed THEN [sentAge EXCEPT ![d] = 0] ELSE sentAge
        /\ robbed' = IF RobsTimely(d, allowed) THEN robbed \cup {d} ELSE robbed
        /\ NoFault
     \/ /\ UNCHANGED <<status, sentAge, robbed>> /\ Fault
        /\ sweep' = [sweep EXCEPT ![d] = @ \ {found}]
  /\ UNCHANGED <<jobVars, sweepFrame>>

\* Mutants: the update is not limited to rows still sending; a status that the
\* column does not know.
RecoverStuckAnyway(d) ==
  SweepRow(d, "stuck", {"sending", "pending"}, "failed_transient", {"retry_stuck"})
RecoverStuckUntyped(d) == SweepRow(d, "stuck", {"sending"}, "failed", {"retry_stuck"})

RecoverStuck(d) == SweepRow(d, "stuck", {"sending"}, "failed_transient", {"retry_stuck"})
RecoverComposing(d) ==
  SweepRow(d, "composing_orphan", {"composing"}, "pending", {"retry_compose"})
RecoverSent(d) == SweepRow(d, "awaiting", {"sent"}, "failed_transient", {"retry_send"})
TimeOutSent(d) == SweepRow(d, "expired", {"sent"}, "webhook_timeout", {})

\* processRecoveryJob enqueues the retries when all rows are done; a row found
\* both stuck and ready to send is enqueued twice.
SweepEnqueue(d) ==
  /\ \A e \in Deliveries : sweep[e] \subseteq SweepRetries
  /\ \E retry \in sweep[d] :
       /\ sweep' = [sweep EXCEPT ![d] = @ \ {retry}]
       /\ \/ /\ IF retry = "retry_compose"
                  THEN EnqueueCompose(d) /\ UNCHANGED sendJob
                  ELSE enqueueSendJob(d) /\ UNCHANGED composeJob
             /\ NoFault
          \/ UNCHANGED jobVars /\ Fault
  /\ UNCHANGED <<status, sentAge, robbed, sweepFrame>>

CrashSweep ==
  /\ \E d \in Deliveries : sweep[d] # {}
  /\ sweep' = [d \in Deliveries |-> {}]
  /\ Fault
  /\ UNCHANGED <<status, sentAge, robbed, jobVars, sweepFrame>>

SweepStep ==
  \/ SweepScan
  \/ \E d \in Deliveries : \/ RecoverStuck(d) \/ RecoverComposing(d)
                           \/ RecoverSent(d) \/ TimeOutSent(d) \/ SweepEnqueue(d)

-----------------------------------------------------------------------------
(* Time.  With TimelyWorkers a live worker is never overtaken by Threshold.  *)

Holding(worker) == worker.pc \notin {"idle", "claim"}

Tick ==
  /\ TimelyWorkers =>
       /\ \A c \in Composers : Holding(composer[c]) => idle[composer[c].id] + 1 < Threshold
       /\ \A s \in Senders : Holding(sender[s]) => idle[sender[s].id] + 1 < Threshold
  /\ idle' = [d \in Deliveries |->
                IF status[d] = "absent" THEN 0 ELSE Older(idle[d], Threshold)]
  /\ sentAge' = [d \in Deliveries |->
                   IF status[d] = "sent" THEN Older(sentAge[d], Window) ELSE sentAge[d]]
  /\ keyAge' = [d \in Deliveries |-> Older(keyAge[d], Window)]
  /\ UNCHANGED <<status, version, rendered, claim, attempts, source, jobVars, composer,
                 sender, sweep, robbed, emails, webhooks, calls, budgetVars>>

-----------------------------------------------------------------------------
ProducerStep == \E d \in Deliveries : \/ Create(d) \/ Reuse(d) \/ RefreshReused(d)
                                      \/ ReplaySkipped(d) \/ SourceChanges(d)
Breakdown == \/ CrashSweep
             \/ \E c \in Composers : CrashComposer(c) \/ StallCompose(c)
             \/ \E s \in Senders : CrashSender(s) \/ StallSend(s)

Next ==
  \/ ProducerStep
  \/ \E c \in Composers : ComposerStep(c)
  \/ \E s \in Senders : SenderStep(s)
  \/ \E d \in Deliveries, event \in Events : HandleWebhook(d, event)
  \/ SweepStep
  \/ Tick
  \/ Breakdown

Spec == Init /\ [][Next]_vars

\* The queues keep handing jobs to the workers, a worker that does not crash
\* goes on to its next call, the recovery job is scheduled repeatedly and time
\* passes.  Nothing obliges a producer, the provider or a failure.
Fairness ==
  /\ \A c \in Composers : WF_vars(ComposerStep(c))
  /\ \A s \in Senders : WF_vars(SenderStep(s))
  /\ WF_vars(SweepStep)
  /\ WF_vars(Tick)

FairSpec == Spec /\ Fairness

-----------------------------------------------------------------------------
(* Types.                                                                    *)

ComposerRecords == [pc : ComposerPcs, id : Deliveries \cup {None}, version : Nat]
SenderRecords == [pc : SenderPcs, id : Deliveries \cup {None}, version : Nat, content : Nat,
                  attempts : 0 .. MaxAttempts + 1, next : Statuses]

RowTypes ==
  /\ status \in [Deliveries -> Statuses]
  /\ version \in [Deliveries -> Nat \ {0}]
  /\ rendered \in [Deliveries -> Nat]
  /\ claim \in [Deliveries -> Composers \cup {None}]
  /\ attempts \in [Deliveries -> 0 .. MaxAttempts + 1]
  /\ idle \in [Deliveries -> 0 .. Threshold]
  /\ sentAge \in [Deliveries -> 0 .. Window]
  /\ source \in [Deliveries -> Nat \ {0}]

ComposerTypes ==
  /\ composeJob \in [Deliveries -> {"none", "waiting"} \cup Composers]
  /\ composer \in [Composers -> ComposerRecords]
  /\ \A c \in Composers : ~ComposerAt(c, "idle") => composer[c].id \in Deliveries

SenderTypes ==
  /\ sendJob \in [Deliveries -> {"none", "waiting"} \cup Senders]
  /\ sender \in [Senders -> SenderRecords]
  /\ \A s \in Senders : ~SenderAt(s, "idle") => sender[s].id \in Deliveries
  /\ \A s \in Senders : SenderAt(s, "refresh") => sender[s].version # 0

ProviderTypes ==
  /\ keyAge \in [Deliveries -> 0 .. NoKey]
  /\ emails \in [Deliveries -> 0 .. EmailCap]
  /\ webhooks \in [Deliveries -> SUBSET Events]
  /\ calls \in [Deliveries -> 0 .. MaxAttempts + 1]

TypeOK ==
  /\ RowTypes /\ ComposerTypes /\ SenderTypes /\ ProviderTypes
  /\ sweep \in [Deliveries -> SUBSET SweepEntries] /\ robbed \subseteq Deliveries
  /\ faults \in 0 .. MaxFaults /\ changes \in 0 .. MaxChanges

-----------------------------------------------------------------------------
(* Safety.                                                                   *)

\* The mail that a send worker hands to the provider was rendered from the
\* very metadata that its checks found current: neither a compose worker whose
\* claim was superseded, nor a refresh under way, leaves older content on a
\* row that can be claimed.
SendsWhatItChecked ==
  \A s \in Senders : SenderAt(s, "send") => sender[s].content = sender[s].version

\* A row carries content of its present metadata or none.
RenderedIsCurrent == \A d \in Deliveries : IsRendered(d) => rendered[d] = version[d]

\* A row that is being sent, was sent or is to be retried has content; without
\* it no worker could claim the row and no recovery query would find it.
SendableHasContent ==
  \A d \in Deliveries : status[d] \in {"sending", "sent", "failed_transient"} => IsRendered(d)

\* No row says it was sent, delivered or is waiting for its webhook unless the
\* provider accepted a mail for it, whichever worker or event wrote the status.
NoPhantomSend ==
  \A d \in Deliveries : status[d] \in {"sent", "delivered", "webhook_timeout"} => emails[d] > 0

\* MAX_RETRY_ATTEMPTS bounds the provider calls of a row whose attempts are
\* never reset, over crashes, stalled workers, sweeps and weekly replays.
CallsBounded ==
  \A d \in Unreset : calls[d] <= MaxAttempts

InFlight(d) == {s \in Senders : sender[s].id = d /\ sender[s].pc \in {"check", "send"}}

\* While workers are timely, two of them are never on the way to the provider
\* with the same row before it has accepted a mail for it (afterwards the
\* idempotency key is what prevents a second mail), unless a sweep had found
\* the row stuck before it was claimed and took it from its worker in time:
\* findStuckSending also returns rows that are not sending.
ExclusiveUntilAccepted ==
  TimelyWorkers =>
    \A d \in Deliveries \ robbed : emails[d] = 0 => Cardinality(InFlight(d)) <= 1

-----------------------------------------------------------------------------
(* The lifecycle that the pipeline implements.                               *)

PhaseOf(st) ==
  CASE st = "absent" -> "absent"
    [] st \in {"pending", "composing", "sending", "failed_transient"} -> "open"
    [] st = "sent" -> "sent"
    [] st = "delivered" -> "delivered"
    [] st = "webhook_timeout" -> "timed_out"
    [] st = "failed_permanent" -> "stopped"
    [] st = "suppressed" -> "suppressed"
    [] st \in {"skipped_unsubscribed", "skipped_no_email"} -> "skipped"

Lifecycle == INSTANCE DeliveryLifecycle WITH
  Reopenable <- Weeklies,
  phase <- [d \in Deliveries |-> PhaseOf(status[d])],
  accepted <- [d \in Deliveries |-> emails[d] > 0]

\* Whatever the workers, the sweeper and the webhooks do to a row, seen from
\* outside it moves through the lifecycle of DeliveryLifecycle.
ImplementsLifecycle == Lifecycle!Spec

-----------------------------------------------------------------------------
(* Progress.                                                                 *)

Settled(d) == status[d] \in TERMINAL_STATUSES \cup {"absent"}

\* Content was written but the compose claim was not released: the row is
\* composing with content, which no worker and no recovery query looks for.
Stranded(d) == status[d] = "composing" /\ IsRendered(d)

\* The sweep takes a row from a claim younger than Threshold.
Robs(d) ==
  /\ status[d] = "sending" /\ status'[d] # "sending" /\ ~Aged(idle[d])
  /\ "stuck" \in sweep[d] \ sweep'[d]
SeldomRobbed(d) == <>[][~Robs(d)]_vars

\* Every row ends in a terminal status, unless sweep after sweep takes it from
\* its worker before that has written an outcome: the module's document promises
\* "Recovery mechanisms for stuck or failed deliveries", the sweeper's comment
\* "Clean up orphaned deliveries".
RowsSettle == \A d \in Deliveries : SeldomRobbed(d) => <>[]Settled(d)

\* Whatever single step fails, the row settles, unless it is stranded or taken
\* by sweep after sweep.
RowsSettleOrStrand ==
  \A d \in Deliveries : SeldomRobbed(d) => <>[](Settled(d) \/ Stranded(d))

=============================================================================
