---------------------- MODULE NotificationOutboxProofs ----------------------
(***************************************************************************)
(* Theorems about the notification outbox, for any rows, workers, limits   *)
(* and number of failures.                                                 *)
(***************************************************************************)
EXTENDS NotificationOutbox, FiniteSetTheorems, TLAPS

-----------------------------------------------------------------------------
(* Types.  They are inductive only together with what the provider knows:    *)
(* the age of sent_at is taken from the key of an accepted mail.             *)

\* An event was emitted for a mail that the provider accepted, and the
\* provider saw the key of a row exactly when it accepted a mail for it.
ProviderOK ==
  \A d \in Deliveries :
    /\ webhooks[d] # {} => emails[d] > 0
    /\ emails[d] > 0 <=> keyAge[d] <= Window

TypeInv == TypeOK /\ ProviderOK

LEMMA InitTypeInv == Init => TypeInv
BY BoundsAssumption, WorkersAssumption
   DEF Init, TypeInv, TypeOK, RowTypes, ComposerTypes, SenderTypes, ProviderTypes,
       ComposerRecords, SenderRecords, ProviderOK, Statuses, DeliveryStatus,
       IdleComposer, IdleSender, Busy, ComposerPcs, SenderPcs, SweepEntries, NoKey, EmailCap,
       Unrendered, ComposerAt, SenderAt, CLAIMABLE_STATUSES, TERMINAL_STATUSES

\* How a compose worker and its job may move.
LEMMA ComposerGoesTypes ==
  ASSUME ComposerTypes, NEW c \in Composers, NEW pc \in ComposerPcs,
         ~ComposerAt(c, "idle"), ComposerGoes(c, pc), composeJob' = composeJob
  PROVE  ComposerTypes'
BY DEF ComposerTypes, ComposerRecords, ComposerAt, ComposerGoes

LEMMA ComposeEndsTypes ==
  ASSUME ComposerTypes, NEW c \in Composers, ComposeFinishes(c) \/ ComposeThrows(c)
  PROVE  ComposerTypes'
BY DEF ComposerTypes, ComposerRecords, ComposerAt, ComposeFinishes, ComposeThrows, Finished,
       Thrown, IdleComposer, ComposerPcs

LEMMA EnqueueComposeTypes ==
  ASSUME ComposerTypes, NEW d, EnqueueCompose(d), composer' = composer
  PROVE  ComposerTypes'
BY DEF ComposerTypes, ComposerAt, EnqueueCompose, Enqueued

\* How a send worker and its job may move.
LEMMA SenderGoesTypes ==
  ASSUME SenderTypes, BoundsAssumption, NEW s \in Senders, NEW pc \in SenderPcs \ {"refresh"},
         ~SenderAt(s, "idle"), SenderGoes(s, pc), sendJob' = sendJob
  PROVE  SenderTypes'
BY DEF SenderTypes, SenderRecords, SenderAt, SenderGoes, Busy, IdleSender, Statuses,
       BoundsAssumption

LEMMA SenderMarksTypes ==
  ASSUME SenderTypes, BoundsAssumption, NEW s \in Senders, NEW next \in Statuses,
         ~SenderAt(s, "idle"), SenderMarks(s, next), sendJob' = sendJob
  PROVE  SenderTypes'
BY DEF SenderTypes, SenderRecords, SenderAt, SenderMarks, Busy, IdleSender, SenderPcs,
       BoundsAssumption

LEMMA SendEndsTypes ==
  ASSUME SenderTypes, BoundsAssumption, NEW s \in Senders, SendFinishes(s) \/ SendThrows(s)
  PROVE  SenderTypes'
BY DEF SenderTypes, SenderRecords, SenderAt, SendFinishes, SendThrows, Finished, Thrown,
       IdleSender, Busy, SenderPcs, Statuses, BoundsAssumption

LEMMA enqueueSendJobTypes ==
  ASSUME SenderTypes, NEW d, enqueueSendJob(d), sender' = sender
  PROVE  SenderTypes'
BY DEF SenderTypes, SenderAt, enqueueSendJob, Enqueued

\* A capped count stays below its cap.
LEMMA OlderTypes ==
  ASSUME NEW limit \in Nat, NEW age \in 0 .. limit
  PROVE  Older(age, limit) \in 0 .. limit
BY DEF Older

\* What the provider may do with a request.
LEMMA ProviderAcceptsTypes ==
  ASSUME ProviderTypes, ProviderOK, BoundsAssumption, OutcomesAssumption, NEW d \in Deliveries,
         ProviderAccepts(d) \/ ProviderIgnores
  PROVE  /\ ProviderOK'
         /\ keyAge' \in [Deliveries -> 0 .. NoKey]
         /\ emails' \in [Deliveries -> 0 .. EmailCap]
         /\ webhooks' \in [Deliveries -> SUBSET Events]
         /\ ProviderAccepts(d) => emails'[d] > 0
         /\ \A e \in Deliveries : emails[e] > 0 => emails'[e] > 0
<1>1. CASE ProviderIgnores /\ keyAge[d] < Window
  BY <1>1 DEF ProviderTypes, ProviderOK, ProviderIgnores, BoundsAssumption, NoKey
<1>2. CASE ProviderIgnores /\ ~ProviderAccepts(d)
  BY <1>2 DEF ProviderTypes, ProviderOK, ProviderIgnores
<1>3. CASE ProviderAccepts(d) /\ ~(keyAge[d] < Window)
  <2>1. PICK outcome \in Outcomes :
          /\ keyAge' = [keyAge EXCEPT ![d] = 0]
          /\ emails' = [emails EXCEPT ![d] = Older(@, EmailCap)]
          /\ webhooks' = [webhooks EXCEPT ![d] = @ \cup {"sent"} \cup outcome]
    BY <1>3 DEF ProviderAccepts
  <2>2. Older(emails[d], EmailCap) \in 1 .. EmailCap
    BY DEF ProviderTypes, Older, EmailCap
  <2>3. emails' \in [Deliveries -> 0 .. EmailCap] /\ emails'[d] > 0
    BY <2>1, <2>2 DEF ProviderTypes, EmailCap
  <2>4. keyAge' \in [Deliveries -> 0 .. NoKey]
    BY <2>1 DEF ProviderTypes, BoundsAssumption, NoKey
  <2>5. webhooks[d] \cup {"sent"} \cup outcome \in SUBSET Events
    BY OutcomesAssumption DEF ProviderTypes, Events
  <2>6. QED
    BY <2>1, <2>2, <2>3, <2>4, <2>5 DEF ProviderTypes, ProviderOK, BoundsAssumption
<1>4. QED BY <1>1, <1>2, <1>3 DEF ProviderAccepts

\* The two resets of a row.
LEMMA ResetForRecomposeTypes ==
  ASSUME RowTypes, BoundsAssumption, NEW d \in Deliveries, NEW v \in Nat \ {0},
         ResetForRecompose(d, v), source' \in [Deliveries -> Nat \ {0}]
  PROVE  RowTypes'
<1>1. PICK age \in idle[d] .. Threshold : idle' = [idle EXCEPT ![d] = age]
  BY DEF ResetForRecompose
<1>2. age \in 0 .. Threshold
  BY <1>1 DEF RowTypes, BoundsAssumption
<1>3. idle' \in [Deliveries -> 0 .. Threshold]
  BY <1>1, <1>2 DEF RowTypes
<1>4. QED
  BY <1>3 DEF RowTypes, ResetForRecompose, Statuses, DeliveryStatus, CLAIMABLE_STATUSES,
         BoundsAssumption, Unrendered

LEMMA ComposerTypeInv ==
  ASSUME TypeInv, NEW c \in Composers, ComposerStep(c)
  PROVE  TypeInv'
<1> DEFINE d == composer[c].id
<1> USE BoundsAssumption, WorkersAssumption DEF TypeInv, TypeOK, ProviderOK, SenderTypes, SenderAt, ProviderTypes,
      rowVars, jobVars, composeFrame, providerVars, budgetVars, Fault, NoFault
<1>1. ASSUME NEW e \in Deliveries, TakeComposeJob(c, e) PROVE TypeInv'
  <2>1. ComposerTypes'
    BY <1>1 DEF TakeComposeJob, ComposerTypes, ComposerRecords, ComposerAt, IdleComposer, ComposerPcs
  <2>2. QED BY <2>1, <1>1 DEF TakeComposeJob, RowTypes
<1>2. CASE claimForCompose(c)
  <2>1. ComposerTypes'
    <3>1. CASE composer' = [composer EXCEPT ![c].pc = "render", ![c].version = version[d]] /\ UNCHANGED composeJob
      <4>1. [composer[c] EXCEPT !.pc = "render", !.version = version[d]] \in ComposerRecords /\ d \in Deliveries
        <5>1. d \in Deliveries
          BY <1>2 DEF claimForCompose, ComposerTypes, ComposerAt
        <5>2. version[d] \in Nat
          BY <5>1 DEF RowTypes
        <5>3. QED BY <5>1, <5>2 DEF ComposerTypes, ComposerRecords, ComposerPcs
      <4>2. composer' = [composer EXCEPT ![c] = [composer[c] EXCEPT !.pc = "render", !.version = version[d]]]
        BY <3>1
      <4>3. QED BY <3>1, <4>1, <4>2 DEF ComposerTypes, ComposerRecords, ComposerAt
    <3>2. QED BY <1>2, <3>1, ComposerGoesTypes, ComposeEndsTypes DEF claimForCompose, ComposerPcs, ComposerAt
  <2>2. RowTypes'
    BY <1>2 DEF claimForCompose, RowTypes, Statuses, DeliveryStatus
  <2>3. QED BY <2>1, <2>2, <1>2 DEF claimForCompose
<1>3. CASE LookUpUnclaimable(c)
  <2>1. ComposerTypes'
    BY <1>3, ComposerGoesTypes, ComposeEndsTypes DEF LookUpUnclaimable, ComposerPcs, ComposerAt
  <2>2. QED BY <2>1, <1>3 DEF LookUpUnclaimable, RowTypes
<1>4. CASE Render(c)
  <2>1. ComposerTypes'
    BY <1>4, ComposerGoesTypes DEF Render, ComposerPcs, ComposerAt
  <2>2. QED BY <2>1, <1>4 DEF Render, RowTypes
<1>5. CASE failOutboxPermanently(c)
  <2>1. ComposerTypes'
    BY <1>5, ComposeEndsTypes DEF failOutboxPermanently
  <2>2. RowTypes'
    BY <1>5 DEF failOutboxPermanently, UpdateStatusIfClaimed, RowTypes, Statuses, DeliveryStatus, TERMINAL_STATUSES
  <2>3. QED BY <2>1, <2>2, <1>5 DEF failOutboxPermanently
<1>6. CASE updateRenderedContent(c)
  <2>1. ComposerTypes'
    BY <1>6, ComposerGoesTypes, ComposeEndsTypes DEF updateRenderedContent, ComposerPcs, ComposerAt
  <2>2. RowTypes'
    BY <1>6 DEF updateRenderedContent, RowTypes, ComposerTypes, ComposerRecords
  <2>3. QED BY <2>1, <2>2, <1>6 DEF updateRenderedContent
<1>7. CASE releaseComposeClaim(c)
  <2>1. ComposerTypes'
    BY <1>7, ComposerGoesTypes, ComposeEndsTypes DEF releaseComposeClaim, ComposerPcs, ComposerAt
  <2>2. RowTypes'
    BY <1>7 DEF releaseComposeClaim, UpdateStatusIfClaimed, RowTypes, Statuses, DeliveryStatus, CLAIMABLE_STATUSES
  <2>3. QED BY <2>1, <2>2, <1>7 DEF releaseComposeClaim
<1>8. CASE EnqueueComposed(c)
  <2>1. ComposerTypes'
    BY <1>8, ComposeEndsTypes DEF EnqueueComposed
  <2>2. SenderTypes'
    BY <1>8, enqueueSendJobTypes DEF EnqueueComposed
  <2>3. QED BY <2>1, <2>2, <1>8 DEF EnqueueComposed, RowTypes
<1>9. QED
  BY <1>1, <1>2, <1>3, <1>4, <1>5, <1>6, <1>7, <1>8 DEF ComposerStep

LEMMA SenderTypeInv ==
  ASSUME TypeInv, NEW s \in Senders, SenderStep(s)
  PROVE  TypeInv'
<1> DEFINE d == sender[s].id
<1> USE BoundsAssumption, WorkersAssumption, OutcomesAssumption DEF TypeInv, TypeOK, ComposerTypes, ComposerAt,
      rowVars, jobVars, sendFrame, providerVars, budgetVars, Fault, NoFault
<1>1. ASSUME NEW e \in Deliveries, TakeSendJob(s, e) PROVE TypeInv'
  <2>1. SenderTypes'
    BY <1>1 DEF TakeSendJob, SenderTypes, SenderRecords, SenderAt, Busy, SenderPcs, Statuses
  <2>2. QED BY <2>1, <1>1 DEF TakeSendJob, RowTypes, ProviderTypes, ProviderOK
<1>2. CASE claimForSending(s)
  <2>0. Older(attempts[d], MaxAttempts + 1) \in 0 .. MaxAttempts + 1
    <3>1. attempts[d] \in 0 .. MaxAttempts + 1 /\ MaxAttempts + 1 \in Nat
      BY <1>2 DEF claimForSending, RowTypes, SenderTypes, SenderAt
    <3>2. QED BY <3>1, OlderTypes
  <2>1. RowTypes'
    BY <1>2, <2>0 DEF claimForSending, RowTypes, Statuses, DeliveryStatus
  <2>2. SenderTypes'
    <3>1. CASE SenderClaims(s, d) /\ UNCHANGED sendJob
      BY <1>2, <2>1, <3>1
         DEF claimForSending, SenderClaims, RowTypes, SenderTypes, SenderRecords, SenderAt,
             SenderPcs, Statuses
    <3>2. QED BY <1>2, <3>1, SendEndsTypes DEF claimForSending
  <2>3. QED BY <2>1, <2>2, <1>2 DEF claimForSending, ProviderTypes, ProviderOK
<1>3. CASE CheckBeforeSend(s)
  <2>1. SenderTypes'
    <3>1. ASSUME NEW next \in Statuses, SenderMarks(s, next) PROVE SenderTypes'
      BY <1>3, <3>1, SenderMarksTypes DEF CheckBeforeSend, SenderAt
    <3>2. CASE sender' = [sender EXCEPT ![s] = Busy(d, "refresh", source[d], "absent")]
      BY <1>3, <3>2 DEF CheckBeforeSend, RowTypes, SenderTypes, SenderRecords, SenderAt, Busy, IdleSender, SenderPcs, Statuses
    <3>3. CASE sender' = [sender EXCEPT ![s].pc = "send", ![s].attempts = 0]
      BY <1>3, <3>3 DEF CheckBeforeSend, SenderTypes, SenderRecords, SenderAt, SenderPcs
    <3>4. QED BY <1>3, <3>1, <3>2, <3>3 DEF CheckBeforeSend, Statuses, DeliveryStatus, TERMINAL_STATUSES, CLAIMABLE_STATUSES
  <2>2. QED BY <2>1, <1>3 DEF CheckBeforeSend, RowTypes, ProviderTypes, ProviderOK
<1>4. CASE MarkAndStop(s)
  <2>1. SenderTypes'
    BY <1>4, SendEndsTypes DEF MarkAndStop
  <2>2. sender[s].next \in Statuses
    BY DEF SenderTypes, SenderRecords
  <2>3. RowTypes'
    BY <1>4, <2>2 DEF MarkAndStop, RowTypes, UpdateStatusIfStillSending, UpdateStatusIfCurrentIn
  <2>4. QED BY <2>1, <2>3, <1>4 DEF MarkAndStop, ProviderTypes, ProviderOK
<1>5. CASE RefreshSendingDigest(s)
  <2>1. SenderTypes'
    <3>1. ASSUME NEW next \in Statuses, SenderMarks(s, next), UNCHANGED sendJob PROVE SenderTypes'
      BY <1>5, <3>1, SenderMarksTypes DEF RefreshSendingDigest, SenderAt
    <3>2. QED BY <1>5, <3>1, SenderGoesTypes, SendEndsTypes
          DEF RefreshSendingDigest, SenderAt, SenderPcs, Statuses, DeliveryStatus, TERMINAL_STATUSES, CLAIMABLE_STATUSES
  <2>2. RowTypes'
    <3>1. CASE ResetForRecompose(d, sender[s].version)
      <4>1. d \in Deliveries /\ sender[s].version \in Nat \ {0}
        BY <1>5 DEF RefreshSendingDigest, SenderTypes, SenderAt, SenderRecords
      <4>2. source' \in [Deliveries -> Nat \ {0}]
        BY <1>5 DEF RefreshSendingDigest, sendFrame, RowTypes
      <4>3. QED BY <1>5, <3>1, <4>1, <4>2, ResetForRecomposeTypes DEF RefreshSendingDigest
    <3>2. CASE UNCHANGED rowVars
      BY <1>5, <3>2 DEF RefreshSendingDigest, RowTypes
    <3>3. QED BY <1>5, <3>1, <3>2 DEF RefreshSendingDigest
  <2>3. QED BY <2>1, <2>2, <1>5 DEF RefreshSendingDigest, ProviderTypes, ProviderOK
<1>6. CASE RequeueCompose(s)
  <2>1. SenderTypes'
    BY <1>6, SenderGoesTypes, SendEndsTypes DEF RequeueCompose, SenderAt, SenderPcs
  <2>2. ComposerTypes'
    BY <1>6, EnqueueComposeTypes DEF RequeueCompose
  <2>3. QED BY <2>1, <2>2, <1>6 DEF RequeueCompose, RowTypes, ProviderTypes, ProviderOK
<1>7. CASE AbandonRecompose(s)
  <2>1. SenderTypes'
    BY <1>7, SendEndsTypes DEF AbandonRecompose
  <2>2. RowTypes'
    BY <1>7 DEF AbandonRecompose, RowTypes, UpdateStatusIfCurrentIn, Statuses, DeliveryStatus, TERMINAL_STATUSES
  <2>3. QED BY <2>1, <2>2, <1>7 DEF AbandonRecompose, ProviderTypes, ProviderOK
<1>8. CASE SendEmail(s)
  <2>1. SenderTypes'
    <3>1. ASSUME NEW next \in Statuses, SenderMarks(s, next) PROVE SenderTypes'
      BY <1>8, <3>1, SenderMarksTypes DEF SendEmail, SenderAt
    <3>2. QED BY <1>8, <3>1, SenderGoesTypes
          DEF SendEmail, SenderAt, SenderPcs, Statuses, DeliveryStatus, TERMINAL_STATUSES, CLAIMABLE_STATUSES
  <2>2. d \in Deliveries
    BY <1>8 DEF SendEmail, SenderTypes, SenderAt
  <2>3. ProviderTypes' /\ ProviderOK'
    <3>1. calls' \in [Deliveries -> 0 .. MaxAttempts + 1]
      <4>1. Older(calls[d], MaxAttempts + 1) \in 0 .. MaxAttempts + 1
        <5>1. calls[d] \in 0 .. MaxAttempts + 1 /\ MaxAttempts + 1 \in Nat
          BY <2>2 DEF ProviderTypes
        <5>2. QED BY <5>1, OlderTypes
      <4>2. QED BY <1>8, <4>1 DEF SendEmail, ProviderTypes
    <3>2. ProviderAccepts(d) \/ ProviderIgnores
      BY <1>8 DEF SendEmail
    <3>3. QED BY <2>2, <3>1, <3>2, ProviderAcceptsTypes DEF ProviderTypes
  <2>4. QED BY <2>1, <2>3, <1>8 DEF SendEmail, RowTypes
<1>9. CASE RecordSent(s)
  <2>1. SenderTypes'
    BY <1>9, SendEndsTypes DEF RecordSent
  <2>2. RowTypes'
    BY <1>9 DEF RecordSent, RowTypes, UpdateStatusIfStillSending, UpdateStatusIfCurrentIn, Statuses, DeliveryStatus
  <2>3. QED BY <2>1, <2>2, <1>9 DEF RecordSent, ProviderTypes, ProviderOK
<1>10. QED
  BY <1>1, <1>2, <1>3, <1>4, <1>5, <1>6, <1>7, <1>8, <1>9 DEF SenderStep

LEMMA ProducerTypeInv ==
  ASSUME TypeInv, ProducerStep
  PROVE  TypeInv'
<1> USE BoundsAssumption DEF TypeInv, TypeOK, SenderTypes, SenderAt, ProviderTypes, ProviderOK,
      rowVars, jobVars, providerVars, budgetVars, Fault, NoFault, Request
<1>1. ASSUME NEW d \in Deliveries, Create(d) PROVE TypeInv'
  <2>1. ComposerTypes'
    BY <1>1, EnqueueComposeTypes DEF Create, ComposerTypes, ComposerAt
  <2>2. QED BY <1>1, <2>1 DEF Create, RowTypes, Statuses, DeliveryStatus, CLAIMABLE_STATUSES
<1>2. ASSUME NEW d \in Deliveries, Reuse(d) PROVE TypeInv'
  <2>1. ComposerTypes'
    BY <1>2, EnqueueComposeTypes DEF Reuse
  <2>2. QED BY <1>2, <2>1 DEF Reuse, RowTypes
<1>3. ASSUME NEW d \in Deliveries, RefreshReused(d) PROVE TypeInv'
  <2>1. ComposerTypes'
    <3>1. composer' = composer /\ (EnqueueCompose(d) \/ UNCHANGED composeJob)
      BY <1>3 DEF RefreshReused
    <3>2. QED BY <3>1, EnqueueComposeTypes DEF ComposerTypes, ComposerAt
  <2>2. RowTypes'
    <3>1. source[d] + 1 \in Nat \ {0} /\ source' \in [Deliveries -> Nat \ {0}]
      BY <1>3 DEF RefreshReused, RowTypes
    <3>2. QED BY <1>3, <3>1, ResetForRecomposeTypes DEF RefreshReused, RowTypes
  <2>3. QED BY <1>3, <2>1, <2>2 DEF RefreshReused
<1>4. ASSUME NEW d \in Deliveries, ReplaySkipped(d) PROVE TypeInv'
  <2>1. ComposerTypes'
    BY <1>4, EnqueueComposeTypes DEF ReplaySkipped, ComposerTypes, ComposerAt
  <2>2. QED BY <1>4, <2>1 DEF ReplaySkipped, RowTypes, Statuses, DeliveryStatus, CLAIMABLE_STATUSES
<1>5. ASSUME NEW d \in Deliveries, SourceChanges(d) PROVE TypeInv'
  BY <1>5 DEF SourceChanges, RowTypes, ComposerTypes, ComposerAt
<1>6. QED BY <1>1, <1>2, <1>3, <1>4, <1>5 DEF ProducerStep

LEMMA WebhookTypeInv ==
  ASSUME TypeInv, NEW d \in Deliveries, NEW event \in Events, HandleWebhook(d, event)
  PROVE  TypeInv'
<1> USE BoundsAssumption DEF TypeInv, TypeOK, jobVars, budgetVars, Fault, NoFault, HandleWebhook
<1>1. WebhookStatus(event) \in Statuses
  BY DEF WebhookStatus, Events, Statuses, DeliveryStatus, TERMINAL_STATUSES, CLAIMABLE_STATUSES
<1>2. keyAge[d] \in 0 .. Window
  BY DEF ProviderOK, ProviderTypes
<1>3. RowTypes'
  BY <1>1, <1>2 DEF UpdateStatusIfCurrentIn, RowTypes
<1>4. webhooks' = webhooks \/ webhooks' = [webhooks EXCEPT ![d] = @ \ {event}]
  OBVIOUS
<1>5. ProviderTypes' /\ ProviderOK'
  BY <1>4 DEF ProviderTypes, ProviderOK
<1>6. QED BY <1>3, <1>5 DEF ComposerTypes, ComposerAt, SenderTypes, SenderAt

\* A sweep changes nothing of a row but its status and the age of sent_at.
LEMMA SweepRowTypes ==
  ASSUME TypeInv, NEW d \in Deliveries, NEW found, NEW allowed, NEW next \in Statuses,
         NEW retry \in SUBSET SweepRetries, SweepRow(d, found, allowed, next, retry)
  PROVE  TypeInv'
<1> USE BoundsAssumption DEF TypeInv, TypeOK, jobVars, budgetVars, Fault, NoFault, SweepRow, sweepFrame, providerVars
<1>1. RowTypes'
  BY DEF UpdateStatusIfCurrentIn, RowTypes
<1>2. sweep' \in [Deliveries -> SUBSET SweepEntries] /\ robbed' \subseteq Deliveries
  BY DEF SweepEntries
<1>3. QED BY <1>1, <1>2 DEF ComposerTypes, ComposerAt, SenderTypes, SenderAt, ProviderTypes, ProviderOK

LEMMA SweepTypeInv ==
  ASSUME TypeInv, SweepStep
  PROVE  TypeInv'
<1> USE BoundsAssumption DEF TypeInv, TypeOK, jobVars, budgetVars, Fault, NoFault, sweepFrame, providerVars,
     ProviderTypes, ProviderOK
<1>1. CASE SweepScan
  <2>1. sweep' \in [Deliveries -> SUBSET SweepEntries]
    BY <1>1 DEF SweepScan, FoundAs
  <2>2. QED BY <1>1, <2>1 DEF SweepScan, RowTypes, ComposerTypes, ComposerAt, SenderTypes, SenderAt
<1>2. ASSUME NEW d \in Deliveries,
             RecoverStuck(d) \/ RecoverComposing(d) \/ RecoverSent(d) \/ TimeOutSent(d)
      PROVE  TypeInv'
  <2>1. /\ {"failed_transient", "pending", "webhook_timeout"} \subseteq Statuses
        /\ {{"retry_send"}, {"retry_compose"}, {"retry_stuck"}, {}} \subseteq SUBSET SweepRetries
    BY DEF Statuses, DeliveryStatus, CLAIMABLE_STATUSES, TERMINAL_STATUSES, SweepRetries
  <2>2. QED BY <1>2, <2>1, SweepRowTypes DEF RecoverStuck, RecoverComposing, RecoverSent, TimeOutSent
<1>3. ASSUME NEW d \in Deliveries, SweepEnqueue(d) PROVE TypeInv'
  <2>1. ComposerTypes'
    BY <1>3, EnqueueComposeTypes DEF SweepEnqueue, ComposerTypes, ComposerAt
  <2>2. SenderTypes'
    BY <1>3, enqueueSendJobTypes DEF SweepEnqueue, SenderTypes, SenderAt
  <2>3. QED BY <1>3, <2>1, <2>2 DEF SweepEnqueue, RowTypes
<1>4. QED BY <1>1, <1>2, <1>3 DEF SweepStep

LEMMA TickTypeInv ==
  ASSUME TypeInv, Tick
  PROVE  TypeInv'
<1> USE BoundsAssumption DEF TypeInv, TypeOK, Tick, jobVars, budgetVars
<1>1. \A d \in Deliveries :
        /\ Older(idle[d], Threshold) \in 0 .. Threshold
        /\ Older(sentAge[d], Window) \in 0 .. Window
        /\ Older(keyAge[d], Window) \in 0 .. NoKey
        /\ Older(keyAge[d], Window) <= Window <=> keyAge[d] <= Window
  BY DEF RowTypes, ProviderTypes, Older, NoKey
<1>2. RowTypes'
  BY <1>1 DEF RowTypes
<1>3. ProviderTypes' /\ ProviderOK'
  BY <1>1 DEF ProviderTypes, ProviderOK
<1>4. QED BY <1>2, <1>3 DEF ComposerTypes, ComposerAt, SenderTypes, SenderAt

LEMMA BreakdownTypeInv ==
  ASSUME TypeInv, Breakdown
  PROVE  TypeInv'
<1> USE BoundsAssumption DEF TypeInv, TypeOK, RowTypes, ProviderTypes, ProviderOK, rowVars, jobVars,
      providerVars, budgetVars, Fault, NoFault
<1>1. CASE CrashSweep
  BY <1>1 DEF CrashSweep, sweepFrame, ComposerTypes, ComposerAt, SenderTypes, SenderAt
<1>2. ASSUME NEW c \in Composers, CrashComposer(c) PROVE TypeInv'
  <2>1. ComposerTypes' BY <1>2, ComposeEndsTypes DEF CrashComposer
  <2>2. QED BY <1>2, <2>1 DEF CrashComposer, composeFrame, SenderTypes, SenderAt
<1>3. ASSUME NEW c \in Composers, StallCompose(c) PROVE TypeInv'
  <2>1. ComposerTypes' BY <1>3 DEF StallCompose, ComposerTypes, ComposerAt
  <2>2. QED BY <1>3, <2>1 DEF StallCompose, composeFrame, SenderTypes, SenderAt
<1>4. ASSUME NEW s \in Senders, CrashSender(s) PROVE TypeInv'
  <2>1. SenderTypes' BY <1>4, SendEndsTypes DEF CrashSender
  <2>2. QED BY <1>4, <2>1 DEF CrashSender, sendFrame, ComposerTypes, ComposerAt
<1>5. ASSUME NEW s \in Senders, StallSend(s) PROVE TypeInv'
  <2>1. SenderTypes' BY <1>5 DEF StallSend, SenderTypes, SenderAt
  <2>2. QED BY <1>5, <2>1 DEF StallSend, sendFrame, ComposerTypes, ComposerAt
<1>6. QED BY <1>1, <1>2, <1>3, <1>4, <1>5 DEF Breakdown

LEMMA StutterTypeInv ==
  ASSUME TypeInv, UNCHANGED vars
  PROVE  TypeInv'
BY DEF TypeInv, TypeOK, RowTypes, ComposerTypes, ComposerAt, SenderTypes, SenderAt, ProviderTypes,
       ProviderOK, vars, rowVars, jobVars, providerVars, budgetVars

\* The variables of the outbox keep their types, whatever the interleaving.
THEOREM TypeCorrect == Spec => []TypeOK
<1>1. TypeInv /\ [Next]_vars => TypeInv'
  BY ComposerTypeInv, SenderTypeInv, ProducerTypeInv, WebhookTypeInv, SweepTypeInv, TickTypeInv,
     BreakdownTypeInv, StutterTypeInv DEF Next
<1>2. TypeInv => TypeOK
  BY DEF TypeInv
<1>3. QED BY InitTypeInv, <1>1, <1>2, PTL DEF Spec

-----------------------------------------------------------------------------
(* Content.  A row's content is of its present metadata because whoever may  *)
(* still write content has a claim that a change of the metadata removes.    *)

\* A compose worker that still holds the claim was given the present metadata.
ComposersFresh ==
  \A c \in Composers :
    composer[c].pc \in {"render", "persist"} /\ claim[composer[c].id] = c
      => composer[c].version = version[composer[c].id]

\* A send worker's copy of the row has content of the copy's metadata.
SendersFresh ==
  \A s \in Senders : sender[s].pc \in {"check", "send"} => sender[s].content = sender[s].version

MarkStatuses == {"skipped_unsubscribed", "skipped_no_email", "suppressed",
                 "failed_transient", "failed_permanent"}

\* A worker that gave up on a row never marks it sent.
MarksStop == \A s \in Senders : SenderAt(s, "mark") => sender[s].next \in MarkStatuses

ContentInv == /\ RenderedIsCurrent /\ SendableHasContent
              /\ ComposersFresh /\ SendersFresh /\ MarksStop

LEMMA InitContentInv == Init => ContentInv
BY DEF Init, ContentInv, RenderedIsCurrent, SendableHasContent, ComposersFresh, SendersFresh,
       MarksStop, IsRendered, IdleComposer, IdleSender, Busy, SenderAt

LEMMA ComposerMoves ==
  ASSUME ComposerTypes, NEW c \in Composers
  PROVE  /\ ComposeFinishes(c) \/ ComposeThrows(c) =>
              composer'[c].pc = "idle" /\ \A e \in Composers \ {c} : composer'[e] = composer[e]
         /\ \A pc \in ComposerPcs : ComposerGoes(c, pc) =>
              /\ composer'[c].pc = pc
              /\ composer'[c].id = composer[c].id
              /\ composer'[c].version = composer[c].version
              /\ \A e \in Composers \ {c} : composer'[e] = composer[e]
BY DEF ComposerTypes, ComposerRecords, ComposeFinishes, ComposeThrows, ComposerGoes, IdleComposer

LEMMA SenderMoves ==
  ASSUME SenderTypes, NEW s \in Senders
  PROVE  /\ SendFinishes(s) \/ SendThrows(s) =>
              sender'[s].pc = "idle" /\ \A e \in Senders \ {s} : sender'[e] = sender[e]
         /\ \A pc \in SenderPcs : SenderGoes(s, pc) =>
              /\ sender'[s].pc = pc
              /\ sender'[s].id = sender[s].id
              /\ \A e \in Senders \ {s} : sender'[e] = sender[e]
         /\ \A next \in Statuses : SenderMarks(s, next) =>
              /\ sender'[s].pc = "mark"
              /\ sender'[s].id = sender[s].id
              /\ sender'[s].next = next
              /\ \A e \in Senders \ {s} : sender'[e] = sender[e]
BY DEF SenderTypes, SendFinishes, SendThrows, SenderGoes, SenderMarks, IdleSender, Busy

\* A reset row has neither content nor a claim.
LEMMA ResetForRecomposeContent ==
  ASSUME TypeInv, ContentInv, NEW d \in Deliveries, NEW v \in Nat \ {0}, ResetForRecompose(d, v),
         composer' = composer, WorkersAssumption
  PROVE  RenderedIsCurrent' /\ SendableHasContent' /\ ComposersFresh'
BY DEF TypeInv, TypeOK, RowTypes, ComposerTypes, ComposerAt, ContentInv, ResetForRecompose, RenderedIsCurrent,
       SendableHasContent, ComposersFresh, IsRendered, Unrendered, WorkersAssumption

LEMMA ComposerContentInv ==
  ASSUME TypeInv, ContentInv, NEW c \in Composers, ComposerStep(c)
  PROVE  ContentInv'
<1> DEFINE d == composer[c].id
<1> USE WorkersAssumption DEF ContentInv, TypeInv, TypeOK, RowTypes, composeFrame, rowVars,
      RenderedIsCurrent, SendableHasContent, ComposersFresh, SendersFresh, MarksStop, IsRendered,
      ComposerAt, SenderAt
<1>0. \A e \in Composers : composer[e].pc # "idle" => composer[e].id \in Deliveries
  BY DEF ComposerTypes
<1>1. ASSUME NEW e \in Deliveries, TakeComposeJob(c, e) PROVE ContentInv'
  <2>1. composer'[c].pc = "claim" /\ \A x \in Composers \ {c} : composer'[x] = composer[x]
    BY <1>1 DEF TakeComposeJob, ComposerTypes, IdleComposer
  <2>2. QED
    BY <1>1, <2>1 DEF TakeComposeJob
<1>2. CASE claimForCompose(c)
  <2>1. CASE /\ status[d] = "pending"
             /\ status' = [status EXCEPT ![d] = "composing"]
             /\ claim' = [claim EXCEPT ![d] = c]
             /\ composer' = [composer EXCEPT ![c].pc = "render", ![c].version = version[d]]
    <3>1. /\ composer'[c].pc = "render" /\ composer'[c].id = d /\ composer'[c].version = version[d]
          /\ \A x \in Composers \ {c} : composer'[x] = composer[x]
      BY <2>1 DEF ComposerTypes, ComposerRecords
    <3>2. ASSUME NEW e \in Composers,
                 composer'[e].pc \in {"render", "persist"}, claim'[composer'[e].id] = e
          PROVE  composer'[e].version = version'[composer'[e].id]
      <4>1. version' = version
        BY <1>2 DEF claimForCompose
      <4>2. CASE e = c
        BY <3>1, <4>1, <4>2
      <4>3. CASE e # c
        <5>1. composer'[e] = composer[e] /\ composer[e].id \in Deliveries
          BY <1>0, <3>1, <3>2, <4>3
        <5>2. claim[composer[e].id] = e
          BY <2>1, <3>2, <4>3, <5>1
        <5>3. QED BY <3>2, <4>1, <5>1, <5>2
      <4>4. QED BY <4>2, <4>3
    <3>3. QED
      BY <1>0, <1>2, <2>1, <3>2 DEF claimForCompose
  <2>2. CASE UNCHANGED <<status, claim>> /\ (ComposerGoes(c, "lookup") \/ ComposeThrows(c))
    BY <1>2, <2>2, ComposerMoves DEF claimForCompose, ComposerPcs
  <2>3. QED BY <1>2, <2>1, <2>2 DEF claimForCompose
<1>3. CASE LookUpUnclaimable(c)
  BY <1>3, ComposerMoves DEF LookUpUnclaimable, ComposerPcs
<1>4. CASE Render(c)
  BY <1>4, ComposerMoves DEF Render, ComposerPcs
<1>5. CASE failOutboxPermanently(c)
  BY <1>5, ComposerMoves DEF failOutboxPermanently, UpdateStatusIfClaimed, ComposerPcs
<1>6. CASE updateRenderedContent(c)
  BY <1>0, <1>6, ComposerMoves DEF updateRenderedContent, ComposerPcs, Unrendered
<1>7. CASE releaseComposeClaim(c)
  BY <1>7, ComposerMoves DEF releaseComposeClaim, UpdateStatusIfClaimed, ComposerPcs
<1>8. CASE EnqueueComposed(c)
  BY <1>8, ComposerMoves DEF EnqueueComposed, ComposerPcs
<1>9. QED
  BY <1>1, <1>2, <1>3, <1>4, <1>5, <1>6, <1>7, <1>8 DEF ComposerStep

LEMMA SenderContentInv ==
  ASSUME TypeInv, ContentInv, NEW s \in Senders, SenderStep(s)
  PROVE  ContentInv'
<1> DEFINE d == sender[s].id
<1> USE WorkersAssumption DEF ContentInv, TypeInv, TypeOK, RowTypes, sendFrame, rowVars,
      RenderedIsCurrent, SendableHasContent, ComposersFresh, SendersFresh, MarksStop, IsRendered,
      ComposerAt, SenderAt
<1>0. MarkStatuses \subseteq Statuses
  BY DEF MarkStatuses, Statuses, DeliveryStatus, TERMINAL_STATUSES, CLAIMABLE_STATUSES
<1>1. ASSUME NEW e \in Deliveries, TakeSendJob(s, e) PROVE ContentInv'
  <2>1. sender'[s].pc = "claim" /\ \A x \in Senders \ {s} : sender'[x] = sender[x]
    BY <1>1 DEF TakeSendJob, SenderTypes, Busy
  <2>2. QED
    BY <1>1, <2>1 DEF TakeSendJob
<1>2. CASE claimForSending(s)
  <2>1. CASE isReadyToSendDelivery(d) /\ SenderClaims(s, d)
             /\ status' = [status EXCEPT ![d] = "sending"]
    <3>1. /\ sender'[s].pc = "check" /\ sender'[s].version = version[d] /\ sender'[s].content = rendered[d]
          /\ \A x \in Senders \ {s} : sender'[x] = sender[x]
      BY <2>1 DEF SenderClaims, SenderTypes
    <3>2. d \in Deliveries
      BY <1>2 DEF claimForSending, SenderTypes
    <3>3. QED
      BY <1>2, <2>1, <3>1, <3>2 DEF claimForSending, isReadyToSendDelivery
  <2>2. CASE UNCHANGED status /\ (SendFinishes(s) \/ SendThrows(s))
    BY <1>2, <2>2, SenderMoves DEF claimForSending
  <2>3. QED BY <1>2, <2>1, <2>2 DEF claimForSending
<1>3. CASE CheckBeforeSend(s)
  <2>1. ASSUME NEW next \in MarkStatuses, SenderMarks(s, next) PROVE ContentInv'
    BY <1>0, <1>3, <2>1, SenderMoves DEF CheckBeforeSend
  <2>2. CASE sender' = [sender EXCEPT ![s] = Busy(d, "refresh", source[d], "absent")]
    BY <1>3, <2>2 DEF CheckBeforeSend, SenderTypes, Busy
  <2>3. CASE sender' = [sender EXCEPT ![s].pc = "send", ![s].attempts = 0]
    <3>1. /\ sender'[s].pc = "send" /\ sender'[s].content = sender[s].content
          /\ sender'[s].version = sender[s].version
          /\ \A x \in Senders \ {s} : sender'[x] = sender[x]
      BY <2>3 DEF SenderTypes, SenderRecords
    <3>2. QED BY <1>3, <3>1 DEF CheckBeforeSend
  <2>4. QED BY <1>3, <2>1, <2>2, <2>3 DEF CheckBeforeSend, MarkStatuses
<1>4. CASE MarkAndStop(s)
  <2>1. sender[s].next \in MarkStatuses
    BY <1>4 DEF MarkAndStop
  <2>2. status' = status \/ (status[d] = "sending" /\ status' = [status EXCEPT ![d] = sender[s].next])
    BY <1>4 DEF MarkAndStop, UpdateStatusIfStillSending, UpdateStatusIfCurrentIn
  <2>3. QED BY <1>4, <2>1, <2>2, SenderMoves DEF MarkAndStop, MarkStatuses
<1>5. CASE RefreshSendingDigest(s)
  <2>1. ASSUME NEW next \in MarkStatuses, SenderMarks(s, next), UNCHANGED rowVars PROVE ContentInv'
    BY <1>0, <1>5, <2>1, SenderMoves DEF RefreshSendingDigest
  <2>2. CASE ResetForRecompose(d, sender[s].version) /\ SenderGoes(s, "requeue")
    <3>1. d \in Deliveries /\ sender[s].version \in Nat \ {0}
      BY <1>5 DEF RefreshSendingDigest, SenderTypes, SenderRecords
    <3>2. RenderedIsCurrent' /\ SendableHasContent' /\ ComposersFresh'
      BY <1>5, <2>2, <3>1, ResetForRecomposeContent DEF RefreshSendingDigest
    <3>3. SendersFresh' /\ MarksStop'
      BY <2>2, SenderMoves DEF SenderPcs
    <3>4. QED BY <3>2, <3>3
  <2>3. CASE SendFinishes(s) /\ UNCHANGED rowVars
    BY <1>5, <2>3, SenderMoves DEF RefreshSendingDigest
  <2>4. QED BY <1>5, <2>1, <2>2, <2>3 DEF RefreshSendingDigest, MarkStatuses
<1>6. CASE RequeueCompose(s)
  BY <1>6, SenderMoves DEF RequeueCompose, SenderPcs
<1>7. CASE AbandonRecompose(s)
  BY <1>7, SenderMoves DEF AbandonRecompose, UpdateStatusIfCurrentIn
<1>8. CASE SendEmail(s)
  <2>1. ASSUME NEW next \in MarkStatuses, SenderMarks(s, next) PROVE ContentInv'
    BY <1>0, <1>8, <2>1, SenderMoves DEF SendEmail
  <2>2. CASE SenderGoes(s, "record")
    BY <1>8, <2>2, SenderMoves DEF SendEmail, SenderPcs
  <2>3. QED BY <1>8, <2>1, <2>2 DEF SendEmail, MarkStatuses
<1>9. CASE RecordSent(s)
  BY <1>9, SenderMoves DEF RecordSent, UpdateStatusIfStillSending, UpdateStatusIfCurrentIn
<1>10. QED
  BY <1>1, <1>2, <1>3, <1>4, <1>5, <1>6, <1>7, <1>8, <1>9 DEF SenderStep

LEMMA ProducerContentInv ==
  ASSUME TypeInv, ContentInv, ProducerStep
  PROVE  ContentInv'
<1> USE WorkersAssumption DEF ContentInv, TypeInv, TypeOK, RowTypes, rowVars, jobVars,
      RenderedIsCurrent, SendableHasContent, ComposersFresh, SendersFresh, MarksStop, IsRendered,
      SenderAt
<1>1. ASSUME NEW d \in Deliveries, Create(d) \/ ReplaySkipped(d) PROVE ContentInv'
  BY <1>1 DEF Create, ReplaySkipped
<1>2. ASSUME NEW d \in Deliveries, Reuse(d) \/ SourceChanges(d) PROVE ContentInv'
  BY <1>2 DEF Reuse, SourceChanges
<1>3. ASSUME NEW d \in Deliveries, RefreshReused(d) PROVE ContentInv'
  <2>1. CASE ResetForRecompose(d, source[d] + 1)
    <3>1. source[d] + 1 \in Nat \ {0}
      BY <1>3
    <3>2. RenderedIsCurrent' /\ SendableHasContent' /\ ComposersFresh'
      BY <1>3, <2>1, <3>1, ResetForRecomposeContent DEF RefreshReused
    <3>3. SendersFresh' /\ MarksStop'
      BY <1>3 DEF RefreshReused
    <3>4. QED BY <3>2, <3>3
  <2>2. CASE UNCHANGED rowVars
    BY <1>3, <2>2 DEF RefreshReused
  <2>3. QED BY <1>3, <2>1, <2>2 DEF RefreshReused
<1>4. QED BY <1>1, <1>2, <1>3 DEF ProducerStep

LEMMA WebhookContentInv ==
  ASSUME TypeInv, ContentInv, NEW d \in Deliveries, NEW event \in Events, HandleWebhook(d, event)
  PROVE  ContentInv'
<1> USE DEF ContentInv, RenderedIsCurrent, SendableHasContent, ComposersFresh, SendersFresh,
      MarksStop, IsRendered, SenderAt
<1>1. /\ WebhookStatus(event) \in {"sent", "failed_transient"} => WebhookAllowed(event) \subseteq {"sending", "sent"}
      /\ WebhookStatus(event) # "sending"
  BY DEF WebhookStatus, WebhookAllowed, Events
<1>2. QED
  BY <1>1 DEF HandleWebhook, UpdateStatusIfCurrentIn, TypeInv, TypeOK, RowTypes, jobVars

LEMMA SweepContentInv ==
  ASSUME TypeInv, ContentInv, SweepStep
  PROVE  ContentInv'
<1> USE DEF ContentInv, RenderedIsCurrent, SendableHasContent, ComposersFresh, SendersFresh,
      MarksStop, IsRendered, SenderAt, sweepFrame, TypeInv, TypeOK, RowTypes
<1>1. CASE SweepScan
  BY <1>1 DEF SweepScan
<1>2. ASSUME NEW d \in Deliveries,
             RecoverStuck(d) \/ RecoverComposing(d) \/ RecoverSent(d) \/ TimeOutSent(d)
      PROVE  ContentInv'
  BY <1>2 DEF RecoverStuck, RecoverComposing, RecoverSent, TimeOutSent, SweepRow, UpdateStatusIfCurrentIn
<1>3. ASSUME NEW d \in Deliveries, SweepEnqueue(d) PROVE ContentInv'
  BY <1>3 DEF SweepEnqueue
<1>4. QED BY <1>1, <1>2, <1>3 DEF SweepStep

LEMMA OtherContentInv ==
  ASSUME TypeInv, ContentInv, Tick \/ Breakdown \/ UNCHANGED vars
  PROVE  ContentInv'
<1> USE DEF ContentInv, RenderedIsCurrent, SendableHasContent, ComposersFresh, SendersFresh,
      MarksStop, IsRendered, SenderAt, TypeInv, TypeOK, rowVars, ComposerAt
<1>1. CASE Tick
  BY <1>1 DEF Tick
<1>2. CASE CrashSweep
  BY <1>2 DEF CrashSweep, sweepFrame
<1>3. ASSUME NEW c \in Composers, CrashComposer(c) PROVE ContentInv'
  BY <1>3, ComposerMoves DEF CrashComposer, composeFrame
<1>4. ASSUME NEW c \in Composers, StallCompose(c) PROVE ContentInv'
  BY <1>4 DEF StallCompose, composeFrame
<1>5. ASSUME NEW s \in Senders, CrashSender(s) PROVE ContentInv'
  BY <1>5, SenderMoves DEF CrashSender, sendFrame
<1>6. ASSUME NEW s \in Senders, StallSend(s) PROVE ContentInv'
  BY <1>6 DEF StallSend, sendFrame
<1>7. CASE UNCHANGED vars
  BY <1>7 DEF vars
<1>8. QED BY <1>1, <1>2, <1>3, <1>4, <1>5, <1>6, <1>7 DEF Breakdown

LEMMA AlwaysContentInv == Spec => [](TypeInv /\ ContentInv)
<1>1. TypeInv /\ [Next]_vars => TypeInv'
  BY ComposerTypeInv, SenderTypeInv, ProducerTypeInv, WebhookTypeInv, SweepTypeInv, TickTypeInv,
     BreakdownTypeInv, StutterTypeInv DEF Next
<1>2. TypeInv /\ ContentInv /\ [Next]_vars => ContentInv'
  BY ComposerContentInv, SenderContentInv, ProducerContentInv, WebhookContentInv,
     SweepContentInv, OtherContentInv DEF Next
<1>3. QED BY InitTypeInv, InitContentInv, <1>1, <1>2, PTL DEF Spec

\* A row carries content of its present metadata or none, however many
\* compose workers, refreshes and failures there are.
THEOREM ContentIsCurrent == Spec => []RenderedIsCurrent
BY AlwaysContentInv, PTL DEF ContentInv

\* What a send worker hands to the provider was rendered from the metadata
\* that its checks approved.
THEOREM CheckedContentIsSent == Spec => []SendsWhatItChecked
<1>1. ContentInv => SendsWhatItChecked
  BY DEF ContentInv, SendersFresh, SendsWhatItChecked, SenderAt
<1>2. QED BY <1>1, AlwaysContentInv, PTL

\* A row that is to be sent again can be claimed: it has its content.
THEOREM SendableKeepsContent == Spec => []SendableHasContent
BY AlwaysContentInv, PTL DEF ContentInv

-----------------------------------------------------------------------------
(* Acceptance.  Whoever writes that a row was sent has the provider's word.  *)

\* A worker about to record a row as sent had its mail accepted.
RecordsAccepted ==
  \A s \in Senders : SenderAt(s, "record") => emails[sender[s].id] > 0

AcceptInv == NoPhantomSend /\ RecordsAccepted

ClaimsSent == {"sent", "delivered", "webhook_timeout"}

LEMMA InitAcceptInv == Init => AcceptInv
BY DEF Init, AcceptInv, NoPhantomSend, RecordsAccepted, SenderAt, IdleSender, Busy

\* Steps of anyone but a send worker or a webhook, none of which is told
\* anything by the provider.
LEMMA QuietAcceptInv ==
  ASSUME AcceptInv, UNCHANGED <<emails, sender>>,
         \A d \in Deliveries : status'[d] \in ClaimsSent => status[d] \in ClaimsSent
  PROVE  AcceptInv'
BY DEF AcceptInv, NoPhantomSend, RecordsAccepted, SenderAt, ClaimsSent

LEMMA ComposerAcceptInv ==
  ASSUME TypeInv, AcceptInv, NEW c \in Composers, ComposerStep(c)
  PROVE  AcceptInv'
<1> USE DEF TypeInv, TypeOK, RowTypes, ClaimsSent, rowVars, composeFrame, providerVars
<1>1. UNCHANGED <<emails, sender>>
  BY DEF ComposerStep, TakeComposeJob, claimForCompose, LookUpUnclaimable, Render,
         failOutboxPermanently, updateRenderedContent, releaseComposeClaim, EnqueueComposed
<1>2. \/ UNCHANGED status
      \/ \E d \in Deliveries : \E next \in {"composing", "pending", "failed_permanent"} :
           status' = [status EXCEPT ![d] = next]
  BY DEF ComposerStep, TakeComposeJob, claimForCompose, LookUpUnclaimable, Render,
         failOutboxPermanently, updateRenderedContent, releaseComposeClaim, EnqueueComposed,
         UpdateStatusIfClaimed, ComposerTypes, ComposerAt
<1>3. QED BY <1>1, <1>2, QuietAcceptInv

LEMMA ProducerAcceptInv ==
  ASSUME TypeInv, AcceptInv, ProducerStep
  PROVE  AcceptInv'
<1> USE DEF TypeInv, TypeOK, RowTypes, ClaimsSent, rowVars, providerVars
<1>1. UNCHANGED <<emails, sender>>
  BY DEF ProducerStep, Create, Reuse, RefreshReused, ReplaySkipped, SourceChanges
<1>2. \/ UNCHANGED status
      \/ \E d \in Deliveries : status' = [status EXCEPT ![d] = "pending"]
  BY DEF ProducerStep, Create, Reuse, RefreshReused, ReplaySkipped, SourceChanges,
         ResetForRecompose
<1>3. QED BY <1>1, <1>2, QuietAcceptInv

LEMMA WebhookAcceptInv ==
  ASSUME TypeInv, AcceptInv, NEW d \in Deliveries, NEW event \in Events, HandleWebhook(d, event)
  PROVE  AcceptInv'
BY DEF TypeInv, TypeOK, RowTypes, ProviderOK, AcceptInv, NoPhantomSend, RecordsAccepted, SenderAt,
       HandleWebhook, UpdateStatusIfCurrentIn

LEMMA SweepAcceptInv ==
  ASSUME TypeInv, AcceptInv, SweepStep
  PROVE  AcceptInv'
<1> USE DEF TypeInv, TypeOK, RowTypes, ClaimsSent, sweepFrame, providerVars
<1>1. UNCHANGED <<emails, sender>>
  BY DEF SweepStep, SweepScan, RecoverStuck, RecoverComposing, RecoverSent, TimeOutSent, SweepRow,
         SweepEnqueue
<1>2. \/ UNCHANGED status
      \/ \E d \in Deliveries : status' = [status EXCEPT ![d] = "failed_transient"]
      \/ \E d \in Deliveries : status' = [status EXCEPT ![d] = "pending"]
      \/ \E d \in Deliveries :
           status[d] = "sent" /\ status' = [status EXCEPT ![d] = "webhook_timeout"]
  BY DEF SweepStep, SweepScan, RecoverStuck, RecoverComposing, RecoverSent, TimeOutSent, SweepRow,
         SweepEnqueue, UpdateStatusIfCurrentIn
<1>3. QED BY <1>1, <1>2, QuietAcceptInv

LEMMA SenderAcceptInv ==
  ASSUME TypeInv, ContentInv, AcceptInv, NEW s \in Senders, SenderStep(s)
  PROVE  AcceptInv'
<1> DEFINE d == sender[s].id
<1> USE DEF TypeInv, TypeOK, RowTypes, AcceptInv, NoPhantomSend, RecordsAccepted, SenderAt,
      rowVars, sendFrame, providerVars
<1>0. MarkStatuses \subseteq Statuses
  BY DEF MarkStatuses, Statuses, DeliveryStatus, TERMINAL_STATUSES, CLAIMABLE_STATUSES
<1>1. ASSUME NEW e \in Deliveries, TakeSendJob(s, e) PROVE AcceptInv'
  BY <1>1 DEF TakeSendJob, SenderTypes, Busy
<1>2. CASE claimForSending(s)
  <2>1. sender'[s].pc \in {"check", "idle"} /\ \A x \in Senders \ {s} : sender'[x] = sender[x]
    BY <1>2, SenderMoves DEF claimForSending, SenderClaims, SenderTypes
  <2>2. QED BY <1>2, <2>1 DEF claimForSending
<1>3. CASE CheckBeforeSend(s)
  <2>1. sender'[s].pc \in {"mark", "refresh", "send"}
        /\ \A x \in Senders \ {s} : sender'[x] = sender[x]
    BY <1>0, <1>3, SenderMoves DEF CheckBeforeSend, SenderTypes, SenderRecords, Busy, MarkStatuses
  <2>2. QED BY <1>3, <2>1 DEF CheckBeforeSend
<1>4. CASE MarkAndStop(s)
  <2>1. sender[s].next \notin ClaimsSent
    BY <1>4 DEF MarkAndStop, ContentInv, MarksStop, MarkStatuses, ClaimsSent
  <2>2. QED
    BY <1>4, <2>1, SenderMoves
       DEF MarkAndStop, UpdateStatusIfStillSending, UpdateStatusIfCurrentIn, ClaimsSent
<1>5. CASE RefreshSendingDigest(s)
  <2>1. sender'[s].pc \in {"mark", "requeue", "idle"}
        /\ \A x \in Senders \ {s} : sender'[x] = sender[x]
    BY <1>0, <1>5, SenderMoves DEF RefreshSendingDigest, SenderPcs, MarkStatuses
  <2>2. UNCHANGED status \/ status' = [status EXCEPT ![d] = "pending"]
    BY <1>5 DEF RefreshSendingDigest, ResetForRecompose
  <2>3. UNCHANGED emails
    BY <1>5 DEF RefreshSendingDigest
  <2>4. QED BY <2>1, <2>2, <2>3
<1>6. CASE RequeueCompose(s)
  BY <1>6, SenderMoves DEF RequeueCompose, SenderPcs
<1>7. CASE AbandonRecompose(s)
  BY <1>7, SenderMoves DEF AbandonRecompose, UpdateStatusIfCurrentIn
<1>8. CASE SendEmail(s)
  <2>1. d \in Deliveries
    BY <1>8 DEF SendEmail, SenderTypes
  <2>2. \A e \in Deliveries : emails[e] > 0 => emails'[e] > 0
    BY <1>8, <2>1, BoundsAssumption, OutcomesAssumption, ProviderAcceptsTypes DEF SendEmail
  <2>3. UNCHANGED status
    BY <1>8 DEF SendEmail
  <2>4. /\ \A x \in Senders \ {s} : sender'[x] = sender[x]
        /\ sender'[s].pc = "record" => sender'[s].id = d /\ emails'[d] > 0
    <3>1. ASSUME NEW next \in MarkStatuses, SenderMarks(s, next)
          PROVE  sender'[s].pc = "mark" /\ \A x \in Senders \ {s} : sender'[x] = sender[x]
      BY <1>0, <3>1, SenderMoves
    <3>2. CASE ProviderAccepts(d) /\ SenderGoes(s, "record")
      BY <2>1, <3>2, BoundsAssumption, OutcomesAssumption, ProviderAcceptsTypes, SenderMoves
         DEF SenderPcs
    <3>3. QED BY <1>8, <3>1, <3>2 DEF SendEmail, MarkStatuses
  <2>5. \A x \in Senders : SenderAt(x, "record") => sender[x].id \in Deliveries
    BY DEF SenderTypes
  <2>6. QED BY <2>2, <2>3, <2>4, <2>5
<1>9. CASE RecordSent(s)
  BY <1>9, SenderMoves DEF RecordSent, UpdateStatusIfStillSending, UpdateStatusIfCurrentIn
<1>10. QED
  BY <1>1, <1>2, <1>3, <1>4, <1>5, <1>6, <1>7, <1>8, <1>9 DEF SenderStep

LEMMA OtherAcceptInv ==
  ASSUME TypeInv, AcceptInv, Tick \/ Breakdown \/ UNCHANGED vars
  PROVE  AcceptInv'
<1> USE DEF AcceptInv, NoPhantomSend, RecordsAccepted, SenderAt, TypeInv, TypeOK, rowVars,
      providerVars
<1>1. CASE Tick
  BY <1>1 DEF Tick
<1>2. CASE CrashSweep
  BY <1>2 DEF CrashSweep, sweepFrame
<1>3. ASSUME NEW c \in Composers, CrashComposer(c) \/ StallCompose(c) PROVE AcceptInv'
  BY <1>3 DEF CrashComposer, StallCompose, composeFrame
<1>4. ASSUME NEW s \in Senders, CrashSender(s) PROVE AcceptInv'
  BY <1>4, SenderMoves DEF CrashSender, sendFrame
<1>5. ASSUME NEW s \in Senders, StallSend(s) PROVE AcceptInv'
  BY <1>5 DEF StallSend, sendFrame
<1>6. CASE UNCHANGED vars
  BY <1>6 DEF vars
<1>7. QED BY <1>1, <1>2, <1>3, <1>4, <1>5, <1>6 DEF Breakdown

LEMMA AlwaysAcceptInv == Spec => []AcceptInv
<1>1. TypeInv /\ ContentInv /\ AcceptInv /\ [Next]_vars => AcceptInv'
  BY ComposerAcceptInv, SenderAcceptInv, ProducerAcceptInv, WebhookAcceptInv, SweepAcceptInv,
     OtherAcceptInv DEF Next
<1>2. QED BY InitAcceptInv, AlwaysContentInv, <1>1, PTL DEF Spec

\* No status claims a mail that the provider never accepted.
THEOREM SentRowsWereAccepted == Spec => []NoPhantomSend
BY AlwaysAcceptInv, PTL DEF AcceptInv

-----------------------------------------------------------------------------
(* Provider calls.  Each claim pays for at most one call, so the calls made  *)
(* and the calls still under way are no more than the attempts counted; a    *)
(* claim beyond the limit pays for none.                                     *)

\* The workers that may yet call the provider for d.
Callers(d) ==
  {s \in Senders : /\ sender[s].id = d
                   /\ \/ sender[s].pc = "send"
                      \/ sender[s].pc = "check" /\ sender[s].attempts <= MaxAttempts}

CallInv ==
  \A d \in Unreset : /\ calls[d] + Cardinality(Callers(d)) <= attempts[d]
                     /\ calls[d] + Cardinality(Callers(d)) <= MaxAttempts

\* Only digests are refreshed by a send worker.
RefreshesDigests == \A s \in Senders : SenderAt(s, "refresh") => sender[s].id \in Digests

LEMMA CallersFinite ==
  ASSUME NEW d
  PROVE  /\ IsFiniteSet(Callers(d)) /\ Cardinality(Callers(d)) \in Nat
         /\ IsFiniteSet(Callers(d)') /\ Cardinality(Callers(d)') \in Nat
<1>1. Callers(d) \subseteq Senders /\ Callers(d)' \subseteq Senders
  BY DEF Callers
<1>2. QED BY <1>1, WorkersAssumption, FS_Subset, FS_CardinalityType

LEMMA InitCallInv == Init => CallInv /\ RefreshesDigests
<1> SUFFICES ASSUME Init PROVE CallInv /\ RefreshesDigests
  OBVIOUS
<1>1. ASSUME NEW d \in Unreset PROVE Callers(d) = {}
  BY DEF Init, Callers, IdleSender, Busy
<1>2. CallInv
  <2>1. \A d \in Deliveries : calls[d] = 0 /\ attempts[d] = 0
    BY DEF Init
  <2>2. \A d \in Unreset : Cardinality(Callers(d)) = 0
    BY <1>1, FS_EmptySet
  <2>3. QED BY <2>1, <2>2, BoundsAssumption DEF CallInv, Unreset
<1>3. QED BY <1>2 DEF Init, RefreshesDigests, SenderAt, IdleSender, Busy

\* Steps that start no call: no worker joins, no call is counted and the
\* attempts of no row that keeps them go down.
LEMMA NoNewCaller ==
  ASSUME TypeInv, CallInv, UNCHANGED calls, TypeInv',
         \A d \in Unreset : attempts'[d] >= attempts[d] /\ Callers(d)' \subseteq Callers(d)
  PROVE  CallInv'
<1> SUFFICES ASSUME NEW d \in Unreset
             PROVE  /\ calls[d] + Cardinality(Callers(d)') <= attempts'[d]
                    /\ calls[d] + Cardinality(Callers(d)') <= MaxAttempts
  BY DEF CallInv
<1>1. Cardinality(Callers(d)') <= Cardinality(Callers(d))
  BY CallersFinite, FS_Subset
<1>2. calls[d] \in Nat /\ attempts[d] \in Nat /\ attempts'[d] \in Nat /\ MaxAttempts \in Nat
  BY BoundsAssumption DEF TypeInv, TypeOK, RowTypes, ProviderTypes, Unreset
<1>3. QED BY <1>1, <1>2, CallersFinite DEF CallInv

LEMMA SenderCallInv ==
  ASSUME TypeInv, TypeInv', CallInv, RefreshesDigests, NEW s \in Senders, SenderStep(s)
  PROVE  CallInv' /\ RefreshesDigests'
<1>d. PICK d : d = sender[s].id
  OBVIOUS
<1> USE <1>d DEF SenderAt
<1>0. \A e \in Deliveries : calls[e] \in Nat /\ attempts[e] \in 0 .. MaxAttempts + 1 /\ MaxAttempts \in Nat
  BY BoundsAssumption DEF TypeInv, TypeOK, RowTypes, ProviderTypes
<1>1. CASE claimForSending(s) /\ SenderClaims(s, d)
  <2>1. /\ d \in Deliveries /\ sender[s].pc = "claim"
        /\ UNCHANGED calls
    BY <1>1 DEF claimForSending, TypeInv, TypeOK, SenderTypes, providerVars
  <2>2. /\ sender'[s].pc = "check" /\ sender'[s].id = d /\ sender'[s].attempts = attempts'[d]
        /\ \A x \in Senders \ {s} : sender'[x] = sender[x]
    BY <1>1 DEF SenderClaims, TypeInv, TypeOK, SenderTypes
  <2>3. CASE attempts' = attempts
    <3>0. ASSUME attempts' = [attempts EXCEPT ![d] = Older(@, MaxAttempts + 1)]
          PROVE  attempts'[d] > MaxAttempts
      <4>1. attempts[d] = Older(attempts[d], MaxAttempts + 1)
        BY <2>1, <2>3, <3>0 DEF TypeInv, TypeOK, RowTypes
      <4>2. QED BY <1>0, <2>1, <2>3, <4>1 DEF Older
    <3>1. sender'[s].pc = "idle" \/ attempts'[d] > MaxAttempts
      <4>1. SendFinishes(s) \/ SendThrows(s) => sender'[s].pc = "idle"
        BY SenderMoves DEF TypeInv, TypeOK
      <4>2. QED BY <1>1, <3>0, <4>1 DEF claimForSending
    <3>2. \A e \in Unreset : Callers(e)' \subseteq Callers(e)
      BY <1>0, <2>1, <2>2, <2>3, <3>1 DEF Callers
    <3>3. CallInv'
      BY <1>0, <2>1, <2>3, <3>2, NoNewCaller DEF Unreset
    <3>4. QED BY <2>2, <3>3 DEF RefreshesDigests
  <2>4. CASE attempts' = [attempts EXCEPT ![d] = Older(@, MaxAttempts + 1)]
    <3>1. ASSUME NEW e \in Unreset \ {d}
          PROVE  Callers(e)' = Callers(e) /\ attempts'[e] = attempts[e]
      BY <2>1, <2>2, <2>4, <3>1 DEF Callers, TypeInv, TypeOK, RowTypes, Unreset
    <3>2. ASSUME d \in Unreset
          PROVE  /\ calls[d] + Cardinality(Callers(d)') <= attempts'[d]
                 /\ calls[d] + Cardinality(Callers(d)') <= MaxAttempts
      <4>1. attempts'[d] = Older(attempts[d], MaxAttempts + 1)
        BY <2>1, <2>4 DEF TypeInv, TypeOK, RowTypes
      <4>2. CASE attempts[d] < MaxAttempts
        <5>1. attempts'[d] = attempts[d] + 1
          BY <1>0, <2>1, <4>1, <4>2 DEF Older
        <5>2. Callers(d)' = Callers(d) \cup {s} /\ s \notin Callers(d)
          BY <1>0, <2>1, <2>2, <4>2, <5>1 DEF Callers
        <5>3. Cardinality(Callers(d)') = Cardinality(Callers(d)) + 1
          BY <5>2, CallersFinite, FS_AddElement
        <5>4. QED BY <1>0, <2>1, <3>2, <4>2, <5>1, <5>3, CallersFinite DEF CallInv
      <4>3. CASE ~(attempts[d] < MaxAttempts)
        <5>1. attempts'[d] > MaxAttempts
          BY <1>0, <2>1, <4>1, <4>3 DEF Older
        <5>2. Callers(d)' = Callers(d)
          BY <1>0, <2>1, <2>2, <5>1, <4>1 DEF Callers, Older
        <5>3. attempts'[d] >= attempts[d] /\ attempts'[d] \in Nat
          BY <1>0, <2>1, <4>1, <4>3 DEF Older
        <5>4. QED BY <1>0, <2>1, <3>2, <5>2, <5>3, CallersFinite DEF CallInv
      <4>4. QED BY <4>2, <4>3
    <3>3. CallInv'
      <4> SUFFICES ASSUME NEW e \in Unreset
                   PROVE  /\ calls'[e] + Cardinality(Callers(e)') <= attempts'[e]
                          /\ calls'[e] + Cardinality(Callers(e)') <= MaxAttempts
        BY DEF CallInv
      <4>1. CASE e = d BY <2>1, <3>2, <4>1
      <4>2. CASE e # d BY <2>1, <3>1, <4>2 DEF CallInv
      <4>3. QED BY <4>1, <4>2
    <3>4. QED BY <2>2, <3>3 DEF RefreshesDigests
  <2>5. QED BY <1>1, <2>3, <2>4 DEF claimForSending
<1>2. CASE SendEmail(s)
  <2>1. d \in Deliveries /\ sender[s].pc = "send" /\ UNCHANGED attempts
    BY <1>2 DEF SendEmail, TypeInv, TypeOK, SenderTypes, rowVars
  <2>2. /\ sender'[s].pc \in {"record", "mark"}
        /\ \A x \in Senders \ {s} : sender'[x] = sender[x]
    BY <1>2 DEF SendEmail, SenderGoes, SenderMarks, Busy, TypeInv, TypeOK, SenderTypes
  <2>3. ASSUME NEW e \in Unreset \ {d} PROVE Callers(e)' = Callers(e) /\ calls'[e] = calls[e]
    BY <1>2, <2>1, <2>2 DEF Callers, SendEmail, TypeInv, TypeOK, ProviderTypes, Unreset
  <2>4. ASSUME d \in Unreset
        PROVE  /\ calls'[d] + Cardinality(Callers(d)') <= attempts[d]
               /\ calls'[d] + Cardinality(Callers(d)') <= MaxAttempts
    <3>1. Callers(d)' = Callers(d) \ {s} /\ s \in Callers(d)
      <4>1. s \in Callers(d) /\ s \notin Callers(d)'
        BY <2>1, <2>2 DEF Callers
      <4>2. \A x \in Senders \ {s} : x \in Callers(d)' <=> x \in Callers(d)
        BY <2>2 DEF Callers
      <4>3. Callers(d) \subseteq Senders /\ Callers(d)' \subseteq Senders
        BY DEF Callers
      <4>4. QED BY <4>1, <4>2, <4>3
    <3>2. Cardinality(Callers(d)') = Cardinality(Callers(d)) - 1
      BY <3>1, CallersFinite, FS_RemoveElement
    <3>3. calls'[d] = Older(calls[d], MaxAttempts + 1)
      BY <1>2, <2>1, <2>4 DEF SendEmail, TypeInv, TypeOK, ProviderTypes
    <3>4. calls'[d] <= calls[d] + 1 /\ calls'[d] \in Nat
      BY <1>0, <2>1, <3>3 DEF Older
    <3>5. QED BY <1>0, <2>1, <2>4, <3>2, <3>4, CallersFinite DEF CallInv
  <2>5. CallInv'
    <3> SUFFICES ASSUME NEW e \in Unreset
                 PROVE  /\ calls'[e] + Cardinality(Callers(e)') <= attempts'[e]
                        /\ calls'[e] + Cardinality(Callers(e)') <= MaxAttempts
      BY DEF CallInv
    <3>1. CASE e = d BY <2>1, <2>4, <3>1
    <3>2. CASE e # d BY <2>1, <2>3, <3>2 DEF CallInv
    <3>3. QED BY <3>1, <3>2
  <2>6. QED BY <2>2, <2>5 DEF RefreshesDigests
<1>3. CASE ~SendEmail(s) /\ ~(claimForSending(s) /\ SenderClaims(s, d))
  <2>1. UNCHANGED calls
    BY <1>3 DEF SenderStep, TakeSendJob, claimForSending, CheckBeforeSend, MarkAndStop,
       RefreshSendingDigest, RequeueCompose, AbandonRecompose, RecordSent, providerVars
  <2>2. \A e \in Unreset : attempts'[e] >= attempts[e]
    BY <1>0, <1>3 DEF SenderStep, TakeSendJob, claimForSending, CheckBeforeSend, MarkAndStop,
       RefreshSendingDigest, ResetForRecompose, RequeueCompose, AbandonRecompose, RecordSent,
       rowVars, RefreshesDigests, Unreset, TypeInv, TypeOK, RowTypes
  <2>3. /\ \A x \in Senders \ {s} : sender'[x] = sender[x]
        /\ sender'[s].pc \in {"idle", "claim", "mark", "refresh", "requeue", "requeue_failed"}
           \/ /\ sender'[s].pc = "send" /\ sender'[s].id = d
              /\ sender[s].pc = "check" /\ sender[s].attempts <= MaxAttempts
        /\ sender'[s].pc = "refresh" => sender'[s].id \in Digests
    <3>1. CASE CheckBeforeSend(s)
      BY <1>0, <3>1 DEF CheckBeforeSend, SenderMarks, Busy, TypeInv, TypeOK, SenderTypes, SenderRecords
    <3>2. CASE ~CheckBeforeSend(s)
      BY <1>3, <3>2 DEF SenderStep, TakeSendJob, claimForSending, MarkAndStop,
         RefreshSendingDigest, RequeueCompose, AbandonRecompose, RecordSent, SenderGoes,
         SenderMarks, SendFinishes, SendThrows, IdleSender, Busy, TypeInv, TypeOK, SenderTypes
    <3>3. QED BY <3>1, <3>2
  <2>4. \A e \in Unreset : Callers(e)' \subseteq Callers(e)
    BY <2>3 DEF Callers
  <2>5. QED BY <2>1, <2>2, <2>3, <2>4, NoNewCaller DEF RefreshesDigests
<1>4. QED BY <1>1, <1>2, <1>3

LEMMA OtherCallInv ==
  ASSUME TypeInv, TypeInv', CallInv, RefreshesDigests,
         \/ ProducerStep \/ SweepStep \/ Tick \/ Breakdown \/ UNCHANGED vars
         \/ \E c \in Composers : ComposerStep(c)
         \/ \E d \in Deliveries, event \in Events : HandleWebhook(d, event)
  PROVE  CallInv' /\ RefreshesDigests'
<1> USE DEF SenderAt, rowVars, providerVars
<1>1. UNCHANGED calls
  BY DEF ProducerStep, Create, Reuse, RefreshReused, ReplaySkipped, SourceChanges, SweepStep,
     SweepScan, RecoverStuck, RecoverComposing, RecoverSent, TimeOutSent, SweepRow, SweepEnqueue,
     sweepFrame, Tick, Breakdown, CrashSweep, CrashComposer, StallCompose, CrashSender, StallSend,
     composeFrame, sendFrame, vars, HandleWebhook, ComposerStep, TakeComposeJob, claimForCompose,
     LookUpUnclaimable, Render, failOutboxPermanently, updateRenderedContent, releaseComposeClaim,
     EnqueueComposed
<1>2. \A d \in Unreset : attempts'[d] = attempts[d]
  <2>1. CASE UNCHANGED attempts
    BY <2>1
  <2>2. ASSUME NEW e \in Digests \cup Refreshables, attempts' = [attempts EXCEPT ![e] = 0]
        PROVE  \A d \in Unreset : attempts'[d] = attempts[d]
    BY <2>2 DEF Unreset, TypeInv, TypeOK, RowTypes
  <2>3. \/ UNCHANGED attempts
        \/ \E e \in Digests \cup Refreshables : attempts' = [attempts EXCEPT ![e] = 0]
    BY DEF ProducerStep, Create, Reuse, RefreshReused, ReplaySkipped, SourceChanges, SweepStep,
       SweepScan, RecoverStuck, RecoverComposing, RecoverSent, TimeOutSent, SweepRow, SweepEnqueue,
       sweepFrame, Tick, Breakdown, CrashSweep, CrashComposer, StallCompose, CrashSender, StallSend,
       composeFrame, sendFrame, vars, HandleWebhook, ComposerStep, TakeComposeJob, claimForCompose,
       LookUpUnclaimable, Render, failOutboxPermanently, updateRenderedContent, releaseComposeClaim,
       EnqueueComposed, ResetForRecompose
  <2>4. QED BY <2>1, <2>2, <2>3
<1>3. \A s \in Senders : sender'[s] = sender[s] \/ sender'[s].pc = "idle"
  <2>1. ASSUME NEW x \in Senders, CrashSender(x)
        PROVE  \A s \in Senders : sender'[s] = sender[s] \/ sender'[s].pc = "idle"
    BY <2>1, SenderMoves DEF CrashSender, TypeInv, TypeOK
  <2>2. CASE UNCHANGED sender
    BY <2>2
  <2>3. QED
    BY <2>1, <2>2
       DEF ProducerStep, Create, Reuse, RefreshReused, ReplaySkipped, SourceChanges, SweepStep,
         SweepScan, RecoverStuck, RecoverComposing, RecoverSent, TimeOutSent, SweepRow, SweepEnqueue,
         sweepFrame, Tick, Breakdown, CrashSweep, CrashComposer, StallCompose, StallSend,
         composeFrame, vars, HandleWebhook, ComposerStep, TakeComposeJob, claimForCompose,
         LookUpUnclaimable, Render, failOutboxPermanently, updateRenderedContent,
         releaseComposeClaim, EnqueueComposed
<1>4. \A d \in Unreset : attempts'[d] >= attempts[d] /\ Callers(d)' \subseteq Callers(d)
  BY <1>2, <1>3, BoundsAssumption DEF Callers, TypeInv, TypeOK, RowTypes, Unreset
<1>5. QED BY <1>1, <1>3, <1>4, NoNewCaller DEF RefreshesDigests

\* MAX_RETRY_ATTEMPTS bounds the provider calls of a row whose attempts are
\* never reset, for any number of workers, crashes, sweeps and replays.
THEOREM ProviderCallsAreBounded == Spec => []CallsBounded
<1>1. TypeInv /\ TypeInv' /\ CallInv /\ RefreshesDigests /\ [Next]_vars
        => CallInv' /\ RefreshesDigests'
  BY SenderCallInv, OtherCallInv DEF Next
<1>2. TypeInv /\ CallInv => CallsBounded
  <2> SUFFICES ASSUME TypeInv, CallInv, NEW d \in Unreset PROVE calls[d] <= MaxAttempts
    BY DEF CallsBounded, Unreset
  <2>1. calls[d] \in Nat /\ MaxAttempts \in Nat
    BY BoundsAssumption DEF TypeInv, TypeOK, ProviderTypes, Unreset
  <2>2. QED BY <2>1, CallersFinite DEF CallInv
<1>3. QED BY InitCallInv, AlwaysContentInv, <1>1, <1>2, PTL DEF Spec

-----------------------------------------------------------------------------
(* Exclusion.  Until the provider has accepted a mail of a row, or a sweep    *)
(* has robbed it, the row that a send worker holds is sending and younger     *)
(* than Threshold: no claim can take it, and a sweep that does has robbed it. *)

\* The worker is between its claim of d and its last word about it.
Owns(s, d) == sender[s].id = d /\ sender[s].pc \in {"check", "mark", "refresh", "send"}

Alone(d) ==
  emails[d] = 0 /\ d \notin robbed =>
    /\ \A s \in Senders : Owns(s, d) => status[d] = "sending" /\ idle[d] < Threshold
    /\ \A s, t \in Senders : Owns(s, d) /\ Owns(t, d) => s = t

OwnInv == \A d \in Deliveries : Alone(d)

LEMMA InitOwnInv == Init => OwnInv
BY DEF Init, OwnInv, Alone, Owns, IdleSender, Busy

\* Steps of those who never touch a row that is sending.
LEMMA BystanderOwnInv ==
  ASSUME OwnInv, UNCHANGED <<emails, sender, robbed>>,
         \A d \in Deliveries :
           status[d] = "sending" => status'[d] = "sending" /\ idle'[d] = idle[d]
  PROVE  OwnInv'
<1> SUFFICES ASSUME NEW d \in Deliveries PROVE Alone(d)'
  BY DEF OwnInv
<1>1. \A s \in Senders : Owns(s, d)' <=> Owns(s, d)
  BY DEF Owns
<1>2. QED BY <1>1 DEF OwnInv, Alone

LEMMA ComposerOwnInv ==
  ASSUME TypeInv, OwnInv, NEW c \in Composers, ComposerStep(c)
  PROVE  OwnInv'
<1> USE DEF TypeInv, TypeOK, RowTypes, rowVars, composeFrame, providerVars
<1>1. UNCHANGED <<emails, sender, robbed>>
  BY DEF ComposerStep, TakeComposeJob, claimForCompose, LookUpUnclaimable, Render,
         failOutboxPermanently, updateRenderedContent, releaseComposeClaim, EnqueueComposed
<1>2. \A d \in Deliveries :
        status[d] = "sending" => status'[d] = "sending" /\ idle'[d] = idle[d]
  BY DEF ComposerStep, TakeComposeJob, claimForCompose, LookUpUnclaimable, Render,
         failOutboxPermanently, updateRenderedContent, releaseComposeClaim, EnqueueComposed,
         UpdateStatusIfClaimed
<1>3. QED BY <1>1, <1>2, BystanderOwnInv

LEMMA ProducerOwnInv ==
  ASSUME TypeInv, OwnInv, ProducerStep
  PROVE  OwnInv'
<1> USE DEF TypeInv, TypeOK, RowTypes, rowVars, providerVars
<1>1. UNCHANGED <<emails, sender, robbed>>
  BY DEF ProducerStep, Create, Reuse, RefreshReused, ReplaySkipped, SourceChanges
<1>2. \A d \in Deliveries :
        status[d] = "sending" => status'[d] = "sending" /\ idle'[d] = idle[d]
  BY DEF ProducerStep, Create, Reuse, RefreshReused, ReplaySkipped, Reopened, SourceChanges,
         ResetForRecompose
<1>3. QED BY <1>1, <1>2, BystanderOwnInv

\* An event is of a mail that was accepted, so its row is no longer guarded.
LEMMA WebhookOwnInv ==
  ASSUME TypeInv, OwnInv, NEW e \in Deliveries, NEW event \in Events, HandleWebhook(e, event)
  PROVE  OwnInv'
<1> USE DEF TypeInv, TypeOK, RowTypes, HandleWebhook
<1> SUFFICES ASSUME NEW d \in Deliveries PROVE Alone(d)'
  BY DEF OwnInv
<1>1. emails[e] > 0 /\ UNCHANGED <<emails, sender, robbed, idle>>
  BY DEF ProviderOK
<1>2. d # e => status'[d] = status[d]
  BY DEF UpdateStatusIfCurrentIn
<1>3. \A s \in Senders : Owns(s, d)' <=> Owns(s, d)
  BY <1>1 DEF Owns
<1>4. QED BY <1>1, <1>2, <1>3 DEF OwnInv, Alone

\* A sweep takes a row that is sending only from its list of stuck rows, and
\* then has robbed it unless its worker is gone.
LEMMA SweepOwnInv ==
  ASSUME TimelyWorkers, TypeInv, OwnInv, SweepStep
  PROVE  OwnInv'
<1> USE DEF TypeInv, TypeOK, RowTypes, sweepFrame, providerVars
<1> SUFFICES ASSUME NEW d \in Deliveries PROVE Alone(d)'
  BY DEF OwnInv
<1>1. UNCHANGED <<emails, sender, idle>>
  BY DEF SweepStep, SweepScan, RecoverStuck, RecoverComposing, RecoverSent, TimeOutSent, SweepRow,
         SweepEnqueue
<1>2. \A s \in Senders : Owns(s, d)' <=> Owns(s, d)
  BY <1>1 DEF Owns
<1>3. robbed \subseteq robbed'
  BY DEF SweepStep, SweepScan, RecoverStuck, RecoverComposing, RecoverSent, TimeOutSent, SweepRow,
         SweepEnqueue
<1>4. CASE status'[d] = status[d]
  BY <1>1, <1>2, <1>3, <1>4 DEF OwnInv, Alone
<1>5. CASE status[d] # "sending"
  BY <1>1, <1>2, <1>3, <1>5 DEF OwnInv, Alone
<1>6. CASE status[d] = "sending" /\ status'[d] # status[d]
  <2>1. RecoverStuck(d)
    BY <1>6 DEF SweepStep, SweepScan, RecoverStuck, RecoverComposing, RecoverSent, TimeOutSent,
       SweepRow, SweepEnqueue, UpdateStatusIfCurrentIn
  <2>2. d \in robbed' \/ Aged(idle[d])
    BY <1>6, <2>1 DEF RecoverStuck, SweepRow, RobsTimely
  <2>3. idle[d] \in Nat /\ Threshold \in Nat
    BY BoundsAssumption
  <2>4. QED BY <1>1, <1>2, <1>3, <1>6, <2>2, <2>3 DEF OwnInv, Alone, Aged
<1>7. QED BY <1>4, <1>5, <1>6

\* Time passes only as far as no worker outlives Threshold; a worker that dies
\* leaves its row to the sweeper.
LEMMA OtherOwnInv ==
  ASSUME TimelyWorkers, TypeInv, OwnInv, Tick \/ Breakdown \/ UNCHANGED vars
  PROVE  OwnInv'
<1> USE DEF TypeInv, TypeOK, RowTypes, rowVars, providerVars
<1>1. CASE Tick
  <2> SUFFICES ASSUME NEW d \in Deliveries PROVE Alone(d)'
    BY DEF OwnInv
  <2>1. UNCHANGED <<emails, sender, robbed, status>>
    BY <1>1 DEF Tick
  <2>2. \A s \in Senders : Owns(s, d)' <=> Owns(s, d)
    BY <2>1 DEF Owns
  <2>3. ASSUME NEW s \in Senders, Owns(s, d) PROVE idle'[d] < Threshold
    <3>1. idle[d] + 1 < Threshold
      BY <1>1, <2>3 DEF Tick, Holding, Owns
    <3>2. idle'[d] = 0 \/ idle'[d] = idle[d] + 1 \/ idle'[d] = idle[d]
      BY <1>1 DEF Tick, Older
    <3>3. idle[d] \in Nat /\ Threshold \in Nat \ {0}
      BY BoundsAssumption
    <3>4. QED BY <3>1, <3>2, <3>3
  <2>4. QED BY <2>1, <2>2, <2>3 DEF OwnInv, Alone
<1>2. CASE CrashSweep
  <2> SUFFICES ASSUME NEW d \in Deliveries PROVE Alone(d)'
    BY DEF OwnInv
  <2>1. UNCHANGED <<emails, sender, robbed, status, idle>>
    BY <1>2 DEF CrashSweep, sweepFrame
  <2>2. \A s \in Senders : Owns(s, d)' <=> Owns(s, d)
    BY <2>1 DEF Owns
  <2>3. QED BY <2>1, <2>2 DEF OwnInv, Alone
<1>3. CASE UNCHANGED <<emails, sender, robbed, status, idle>>
  BY <1>3, BystanderOwnInv
<1>4. ASSUME NEW c \in Composers, CrashComposer(c) \/ StallCompose(c) PROVE OwnInv'
  BY <1>3, <1>4 DEF CrashComposer, StallCompose, composeFrame
<1>5. ASSUME NEW s \in Senders, StallSend(s) PROVE OwnInv'
  BY <1>3, <1>5 DEF StallSend, sendFrame
<1>6. ASSUME NEW s \in Senders, CrashSender(s) PROVE OwnInv'
  <2> SUFFICES ASSUME NEW d \in Deliveries PROVE Alone(d)'
    BY DEF OwnInv
  <2>1. UNCHANGED <<emails, robbed, status, idle>>
    BY <1>6 DEF CrashSender, sendFrame
  <2>2. \A x \in Senders : Owns(x, d)' => Owns(x, d)
    BY <1>6, SenderMoves DEF CrashSender, Owns
  <2>3. QED BY <2>1, <2>2 DEF OwnInv, Alone
<1>7. CASE UNCHANGED vars
  BY <1>3, <1>7 DEF vars
<1>8. QED BY <1>1, <1>2, <1>4, <1>5, <1>6, <1>7 DEF Breakdown

LEMMA SenderOwnInv ==
  ASSUME TypeInv, ContentInv, AcceptInv, OwnInv, NEW s \in Senders, SenderStep(s)
  PROVE  OwnInv'
<1>own. PICK own : own = sender[s].id
  OBVIOUS
<1> USE <1>own DEF TypeInv, TypeOK, RowTypes, SenderAt, rowVars, sendFrame, providerVars
<1>0. MarkStatuses \subseteq Statuses
  BY DEF MarkStatuses, Statuses, DeliveryStatus, TERMINAL_STATUSES, CLAIMABLE_STATUSES
<1> SUFFICES ASSUME NEW d \in Deliveries PROVE Alone(d)'
  BY DEF OwnInv
<1>1. ASSUME NEW e \in Deliveries, TakeSendJob(s, e) PROVE Alone(d)'
  <2>1. sender'[s].pc = "claim" /\ \A x \in Senders \ {s} : sender'[x] = sender[x]
    BY <1>1 DEF TakeSendJob, SenderTypes, Busy
  <2>2. UNCHANGED <<emails, robbed, status, idle>>
    BY <1>1 DEF TakeSendJob
  <2>3. \A x \in Senders : Owns(x, d)' => Owns(x, d)
    BY <2>1 DEF Owns
  <2>4. QED BY <2>2, <2>3 DEF OwnInv, Alone
<1>2. CASE claimForSending(s)
  <2>0. own \in Deliveries /\ sender[s].pc = "claim" /\ UNCHANGED <<emails, robbed>>
    BY <1>2 DEF claimForSending, SenderTypes
  <2>1. CASE /\ isReadyToSendDelivery(own) /\ SenderClaims(s, own)
             /\ status' = [status EXCEPT ![own] = "sending"]
             /\ idle' = [idle EXCEPT ![own] = 0]
    <3>1. /\ sender'[s].pc = "check" /\ sender'[s].id = own
          /\ \A x \in Senders \ {s} : sender'[x] = sender[x]
      BY <2>1 DEF SenderClaims, SenderTypes
    <3>2. CASE d = own
      <4>1. status[d] # "sending" /\ status'[d] = "sending" /\ idle'[d] = 0
        BY <2>0, <2>1, <3>2 DEF isReadyToSendDelivery, CLAIMABLE_STATUSES
      <4>2. emails[d] = 0 /\ d \notin robbed => \A x \in Senders : ~Owns(x, d)
        BY <4>1 DEF OwnInv, Alone
      <4>3. \A x \in Senders : Owns(x, d)' => x = s \/ Owns(x, d)
        BY <3>1 DEF Owns
      <4>4. QED BY <2>0, <4>1, <4>2, <4>3, BoundsAssumption DEF Alone
    <3>3. CASE d # own
      <4>1. \A x \in Senders : Owns(x, d)' => Owns(x, d)
        BY <3>1, <3>3 DEF Owns
      <4>2. status'[d] = status[d] /\ idle'[d] = idle[d]
        BY <2>1, <3>3
      <4>3. QED BY <2>0, <4>1, <4>2 DEF OwnInv, Alone
    <3>4. QED BY <3>2, <3>3
  <2>2. CASE UNCHANGED <<status, idle>> /\ (SendFinishes(s) \/ SendThrows(s))
    <3>1. \A x \in Senders : Owns(x, d)' => Owns(x, d)
      BY <2>2, SenderMoves DEF Owns
    <3>2. QED BY <2>0, <2>2, <3>1 DEF OwnInv, Alone
  <2>3. QED BY <1>2, <2>1, <2>2 DEF claimForSending
<1>3. CASE CheckBeforeSend(s)
  <2>1. UNCHANGED <<emails, robbed, status, idle>> /\ sender[s].pc = "check"
    BY <1>3 DEF CheckBeforeSend
  <2>2. sender'[s].id = own /\ \A x \in Senders \ {s} : sender'[x] = sender[x]
    BY <1>0, <1>3, SenderMoves DEF CheckBeforeSend, SenderTypes, SenderRecords, Busy, MarkStatuses
  <2>3. \A x \in Senders : Owns(x, d)' => Owns(x, d)
    BY <2>1, <2>2 DEF Owns
  <2>4. QED BY <2>1, <2>3 DEF OwnInv, Alone
<1>4. ASSUME sender[s].pc \in {"mark", "refresh"}, own \in Deliveries,
             UNCHANGED <<emails, robbed>>,
             sender'[s].pc \notin {"check", "mark", "refresh", "send"},
             \A x \in Senders \ {s} : sender'[x] = sender[x],
             \A e \in Deliveries \ {own} : status'[e] = status[e] /\ idle'[e] = idle[e]
      PROVE  Alone(d)'
  <2>1. \A x \in Senders : Owns(x, d)' => Owns(x, d) /\ x # s
    BY <1>4 DEF Owns
  <2>2. CASE d = own
    <3>1. Owns(s, d)
      BY <1>4, <2>2 DEF Owns
    <3>2. emails[d] = 0 /\ d \notin robbed => \A x \in Senders : Owns(x, d) => x = s
      BY <3>1 DEF OwnInv, Alone
    <3>3. QED BY <1>4, <2>1, <3>2 DEF Alone
  <2>3. CASE d # own
    BY <1>4, <2>1, <2>3 DEF OwnInv, Alone
  <2>4. QED BY <2>2, <2>3
<1>5. CASE MarkAndStop(s)
  <2>1. sender[s].pc = "mark" /\ own \in Deliveries /\ UNCHANGED <<emails, robbed, idle>>
    BY <1>5 DEF MarkAndStop, SenderTypes
  <2>2. sender'[s].pc = "idle" /\ \A x \in Senders \ {s} : sender'[x] = sender[x]
    BY <1>5, SenderMoves DEF MarkAndStop
  <2>3. \A e \in Deliveries \ {own} : status'[e] = status[e]
    BY <1>5 DEF MarkAndStop, UpdateStatusIfStillSending, UpdateStatusIfCurrentIn
  <2>4. QED BY <1>4, <2>1, <2>2, <2>3
<1>6. CASE RefreshSendingDigest(s)
  <2>1. sender[s].pc = "refresh" /\ own \in Deliveries /\ UNCHANGED <<emails, robbed>>
    BY <1>6 DEF RefreshSendingDigest, SenderTypes
  <2>2. CASE ResetForRecompose(own, sender[s].version) /\ SenderGoes(s, "requeue")
    <3>1. sender'[s].pc = "requeue" /\ \A x \in Senders \ {s} : sender'[x] = sender[x]
      BY <2>2, SenderMoves DEF SenderPcs
    <3>2. \A e \in Deliveries \ {own} : status'[e] = status[e] /\ idle'[e] = idle[e]
      BY <2>2 DEF ResetForRecompose
    <3>3. QED BY <1>4, <2>1, <3>1, <3>2
  <2>3. CASE SendFinishes(s) /\ UNCHANGED rowVars
    <3>1. sender'[s].pc = "idle" /\ \A x \in Senders \ {s} : sender'[x] = sender[x]
      BY <2>3, SenderMoves
    <3>2. QED BY <1>4, <2>1, <2>3, <3>1
  <2>4. ASSUME NEW next \in MarkStatuses, SenderMarks(s, next), UNCHANGED rowVars PROVE Alone(d)'
    <3>1. sender'[s].id = own /\ \A x \in Senders \ {s} : sender'[x] = sender[x]
      BY <1>0, <2>4, SenderMoves
    <3>2. \A x \in Senders : Owns(x, d)' => Owns(x, d)
      BY <2>1, <3>1 DEF Owns
    <3>3. QED BY <2>1, <2>4, <3>2 DEF OwnInv, Alone
  <2>5. QED BY <1>6, <2>2, <2>3, <2>4 DEF RefreshSendingDigest, MarkStatuses
<1>7. CASE RequeueCompose(s)
  <2>1. UNCHANGED <<emails, robbed, status, idle>>
    BY <1>7 DEF RequeueCompose
  <2>2. \A x \in Senders : Owns(x, d)' => Owns(x, d)
    BY <1>7, SenderMoves DEF RequeueCompose, Owns, SenderPcs
  <2>3. QED BY <2>1, <2>2 DEF OwnInv, Alone
<1>8. CASE AbandonRecompose(s)
  <2>1. UNCHANGED <<emails, robbed, idle>> /\ (status[d] = "sending" => status'[d] = "sending")
    BY <1>8 DEF AbandonRecompose, UpdateStatusIfCurrentIn
  <2>2. \A x \in Senders : Owns(x, d)' => Owns(x, d)
    BY <1>8, SenderMoves DEF AbandonRecompose, Owns
  <2>3. QED BY <2>1, <2>2 DEF OwnInv, Alone
<1>9. CASE SendEmail(s)
  <2>1. UNCHANGED <<robbed, status, idle>> /\ sender[s].pc = "send" /\ own \in Deliveries
    BY <1>9 DEF SendEmail, SenderTypes
  <2>2. \A e \in Deliveries : emails[e] > 0 => emails'[e] > 0
    BY <1>9, <2>1, BoundsAssumption, OutcomesAssumption, ProviderAcceptsTypes DEF SendEmail
  <2>3. emails'[d] = 0 => emails[d] = 0
    BY <2>2 DEF ProviderTypes
  <2>4. \A x \in Senders : Owns(x, d)' => Owns(x, d)
    <3>1. CASE SenderGoes(s, "record")
      BY <3>1, SenderMoves DEF Owns, SenderPcs
    <3>2. ASSUME NEW next \in MarkStatuses, SenderMarks(s, next)
          PROVE  \A x \in Senders : Owns(x, d)' => Owns(x, d)
      BY <1>0, <2>1, <3>2, SenderMoves DEF Owns
    <3>3. QED BY <1>9, <3>1, <3>2 DEF SendEmail, MarkStatuses
  <2>5. QED BY <2>1, <2>3, <2>4 DEF OwnInv, Alone
<1>10. CASE RecordSent(s)
  <2>1. own \in Deliveries /\ emails[own] > 0 /\ UNCHANGED <<emails, robbed, idle>>
    BY <1>10 DEF RecordSent, SenderTypes, AcceptInv, RecordsAccepted
  <2>2. d # own => status'[d] = status[d]
    BY <1>10, <2>1 DEF RecordSent, UpdateStatusIfStillSending, UpdateStatusIfCurrentIn
  <2>3. \A x \in Senders : Owns(x, d)' => Owns(x, d)
    BY <1>10, SenderMoves DEF RecordSent, Owns
  <2>4. QED BY <2>1, <2>2, <2>3 DEF OwnInv, Alone
<1>11. QED
  BY <1>1, <1>2, <1>3, <1>5, <1>6, <1>7, <1>8, <1>9, <1>10 DEF SenderStep

\* While workers are timely, at most one is on the way to the provider with a
\* row that the provider has not accepted, whatever crashes, stalls, sweeps
\* and webhooks come between, unless a sweep found the row before its claim and
\* took it from its worker after.
THEOREM OnlyOneSendsFirst == Spec => []ExclusiveUntilAccepted
<1> DEFINE Guarded == TimelyWorkers => OwnInv
<1>1. Init => Guarded
  BY InitOwnInv
<1>2. TypeInv /\ ContentInv /\ AcceptInv /\ Guarded /\ [Next]_vars => Guarded'
  BY ComposerOwnInv, SenderOwnInv, ProducerOwnInv, WebhookOwnInv, SweepOwnInv, OtherOwnInv
     DEF Next
<1>3. Guarded => ExclusiveUntilAccepted
  <2> SUFFICES ASSUME OwnInv, NEW d \in Deliveries \ robbed, emails[d] = 0
               PROVE  Cardinality(InFlight(d)) <= 1
    BY DEF ExclusiveUntilAccepted
  <2>1. \A s, t \in InFlight(d) : s = t
    BY DEF OwnInv, Alone, Owns, InFlight
  <2>2. CASE InFlight(d) = {}
    BY <2>2, FS_EmptySet
  <2>3. ASSUME NEW s \in InFlight(d), InFlight(d) = {s} PROVE Cardinality(InFlight(d)) <= 1
    <3>1. Cardinality({s}) = 1
      BY FS_Singleton
    <3>2. QED BY <2>3, <3>1
  <2>4. QED BY <2>1, <2>2, <2>3
<1>4. QED
  <2> HIDE DEF Guarded
  <2> QED BY <1>1, <1>2, <1>3, AlwaysContentInv, AlwaysAcceptInv, PTL DEF Spec

=============================================================================
