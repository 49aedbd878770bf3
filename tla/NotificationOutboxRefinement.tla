-------------------- MODULE NotificationOutboxRefinement --------------------
(***************************************************************************)
(* The notification outbox implements DeliveryLifecycle: seen from outside *)
(* a row moves only along its lifecycle, whatever the number of rows,      *)
(* workers and failures.                                                   *)
(***************************************************************************)
EXTENDS NotificationOutboxProofs

-----------------------------------------------------------------------------
(* Nobody works on a row that was not created.                               *)

PresentInv ==
  \A d \in Deliveries : status[d] = "absent" =>
    /\ composeJob[d] = "none" /\ sendJob[d] = "none" /\ sweep[d] = {} /\ claim[d] = None
    /\ \A c \in Composers : ~ComposerAt(c, "idle") => composer[c].id # d
    /\ \A s \in Senders : ~SenderAt(s, "idle") => sender[s].id # d

\* What the lifecycle sees of a step that writes one status.
Move(d, next) ==
  \/ PhaseOf(next) = PhaseOf(status[d])
  \/ status[d] = "absent" /\ next = "pending"
  \/ PhaseOf(status[d]) = "open" /\ PhaseOf(next) \in {"stopped", "skipped", "suppressed"}
  \/ PhaseOf(status[d]) = "open" /\ PhaseOf(next) \in {"sent", "delivered"} /\ emails[d] > 0
  \/ status[d] = "sent" /\ PhaseOf(next) \in {"open", "timed_out", "stopped"}
  \/ PhaseOf(status[d]) \in {"sent", "timed_out"} /\ next = "delivered" /\ emails[d] > 0
  \/ PhaseOf(status[d]) \in {"sent", "delivered", "timed_out"} /\ next = "suppressed" /\ emails[d] > 0
  \/ PhaseOf(status[d]) = "skipped" /\ next = "pending" /\ d \in Weeklies

LEMMA Phases ==
  ASSUME NEW st \in Statuses
  PROVE  /\ PhaseOf(st) = "absent" <=> st = "absent"
         /\ PhaseOf(st) = "sent" <=> st = "sent"
         /\ PhaseOf(st) \in Lifecycle!Phases
BY DEF Statuses, DeliveryStatus, CLAIMABLE_STATUSES, TERMINAL_STATUSES, PhaseOf, Lifecycle!Phases

LEMMA MoveIsAStep ==
  ASSUME TypeInv, NEW d \in Deliveries, NEW next \in Statuses,
         status' = [status EXCEPT ![d] = next], UNCHANGED emails, Move(d, next)
  PROVE  [Lifecycle!Next]_(Lifecycle!vars)
<1> DEFINE phase == [e \in Deliveries |-> PhaseOf(status[e])]
           accepted == [e \in Deliveries |-> emails[e] > 0]
<1>1. phase' = [phase EXCEPT ![d] = PhaseOf(next)]
  BY DEF TypeInv, TypeOK, RowTypes
<1>2. accepted' = accepted
  BY DEF TypeInv, TypeOK
<1>3. phase[d] = PhaseOf(status[d]) /\ (accepted[d] <=> emails[d] > 0)
  OBVIOUS
<1>4. CASE PhaseOf(next) = PhaseOf(status[d])
  BY <1>1, <1>2, <1>4 DEF Lifecycle!vars
<1>5. CASE PhaseOf(next) # PhaseOf(status[d])
  <2>1. Lifecycle!Step(d)
    BY <1>1, <1>2, <1>3, <1>5, Phases
       DEF Move, PhaseOf, TypeInv, TypeOK, RowTypes,
           Lifecycle!Step, Lifecycle!Moves, Lifecycle!Open, Lifecycle!Confirm, Lifecycle!Deliver,
           Lifecycle!Retry, Lifecycle!TimeOut, Lifecycle!Stop, Lifecycle!Skip,
           Lifecycle!Suppress, Lifecycle!Reopen
  <2>2. QED BY <2>1 DEF Lifecycle!Next
<1>6. QED BY <1>4, <1>5

LEMMA InitPresentInv == Init => PresentInv
BY DEF Init, PresentInv, ComposerAt, SenderAt, IdleComposer, IdleSender, Busy

LEMMA ComposerPresentInv ==
  ASSUME TypeInv, PresentInv, NEW c \in Composers, ComposerStep(c)
  PROVE  PresentInv'
<1> DEFINE d == composer[c].id
<1> USE DEF TypeInv, TypeOK, RowTypes, PresentInv, ComposerAt, SenderAt, rowVars, jobVars, composeFrame
<1>1. \A e \in Deliveries : status'[e] = "absent" => status[e] = "absent"
  BY DEF ComposerStep, TakeComposeJob, claimForCompose, LookUpUnclaimable, Render,
         failOutboxPermanently, updateRenderedContent, releaseComposeClaim, EnqueueComposed,
         UpdateStatusIfClaimed
<1>2. UNCHANGED <<sender, sweep>>
  BY DEF ComposerStep, TakeComposeJob, claimForCompose, LookUpUnclaimable, Render,
         failOutboxPermanently, updateRenderedContent, releaseComposeClaim, EnqueueComposed
<1>3. ASSUME NEW e \in Deliveries, TakeComposeJob(c, e) PROVE PresentInv'
  <2>1. composer'[c].id = e /\ \A x \in Composers \ {c} : composer'[x] = composer[x]
    BY <1>3 DEF TakeComposeJob, ComposerTypes, IdleComposer
  <2>2. QED BY <1>1, <1>2, <1>3, <2>1 DEF TakeComposeJob, ComposerTypes
<1>4. ASSUME ~\E e \in Deliveries : TakeComposeJob(c, e) PROVE PresentInv'
  <2>1. d \in Deliveries /\ composer[c].pc # "idle" /\ status[d] # "absent"
    BY <1>4 DEF ComposerStep, claimForCompose, LookUpUnclaimable, Render, failOutboxPermanently,
         updateRenderedContent, releaseComposeClaim, EnqueueComposed, ComposerTypes
  <2>2. /\ composer'[c].pc = "idle" \/ composer'[c].id = d
        /\ \A x \in Composers \ {c} : composer'[x] = composer[x]
    BY <1>4, ComposerMoves
       DEF ComposerStep, claimForCompose, LookUpUnclaimable, Render, failOutboxPermanently,
         updateRenderedContent, releaseComposeClaim, EnqueueComposed, ComposerTypes, ComposerPcs, ComposerRecords
  <2>3. \A e \in Deliveries \ {d} : composeJob'[e] = composeJob[e] /\ sendJob'[e] = sendJob[e]
    BY <1>4
       DEF ComposerStep, claimForCompose, LookUpUnclaimable, Render, failOutboxPermanently,
         updateRenderedContent, releaseComposeClaim, EnqueueComposed, enqueueSendJob, Enqueued,
         ComposeFinishes, ComposeThrows, Finished, Thrown, ComposerTypes, SenderTypes
  <2>4. \A e \in Deliveries \ {d} : claim'[e] = claim[e]
    BY <1>4
       DEF ComposerStep, claimForCompose, LookUpUnclaimable, Render, failOutboxPermanently,
         updateRenderedContent, releaseComposeClaim, EnqueueComposed
  <2>5. QED BY <1>1, <1>2, <2>1, <2>2, <2>3, <2>4
<1>5. QED BY <1>3, <1>4

LEMMA SenderPresentInv ==
  ASSUME TypeInv, ContentInv, PresentInv, NEW s \in Senders, SenderStep(s)
  PROVE  PresentInv'
<1> DEFINE d == sender[s].id
<1> USE DEF TypeInv, TypeOK, RowTypes, PresentInv, ComposerAt, SenderAt, rowVars, jobVars, sendFrame
<1>1. \A e \in Deliveries : status'[e] = "absent" => status[e] = "absent"
  BY DEF SenderStep, TakeSendJob, claimForSending, CheckBeforeSend, MarkAndStop, RefreshSendingDigest,
         RequeueCompose, AbandonRecompose, SendEmail, RecordSent, UpdateStatusIfStillSending,
         UpdateStatusIfCurrentIn, ResetForRecompose, ContentInv, MarksStop, MarkStatuses
<1>2. UNCHANGED <<composer, sweep>>
  BY DEF SenderStep, TakeSendJob, claimForSending, CheckBeforeSend, MarkAndStop, RefreshSendingDigest,
         RequeueCompose, AbandonRecompose, SendEmail, RecordSent
<1>3. ASSUME NEW e \in Deliveries, TakeSendJob(s, e) PROVE PresentInv'
  <2>1. sender'[s].id = e /\ \A x \in Senders \ {s} : sender'[x] = sender[x]
    BY <1>3 DEF TakeSendJob, SenderTypes, Busy
  <2>2. QED BY <1>1, <1>2, <1>3, <2>1 DEF TakeSendJob, SenderTypes
<1>4. ASSUME ~\E e \in Deliveries : TakeSendJob(s, e) PROVE PresentInv'
  <2>1. d \in Deliveries /\ sender[s].pc # "idle" /\ status[d] # "absent"
    BY <1>4 DEF SenderStep, claimForSending, CheckBeforeSend, MarkAndStop, RefreshSendingDigest,
         RequeueCompose, AbandonRecompose, SendEmail, RecordSent, SenderTypes
  <2>2. /\ sender'[s].pc = "idle" \/ sender'[s].id = d
        /\ \A x \in Senders \ {s} : sender'[x] = sender[x]
    BY <1>4 DEF SenderStep, claimForSending, CheckBeforeSend, MarkAndStop, RefreshSendingDigest,
         RequeueCompose, AbandonRecompose, SendEmail, RecordSent, SenderTypes, SenderRecords,
         SenderGoes, SenderMarks, SenderClaims, SendFinishes, SendThrows, Busy, IdleSender
  <2>3. \A e \in Deliveries \ {d} : composeJob'[e] = composeJob[e] /\ sendJob'[e] = sendJob[e]
    BY <1>4 DEF SenderStep, claimForSending, CheckBeforeSend, MarkAndStop, RefreshSendingDigest,
         RequeueCompose, AbandonRecompose, SendEmail, RecordSent, EnqueueCompose, Enqueued,
         SendFinishes, SendThrows, SenderMarks, Finished, Thrown, ComposerTypes, SenderTypes
  <2>4. \A e \in Deliveries \ {d} : claim'[e] = claim[e]
    BY <1>4 DEF SenderStep, claimForSending, CheckBeforeSend, MarkAndStop, RefreshSendingDigest,
         RequeueCompose, AbandonRecompose, SendEmail, RecordSent, ResetForRecompose
  <2>5. QED BY <1>1, <1>2, <2>1, <2>2, <2>3, <2>4
<1>5. QED BY <1>3, <1>4

LEMMA OtherPresentInv ==
  ASSUME TypeInv, PresentInv,
         \/ ProducerStep \/ SweepStep \/ Tick \/ Breakdown \/ UNCHANGED vars
         \/ \E d \in Deliveries, event \in Events : HandleWebhook(d, event)
  PROVE  PresentInv'
<1> USE DEF TypeInv, TypeOK, RowTypes, PresentInv, ComposerAt, SenderAt, rowVars, jobVars, ComposerTypes, SenderTypes
<1>1. CASE ProducerStep
  BY <1>1 DEF ProducerStep, Create, Reuse, RefreshReused, ReplaySkipped, SourceChanges,
       ResetForRecompose, Reopened, EnqueueCompose, Enqueued
<1>2. CASE SweepScan
  BY <1>2 DEF SweepScan, FoundAs, Lists, findStuckSending, NeverAttempted, findPendingComposeOrphans,
       findReadyToSendOrphans, isReadyToSendDelivery, findSentAwaitingWebhook, CLAIMABLE_STATUSES, sweepFrame
<1>3. ASSUME NEW d \in Deliveries,
             RecoverStuck(d) \/ RecoverComposing(d) \/ RecoverSent(d) \/ TimeOutSent(d)
      PROVE  PresentInv'
  BY <1>3 DEF RecoverStuck, RecoverComposing, RecoverSent, TimeOutSent, SweepRow,
       UpdateStatusIfCurrentIn, sweepFrame
<1>4. ASSUME NEW d \in Deliveries, SweepEnqueue(d) PROVE PresentInv'
  BY <1>4 DEF SweepEnqueue, EnqueueCompose, enqueueSendJob, Enqueued, sweepFrame
<1>5. CASE Tick
  BY <1>5 DEF Tick
<1>6. CASE CrashSweep
  BY <1>6 DEF CrashSweep, sweepFrame
<1>7. ASSUME NEW c \in Composers, CrashComposer(c) \/ StallCompose(c) PROVE PresentInv'
  BY <1>7, ComposerMoves DEF CrashComposer, StallCompose, ComposeThrows, Thrown, composeFrame
<1>8. ASSUME NEW s \in Senders, CrashSender(s) \/ StallSend(s) PROVE PresentInv'
  BY <1>8, SenderMoves DEF CrashSender, StallSend, SendThrows, Thrown, sendFrame
<1>9. CASE UNCHANGED vars
  BY <1>9 DEF vars
<1>10. ASSUME NEW d \in Deliveries, NEW event \in Events, HandleWebhook(d, event) PROVE PresentInv'
  <2>1. WebhookStatus(event) # "absent"
    BY DEF WebhookStatus, Events
  <2>2. QED BY <1>10, <2>1 DEF HandleWebhook, UpdateStatusIfCurrentIn
<1>11. QED
  BY <1>1, <1>2, <1>3, <1>4, <1>5, <1>6, <1>7, <1>8, <1>9, <1>10 DEF SweepStep, Breakdown

-----------------------------------------------------------------------------
(* Every step is a step of the lifecycle or leaves it where it is.           *)

\* Steps that write no status and learn nothing from the provider.
LEMMA QuietStep ==
  ASSUME UNCHANGED <<status, emails>>
  PROVE  [Lifecycle!Next]_(Lifecycle!vars)
BY DEF Lifecycle!vars

\* A provider's acceptance is the only other thing the lifecycle sees.
LEMMA AcceptIsAStep ==
  ASSUME TypeInv, NEW d \in Deliveries, status[d] # "absent", UNCHANGED status,
         ProviderAccepts(d) \/ ProviderIgnores
  PROVE  [Lifecycle!Next]_(Lifecycle!vars)
<1> DEFINE accepted == [e \in Deliveries |-> emails[e] > 0]
<1>1. CASE UNCHANGED emails
  BY <1>1, QuietStep
<1>2. CASE emails' = [emails EXCEPT ![d] = Older(@, EmailCap)]
  <2>1. emails'[d] > 0 /\ \A e \in Deliveries \ {d} : emails'[e] = emails[e]
    BY <1>2 DEF TypeInv, TypeOK, ProviderTypes, Older, EmailCap
  <2>2. accepted' = [accepted EXCEPT ![d] = TRUE]
    BY <2>1
  <2>3. PhaseOf(status[d]) # "absent"
    BY Phases DEF TypeInv, TypeOK, RowTypes
  <2>4. Lifecycle!Accept(d)
    BY <2>2, <2>3 DEF Lifecycle!Accept
  <2>5. QED BY <2>4 DEF Lifecycle!Next, Lifecycle!Step
<1>3. QED BY <1>1, <1>2 DEF ProviderAccepts, ProviderIgnores

LEMMA InitImplements == Init => Lifecycle!Init
<1> SUFFICES ASSUME Init PROVE Lifecycle!Init
  OBVIOUS
<1>1. \A d \in Deliveries : PhaseOf(status[d]) = "absent"
  BY DEF Init, PhaseOf
<1>2. \A d \in Deliveries : (emails[d] > 0) = FALSE
  BY DEF Init
<1>3. QED BY <1>1, <1>2 DEF Lifecycle!Init

LEMMA ComposerImplements ==
  ASSUME TypeInv, NEW c \in Composers, ComposerStep(c)
  PROVE  [Lifecycle!Next]_(Lifecycle!vars)
<1> DEFINE d == composer[c].id
<1>1. UNCHANGED emails
  BY DEF ComposerStep, TakeComposeJob, claimForCompose, LookUpUnclaimable, Render,
         failOutboxPermanently, updateRenderedContent, releaseComposeClaim, EnqueueComposed,
         composeFrame, providerVars
<1>2. \/ UNCHANGED status
      \/ /\ d \in Deliveries /\ status[d] \in {"pending", "composing"}
         /\ \E next \in {"composing", "pending", "failed_permanent"} :
              status' = [status EXCEPT ![d] = next]
  BY DEF ComposerStep, TakeComposeJob, claimForCompose, LookUpUnclaimable, Render,
         failOutboxPermanently, updateRenderedContent, releaseComposeClaim, EnqueueComposed,
         UpdateStatusIfClaimed, TypeInv, TypeOK, ComposerTypes, ComposerAt, rowVars
<1>3. QED
  BY <1>1, <1>2, MoveIsAStep, QuietStep
     DEF Move, PhaseOf, Statuses, DeliveryStatus, CLAIMABLE_STATUSES, TERMINAL_STATUSES

LEMMA ProducerImplements ==
  ASSUME TypeInv, ProducerStep
  PROVE  [Lifecycle!Next]_(Lifecycle!vars)
<1>1. UNCHANGED emails
  BY DEF ProducerStep, Create, Reuse, RefreshReused, ReplaySkipped, SourceChanges, providerVars
<1>2. \/ UNCHANGED status
      \/ \E d \in Deliveries :
           /\ \/ status[d] \in {"absent", "pending", "failed_transient", "composing"}
              \/ status[d] \in {"skipped_no_email", "skipped_unsubscribed"} /\ d \in Weeklies
           /\ status' = [status EXCEPT ![d] = "pending"]
  BY DEF ProducerStep, Create, Reuse, RefreshReused, ReplaySkipped, SourceChanges,
         ResetForRecompose, Reopened, rowVars
<1>3. QED
  BY <1>1, <1>2, MoveIsAStep, QuietStep
     DEF Move, PhaseOf, Statuses, DeliveryStatus, CLAIMABLE_STATUSES

LEMMA WebhookImplements ==
  ASSUME TypeInv, NEW d \in Deliveries, NEW event \in Events, HandleWebhook(d, event)
  PROVE  [Lifecycle!Next]_(Lifecycle!vars)
<1>1. UNCHANGED emails /\ emails[d] > 0
  BY DEF HandleWebhook, TypeInv, ProviderOK
<1>2. CASE UNCHANGED status
  BY <1>1, <1>2, QuietStep
<1>3. CASE status[d] \in WebhookAllowed(event) /\ status' = [status EXCEPT ![d] = WebhookStatus(event)]
  <2>1. WebhookStatus(event) \in Statuses
    BY DEF WebhookStatus, Events, Statuses, DeliveryStatus, CLAIMABLE_STATUSES, TERMINAL_STATUSES
  <2>2. Move(d, WebhookStatus(event))
    BY <1>1, <1>3 DEF Move, PhaseOf, WebhookStatus, WebhookAllowed, Events
  <2>3. QED BY <1>1, <1>3, <2>1, <2>2, MoveIsAStep
<1>4. QED BY <1>2, <1>3 DEF HandleWebhook, UpdateStatusIfCurrentIn

LEMMA SweepImplements ==
  ASSUME TypeInv, SweepStep
  PROVE  [Lifecycle!Next]_(Lifecycle!vars)
<1>1. UNCHANGED emails
  BY DEF SweepStep, SweepScan, RecoverStuck, RecoverComposing, RecoverSent, TimeOutSent, SweepRow,
         SweepEnqueue, sweepFrame, providerVars
<1>2. \/ UNCHANGED status
      \/ \E d \in Deliveries : \E next \in {"failed_transient", "pending", "webhook_timeout"} :
           /\ \/ status[d] \in {"sending", "composing"} /\ next # "webhook_timeout"
              \/ status[d] = "sent"
           /\ status' = [status EXCEPT ![d] = next]
  BY DEF SweepStep, SweepScan, RecoverStuck, RecoverComposing, RecoverSent, TimeOutSent, SweepRow,
         SweepEnqueue, UpdateStatusIfCurrentIn
<1>3. QED
  BY <1>1, <1>2, MoveIsAStep, QuietStep
     DEF Move, PhaseOf, Statuses, DeliveryStatus, CLAIMABLE_STATUSES, TERMINAL_STATUSES

LEMMA SenderImplements ==
  ASSUME TypeInv, ContentInv, AcceptInv, PresentInv, NEW s \in Senders, SenderStep(s)
  PROVE  [Lifecycle!Next]_(Lifecycle!vars)
<1> DEFINE d == sender[s].id
<1> USE DEF SenderAt
<1>1. CASE SendEmail(s)
  <2>1. d \in Deliveries /\ status[d] # "absent"
    BY <1>1 DEF SendEmail, TypeInv, TypeOK, SenderTypes, PresentInv
  <2>2. UNCHANGED status /\ (ProviderAccepts(d) \/ ProviderIgnores)
    BY <1>1 DEF SendEmail, rowVars
  <2>3. QED BY <2>1, <2>2, AcceptIsAStep
<1>2. CASE MarkAndStop(s)
  <2>1. d \in Deliveries /\ UNCHANGED emails /\ sender[s].next \in MarkStatuses
    BY <1>2 DEF MarkAndStop, TypeInv, TypeOK, SenderTypes, ContentInv, MarksStop, providerVars
  <2>2. \/ UNCHANGED status
        \/ status[d] = "sending" /\ status' = [status EXCEPT ![d] = sender[s].next]
    BY <1>2 DEF MarkAndStop, UpdateStatusIfStillSending, UpdateStatusIfCurrentIn
  <2>3. QED
    BY <2>1, <2>2, MoveIsAStep, QuietStep
       DEF Move, PhaseOf, MarkStatuses, Statuses, DeliveryStatus, CLAIMABLE_STATUSES, TERMINAL_STATUSES
<1>3. CASE RecordSent(s)
  <2>1. d \in Deliveries /\ UNCHANGED emails /\ emails[d] > 0
    BY <1>3 DEF RecordSent, TypeInv, TypeOK, SenderTypes, AcceptInv, RecordsAccepted, providerVars
  <2>2. \/ UNCHANGED status
        \/ status[d] = "sending" /\ status' = [status EXCEPT ![d] = "sent"]
    BY <1>3 DEF RecordSent, UpdateStatusIfStillSending, UpdateStatusIfCurrentIn
  <2>3. QED
    BY <2>1, <2>2, MoveIsAStep, QuietStep DEF Move, PhaseOf, Statuses, DeliveryStatus
<1>4. CASE ~SendEmail(s) /\ ~MarkAndStop(s) /\ ~RecordSent(s)
  <2>1. UNCHANGED emails
    BY <1>4 DEF SenderStep, TakeSendJob, claimForSending, CheckBeforeSend, RefreshSendingDigest,
           RequeueCompose, AbandonRecompose, providerVars
  <2>2. \/ UNCHANGED status
        \/ /\ d \in Deliveries /\ status[d] \in {"pending", "failed_transient", "sending"}
           /\ \E next \in {"sending", "pending", "failed_permanent"} :
                status' = [status EXCEPT ![d] = next]
    BY <1>4 DEF SenderStep, TakeSendJob, claimForSending, isReadyToSendDelivery, CLAIMABLE_STATUSES,
           CheckBeforeSend, RefreshSendingDigest, ResetForRecompose, RequeueCompose,
           AbandonRecompose, UpdateStatusIfCurrentIn, rowVars, TypeInv, TypeOK, SenderTypes
  <2>3. QED
    BY <2>1, <2>2, MoveIsAStep, QuietStep
       DEF Move, PhaseOf, Statuses, DeliveryStatus, CLAIMABLE_STATUSES, TERMINAL_STATUSES
<1>5. QED BY <1>1, <1>2, <1>3, <1>4

LEMMA OtherImplements ==
  ASSUME Tick \/ Breakdown \/ UNCHANGED vars
  PROVE  [Lifecycle!Next]_(Lifecycle!vars)
<1>1. UNCHANGED <<status, emails>>
  BY DEF Tick, Breakdown, CrashSweep, CrashComposer, StallCompose, CrashSender, StallSend,
         sweepFrame, composeFrame, sendFrame, rowVars, providerVars, vars
<1>2. QED BY <1>1, QuietStep

\* The outbox implements the lifecycle.
THEOREM OutboxImplementsLifecycle == Spec => ImplementsLifecycle
<1>1. TypeInv /\ ContentInv /\ PresentInv /\ [Next]_vars => PresentInv'
  BY ComposerPresentInv, SenderPresentInv, OtherPresentInv DEF Next
<1>2. TypeInv /\ ContentInv /\ AcceptInv /\ PresentInv /\ [Next]_vars
        => [Lifecycle!Next]_(Lifecycle!vars)
  BY ComposerImplements, SenderImplements, ProducerImplements, WebhookImplements,
     SweepImplements, OtherImplements DEF Next
<1>3. QED
  BY InitPresentInv, InitImplements, AlwaysContentInv, AlwaysAcceptInv, <1>1, <1>2, PTL
     DEF Spec, ImplementsLifecycle, Lifecycle!Spec

=============================================================================
