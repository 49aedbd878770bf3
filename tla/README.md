# Formal model of the Transparenta.eu server

The repository is a Fastify/GraphQL server over PostgreSQL (Kysely), Redis and
BullMQ, written in TypeScript.  Most of it answers read-only questions about
public budgets.  What is hard to get right is the rest: notifications, which
pass through queues, workers, an e-mail provider and its webhooks; learning
progress, which is synchronised and reviewed by several people; correspondence
with institutions; and the tables that several requests update at once.  This
directory models those parts in TLA+, checks them with TLC and proves the main
results with TLAPS.

    tlc -workers 2 -config MCNotificationOutbox_digest.cfg MCNotificationOutbox.tla
    tlc -workers 2 -config MCServices_services.cfg MCServices.tla
    for m in *Proofs.tla NotificationOutboxRefinement.tla; do tlapm $m; done

Paths below are relative to the repository's `src/`.

## Inventory

| Component | State | Operations | What is hard | What makes it correct |
|---|---|---|---|---|
| Notification outbox (`modules/notification-delivery`) | table `notificationsoutbox`; queues compose, send, recovery | create/reuse/refresh by producers; claim, render, persist, release; claim, check, send, record; sweep; webhook update | every database, queue and provider call can be overtaken, fail or be lost; jobs are dropped or run twice; webhooks come in any order | content is of the metadata that was checked; a status never claims a mail the provider did not accept; calls are bounded; every row settles |
| Collection and digests (`collect-worker`, `compose-subscription`, `materialize-anaf-forexebug-digests`) | outbox rows, notification rows, job ids | collect eligible users, one direct row per source and one digest per period | direct row and digest are decided by reads of each other's state | a newsletter is mailed once, and reaches who wants it |
| Weekly cursor (`weekly-progress-digest-post-send-reconciler`) | watermark in the learning-progress record | read, compare, upsert after a send | two sends reconcile at once; only the age of the record guards the upsert | the watermark does not move back |
| Notifications (`modules/notifications`) | table `notifications` | subscribe, update, delete, unsubscribe by token, automatic subscriptions | several statements a request; two windows, a mail's link and the server at once | who unsubscribed receives nothing; who was told of a subscription is eligible |
| Resend webhooks (`modules/resend-webhooks`) | table of events by svix id | insert, replay of side effects | duplicates, failing side effects | each event's effect is applied at least once |
| Clerk webhooks (`modules/clerk-webhooks`) | audit row, anonymized rows | mark started, then anonymize in a transaction | send workers in flight | no personal data written back after anonymization |
| Learning progress (`modules/learning-progress`) | per-user interaction records with audit events; a sequence | sync batches, reset, pull by cursor, review, automatic reuse of a review | lock order of batches, review of a record that changes, sequence values that commit out of order | no accepted event is lost or doubled; a review belongs to the version it saw |
| Institution correspondence (`modules/institution-correspondence`) | threads with entries, stored webhook events | platform send, confirmation, recovery, replies, review, administrators' responses | accepted mail whose success is not recorded; the same webhook twice at once | a request goes out once; no reply is lost, doubled or reopens a thread |
| Admin events (`modules/admin-events`) | queue of review events, export bundles | scan, queue, export, apply outcome, reconcile | outcome applied to a changed record, applied twice | an outcome is applied at most once and only to what it judged |
| User events (`modules/user-events`) | queue jobs | dispatch to handlers | retry after a partly done job | handlers are idempotent |
| Campaign notifications (`modules/campaign-admin-notifications`) | stored plans | dry run, consume, execute rows, release | two senders of a plan, failure half-way, clean-up by the next plan | a plan is executed by one request at a time |
| Entity configuration (`modules/campaign-entity-config`) | configuration records | upsert with expected timestamp | concurrent editors | no lost update |
| Short links (`modules/share`) | a row per code with its users | create or join, resolve, erase a user | two creations at once, erasures in several statements | a user's link stays and names one page; erased users leave |
| Advanced maps (`modules/advanced-map-analytics`, `-datasets`) | maps, snapshots, datasets with reference counts | save, change, delete; restrict or delete a dataset | checks before and after locks; row and advisory locks in several orders | what a map shows exists and may be shown; counts and caps hold |
| Caches (`infra/cache`) | memory (LRU, TTL), Redis | get, set, invalidate, two-level back-fill | invalidation racing a back-fill | no stale value beyond its TTL |
| Locks (`infra/database/user/advisory-locks.ts`) | PostgreSQL advisory locks | lock in a transaction | order of several locks | no deadlock |
| Budget data, normalization, MCP, auth, templates, app, infra | none of their own | queries, formatting, start-up | arithmetic at boundaries | pure functions equal their definition |

How they interact: learning-progress events feed user-events and admin-events;
those, the collect worker and the campaign administration create outbox rows;
the outbox reads notifications, user e-mails and learning progress before it
sends; Resend answers through resend-webhooks, whose side effects go to the
outbox, to notifications and to institution correspondence; Clerk's deletion
webhook anonymizes all of them.

## Modules

| Module | Models |
|---|---|
| `NotificationOutbox` | the life of outbox rows: producers, compose, send and recovery workers, provider, webhooks |
| `DeliveryLifecycle` | what the outbox promises about a delivery, without workers, queues and retries |
| `MCNotificationOutbox` | the model-checking entry point of `NotificationOutbox` |
| `NotificationOutboxProofs` | types, content, acceptance, call bound and exclusion, proved |
| `NotificationOutboxRefinement` | proof that the outbox implements `DeliveryLifecycle` |
| `LearningProgress`, `MCLearningProgress` | sync, review and automatic reuse of interactive records; their workloads |
| `InstitutionCorrespondence`, `MCInstitutionCorrespondence` | requests, webhooks, recovery, reviews of one institution's threads; their workloads |
| `CorrespondenceLifecycle` | what the correspondence promises of its threads and mails, without webhooks, jobs, locks and notifications |
| `NewsletterDelivery` | direct mail or digest, preferences and erasure of a user in one period |
| `Subscriptions` | a user's preferences: subscribe, switch, delete, unsubscribe, automatic subscription |
| `MapLibrary` | maps, snapshots and datasets under their locks |
| `ShortLinks` | the link of one code, its users and their erasure |
| `CampaignPlans` | stored plans and the requests that send them |
| `ServerRecords` | the weekly digests' cursor; the configuration of an entity |
| `MCServices` | the last six, one a behaviour |
| `LearningProgressProofs`, `InstitutionCorrespondenceProofs`, `NewsletterDeliveryProofs`, `SubscriptionsProofs`, `MapLibraryProofs` | the safety properties of these modules, proved, and that the correspondence implements `CorrespondenceLifecycle` |
| `ServicesProofs` | those of `CampaignPlans`, `ServerRecords` and `ShortLinks` |

### NotificationOutbox

| Model | Code |
|---|---|
| `status`, `attempts`, `idle`, `sentAge` | columns `status`, `attempt_count`, the ages of `COALESCE(last_attempt_at, created_at)` and of `sent_at` |
| `version`, `rendered` | which version of its sources the row's metadata describes; which version its content was rendered from (0: `content` columns NULL) |
| `claim` | `metadata.__composeClaimId`, identified with the execution that wrote it |
| `source` | the notifications a digest is made from; the call whose metadata a refreshed row has |
| `composeJob`, `sendJob` | the BullMQ job with the row's job id: none, waiting, or active in a worker |
| `composer`, `sender` | the local state of executions of `composeExistingOutbox` and `processSendJob` |
| `sweep` | the lists that a run of `recoverStuckSending` holds in memory |
| `keyAge`, `emails`, `webhooks` | the provider: age of the idempotency key, mails that went out, events still to be delivered |
| `Create`, `Reuse`, `RefreshReused`, `ReplaySkipped` | `enqueueCreatedOrReusedOutbox` and the weekly digest's producer |
| `claimForCompose` ... `EnqueueComposed` | the steps of `composeExistingOutbox`, one per database or queue call |
| `claimForSending` ... `RecordSent` | the steps of `processSendJob` |
| `HandleWebhook` | `makeResendWebhookDeliverySideEffect` |
| `SweepScan`, `Recover...`, `TimeOutSent`, `SweepEnqueue` | `recoverStuckSending`, one row at a time, and the enqueueing in `processRecoveryJob` |
| `Crash...`, `Stall...` | a worker's process dies; its job lock lapses while it lives |

Choices made.  The many rules that decide whether a row may be sent
(anonymization, global unsubscribe, eligibility of each notification type,
missing address) are reads followed by one conditional update and a return, so
`CheckBeforeSend` chooses an outcome; the rule that changes the row, a digest
whose sources changed, is modelled in full.  Rendering succeeds, fails for good
or (bundles, which read the database) fails for now.  Time is a set of ages
capped at the limit they are compared with, which is an exact quotient: no
bound on time is needed.  `attempts` is capped one above the limit it is
compared with, `emails` at two.  A job that threw is either retried or dropped
once its own attempts are used up, as a choice.

Bounds: failures (crashes, failed calls, lapsed locks, lost or repeated events)
draw on `MaxFaults`; producer requests and changes of the sources on
`MaxChanges`.  `Threshold` 1 and `Window` 2 keep the order the code has
(15 minutes, 24 hours).  Rows do not interact except through the order of the
sweep and the assignment of workers, none of which depends on another row, so
one row is checked; the proofs hold for any number.  The two send workers of
`outbox_digest` are interchangeable, so that its states are counted up to their
exchange (`SenderSymmetry`; all its properties are invariants).  A permanent
bounce does to a row what a complaint does, so `outbox_webhooks` has only the
latter.

| Run | Shows |
|---|---|
| `outbox_digest` | digest with changing sources, two senders, one composer, sweeper, one failure anywhere: `TypeOK`, `SendsWhatItChecked`, `RenderedIsCurrent`, `SendableHasContent`, `NoPhantomSend` |
| `outbox_webhooks` | provider events in any order, repeated or lost, weekly replay: the row implements `DeliveryLifecycle`; calls are bounded (`CallsBounded`) |
| `outbox_settle` | a refreshed row, workers faster than the recovery threshold, one failure, fairness: `ExclusiveUntilAccepted`, `RowsSettleOrStrand` |
| `outbox_stranded` | expected violation of `RowsSettle` |

`CHECK_DEADLOCK FALSE` is set because a finished row with used-up budgets has
nothing left to do but to let time pass, and time too reaches its caps.

Fairness (`FairSpec`): the queues keep giving jobs to each worker and a worker
that does not crash reaches its next call (`WF` of each worker's step); the
recovery job is registered as a repeating job (`recovery-job-scheduler.ts`), so
`WF` of the sweep; time passes.  Producers, the provider and failures are
obliged to nothing.  The liveness runs assume `TimelyWorkers`: a worker that
regularly needs longer than the recovery threshold is overtaken by the sweeper
for ever, which is a matter of configuration.

What the violation shows.  `persistRenderedOutboxAndEnqueueSend` stores the
content and releases the claim in two statements (`compose-outbox.ts:695`,
`:735`).  If the process stops between them the row is `composing` with content.
The recovery queries look for `composing` without content and for `pending` or
`failed_transient` with content; the compose job's retry sees a row it cannot
claim and skips it.  `RowsSettleOrStrand` shows that, with one failure, this is
the only way for a row not to settle, but for the sweep of the next paragraph.

A defect that the properties exclude by name.  In `findStuckSending`
(`delivery-repo.ts:558-561`) the raw SQL `last_attempt_at IS NULL OR
last_attempt_at < T` follows `status = 'sending' AND` without parentheses, which
the other queries have (`:586`, `:616`).  The AND binds first, so the query
returns rows of *any* status whose last attempt is old.  The model has the query
as it is, and a row on several of the sweep's lists at once (`sweep`, a set).
Since `recoverStuckSending` only updates rows that are still `sending`, the wide
list does no harm by itself; but a row that is listed while it waits and claimed
before the sweep's update is taken from a worker that is in time (`Robs`), and may
then be claimed by another execution while the first is at the provider.
`robbed` records such rows, `ExclusiveUntilAccepted` leaves them out, and the
liveness properties assume that a row is not robbed for ever (`SeldomRobbed`):
nothing but chance ends a sequence in which every sweep meets the row's next
claim.  The comment at the query's use, "Recover each stuck delivery", and its
name promise rows in `sending`.

No property says that a row is mailed once.  A send whose answer is lost is
retried under the same idempotency key, which the provider keeps for 24 hours
(`docs/specs/specs-202601142200-notification-delivery-module.md:200`); only
`sent` rows are compared with that age, and a `sending` or `failed_transient`
row that is retried later is mailed a second time.

### LearningProgress

| Model | Code |
|---|---|
| `rows` | committed rows of `userinteractions`: phase, value, time of the record, review, `updated_seq`, `updated_at`, audit events |
| `sequence`, `clock` | `userinteractions_updated_seq`; the server's milliseconds |
| `rowLock`, `keyLock` | `SELECT ... FOR UPDATE` and writes; `acquireAutoReviewReuseTransactionLock` |
| `tx` | an execution of `syncEvents`, of a review or of a batch of them, of the automatic reuse: what it has still to do and has written |
| `loaded` | the row as an administrator's list showed it |
| `device` | cursor and rows of a client of `getProgress` |

A transaction's writes become visible at its commit; a statement that meets a
locked row waits.  A workload (`MCLearningProgress`) is a set of requests that
may arrive in any order and overlap: edits of one record from two devices
(`Syncs`), batches over two records in opposite orders (`Batches`), writes
against a pulling device (`Deltas`), a submission, its correction and two
verdicts (`Reviews`), submissions of three users under a key with automatic
approval (`Reuses`).  Two executions at once are enough for every conflict of a
row or a key; three users are needed for a precedent that a third one's
decision contradicts.

| Run | Shows |
|---|---|
| `learning_requests` | all workloads: events are added once and never lost (`SubmittedOnce`, `AuditsKept`), records do not go back (`FreshestWins`), verdicts are on what was loaded, automatic approvals rest on a human one that no decision overtook, and every transaction ends (`TransactionsEnd`, under weak fairness of each transaction's steps: the database and the event loop do not stop) |
| `learning_cursor` | expected violation of `DeltasAreComplete` |
| `learning_blind` | expected violation of `ReviewKeptUntilRetry` |
| `learning_precedent` | expected violation of `NewestDecisionIsAuthoritative` |

What the violations show.  `updated_seq` is drawn inside a transaction, so that
a larger value may be committed first: a device whose cursor has passed the
smaller one never gets that row (`DeltasMissOnlyUncommitted` shows that nothing
else is missed).  A batch that found no row has locked nothing: when the row is
created and reviewed before its upsert, the review is overwritten
(`ReviewDroppedOnlyBlindly`: the only other way is the user's retry).  The newest
decision is found by the row's `updated_at`, which later writes of a reviewed
row move as well.

### InstitutionCorrespondence

| Model | Code |
|---|---|
| `threads` | `institutionemailthreads`: phase, entries, the attempt marked, review, the administrator's response |
| `stored` | `resend_wh_emails`, one row an event |
| `outbox` | delivery keys of the subscriber's outbox rows |
| `jobs`, `approved` | pending reply reviews of `admin-events`; the user's record |
| `actor`, `reviewer` | executions of `requestPublicDebatePlatformSend`, of the webhook route, of the recovery job; an administrator with an exported bundle or a response |
| `fresh` | optimistic locking by `updated_at` |
| `accepted`, `mailbox`, `answered` | the provider: mails accepted, mails under way, webhooks answered (others are repeated) |

Workloads (`MCInstitutionCorrespondence`): two requests, each observed by the
request itself, the webhook and the recovery job (`Sends`); two replies whose
webhooks repeat and overlap (`Answers`); two administrators on one reply
(`Judgements`); responses while a reply comes (`Responses`); a failed request,
a second one and a reply to either (`Exchange`); the user's own mail captured
twice (`OwnMail`).  One failure (a call that fails, or an actor that stops
there) can hit any step.

| Run | Shows |
|---|---|
| `institution_correspondence` | all workloads: one request out at a time, no entry twice, no news of a request that did not go out, a repeated webhook reopens nothing, a final response stays; the threads implement `CorrespondenceLifecycle`, so that among other things a verdict replaces none on the same reply; `NewsMaterializes`, `SendsRecover`, `RepliesAreKeptOrExcluded` |
| `institution_refused` | expected violation of `RepliesAreKept` |
| `institution_announced` | expected violation of `ReplyAnnouncedOnce` |

Fairness: a webhook without a 200 is repeated, a request or handler that does not
stop reaches its next call, and the recovery job is a repeating job, which also
publishes again what the outbox lacks.  Users, institutions and administrators
are obliged to nothing.

What the violations show.  A reply to a request that the platform took to have
failed, and repeated, cannot reopen the first thread while the second one is
active (a unique index); its webhook fails for ever.  Two runs of the webhook of
one reply give its entry two ids: the entry is kept once, the notification, whose
key contains the id, is queued twice.

Known limits of the code that no property contradicts: an older reply that
arrives after a review leaves the thread waiting for a review that the queue no
longer offers; a thread whose mail was accepted but whose answer was lost before
anything was recorded stays `failed`
(`docs/specs/specs-202604032345-public-debate-send-hardening.md:73`); a thread in `sending` without evidence
of its mail blocks further requests; an exported outcome is checked against the
thread's state before, not while, it is applied.

### The services

`MCServices` instantiates six modules that share nothing but the database.  A
behaviour is of one of them (`component`), so that their state spaces add up
instead of multiplying; the cases of `services` are six checks.

* **`NewsletterDelivery`**: `mail` are a user's outbox rows of a period, one per
  source and `Digest`; `sender` and `composer` the executions of
  `processSendJob` and `composeSubscription`; `eligible` what a run of
  `materializeAnafForexebugDigests` has collected; `erasure` the anonymization.
  `NewsletterOnce`, `NewsletterArrives` (under `NewsFairness`: the queues of the
  outbox and its recovery job), `MailsAreWanted`, `ErasedRowsRest`.  Two sources
  of both kinds, two runs, one change by the user and one failure.  An alert may
  be mailed by itself and in the digest, because the suppression looks at
  newsletters only (`send-worker.ts:191`); the send worker looks again at the
  source of a newsletter's own mail, not of an alert's (`send-worker.ts:330`), so
  that an alert which was switched off after its composition is mailed all the
  same: `MailsAreWanted` asks of an alert's own mail only that it was on at some
  time since `composeSubscription` looked (`compose-subscription.ts:232`), and of
  every other mail that each source was on at some time since the row's claim; a
  digest and a direct mail that are both `sending` leave the newsletter to each other, and neither sends it
  (`history.crossed`); a source that is switched on again between composition and
  sending is in the digest's list but not in its text.
* **`Subscriptions`**: `prefs` are the rows of a user, `ask` the executions,
  statement by statement, `prefLock` the row locks.  `PreferencesHold`.  Two
  windows and three requests give every pair of overlapping requests after any
  third.  `subscribe` may answer with a subscription that an unsubscription has
  just switched off, and an automatic subscription that read the campaign as
  left may switch off updates the user has just asked for; the property excludes
  both.  The branch of `subscribe.ts:144` for a row deleted meanwhile never
  runs, since `updateWithManualOptIn` reports a missing row as a database
  error.  Opting in and unsubscribing lock rows in opposite orders: the database
  ends one, and a failed unsubscription by token still shows its page.
* **`MapLibrary`**: `LibraryAgrees`, `OnlyDeletionsDeadlock`.  `writes` are the
  requests, each lock (map row, dataset advisory lock, dataset row) a step.  Two
  maps, two datasets, two requests at a time, a cap of two snapshots.
  `softDeleteMap` updates dataset rows without the advisory locks, which is why
  deletions can deadlock.
* **`ShortLinks`**: `LinksFollowTheirUsers`.  Two users, three requests, three
  URLs of a code, of which two are forms of one page.  A code that is reused for
  another form of the URL, or after a lost race to insert, does not add the user
  to the link; an erasure that overlaps another, or a request of the erased user,
  can leave a link without users or with an erased one.
* **`CampaignPlans`**: `PlansAreSentOnce`.  Two plans over two recipients, three
  sends by two executions, one failure or crash.  A crash after the
  plan was consumed leaves the rest unsent, and so does a new plan's clean-up
  that deletes a plan being sent, which then cannot be given back.
* **`ServerRecords`**: `RecordsMoveForward`.  Two digests, two reconcilers, two
  editors, two instants of clocks that differ.  A digest has up to two times of sending,
  the worker's and the one a delivery event sets (`sentAt`), and reconciliations
  under way may carry either.  Digests that are sent in another
  order than their watermarks can move the cursor back or lose its advance; two
  versions of a configuration are assumed to have different `updated_at`.

## Proofs

Every safety property that a passing run checks is proved for all values of the
constants.  The runs fix
two or three users, rows and executions at a time and one failure; the theorems
hold for any sets of them (`Senders`, `Maps` and `Datasets` finite), any batches
and workloads of the stated form and any budget of failures and requests.  Each
inductive invariant was checked by TLC on small instances before it was proved.

The assumptions are the named `ASSUME`s of the modules, which TLC evaluates in
the runs.  Most say that the kinds of things are distinct (a worker is not
`None`, `Recovery` is no request) or that bounds are natural numbers.  Those
that say something of the code:

* `BoundsAssumption`: the recovery threshold is below the idempotency window
  (15 minutes, 24 hours);
* `LearningAssumption`: batches have the form in which `syncEvents` and the
  reviews call the repository (`IsBatch`: audited events have ids, an update
  makes a row that exists, an automatic approval is a transaction of its own);
* `WorkloadsAssumption`: no thread, or only the first, exists at the start;
* `LimitsAssumption`: a map may keep at least one snapshot;
* `InstancesAssumption`: there is a map, a page and a plan (only for the types of
  an idle request, which names one of them).

### NotificationOutbox

* `TypeCorrect`.  `TypeOK` is not inductive: a webhook `sent` copies the age of
  the provider's key into `sentAge`, which is in range only because an event
  belongs to an accepted mail.  `ProviderOK` adds that.
* `ContentIsCurrent`, `CheckedContentIsSent`, `SendableKeepsContent`, from
  `ContentInv`: besides the content of the row, the version that a compose
  worker remembers is current as long as the row's claim is its own
  (`ComposersFresh`), because a reset clears the claim; a send worker's copy
  has content of its own metadata (`SendersFresh`); a worker that gives up
  never writes a status that implies a mail (`MarksStop`).
* `SentRowsWereAccepted`, from `AcceptInv`: a worker about to record a success
  had its mail accepted, and an event exists only for an accepted mail.
* `ProviderCallsAreBounded`, from `CallInv`: calls made plus workers that may
  still call never exceed the attempts counted, nor the limit.  The claim adds
  a caller and an attempt in one statement; a claim beyond the limit adds no
  caller.
* `OnlyOneSendsFirst`, from `OwnInv`: until a mail is accepted, a row that a
  send worker holds is `sending` and younger than the threshold, so no claim
  takes it away; a sweep that does, because it had listed the row before the
  claim, puts it among the `robbed`, of which the theorem says nothing.  The
  worker holds it longer than the property needs, until its last word about it
  (`Owns`): a worker that is about to mark or refresh the row would otherwise
  put it back into circulation under its successor.  As in the property,
  `TimelyWorkers` is assumed.
* `OutboxImplementsLifecycle`: every step maps to a step of `DeliveryLifecycle`
  or to a stutter under `PhaseOf`.  It needs `PresentInv`, that nobody works on
  a row that was not created.

### LearningProgress

One invariant (`IInv`, theorem `LearningInvariant`) carries all properties.  It
speaks of the *versions* of a row, the committed one and those that
transactions have written and not committed: each is well formed by itself
(`Valid`: an event leaves one audit entry, a review was decided once), may replace
the committed one (`Succeeds`: entries are kept, the record is not older, a review
is dropped only if the row is marked as retried or blind) and is written under its
row's lock (`WriteOK`).  A commit is then a step from one version to another, and
`AuditsKept`, `FreshestWins` and `ReviewDroppedOnlyBlindly` follow for the step.
`ReuseOK` says what an automatic approval relies on while it holds its key's lock:
every decision of an administrator on the key is among those it looked at.  For
that no two rows may share a decision (`DecisionsUnique`), and whoever decides
holds the key's lock (`Repeats`).  `DeltaOK` follows the values of `updated_seq`
that were drawn and are not committed.

`ReviewsWhatWasLoadedAlways` assumes `DistinctStamps`: the review compares
timestamps of one millisecond, and of two versions with the same one it may
judge the other.  The run has `DistinctStamps` as well.

`ReuseNeedsHumanApproval` has an exception that the proof found: a user can reset
the record whose approval is being reused, or a batch that found no row can
overwrite it, while the approval's transaction runs; sync batches do not take the
key's lock.  The workload `Reuses` contains
such a reset, and `Undone` names it.

### InstitutionCorrespondence

`IInv` (theorem `CorrespondenceInvariant`) follows a mail from the provider's
acceptance to every place that may say it went out: `Claims` for threads, outbox
and stored events, `ActorsOK` for what an execution has read and not yet written.
`Order` says what the unique index on active threads makes of the platform's
threads, which are created one after the other.  `RowOK` gives a mail one entry a
thread and keeps the entry that was reviewed.  `OneRequestOut`, `EntriesOnce` and
`NoPhantomRequest` follow, and for a single step `ReplayNeverReopens`,
`ResolvedIsFinal` and `ReviewedOnce` (which no run checks by itself).

`CorrespondenceImplementsLifecycle`: `CorrespondenceLifecycle` has eight operations on
threads and two variables; everything else, from stored events to what an
administrator holds, stutters.  `Visible` maps an entry to its mail, so that entries
with new ids of one mail are one, and a review to its mail and verdict; that a verdict
is on another *mail* than the last one needs the uniqueness of entries, while the
code compares entries (`reviewReply`).  A request is opened when no earlier one is
active because the unique index says so, and numbers follow the order of creation
(`NextSlot`); a confirmation comes after the acceptance because whoever reconciles
has seen evidence of it (`ActorsOK`); a copy of the user's mail reaches the user's
thread only, which the invariant says of every handler on its way there.
`NoneAssumption` makes "no review" and "no response" differ from every one of them.

`OneRequestOut` is stated with a second alternative that only two failures reach,
more than a workload of the run has: the answers to both requests are lost, both
threads are taken to have failed, and a reply then revives the earlier one.

### The services

* `ServicesImplementEach`: the run puts the services side by side, and each of its
  behaviours is one of every service, with the others' steps as stutters; so what
  is proved of a service holds in the run.
* `ServicesTypesAlways`: `ServicesTypeOK` is not inductive where it bounds what
  requests add up to: a plan is given back, a version written and a row inserted at
  most once a request.  `PlanBounds`, `RecordBounds` and `LinkBounds` count the
  requests that may still do so (`Within`): done and pending together never
  exceed the requests made.
* `PlansAreSentOnceAlways` (`PlanInv`): who executes a plan consumed it and is
  alone, by the conditional update (`SendersHoldPlans`); a row is executed at
  most once more than its plan was given back, and not even that often while
  it is left to be executed (`RowsAreCounted`); every row of a plan is
  somewhere (`RowsAreCovered`).
* `RecordsMoveForwardAlways` (`RecordInv`): the cursor carries a time of its
  own digest, so that an older time is an older digest or digests were sent
  out of order; between reading and writing a configuration an editor holds the
  advisory lock, and nothing it has read is stale.
* `LinksFollowTheirUsersAlways` (`LinkInv`): ids are never used again, so that a
  request which appends to the row it found appends to that row or to none;
  erasures that overlap, and requests of the erased, are recorded.
* `NewsletterOnceAlways`, `ErasedRowsRestAlways`, `MailsAreWantedAlways`
  (`NewsInv`): of a newsletter's two rows one worker goes past its look at the
  other (`OneGoes`), because whichever claims second sees the first as
  `sending` or `sent` (`Working`, `Delivered`); what a worker has checked stays
  among the sources that were on since its claim (`Checked`), and an alert that
  was on when it was composed stays so in the record (`AlertsOn`).  `MailsAreWanted`
  allows a source that was on at *some* time since the claim: three changes by
  the user between the checks of one send (a source off, unsubscribed, on again)
  are enough for a mail that no single moment would have allowed.
* `PreferencesHoldAlways` (`PrefInv`): what an execution has found stays so until
  a withdrawal overtakes it (`StillFound`), and what was promised is eligible
  while no automatic subscription is about to switch it off (`PromisesKept`).
* `LibraryAgreesAlways`, `OnlyDeletionsDeadlockAlways` (`LibraryInv`): what a
  request checked under its locks stays true while it holds them (`CheckedOK`,
  `DatasetsHeld`); the advisory locks are taken in the order of the datasets, and
  every dataset row is locked under its advisory lock except by the deletion of
  a map, so that of two transactions that wait for each other one is a deletion.

### Only model-checked

Liveness under fairness is out of the prover's reach: `RowsSettleOrStrand`,
`TransactionsEnd`, `NewsMaterializes`, `SendsRecover`, `RepliesAreKeptOrExcluded`
and `NewsletterArrives` stay with TLC, and so do the properties that are expected
to be violated.

## Plan

All safety properties are proved.  What is left is more of the system: the
anonymization of the other tables, resolution of short links with its cache,
and bounces and complaints that deactivate notifications.
No module reaches a RECURSIVE operator, so that each can be reasoned about.

## Not modelled

* Caches (`infra/cache`), including the resolution of short links, which keeps
  answering a deleted link for as long as it is cached: what is cached are answers
  of queries, and nothing modelled decides by them.
* User events: a queue that calls handlers in turn; the handlers are modelled
  where they write.
* Budget data, INS, commitments, reports, statistics, lists and exports: queries
  over data loaded elsewhere.  Their content is SQL; they keep no state.
* Normalization and other arithmetic over decimals: its subject is rounding and
  data, which integers do not show.
* Templates, telemetry, configuration, start-up, authentication, the MCP server's
  sessions, scripts and deployment: formatting, wiring or third-party protocols.

What is left out of a component that is modelled in part is said in the notes of
`PROJECT.json`.
