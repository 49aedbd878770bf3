------------------------ MODULE InstitutionCorrespondence ------------------------
(***************************************************************************)
(* Correspondence with one institution: public-debate requests that the    *)
(* platform sends, requests that a user sends with the platform in copy,   *)
(* the institution's replies and their review.  Requests, webhook handlers *)
(* and the recovery job run concurrently; each of their steps is one       *)
(* database, queue or provider call.  A failure loses the caller's state.  *)
(***************************************************************************)
EXTENDS Naturals, FiniteSets, FiniteSetsExt

CONSTANTS
  Requesters,   \* executions of requestPublicDebatePlatformSend
  Handlers,     \* executions of the webhook route
  Recovery,     \* the worker of the recovery queue
  Reviewers,    \* administrators that apply exported bundles
  Replies,      \* mails of the institution, numbered in the order of their dates
  Captures,     \* copies of mails that the user sends, numbered apart from Replies
  MaxThreads,   \* bound on platform threads
  Verdicts,     \* resolution codes that reviewers give
  Workloads,    \* the workloads one of which a behaviour runs
  None

ASSUME MailsAssumption ==
  /\ Replies \subseteq Nat \ {0} /\ Captures \subseteq Nat \ {0} /\ Replies \cap Captures = {}
  /\ MaxThreads \in Nat \ {0}
ASSUME ActorsAssumption ==
  Requesters \cap Handlers = {} /\ Recovery \notin Requesters \cup Handlers

Actors == Requesters \cup Handlers \cup {Recovery}
SelfSend == 0                    \* the slot of the thread of the user's own mail
Platform == 1 .. MaxThreads      \* slots of platform threads in the order of creation
Slots == Platform \cup {SelfSend}

\* RESOLUTION_TO_PHASE, by the phases it distinguishes.
Outcomes == [debate_announced |-> "resolved_positive", request_refused |-> "resolved_negative",
             auto_reply |-> "awaiting_reply", other |-> "manual_follow_up_needed"]
ASSUME VerdictsAssumption == Verdicts \subseteq DOMAIN Outcomes
FinalPhase == [request_confirmed |-> "resolved_positive", request_denied |-> "resolved_negative"]
FinalResponses == DOMAIN FinalPhase
Reviewed == {"manual_follow_up_needed", "resolved_positive", "resolved_negative"}
Phases == {"none", "sending", "failed", "awaiting_reply", "reply_received_unreviewed"} \cup Reviewed

\* An entry of a thread: its mail and the id that the handler's run gave it.
Ids == 0 .. 3
SentMail == 0
SentEntry == <<SentMail, 0>>
Entries == ({SentMail} \cup Replies \cup Captures) \X Ids

ASSUME NoneAssumption ==
  None \notin FinalResponses \cup [entry : Entries, verdict : DOMAIN Outcomes]

NoThread == [phase |-> "none", entries |-> {}, marked |-> FALSE, review |-> None, response |-> None]
News(t, event, entry) == [slot |-> t, event |-> event, entry |-> entry]
Sent(t) == <<"sent", t>>
Received(m) == <<"received", m>>
Events == {Sent(t) : t \in Platform} \cup {Received(m) : m \in Replies \cup Captures}
ASSUME WorkloadsAssumption == \A w \in Workloads : w.open \in {{}, {1}}
Idle == [at |-> "idle", slot |-> None, event |-> None, entry |-> None, news |-> {}, todo |-> {}]
NoJudge == [at |-> "idle", slot |-> None, entry |-> None, verdict |-> None]

VARIABLES
  threads,    \* table institutionemailthreads
  stored,     \* table resend_wh_emails: an event's row, or "none"
  outbox,     \* delivery keys of the subscriber's outbox rows
  jobs,       \* queue of pending reply reviews
  approved,   \* whether the user's own record has been approved
  actor,      \* local state of requests, handlers and the recovery job
  reviewer,   \* local state of administrators
  fresh,      \* administrators whose bundle shows the thread's current updated_at
  accepted,   \* platform threads whose mail the provider accepted
  mailbox,    \* mails underway to the capture address: the thread meant, whether its key is quoted
  answered,   \* events whose webhook was answered with 200
  left        \* what remains of the workload

tables == <<threads, stored, outbox, jobs, approved>>
world == <<accepted, mailbox, answered>>
vars == <<tables, actor, reviewer, fresh, world, left>>

At(a, step) == actor[a].at = step
Step(a, step) == actor' = [actor EXCEPT ![a].at = step]
Fault == left.faults > 0 /\ left' = [left EXCEPT !.faults = @ - 1]
NoFault == UNCHANGED left

\* Every write of a thread sets updated_at: bundles exported before are stale.
Write(t, row) ==
  /\ threads' = [threads EXCEPT ![t] = row]
  /\ fresh' = {v \in fresh : reviewer[v].slot # t}
NoWrite == UNCHANGED <<threads, fresh>>

\* A handler that ends without an error has its event answered; the recovery job
\* turns to the next thread of its list.
Ends(a) ==
  /\ actor' = [actor EXCEPT ![a] =
                  IF a = Recovery THEN [Idle EXCEPT !.at = "list", !.todo = actor[a].todo] ELSE Idle]
  /\ answered' = IF a \in Handlers THEN answered \cup {actor[a].event} ELSE answered
Goes(a, step) == IF step = "end" THEN Ends(a) ELSE Step(a, step) /\ UNCHANGED answered

Exists(t) == threads[t].phase # "none"
Active == {t \in Platform : threads[t].phase \notin {"none", "failed"}}
Existing == {t \in Platform : Exists(t)}
Latest(S) == IF S = {} THEN None ELSE Max(S)
Inbound(row) == {e \in row.entries : e[1] \in Replies}
LatestReply(row) ==
  IF Inbound(row) = {} THEN None ELSE CHOOSE e \in Inbound(row) : \A f \in Inbound(row) : f[1] <= e[1]

---------------------------------------------------------------------------
(* What the thread's current state has to tell the subscriber. *)
Derived(t) ==
  LET row == threads[t] IN
  CASE row.response \in FinalResponses -> {}
    [] row.phase = "awaiting_reply" -> {News(t, "thread_started", None)}
    [] row.phase = "failed" -> {News(t, "thread_failed", None)}
    [] row.phase = "reply_received_unreviewed" /\ LatestReply(row) # None ->
         {News(t, "reply_received", LatestReply(row))}
    [] row.phase \in Reviewed /\ row.review # None ->
         {News(t, "reply_reviewed", row.review.entry)}
    [] OTHER -> {}

CurrentNews == UNION {Derived(t) : t \in {u \in Platform : u = Latest(Existing)}}

\* publish: the outbox row is created or found; its errors are logged by every caller.
Publish(a, news, next) ==
  /\ \/ outbox' = outbox \cup news /\ NoFault
     \/ outbox' = outbox /\ Fault
  /\ Goes(a, next)

---------------------------------------------------------------------------
(* Requests of the platform. *)
Request(q) ==
  /\ q \in left.requesters /\ At(q, "idle") /\ left.requests > 0
  /\ left' = [left EXCEPT !.requests = @ - 1]
  /\ Step(q, "subscribe")
  /\ UNCHANGED <<tables, reviewer, fresh, world>>

\* ensureSubscribed reads the latest thread ...
ReadNews(a) ==
  /\ At(a, "subscribe")
  /\ actor' = [actor EXCEPT ![a].at = "inform", ![a].news = CurrentNews]
  /\ NoFault
  /\ UNCHANGED <<tables, reviewer, fresh, world>>

\* ... and publishes what it read.
Inform(a) ==
  /\ At(a, "inform")
  /\ \/ outbox' = outbox \cup actor[a].news /\ NoFault
     \/ UNCHANGED outbox /\ actor[a].news # {} /\ Fault
  /\ actor' = [actor EXCEPT ![a].at = "find", ![a].news = {}]
  /\ UNCHANGED <<threads, stored, jobs, approved, reviewer, fresh, world>>

FindActive(q) ==
  /\ At(q, "find")
  /\ IF Active # {} THEN Ends(q) ELSE Step(q, "create") /\ UNCHANGED answered
  /\ NoFault
  /\ UNCHANGED <<tables, reviewer, fresh, accepted, mailbox>>

\* Mutant: no unique index on active platform threads.
CreateUnconstrained(q) ==
  LET t == Cardinality(Existing) + 1 IN
  /\ At(q, "create") /\ t \in Platform
  /\ Write(t, [NoThread EXCEPT !.phase = "sending"])
  /\ actor' = [actor EXCEPT ![q].at = "call", ![q].slot = t]
  /\ NoFault
  /\ UNCHANGED <<stored, outbox, jobs, approved, reviewer, world>>

\* createThread under the unique index; on a conflict the active thread is returned.
CreateThread(q) ==
  LET t == Cardinality(Existing) + 1 IN
  /\ At(q, "create")
  /\ IF Active # {}
       THEN Ends(q) /\ NoWrite
       ELSE /\ t \in Platform
            /\ Write(t, [NoThread EXCEPT !.phase = "sending"])
            /\ actor' = [actor EXCEPT ![q].at = "call", ![q].slot = t]
            /\ UNCHANGED answered
  /\ NoFault
  /\ UNCHANGED <<stored, outbox, jobs, approved, reviewer, accepted, mailbox>>

\* The provider accepts or rejects the mail; the answer to an accepted mail may be lost.
CallProvider(q) ==
  /\ At(q, "call")
  /\ \/ accepted' = accepted \cup {actor[q].slot} /\ Step(q, "reconcile") /\ NoFault
     \/ UNCHANGED accepted /\ Step(q, "give_up") /\ NoFault
     \/ accepted' = accepted \cup {actor[q].slot} /\ Step(q, "give_up") /\ Fault
  /\ UNCHANGED <<tables, reviewer, fresh, mailbox, answered>>

\* updateThread: the phase becomes failed whatever it has become meanwhile.
FailThread(q) ==
  LET t == actor[q].slot IN
  /\ At(q, "give_up")
  /\ Write(t, [threads[t] EXCEPT !.phase = "failed"])
  /\ Step(q, "alert") /\ NoFault
  /\ UNCHANGED <<stored, outbox, jobs, approved, reviewer, world>>

AlertFailure(q) ==
  /\ At(q, "alert")
  /\ Publish(q, {News(actor[q].slot, "thread_failed", None)}, "end")
  /\ UNCHANGED <<threads, stored, jobs, approved, reviewer, fresh, accepted, mailbox>>

---------------------------------------------------------------------------
(* reconcilePlatformSendSuccess, of a request, a webhook or the recovery job. *)
\* Mutant: the phase is left to the request.
ReconciledEntryOnly(row) == [row EXCEPT !.entries = @ \cup {SentEntry}]

Reconciled(row) ==
  [row EXCEPT !.entries = @ \cup {SentEntry},
              !.phase = IF @ = "sending" THEN "awaiting_reply" ELSE @]

Reconcile(a) ==
  LET t == actor[a].slot IN
  /\ At(a, "reconcile")
  /\ Write(t, Reconciled(threads[t]))
  /\ Goes(a, IF Reconciled(threads[t]).phase = "awaiting_reply" /\ ~threads[t].marked
               THEN "announce" ELSE "end")
  /\ NoFault
  /\ UNCHANGED <<stored, outbox, jobs, approved, reviewer, accepted, mailbox>>

\* Only a publication that succeeded is marked.
AnnounceStart(a) ==
  /\ At(a, "announce")
  /\ \/ /\ outbox' = outbox \cup {News(actor[a].slot, "thread_started", None)}
        /\ Goes(a, "mark") /\ NoFault
     \/ UNCHANGED outbox /\ Ends(a) /\ Fault
  /\ UNCHANGED <<threads, stored, jobs, approved, reviewer, fresh, accepted, mailbox>>

MarkAnnounced(a) ==
  LET t == actor[a].slot IN
  /\ At(a, "mark")
  /\ \/ Write(t, [threads[t] EXCEPT !.marked = TRUE]) /\ NoFault
     \/ NoWrite /\ Fault
  /\ Ends(a)
  /\ UNCHANGED <<stored, outbox, jobs, approved, reviewer, accepted, mailbox>>

---------------------------------------------------------------------------
(* The recovery job: threads without confirmation first, then the latest thread's news. *)
Unconfirmed ==
  {t \in Platform : threads[t].phase = "sending"
                      \/ (threads[t].phase = "awaiting_reply" /\ ~threads[t].marked)}

StartRecovery ==
  /\ At(Recovery, "idle")
  /\ actor' = [actor EXCEPT ![Recovery].at = "list", ![Recovery].todo = Unconfirmed]
  /\ NoFault
  /\ UNCHANGED <<tables, reviewer, fresh, world>>

\* Mutant: a thread that waited long enough is taken to have been sent.
HasEvidenceByAge(t) == TRUE

\* A stored success event, or what an earlier reconciliation left in the thread.
HasEvidence(t) == stored[Sent(t)] # "none" \/ SentEntry \in threads[t].entries

RecoverThread ==
  /\ At(Recovery, "list")
  /\ \E t \in actor[Recovery].todo :
       actor' = [actor EXCEPT ![Recovery].todo = @ \ {t},
                              ![Recovery].slot = t,
                              ![Recovery].at = IF HasEvidence(t) THEN "reconcile" ELSE "list"]
  /\ NoFault
  /\ UNCHANGED <<tables, reviewer, fresh, world>>

\* Mutant: any notification of the thread counts.
PublishedForThread(news) == \A n \in news : \E k \in outbox : k.slot = n.slot

\* The outbox is searched by the delivery key of the news.
Published(news) == news \subseteq outbox

\* After the list: the news is read, and published when its outbox row is missing.
ReadMissingNews ==
  /\ At(Recovery, "list") /\ actor[Recovery].todo = {}
  /\ actor' = [actor EXCEPT ![Recovery] =
                 IF Published(CurrentNews) THEN Idle
                 ELSE [Idle EXCEPT !.at = "republish", !.news = CurrentNews]]
  /\ NoFault
  /\ UNCHANGED <<tables, reviewer, fresh, world>>

Republish ==
  /\ At(Recovery, "republish")
  /\ \/ outbox' = outbox \cup actor[Recovery].news /\ NoFault
     \/ UNCHANGED outbox /\ Fault
  /\ actor' = [actor EXCEPT ![Recovery] = Idle]
  /\ UNCHANGED <<threads, stored, jobs, approved, reviewer, fresh, world>>

---------------------------------------------------------------------------
(* Mails and webhooks. *)
\* The user mails the institution with the capture address in copy.
UserSends(m) ==
  /\ m \in left.mails \cap Captures
  /\ mailbox' = [mailbox EXCEPT ![m] = [slot |-> SelfSend, quotes |-> FALSE]]
  /\ left' = [left EXCEPT !.mails = @ \ {m}]
  /\ UNCHANGED <<tables, actor, reviewer, fresh, accepted, answered>>

\* The institution replies to a mail it got, with the thread's key in subject or headers or not.
InstitutionReplies(m) ==
  /\ m \in left.mails \cap Replies
  /\ \E t \in Slots, quotes \in left.quoting :
       /\ IF t = SelfSend THEN \E c \in Captures : mailbox[c] # None ELSE t \in accepted
       /\ mailbox' = [mailbox EXCEPT ![m] = [slot |-> t, quotes |-> quotes]]
  /\ left' = [left EXCEPT !.mails = @ \ {m}]
  /\ UNCHANGED <<tables, actor, reviewer, fresh, accepted, answered>>

Happened(e) == IF e[1] = "sent" THEN e[2] \in accepted ELSE mailbox[e[2]] # None

\* The provider calls until it is answered; a call that timed out may still run.
Calls(e) ==
  /\ Happened(e)
  /\ IF e \notin answered /\ \A h \in Handlers : actor[h].event # e THEN NoFault ELSE Fault

\* The route stores the event, or loads it; one that was matched before is not handled again.
Receive(h, e) ==
  /\ h \in left.handlers /\ At(h, "idle") /\ Calls(e)
  /\ LET handled == stored[e] \in {"matched", "unmatched"} IN
     /\ stored' = IF stored[e] = "none" THEN [stored EXCEPT ![e] = "stored"] ELSE stored
     /\ IF handled
          THEN answered' = answered \cup {e} /\ UNCHANGED actor
          ELSE /\ actor' = [actor EXCEPT ![h].event = e,
                                         ![h].slot = IF e[1] = "sent" THEN e[2] ELSE None,
                                         ![h].at = IF e[1] = "sent" THEN "reconcile" ELSE "match"]
               /\ UNCHANGED answered
  /\ UNCHANGED <<threads, outbox, jobs, approved, reviewer, fresh, accepted, mailbox>>

\* createEntry: every run of a handler gives the mail's entry a new id, here the
\* least one that nobody holds; Ids bounds how many there are.
HeldEntries ==
  UNION {threads[t].entries : t \in Slots} \cup {j[2] : j \in jobs} \cup {n.entry : n \in outbox}
    \cup {actor[a].entry : a \in Actors} \cup {reviewer[v].entry : v \in Reviewers}
FreshIds(m) == {i \in Ids : <<m, i>> \notin HeldEntries}
NewEntry(m) == <<m, Min(FreshIds(m))>>

\* Mutant: the thread of the key is used without looking whether there is one.
ThreadOfUnchecked(m) == IF mailbox[m].quotes THEN mailbox[m].slot ELSE Latest(Active)

\* The thread of a reply: by its key, else the entity's active platform thread.
ThreadOf(m) ==
  LET mail == mailbox[m] IN
  IF mail.quotes THEN (IF Exists(mail.slot) THEN mail.slot ELSE None)
  ELSE IF mail.slot = SelfSend THEN None ELSE Latest(Active)

\* Mutant: the event is marked as matched before the reply is appended.
MatchReplyEagerly(h) ==
  LET m == actor[h].event[2]
      t == ThreadOf(m) IN
  /\ At(h, "match") /\ m \in Replies
  /\ stored' = [stored EXCEPT ![Received(m)] = IF t = None THEN "unmatched" ELSE "matched"]
  /\ IF t = None
       THEN Ends(h)
       ELSE /\ actor' = [actor EXCEPT ![h].at = "append", ![h].slot = t, ![h].entry = NewEntry(m)]
            /\ UNCHANGED answered
  /\ NoFault
  /\ UNCHANGED <<threads, outbox, jobs, approved, reviewer, fresh, accepted, mailbox>>

MatchReply(h) ==
  LET m == actor[h].event[2]
      t == ThreadOf(m) IN
  /\ At(h, "match") /\ m \in Replies
  /\ IF t = None
       THEN /\ stored' = [stored EXCEPT ![Received(m)] = "unmatched"]
            /\ Ends(h)
       ELSE /\ FreshIds(m) # {}
            /\ actor' = [actor EXCEPT ![h].at = "append", ![h].slot = t, ![h].entry = NewEntry(m)]
            /\ UNCHANGED <<stored, answered>>
  /\ NoFault
  /\ UNCHANGED <<threads, outbox, jobs, approved, reviewer, fresh, accepted, mailbox>>

\* A captured mail without a unique interaction and entity is stored as unmatched.
MatchCapture(h) ==
  LET m == actor[h].event[2] IN
  /\ At(h, "match") /\ m \in Captures
  /\ \/ /\ stored' = [stored EXCEPT ![Received(m)] = "unmatched"]
        /\ Ends(h)
     \/ /\ FreshIds(m) # {}
        /\ actor' = [actor EXCEPT ![h].at = IF Exists(SelfSend) THEN "append" ELSE "create",
                                  ![h].slot = SelfSend, ![h].entry = NewEntry(m)]
        /\ UNCHANGED <<stored, answered>>
  /\ NoFault
  /\ UNCHANGED <<threads, outbox, jobs, approved, reviewer, fresh, accepted, mailbox>>

\* createThread for the user's own mail; on a conflict the entry goes to the thread found.
CreateSelfSend(h) ==
  /\ At(h, "create") /\ h \in Handlers
  /\ IF Exists(SelfSend)
       THEN Step(h, "append") /\ NoWrite
       ELSE /\ Write(SelfSend, [NoThread EXCEPT !.phase = "awaiting_reply", !.entries = {actor[h].entry}])
            /\ actor' = [actor EXCEPT ![h].at = "approve",
                                      ![h].news = {News(SelfSend, "thread_started", None)}]
  /\ NoFault
  /\ UNCHANGED <<stored, outbox, jobs, approved, reviewer, world>>

\* Mutant: a repeated mail does not add its entry but still asks for a review.
AppendedAgain(row, entry) ==
  [row EXCEPT !.entries = IF \E e \in @ : e[1] = entry[1] THEN @ ELSE @ \cup {entry},
              !.phase = IF entry[1] \in Replies THEN "reply_received_unreviewed" ELSE @]

\* Mutant: entries are told apart by their ids only.
AppendedById(row, entry) ==
  [row EXCEPT !.entries = @ \cup {entry},
              !.phase = IF entry[1] \in Replies THEN "reply_received_unreviewed" ELSE @]

\* appendCorrespondenceEntry: once per mail; a reply asks for a review whatever the phase.
Appended(row, entry) ==
  IF \E e \in row.entries : e[1] = entry[1] THEN row
  ELSE [row EXCEPT !.entries = @ \cup {entry},
                   !.phase = IF entry[1] \in Replies THEN "reply_received_unreviewed" ELSE @]

\* The unique index: one platform thread that has not failed.
Violates(t, row) == t \in Platform /\ row.phase # "failed" /\ Active \ {t} # {}

\* A reply to a failed thread cannot be appended while another thread is active: the
\* database refuses the new phase and the webhook fails.
Append(h) ==
  LET t == actor[h].slot
      row == Appended(threads[t], actor[h].entry) IN
  /\ At(h, "append")
  /\ CASE row = threads[t] -> NoWrite
       [] Violates(t, row) -> NoWrite
       [] OTHER -> Write(t, row)
  /\ actor' = [actor EXCEPT ![h] =
       IF row # threads[t] /\ Violates(t, row) THEN Idle
       ELSE [@ EXCEPT !.at = IF actor[h].entry[1] \in Replies THEN "store" ELSE "approve"]]
  /\ NoFault
  /\ UNCHANGED <<stored, outbox, jobs, approved, reviewer, world>>

ApproveRecord(h) ==
  /\ At(h, "approve")
  /\ approved' = TRUE /\ Step(h, "store") /\ NoFault
  /\ UNCHANGED <<threads, stored, outbox, jobs, reviewer, fresh, world>>

\* updateStoredEvent; a captured mail that created no thread has no news.
StoreMatch(h) ==
  LET m == actor[h].event[2] IN
  /\ At(h, "store")
  /\ stored' = [stored EXCEPT ![Received(m)] = "matched"]
  /\ Goes(h, IF m \in Replies THEN "queue" ELSE IF actor[h].news # {} THEN "tell" ELSE "end")
  /\ NoFault
  /\ UNCHANGED <<threads, outbox, jobs, approved, reviewer, fresh, accepted, mailbox>>

\* onPendingReplyCreated: a failure is logged.
QueueReview(h) ==
  /\ At(h, "queue")
  /\ \/ jobs' = jobs \cup {<<actor[h].slot, actor[h].entry>>} /\ NoFault
     \/ UNCHANGED jobs /\ Fault
  /\ actor' = [actor EXCEPT ![h].at = "tell",
                            ![h].news = {News(actor[h].slot, "reply_received", actor[h].entry)}]
  /\ UNCHANGED <<threads, stored, outbox, approved, reviewer, fresh, world>>

Tell(h) ==
  /\ At(h, "tell")
  /\ Publish(h, actor[h].news, "end")
  /\ UNCHANGED <<threads, stored, jobs, approved, reviewer, fresh, accepted, mailbox>>

\* A call fails or the process stops: the request ends, the webhook is not answered.
Fails(a) ==
  /\ ~At(a, "idle") /\ Fault
  /\ actor' = [actor EXCEPT ![a] = Idle]
  /\ UNCHANGED <<tables, reviewer, fresh, world>>

---------------------------------------------------------------------------
(* Review of replies through the admin event queue, and administrators' responses. *)
ScanPending ==
  /\ left.reviewers # {}
  /\ jobs' = jobs \cup {<<t, LatestReply(threads[t])>> :
                          t \in {u \in Slots : threads[u].phase = "reply_received_unreviewed"}}
  /\ NoFault
  /\ UNCHANGED <<threads, stored, outbox, approved, actor, reviewer, fresh, world>>

Context(job) == job[2] \in threads[job[1]].entries
Actionable(job) ==
  /\ Context(job)
  /\ threads[job[1]].phase = "reply_received_unreviewed"
  /\ LatestReply(threads[job[1]]) = job[2]

\* reconcileAdminEventQueue: jobs without a bundle that are not actionable go.
RemoveSettled(job) ==
  /\ job \in jobs /\ ~Actionable(job)
  /\ jobs' = jobs \ {job} /\ NoFault
  /\ UNCHANGED <<threads, stored, outbox, approved, actor, reviewer, fresh, world>>

Export(v, job) ==
  /\ v \in left.reviewers /\ reviewer[v].at = "idle" /\ job \in jobs /\ Context(job)
  /\ reviewer' = [reviewer EXCEPT ![v] = [at |-> "judge", slot |-> job[1], entry |-> job[2], verdict |-> None]]
  /\ fresh' = fresh \cup {v} /\ NoFault
  /\ UNCHANGED <<tables, actor, world>>

JobOf(v) == <<reviewer[v].slot, reviewer[v].entry>>
Leaves(v) == reviewer' = [reviewer EXCEPT ![v] = NoJudge] /\ fresh' = fresh \ {v}

\* applyAdminEventOutcome up to its verdict on the live state.
Classify(v, verdict) ==
  LET row == threads[reviewer[v].slot] IN
  /\ reviewer[v].at = "judge"
  /\ CASE JobOf(v) \in jobs /\ row.review = [entry |-> reviewer[v].entry, verdict |-> verdict] ->
            jobs' = jobs \ {JobOf(v)} /\ Leaves(v)
       [] JobOf(v) \in jobs /\ v \in fresh /\ Actionable(JobOf(v)) ->
            /\ reviewer' = [reviewer EXCEPT ![v].at = "apply", ![v].verdict = verdict]
            /\ UNCHANGED <<jobs, fresh>>
       [] OTHER -> Leaves(v) /\ UNCHANGED jobs
  /\ NoFault
  /\ UNCHANGED <<threads, stored, outbox, approved, actor, world>>

\* Mutant: a reply may be reviewed again when the thread waits for a review.
ReviewableAgain(row, entry) ==
  row.phase = "reply_received_unreviewed" /\ entry \in Inbound(row)

Reviewable(row, entry) ==
  /\ row.phase = "reply_received_unreviewed" /\ entry \in Inbound(row)
  /\ row.review = None \/ row.review.entry # entry

\* reviewReply, under the thread's lock.
ReviewReply(v) ==
  LET t == reviewer[v].slot
      row == threads[t] IN
  /\ reviewer[v].at = "apply"
  /\ IF Reviewable(row, reviewer[v].entry)
       THEN /\ Write(t, [row EXCEPT !.phase = Outcomes[reviewer[v].verdict],
                                    !.review = [entry |-> reviewer[v].entry, verdict |-> reviewer[v].verdict]])
            /\ reviewer' = [reviewer EXCEPT ![v].at = "remove"]
       ELSE Leaves(v) /\ UNCHANGED threads
  /\ NoFault
  /\ UNCHANGED <<stored, outbox, jobs, approved, actor, world>>

\* The job is removed last; a failure leaves it for the next attempt.
RemoveJob(v) ==
  /\ reviewer[v].at = "remove"
  /\ \/ jobs' = jobs \ {JobOf(v)} /\ NoFault
     \/ UNCHANGED jobs /\ Fault
  /\ Leaves(v)
  /\ UNCHANGED <<threads, stored, outbox, approved, actor, world>>

\* Mutant: the state administrators see is taken from the phase.
ResolvedByPhase(row) == row.phase \in {"resolved_positive", "resolved_negative"}

\* projectCampaignAdminThread: the last response decides, the phase only before the first one.
Resolved(row) ==
  IF row.response # None THEN row.response \in FinalResponses
  ELSE row.phase \in {"resolved_positive", "resolved_negative"}

\* Comparing updated_at makes loading the thread and answering one step.
Respond(t, response) ==
  LET row == threads[t] IN
  /\ left.responds
  /\ row.phase \notin {"none", "failed", "sending"} /\ ~Resolved(row)
  /\ Write(t, [row EXCEPT !.response = response,
                          !.phase = IF response \in FinalResponses THEN FinalPhase[response] ELSE @])
  /\ NoFault
  /\ UNCHANGED <<stored, outbox, jobs, approved, actor, reviewer, world>>

---------------------------------------------------------------------------
\* A thread sent and confirmed, as replies find it.
Confirmed ==
  [NoThread EXCEPT !.phase = "awaiting_reply", !.entries = {SentEntry}, !.marked = TRUE]

Init ==
  \E w \in Workloads :
    /\ left = [requesters |-> w.requesters, requests |-> w.requests, faults |-> w.faults,
                mails |-> w.mails, quoting |-> w.quoting, handlers |-> w.handlers,
                reviewers |-> w.reviewers, responds |-> w.responds]
    /\ threads = [t \in Slots |-> IF t \in w.open THEN Confirmed ELSE NoThread]
    /\ stored = [e \in Events |-> IF e \in {Sent(t) : t \in w.open} THEN "stored" ELSE "none"]
    /\ outbox = {News(t, "thread_started", None) : t \in w.open}
    /\ accepted = w.open /\ answered = {Sent(t) : t \in w.open}
    /\ jobs = {} /\ approved = FALSE /\ fresh = {}
    /\ actor = [a \in Actors |-> Idle] /\ reviewer = [v \in Reviewers |-> NoJudge]
    /\ mailbox = [m \in Replies \cup Captures |-> None]

Subscriber(q) == ReadNews(q) \/ Inform(q) \/ FindActive(q) \/ CreateThread(q) \/ CallProvider(q)
                   \/ FailThread(q) \/ AlertFailure(q)
Reconciles(a) == Reconcile(a) \/ AnnounceStart(a) \/ MarkAnnounced(a)
Requests(q) == Subscriber(q) \/ Reconciles(q)
Handles(h) == MatchReply(h) \/ MatchCapture(h) \/ CreateSelfSend(h) \/ Append(h) \/ ApproveRecord(h)
                \/ StoreMatch(h) \/ QueueReview(h) \/ Tell(h) \/ Reconciles(h)
Recovers == StartRecovery \/ RecoverThread \/ ReadMissingNews \/ Republish \/ Reconciles(Recovery)
Reviews(v) == (\E verdict \in Verdicts : Classify(v, verdict)) \/ ReviewReply(v) \/ RemoveJob(v)

Next ==
  \/ \E q \in Requesters : Request(q) \/ Requests(q)
  \/ \E h \in Handlers : Handles(h) \/ \E e \in Events : Receive(h, e)
  \/ Recovers
  \/ \E a \in Actors : Fails(a)
  \/ \E m \in Replies \cup Captures : UserSends(m) \/ InstitutionReplies(m)
  \/ ScanPending
  \/ \E job \in jobs : RemoveSettled(job) \/ \E v \in Reviewers : Export(v, job)
  \/ \E v \in Reviewers : Reviews(v)
  \/ \E t \in Platform, r \in FinalResponses \cup {"registration_number_received"} : Respond(t, r)

Spec == Init /\ [][Next]_vars

(* Requests and handlers run to their end, the provider repeats calls that *)
(* were not answered, and the recovery job is registered as repeating.     *)
Fairness ==
  /\ \A q \in Requesters : WF_vars(Requests(q))
  /\ \A h \in Handlers : WF_vars(Handles(h))
  /\ \A e \in Events : WF_vars(\E h \in Handlers : e \notin answered /\ Receive(h, e))
  /\ WF_vars(Recovers)
FairSpec == Spec /\ Fairness

---------------------------------------------------------------------------
(* The threads as a reader of the correspondence sees them. *)
MailsOf(row) == {e[1] : e \in row.entries}
LastJudged(row) ==
  IF row.review = None THEN None ELSE [mail |-> row.review.entry[1], verdict |-> row.review.verdict]
ThreadView(row) ==
  [phase |-> row.phase, mails |-> MailsOf(row), judged |-> LastJudged(row), response |-> row.response]
Visible == [t \in Slots |-> ThreadView(threads[t])]

\* The mapping to CorrespondenceLifecycle; jobs, queues, the outbox, stored events and the
\* local state of every actor stay inside.
Lifecycle == INSTANCE CorrespondenceLifecycle WITH
  thread <- Visible,
  Own <- SelfSend,
  Opening <- SentMail,
  Copies <- Captures,
  OutcomeOf <- Outcomes,
  Interim <- "registration_number_received"

---------------------------------------------------------------------------
(* Properties. *)
TypeOK ==
  /\ threads \in [Slots -> [phase : Phases, entries : SUBSET Entries, marked : BOOLEAN,
                            review : {None} \cup [entry : Entries, verdict : DOMAIN Outcomes],
                            response : {None, "registration_number_received"} \cup FinalResponses]]
  /\ stored \in [Events -> {"none", "stored", "matched", "unmatched"}]
  /\ \A n \in outbox : n.slot \in Slots /\ n.entry \in Entries \cup {None}
  /\ jobs \subseteq Slots \X Entries
  /\ \A a \in Actors : actor[a].slot \in Slots \cup {None} /\ actor[a].entry \in Entries \cup {None}
  /\ \A h \in Handlers : actor[h].at \in {"append", "reconcile", "mark"} => Exists(actor[h].slot)
  /\ fresh \subseteq Reviewers /\ accepted \subseteq Platform /\ answered \subseteq Events

\* The institution never has two requests of the platform, unless the platform took
\* the earlier one to have failed, or the later one after a reply revived the earlier.
OneRequestOut ==
  \A t, u \in accepted :
    t < u => threads[t].phase = "failed"
               \/ (threads[u].phase = "failed" /\ Inbound(threads[t]) # {})

\* A thread keeps a mail once, however often its webhook is called.
EntriesOnce == \A t \in Slots : \A e, f \in threads[t].entries : e[1] = f[1] => e = f

\* Nothing says that a request went out unless the provider accepted its mail (a thread
\* with replies aside: one that quotes no key is taken for an answer to the active thread).
NoPhantomRequest ==
  \A t \in Platform : Inbound(threads[t]) = {} =>
    (SentEntry \in threads[t].entries \/ threads[t].phase = "awaiting_reply"
       \/ News(t, "thread_started", None) \in outbox
       => t \in accepted)

\* Only a reply that the thread did not have asks for a review: a repeated webhook
\* never reopens a thread that was reviewed or resolved.
ReplayNeverReopens ==
  [][\A t \in Slots :
       threads'[t].phase = "reply_received_unreviewed" /\ threads'[t].phase # threads[t].phase
         => \E e \in threads'[t].entries \ threads[t].entries : e[1] \in Replies]_vars

\* A confirmation or denial is the last response of a thread, also when replies
\* and reviews have moved its phase since.
ResolvedIsFinal ==
  [][\A t \in Platform :
       threads[t].response \in FinalResponses => threads'[t].response = threads[t].response]_vars

\* Whatever requests, webhooks, the recovery job and administrators do at the same time,
\* the threads move as CorrespondenceLifecycle says: one active request at a time,
\* confirmed after its acceptance; a mail kept once; a verdict only on a reply that waits
\* for one, never in place of the last one on it; no response after a final one.
ThreadsFollowLifecycle == Lifecycle!Spec

\* The subscriber's outbox gets the current news again and again, whichever publications failed.
NewsMaterializes == []<>(CurrentNews \subseteq outbox)

\* A thread whose mail was accepted does not stay in sending.
SendsRecover ==
  \A t \in Platform : t \in accepted /\ threads[t].phase = "sending" ~> threads[t].phase # "sending"

Kept(m) == \E t \in Slots : \E e \in threads[t].entries : e[1] = m

\* The code can keep a reply only in a thread that the unique index lets be active.
Excluded(m) ==
  mailbox[m] # None /\ mailbox[m].slot \in Platform \ Active /\ Active # {}

\* Every reply ends up in a thread or is stored as unmatched, unless it answers a
\* request that the platform took to have failed and repeated.
RepliesAreKeptOrExcluded ==
  \A m \in Replies :
    mailbox[m] # None ~> (Kept(m) \/ stored[Received(m)] = "unmatched" \/ Excluded(m))

\* Every reply ends up in a thread or is stored as unmatched.
RepliesAreKept ==
  \A m \in Replies : mailbox[m] # None ~> (Kept(m) \/ stored[Received(m)] = "unmatched")

\* One notification per reply, although webhooks are repeated.
ReplyAnnouncedOnce ==
  \A n, k \in outbox :
    n.event = "reply_received" /\ k.event = "reply_received" /\ n.entry[1] = k.entry[1] => n = k
=============================================================================
