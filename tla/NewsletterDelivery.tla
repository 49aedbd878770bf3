------------------------- MODULE NewsletterDelivery -------------------------
(***************************************************************************)
(* One user's news of one period: a mail of its own for each source the    *)
(* user subscribed to, and one digest that bundles several.  The producers *)
(* and the senders of the two kinds decide by reading each other's rows,   *)
(* while the user changes subscriptions and may be erased.                 *)
(*                                                                         *)
(* How a row moves through claims, queues, retries and webhooks is the     *)
(* subject of NotificationOutbox.  Here a row whose content is ready can   *)
(* be claimed, and composing a digest is one step.                         *)
(***************************************************************************)
EXTENDS FiniteSets, Naturals

CONSTANTS
  Sources,          \* the user's notifications of the period
  Newsletters,      \* those of type newsletter_entity_monthly; the others are alerts
  Digest,           \* the digest's row
  MaxRuns,          \* bound: producers' runs
  MaxUserChanges,   \* bound: changes of preferences
  MaxFailures       \* bound: failed calls of the provider, of the erasure

ASSUME SourcesAssumption == Newsletters \subseteq Sources /\ Digest \notin Sources
ASSUME BudgetAssumption == MaxRuns \in Nat /\ MaxUserChanges \in Nat /\ MaxFailures \in Nat

VARIABLES
  active,       \* sources whose notification has is_active
  optedOut,     \* the user is globally unsubscribed
  erasure,      \* none, marked (audit row committed), listed (rows read), done
  listed,       \* the rows the erasure's transaction read
  mail,         \* the outbox rows: status, owner and rendered sections
  bundle,       \* metadata.sourceNotificationIds of the digest
  sender,       \* the execution of processSendJob on each row
  composer,     \* the execution of composeSubscription for each source
  eligible,     \* what a run of materializeAnafForexebugDigests collected
  budget,       \* runs, changes and failures left
  mailed,       \* history: the sections of the mails a row has sent
  wanted,       \* history: the sources that were on at some time since the row was claimed, or
                \* since an alert's own row was composed
  history       \* history: rows whose answer was lost; sources that crossed; sources never
                \* switched off; rows since whose claim the user was not always unsubscribed

newsVars == <<active, optedOut, erasure, listed, mail, bundle, sender, composer,
              eligible, budget, mailed, wanted, history>>

Rows == Sources \cup {Digest}
Claimable == {"pending", "failed_transient"}
MailStatuses == Claimable \cup
  {"absent", "sending", "sent", "failed_permanent", "suppressed", "skipped"}
Idle == [at |-> "idle", copy |-> {}, left |-> {}, kept |-> {}]
Steps == {"idle", "erasure", "optOut", "sources", "digest", "bundle", "last", "call",
          "accepted", "unanswered", "refused", "rejected"}

NewsTypeOK ==
  /\ active \subseteq Sources /\ optedOut \in BOOLEAN
  /\ erasure \in {"none", "marked", "listed", "done"} /\ listed \subseteq Rows
  /\ mail \in [Rows -> [status: MailStatuses, owner: {"none", "user", "erased"},
                        content: SUBSET Sources]]
  /\ bundle \subseteq Sources /\ \A r \in Rows : mail[r].content \subseteq bundle \cup {r}
  /\ sender \in [Rows -> [at: Steps, copy: SUBSET Sources, left: SUBSET Sources, kept: SUBSET Sources]]
  /\ composer \in [Sources -> {"none", "job", "create"}]
  /\ eligible \subseteq Sources
  /\ budget \in [runs: 0..MaxRuns, changes: 0..MaxUserChanges, failures: 0..MaxFailures]
  /\ mailed \in [Rows -> SUBSET Sources] /\ wanted \in [Rows -> SUBSET Sources]
  /\ history \in [unanswered: SUBSET Rows, crossed: SUBSET Sources, steady: SUBSET Sources,
                  welcome: SUBSET Rows]

NewsInit ==
  /\ active \in SUBSET Sources /\ optedOut = FALSE /\ erasure = "none" /\ listed = {}
  /\ mail = [r \in Rows |-> [status |-> "absent", owner |-> "none", content |-> {}]]
  /\ bundle = {} /\ sender = [r \in Rows |-> Idle]
  /\ composer = [n \in Sources |-> "none"] /\ eligible = {}
  /\ budget = [runs |-> MaxRuns, changes |-> MaxUserChanges, failures |-> MaxFailures]
  /\ mailed = [r \in Rows |-> {}] /\ wanted = [r \in Rows |-> {}]
  /\ history = [unanswered |-> {}, crossed |-> {}, steady |-> active, welcome |-> {}]

-----------------------------------------------------------------------------
(* Producers *)

Spend(what) == budget[what] > 0 /\ budget' = [budget EXCEPT ![what] = @ - 1]
Exists(r) == mail[r].owner # "none"
\* Rows are looked up by scope and delivery key, which the erasure replaces.
Findable(r) == mail[r].owner = "user"
Wanted == IF erasure = "none" THEN active ELSE {}
Alerts == Sources \ Newsletters

\* findEligibleForDelivery: scope "direct" overlooks the digest.
Collectable(scope) ==
  {n \in active : ~optedOut /\ ~Findable(n) /\ (scope = "all" /\ Findable(Digest) => n \notin bundle)}

\* POST /trigger for the sources of one type and the collect job: force ignores
\* what is already materialized.
Trigger ==
  /\ \E force \in BOOLEAN, type \in {Newsletters, Alerts} :
       LET found == type \cap (IF force THEN {n \in active : ~optedOut} ELSE Collectable("all"))
       IN  /\ found # {}
           /\ \A n \in found : composer[n] = "none"
           /\ composer' = [n \in Sources |-> IF n \in found THEN "job" ELSE composer[n]]
  /\ Spend("runs")
  /\ UNCHANGED <<active, optedOut, erasure, listed, mail, bundle, sender, eligible, mailed, wanted, history>>

\* composeSubscription up to its look-up of the delivery key: whether the source
\* is on is looked at here, of an alert for the last time.
ComposeDirect(n) ==
  /\ composer[n] = "job"
  /\ IF n \in active /\ ~Findable(n)
     THEN /\ composer' = [composer EXCEPT ![n] = "create"]
          /\ wanted' = IF n \in Alerts THEN [wanted EXCEPT ![n] = Wanted] ELSE wanted
     ELSE composer' = [composer EXCEPT ![n] = "none"] /\ UNCHANGED wanted
  /\ UNCHANGED <<active, optedOut, erasure, listed, mail, bundle, sender, eligible, budget, mailed, history>>

\* ... and its insert, which the unique delivery key may refuse.  A row that
\* was erased has another key; the model keeps one row of a source, so it does
\* not follow a second one.
CreateDirect(n) ==
  /\ composer[n] = "create"
  /\ composer' = [composer EXCEPT ![n] = "none"]
  /\ mail' = IF Exists(n) THEN mail
             ELSE [mail EXCEPT ![n] = [status |-> "pending", owner |-> "user", content |-> {n}]]
  /\ UNCHANGED <<active, optedOut, erasure, listed, bundle, sender, eligible, budget, mailed, wanted, history>>

\* materializeAnafForexebugDigests collects the sources ...
CollectDigest ==
  /\ eligible = {} /\ Collectable("direct") # {}
  /\ eligible' = Collectable("direct")
  /\ Spend("runs")
  /\ UNCHANGED <<active, optedOut, erasure, listed, mail, bundle, sender, composer, mailed, wanted, history>>

\* ... and creates the row unless one has its delivery key.
CreateDigest ==
  /\ eligible # {}
  /\ eligible' = {}
  /\ IF Exists(Digest) THEN UNCHANGED <<mail, bundle>>
     ELSE /\ mail' = [mail EXCEPT ![Digest] = [status |-> "pending", owner |-> "user", content |-> {}]]
          /\ bundle' = eligible
  /\ UNCHANGED <<active, optedOut, erasure, listed, sender, composer, budget, mailed, wanted, history>>

\* composeExistingOutbox of a digest: sources that are inactive are left out.
ComposeDigest ==
  /\ mail[Digest].status = "pending" /\ mail[Digest].content = {}
  /\ mail' = IF bundle \cap active = {} THEN [mail EXCEPT ![Digest].status = "failed_permanent"]
             ELSE [mail EXCEPT ![Digest].content = bundle \cap active]
  /\ UNCHANGED <<active, optedOut, erasure, listed, bundle, sender, composer, eligible, budget, mailed, wanted, history>>

-----------------------------------------------------------------------------
(* processSendJob *)

At(r, step) == sender[r].at = step
GoTo(r, step) == sender' = [sender EXCEPT ![r].at = step]
Stop(r) == sender' = [sender EXCEPT ![r] = Idle]
Overwrite(r, to) == mail' = [mail EXCEPT ![r].status = to]
\* updateStatusIfStillSending
IfStillSending(r, to) ==
  mail' = IF mail[r].status = "sending" THEN [mail EXCEPT ![r].status = to] ELSE mail
GiveUp(r, to) == IfStillSending(r, to) /\ Stop(r)

ClaimMail(r) ==
  /\ mail[r].status \in Claimable /\ mail[r].content # {} /\ At(r, "idle")
  /\ mail' = [mail EXCEPT ![r].status = "sending"]
  /\ sender' = [sender EXCEPT ![r].at = "erasure", ![r].copy = mail[r].content]
  /\ wanted' = IF r \in Alerts THEN wanted ELSE [wanted EXCEPT ![r] = Wanted]
  /\ history' = [history EXCEPT !.welcome = IF optedOut THEN @ \ {r} ELSE @ \cup {r}]
  /\ UNCHANGED <<active, optedOut, erasure, listed, bundle, composer, eligible, budget, mailed>>

\* skipIfUserAnonymizationStarted, first time: a row of an erased user has an anonymous owner.
CheckErasure(r) ==
  /\ At(r, "erasure")
  /\ IF erasure # "none" THEN GiveUp(r, "skipped") ELSE GoTo(r, "optOut") /\ UNCHANGED mail
  /\ UNCHANGED <<active, optedOut, erasure, listed, bundle, composer, eligible, budget, mailed, wanted, history>>

CheckOptOut(r) ==
  /\ At(r, "optOut")
  /\ IF optedOut THEN GiveUp(r, "skipped")
     ELSE /\ sender' = IF r = Digest THEN [sender EXCEPT ![r].at = "bundle", ![r].left = bundle]
                       ELSE [sender EXCEPT ![r].at = IF r \in Newsletters THEN "sources" ELSE "last"]
          /\ UNCHANGED mail
  /\ UNCHANGED <<active, optedOut, erasure, listed, bundle, composer, eligible, budget, mailed, wanted, history>>

\* A newsletter's own mail: the source is still active, and not bundled.  An
\* alert's own mail skips both checks.
CheckSource(n) ==
  /\ At(n, "sources")
  /\ IF n \notin active THEN GiveUp(n, "skipped") ELSE GoTo(n, "digest") /\ UNCHANGED mail
  /\ UNCHANGED <<active, optedOut, erasure, listed, bundle, composer, eligible, budget, mailed, wanted, history>>

SuppressedByPeriod(n) == Findable(Digest) /\ mail[Digest].status # "failed_permanent"

\* shouldSuppressDirectNewsletterForDigest
SuppressedBy(n) == Findable(Digest) /\ n \in bundle /\ mail[Digest].status # "failed_permanent"

CheckDigest(n) ==
  /\ At(n, "digest")
  /\ IF SuppressedBy(n) THEN GiveUp(n, "suppressed") ELSE GoTo(n, "last") /\ UNCHANGED mail
  /\ UNCHANGED <<active, optedOut, erasure, listed, bundle, composer, eligible, budget, mailed, wanted, history>>

BlockingWhenSent(n) == Findable(n) /\ mail[n].status = "sent"

\* isBlockingDirectDeliveryForDigest
Blocking(n) == Findable(n) /\ mail[n].status \in {"sending", "sent"}

\* A digest: each source is still active and not mailed, or about to be, by itself.
CheckBundled(n) ==
  /\ At(Digest, "bundle") /\ n \in sender[Digest].left
  /\ sender' = [sender EXCEPT ![Digest].left = @ \ {n},
                              ![Digest].kept = IF n \in active /\ ~Blocking(n) THEN @ \cup {n} ELSE @]
  /\ history' = IF n \in active /\ Blocking(n) /\ mail[n].status = "sending"
                THEN [history EXCEPT !.crossed = @ \cup {n}] ELSE history
  /\ UNCHANGED <<active, optedOut, erasure, listed, mail, bundle, composer, eligible, budget, mailed, wanted>>

Remaining == sender[Digest].kept

SendWhatRemains ==
  /\ At(Digest, "bundle") /\ sender[Digest].left = {}
  /\ IF Remaining = {} THEN GiveUp(Digest, "skipped") ELSE GoTo(Digest, "last") /\ UNCHANGED mail
  /\ UNCHANGED <<active, optedOut, erasure, listed, bundle, composer, eligible, budget, mailed, wanted, history>>

ToSendAgain(row) == [row EXCEPT !.status = "pending"]

\* refreshMetadataForRecompose
ToCompose(row) == [row EXCEPT !.status = "pending", !.content = {}]

\* Nothing left, or the bundle to be composed again without what was dropped.
DecideBundle ==
  /\ At(Digest, "bundle") /\ sender[Digest].left = {}
  /\ IF Remaining = {} THEN GiveUp(Digest, "skipped") /\ UNCHANGED bundle
     ELSE IF Remaining = bundle THEN GoTo(Digest, "last") /\ UNCHANGED <<mail, bundle>>
     ELSE /\ Stop(Digest)
          /\ IF mail[Digest].status = "sending"
             THEN /\ mail' = [mail EXCEPT ![Digest] = ToCompose(@)]
                  /\ bundle' = Remaining
             ELSE UNCHANGED <<mail, bundle>>
  /\ UNCHANGED <<active, optedOut, erasure, listed, composer, eligible, budget, mailed, wanted, history>>

\* skipIfUserAnonymizationStarted, again, right before the call.
CheckAgain(r) ==
  /\ At(r, "last")
  /\ IF erasure # "none" THEN GiveUp(r, "skipped") ELSE GoTo(r, "call") /\ UNCHANGED mail
  /\ UNCHANGED <<active, optedOut, erasure, listed, bundle, composer, eligible, budget, mailed, wanted, history>>

\* The provider accepts the mail; its answer may be lost.  Or it refuses it.
CallAccepted(r) ==
  /\ At(r, "call")
  /\ mailed' = [mailed EXCEPT ![r] = @ \cup sender[r].copy]
  /\ \/ GoTo(r, "accepted") /\ UNCHANGED <<budget, history>>
     \/ /\ GoTo(r, "unanswered") /\ Spend("failures")
        /\ history' = [history EXCEPT !.unanswered = @ \cup {r}]
  /\ UNCHANGED <<active, optedOut, erasure, listed, mail, bundle, composer, eligible, wanted>>

CallFails(r) ==
  /\ At(r, "call")
  /\ \E outcome \in {"refused", "rejected"} : GoTo(r, outcome)
  /\ Spend("failures")
  /\ UNCHANGED <<active, optedOut, erasure, listed, mail, bundle, composer, eligible, mailed, wanted, history>>

Recorded == [accepted |-> "sent", unanswered |-> "failed_transient",
             refused |-> "failed_transient", rejected |-> "failed_permanent"]

RecordCall(r) ==
  /\ sender[r].at \in DOMAIN Recorded
  /\ GiveUp(r, Recorded[sender[r].at])
  /\ UNCHANGED <<active, optedOut, erasure, listed, bundle, composer, eligible, budget, mailed, wanted, history>>

-----------------------------------------------------------------------------
(* The user's preferences, and the erasure of a deleted user *)

SwitchSource(n) ==
  /\ erasure = "none"
  /\ active' = IF n \in active THEN active \ {n} ELSE active \cup {n}
  /\ wanted' = [r \in Rows |-> wanted[r] \cup active']
  /\ Spend("changes")
  /\ history' = [history EXCEPT !.steady = @ \ {n}]
  /\ UNCHANGED <<optedOut, erasure, listed, mail, bundle, sender, composer, eligible, mailed>>

SwitchAll ==
  /\ erasure = "none"
  /\ optedOut' = ~optedOut
  /\ Spend("changes")
  /\ history' = [history EXCEPT !.steady = {}, !.welcome = IF optedOut THEN Rows ELSE @]
  /\ UNCHANGED <<active, erasure, listed, mail, bundle, sender, composer, eligible, mailed, wanted>>

\* markAuditStarted commits by itself: senders see it at their next check.
MarkErasure ==
  /\ erasure = "none" /\ Spend("changes")
  /\ erasure' = "marked"
  /\ wanted' = [r \in Rows |-> IF At(r, "call") THEN wanted[r] ELSE {}]
  /\ history' = [history EXCEPT !.steady = {}]
  /\ UNCHANGED <<active, optedOut, listed, mail, bundle, sender, composer, eligible, mailed>>

\* The transaction reads the user's rows ...
ListRows ==
  /\ erasure = "marked"
  /\ erasure' = "listed" /\ listed' = {r \in Rows : Exists(r)}
  /\ UNCHANGED <<active, optedOut, mail, bundle, sender, composer, eligible, budget, mailed, wanted, history>>

\* ... and changes those.
Anonymized(r) ==
  [status |-> IF mail[r].status \in Claimable \cup {"sending"} THEN "skipped" ELSE mail[r].status,
   owner |-> "erased", content |-> {}]
CommitErasure ==
  /\ erasure = "listed"
  /\ erasure' = "done" /\ active' = {}
  /\ mail' = [r \in Rows |-> IF r \in listed THEN Anonymized(r) ELSE mail[r]]
  /\ UNCHANGED <<optedOut, listed, bundle, sender, composer, eligible, budget, mailed, wanted, history>>

\* The transaction fails and the deletion's webhook is repeated.
ErasureFails ==
  /\ erasure = "listed" /\ Spend("failures")
  /\ erasure' = "marked" /\ listed' = {}
  /\ UNCHANGED <<active, optedOut, mail, bundle, sender, composer, eligible, mailed, wanted, history>>

-----------------------------------------------------------------------------
SendStep(r) ==
  \/ ClaimMail(r) \/ CheckErasure(r) \/ CheckOptOut(r) \/ CheckAgain(r)
  \/ CallAccepted(r) \/ RecordCall(r)
  \/ r \in Sources /\ (CheckSource(r) \/ CheckDigest(r))
  \/ r = Digest /\ ((\E n \in Sources : CheckBundled(n)) \/ DecideBundle)

NewsNext ==
  \/ Trigger \/ CollectDigest \/ CreateDigest \/ ComposeDigest
  \/ \E n \in Sources : ComposeDirect(n) \/ CreateDirect(n) \/ SwitchSource(n)
  \/ \E r \in Rows : SendStep(r) \/ CallFails(r)
  \/ SwitchAll \/ MarkErasure \/ ListRows \/ CommitErasure \/ ErasureFails

\* Queues hand out their jobs, and the recovery job finds the rows that have none.
NewsFairness ==
  /\ WF_newsVars(ComposeDigest)
  /\ \A r \in Rows : WF_newsVars(SendStep(r))

NewsSpec == NewsInit /\ [][NewsNext]_newsVars /\ NewsFairness

-----------------------------------------------------------------------------
(* Properties *)

\* A newsletter is not mailed both by itself and in the digest, unless an
\* answer of the provider was lost: whichever row is claimed second meets the other.
NewsletterOnce ==
  \A n \in Newsletters :
    n \in mailed[n] \cap mailed[Digest] => {n, Digest} \cap history.unanswered # {}

\* A mail contains no source that was off ever since its row was claimed, or, of
\* an alert's own mail, ever since it was composed (the worker does not look at
\* an alert again); none goes to a user who was unsubscribed ever since its
\* claim, and none goes out after an erasure was marked that had not yet passed
\* its last check.
MailsAreWanted ==
  [][\A r \in Rows : mailed'[r] # mailed[r] =>
       sender[r].copy \subseteq wanted[r] /\ r \in history.welcome]_newsVars

\* A newsletter that has a row, its own or the digest's, reaches a user who
\* never switched it off, unless the provider rejected a mail of it, or the two
\* rows crossed: both under way, each left the newsletter to the other.
NewsletterArrives ==
  \A n \in Newsletters :
    (n \in history.steady /\ (Exists(n) \/ n \in bundle)) ~>
      \/ n \notin history.steady \/ n \in history.crossed
      \/ n \in mailed[n] \cup mailed[Digest]
      \/ mail[n].status = "failed_permanent"
      \/ mail[Digest].status = "failed_permanent" /\ mail[n].status \in {"absent", "suppressed"}

\* An erased row holds nothing of the user and is not taken up again, whatever
\* a worker that claimed it before still writes.
ErasedRowsRest ==
  \A r \in Rows : mail[r].owner = "erased" =>
    mail[r].content = {} /\ mail[r].status \notin Claimable \cup {"sending"}
=============================================================================
