----------------------- MODULE NewsletterDeliveryProofs -----------------------
(***************************************************************************)
(* What the two kinds of mail of a period promise, proved for any sources, *)
(* any number of runs of the producers, changes by the user and failures.  *)
(***************************************************************************)
EXTENDS NewsletterDelivery, TLAPS

-----------------------------------------------------------------------------
(* The inductive invariant                                                   *)

\* A row that exists has an owner; only a finished erasure takes it away.
Owners ==
  /\ \A r \in Rows :
       /\ mail[r].owner = "none" => mail[r].status = "absent" /\ mail[r].content = {}
       /\ mail[r].owner = "erased" => erasure = "done"
  /\ erasure = "done" => active = {}

\* A row is at work only in the worker that claimed it, until it is erased.
Working ==
  \A r \in Rows : sender[r].at # "idle" => mail[r].status = "sending" \/ mail[r].owner = "erased"

\* A mail that went out with an answer is recorded, or about to be.
Delivered ==
  \A r \in Rows : mailed[r] # {} /\ r \notin history.unanswered =>
    \/ mail[r].owner = "erased" \/ mail[r].status = "sent"
    \/ mail[r].status = "sending" /\ sender[r].at = "accepted"

\* What a worker has read or kept is of its row, and of the bundle it has now.
Copies ==
  /\ \A n \in Sources : mail[n].content \subseteq {n} /\ sender[n].copy \subseteq {n}
  /\ sender[Digest].at # "idle" => sender[Digest].copy \subseteq bundle
  /\ sender[Digest].at \in {"idle", "erasure", "optOut"} => sender[Digest].kept = {}
  /\ sender[Digest].at = "bundle" =>
       /\ sender[Digest].left \subseteq bundle /\ sender[Digest].kept \subseteq bundle
  /\ Digest \notin history.unanswered => mailed[Digest] \subseteq bundle

\* What a worker has checked stays among what was on since its row was claimed,
\* until an erasure is marked.
Checked ==
  \A r \in Rows :
    /\ erasure = "none" /\ sender[r].at # "idle" => active \subseteq wanted[r]
    /\ ~optedOut /\ sender[r].at # "idle" => r \in history.welcome
    /\ erasure = "none" /\ sender[r].at = "bundle" => sender[r].kept \subseteq wanted[r]
    /\ erasure = "none" /\ sender[r].at \in {"digest", "last"} => sender[r].copy \subseteq wanted[r]
    /\ sender[r].at = "call" => sender[r].copy \subseteq wanted[r]
    /\ sender[r].at \in {"sources", "digest", "bundle", "last", "call"} => r \in history.welcome
  /\ \A n \in Sources : sender[n].at # "bundle"

\* An alert that has a row, or is about to have one, was on when it was composed.
AlertsOn ==
  \A n \in Alerts :
    erasure = "none" /\ (composer[n] = "create" \/ Exists(n)) => active \cup {n} \subseteq wanted[n]

\* A worker past its look at the other row, unless an erasure will stop it.
DirectGoes(n) ==
  \/ erasure = "none" /\ sender[n].at = "last"
  \/ sender[n].at \in {"call", "accepted"} \/ n \in mailed[n]
DigestGoes(n) ==
  \/ erasure = "none" /\ sender[Digest].at = "bundle" /\ n \in sender[Digest].kept
  \/ erasure = "none" /\ sender[Digest].at = "last" /\ n \in sender[Digest].copy
  \/ sender[Digest].at \in {"call", "accepted"} /\ n \in sender[Digest].copy
  \/ n \in mailed[Digest]

\* Of a newsletter's two rows one goes.
OneGoes ==
  \A n \in Newsletters :
    {n, Digest} \cap history.unanswered = {} => ~(DirectGoes(n) /\ DigestGoes(n))

NewsInv ==
  /\ NewsTypeOK /\ ErasedRowsRest /\ Owners /\ Working /\ Delivered
  /\ Copies /\ Checked /\ AlertsOn /\ OneGoes

-----------------------------------------------------------------------------
(* What the steps have in common                                             *)

SenderRecords == [at: Steps, copy: SUBSET Sources, left: SUBSET Sources, kept: SUBSET Sources]
Mails == [status: MailStatuses, owner: {"none", "user", "erased"}, content: SUBSET Sources]

\* There is no mail at first.
LEMMA NewsInvInit == NewsInit => NewsInv
<1> SUFFICES ASSUME NewsInit PROVE NewsInv
  OBVIOUS
<1>1. NewsTypeOK
  <2>1. /\ active \subseteq Sources /\ optedOut \in BOOLEAN /\ bundle \subseteq Sources
        /\ erasure \in {"none", "marked", "listed", "done"} /\ listed \subseteq Rows
        /\ composer \in [Sources -> {"none", "job", "create"}] /\ eligible \subseteq Sources
        /\ mailed \in [Rows -> SUBSET Sources] /\ wanted \in [Rows -> SUBSET Sources]
    BY DEF NewsInit
  <2>2. /\ mail \in [Rows -> [status: MailStatuses, owner: {"none", "user", "erased"},
                              content: SUBSET Sources]]
        /\ \A r \in Rows : mail[r].content \subseteq bundle \cup {r}
    BY DEF NewsInit, MailStatuses
  <2>3. sender \in [Rows -> [at: Steps, copy: SUBSET Sources, left: SUBSET Sources,
                            kept: SUBSET Sources]]
    BY DEF NewsInit, Idle, Steps
  <2>4. budget \in [runs: 0..MaxRuns, changes: 0..MaxUserChanges, failures: 0..MaxFailures]
    BY BudgetAssumption DEF NewsInit
  <2>5. history \in [unanswered: SUBSET Rows, crossed: SUBSET Sources, steady: SUBSET Sources,
                     welcome: SUBSET Rows]
    BY DEF NewsInit
  <2>6. QED BY <2>1, <2>2, <2>3, <2>4, <2>5 DEF NewsTypeOK
<1>2. ErasedRowsRest /\ Owners /\ Working /\ Delivered
  BY DEF NewsInit, ErasedRowsRest, Owners, Working, Delivered, Idle, Rows
<1>3. Copies /\ Checked /\ AlertsOn /\ OneGoes
  BY SourcesAssumption
     DEF NewsInit, Copies, Checked, AlertsOn, Alerts, Exists, OneGoes, DirectGoes, DigestGoes, Idle, Rows
<1>4. QED BY <1>1, <1>2, <1>3 DEF NewsInv

\* Producers' reads, and what else leaves the rows, their workers and what the
\* user wants as they were.
LEMMA QuietNews ==
  ASSUME NewsInv, NewsTypeOK',
         UNCHANGED <<active, optedOut, erasure, mail, bundle, sender, mailed, wanted, history>>,
         \A n \in Sources : composer'[n] = "create" => composer[n] = "create"
  PROVE  NewsInv'
<1>1. AlertsOn'
  BY DEF NewsInv, AlertsOn, Alerts, Exists
<1>2. QED
  BY <1>1 DEF NewsInv, ErasedRowsRest, Owners, Working, Delivered, Copies, Checked, OneGoes,
       DirectGoes, DigestGoes, Findable

\* The type of what a row and a worker are.
LEMMA NewsTyped ==
  ASSUME NewsTypeOK, NEW r \in Rows
  PROVE  mail[r] \in Mails /\ sender[r] \in SenderRecords
BY DEF NewsTypeOK, Mails, SenderRecords

\* A step that creates no row and composes no alert.
LEMMA SameOwners ==
  ASSUME NewsInv, \A q \in Rows : mail'[q].owner = mail[q].owner,
         UNCHANGED <<active, erasure, composer>>, \A n \in Alerts : wanted'[n] = wanted[n]
  PROVE  AlertsOn'
BY DEF NewsInv, AlertsOn, Alerts, Exists, Rows

\* A worker gives up, or records its call: it writes its row only if the row is
\* still its own.
LEMMA GiveUpNews ==
  ASSUME NewsInv, NEW r \in Rows, NEW to \in MailStatuses \ {"absent"}, GiveUp(r, to),
         sender[r].at = "accepted" => to = "sent",
         UNCHANGED <<active, optedOut, erasure, listed, bundle, composer, eligible, budget, mailed,
                     wanted, history>>
  PROVE  NewsInv'
<1>1. PICK row \in Mails :
        /\ mail' = [mail EXCEPT ![r] = row]
        /\ row.owner = mail[r].owner /\ row.content = mail[r].content
        /\ row.status = IF mail[r].status = "sending" THEN to ELSE mail[r].status
  <2>1. CASE mail[r].status = "sending"
    <3>1. mail' = [mail EXCEPT ![r] = [mail[r] EXCEPT !.status = to]]
      BY <2>1 DEF GiveUp, IfStillSending
    <3>2. [mail[r] EXCEPT !.status = to] \in Mails
      BY NewsTyped DEF NewsInv, Mails
    <3>3. QED BY <2>1, <3>1, <3>2, NewsTyped DEF NewsInv, Mails
  <2>2. CASE mail[r].status # "sending"
    BY <2>2, NewsTyped DEF GiveUp, IfStillSending, NewsInv, NewsTypeOK
  <2>3. QED BY <2>1, <2>2
<1>2. sender' = [sender EXCEPT ![r] = Idle] /\ Idle \in SenderRecords
      /\ Idle.at = "idle" /\ Idle.copy = {} /\ Idle.kept = {}
  BY DEF GiveUp, Stop, Idle, SenderRecords, Steps
<1>3. NewsTypeOK'
  BY <1>1, <1>2 DEF NewsInv, NewsTypeOK, Mails, SenderRecords
<1>4. ErasedRowsRest' /\ Owners' /\ Working'
  BY <1>1, <1>2 DEF NewsInv, NewsTypeOK, ErasedRowsRest, Owners, Working, Claimable
<1>5. Delivered'
  BY <1>1, <1>2 DEF NewsInv, NewsTypeOK, Delivered, Working
<1>6. Copies' /\ Checked'
  BY <1>1, <1>2 DEF NewsInv, NewsTypeOK, Copies, Checked, Rows
<1>7. OneGoes'
  BY <1>1, <1>2 DEF NewsInv, NewsTypeOK, OneGoes, DirectGoes, DigestGoes, Rows
<1>8. AlertsOn'
  <2>1. \A q \in Rows : mail'[q].owner = mail[q].owner
    BY <1>1 DEF NewsInv, NewsTypeOK
  <2>2. QED BY <2>1, SameOwners
<1>9. QED BY <1>3, <1>4, <1>5, <1>6, <1>7, <1>8 DEF NewsInv

\* What a budget allows leaves it in its bounds.
LEMMA SpendTyped ==
  ASSUME NewsTypeOK, NEW what \in {"runs", "changes", "failures"}, Spend(what)
  PROVE  budget' \in [runs: 0..MaxRuns, changes: 0..MaxUserChanges, failures: 0..MaxFailures]
BY BudgetAssumption DEF NewsTypeOK, Spend

-----------------------------------------------------------------------------
(* Producers                                                                 *)

\* The trigger and the collect job hand out jobs.
LEMMA TriggerNews == NewsInv /\ Trigger => NewsInv'
<1> SUFFICES ASSUME NewsInv, Trigger PROVE NewsInv'
  OBVIOUS
<1>1. composer' \in [Sources -> {"none", "job", "create"}]
  BY DEF Trigger, NewsInv, NewsTypeOK
<1>2. NewsTypeOK'
  BY <1>1, SpendTyped DEF Trigger, NewsInv, NewsTypeOK
<1>3. \A n \in Sources : composer'[n] = "create" => composer[n] = "create"
  BY DEF Trigger
<1>4. QED BY <1>2, <1>3, QuietNews DEF Trigger

\* composeSubscription looks up the delivery key.
LEMMA ComposeDirectNews ==
  ASSUME NewsInv, NEW n \in Sources, ComposeDirect(n)
  PROVE  NewsInv'
<1> USE DEF ComposeDirect
<1>1. n \in Rows /\ UNCHANGED <<active, optedOut, erasure, listed, mail, bundle, sender, eligible,
                               budget, mailed, history>>
  BY DEF Rows
<1>2. CASE n \in active /\ ~Findable(n) /\ n \in Alerts
  <2>1. composer' = [composer EXCEPT ![n] = "create"] /\ wanted' = [wanted EXCEPT ![n] = Wanted]
    BY <1>2
  <2>2. Wanted \subseteq Sources /\ (erasure = "none" => Wanted = active)
    BY DEF Wanted, NewsInv, NewsTypeOK
  <2>3. NewsTypeOK'
    BY <1>1, <2>1, <2>2 DEF NewsInv, NewsTypeOK
  <2>4. sender[n].at = "idle"
    <3>1. mail[n].owner = "none"
      BY <1>1, <1>2, NewsTyped DEF NewsInv, Owners, Mails, Findable
    <3>2. QED BY <1>1, <3>1 DEF NewsInv, Owners, Working
  <2>5. \A q \in Rows \ {n} : wanted'[q] = wanted[q]
    BY <2>1 DEF NewsInv, NewsTypeOK
  <2>6. Checked'
    BY <1>1, <2>4, <2>5 DEF NewsInv, Checked
  <2>7. AlertsOn'
    <3>1. wanted'[n] = Wanted /\ \A m \in Alerts \ {n} : composer'[m] = composer[m]
      BY <1>1, <2>1 DEF NewsInv, NewsTypeOK, Alerts
    <3>2. QED BY <1>1, <1>2, <2>2, <2>5, <3>1 DEF NewsInv, AlertsOn, Alerts, Exists, Rows
  <2>8. QED
    BY <1>1, <2>3, <2>6, <2>7
       DEF NewsInv, ErasedRowsRest, Owners, Working, Delivered, Copies, OneGoes, DirectGoes, DigestGoes
<1>3. CASE n \in active /\ ~Findable(n) /\ n \notin Alerts
  <2>1. composer' = [composer EXCEPT ![n] = "create"] /\ UNCHANGED wanted
    BY <1>3
  <2>2. NewsTypeOK'
    BY <1>1, <2>1 DEF NewsInv, NewsTypeOK
  <2>3. AlertsOn'
    BY <1>1, <1>3, <2>1 DEF NewsInv, NewsTypeOK, AlertsOn, Alerts, Exists
  <2>4. QED
    BY <1>1, <2>1, <2>2, <2>3
       DEF NewsInv, ErasedRowsRest, Owners, Working, Delivered, Copies, Checked, OneGoes,
           DirectGoes, DigestGoes
<1>4. CASE ~(n \in active /\ ~Findable(n))
  <2>1. composer' = [composer EXCEPT ![n] = "none"] /\ UNCHANGED wanted
    BY <1>4
  <2>2. NewsTypeOK'
    BY <1>1, <2>1 DEF NewsInv, NewsTypeOK
  <2>3. \A m \in Sources : composer'[m] = "create" => composer[m] = "create"
    BY <2>1 DEF NewsInv, NewsTypeOK
  <2>4. QED BY <1>1, <2>1, <2>2, <2>3, QuietNews
<1>5. QED BY <1>2, <1>3, <1>4

\* A row comes to exist once.
LEMMA CreateDirectNews ==
  ASSUME NewsInv, NEW n \in Sources, CreateDirect(n)
  PROVE  NewsInv'
<1>1. PICK row \in Mails :
        /\ mail' = [mail EXCEPT ![n] = row]
        /\ row = mail[n] \/ /\ mail[n].owner = "none" /\ row.status = "pending"
                            /\ row.owner = "user" /\ row.content = {n}
  <2>1. CASE Exists(n)
    BY <2>1, NewsTyped DEF CreateDirect, NewsInv, NewsTypeOK, Rows
  <2>2. CASE ~Exists(n)
    <3>1. [status |-> "pending", owner |-> "user", content |-> {n}] \in Mails
      BY DEF Mails, MailStatuses, Claimable
    <3>2. QED BY <2>2, <3>1 DEF CreateDirect, Exists
  <2>3. QED BY <2>1, <2>2
<1>2. n \in Rows /\ n # Digest
  BY SourcesAssumption DEF Rows
<1>3. NewsTypeOK'
  BY <1>1, <1>2 DEF CreateDirect, NewsInv, NewsTypeOK, Mails
<1>4. ErasedRowsRest' /\ Owners' /\ Working'
  BY <1>1, <1>2 DEF CreateDirect, NewsInv, NewsTypeOK, ErasedRowsRest, Owners, Working
<1>5. Delivered' /\ Copies'
  BY <1>1, <1>2 DEF CreateDirect, NewsInv, NewsTypeOK, Owners, Delivered, Copies
<1>6. Checked' /\ OneGoes'
  BY <1>1, <1>2 DEF CreateDirect, NewsInv, Checked, OneGoes, DirectGoes, DigestGoes
<1>7. AlertsOn'
  <2>1. UNCHANGED <<active, erasure, wanted>> /\ composer[n] = "create"
    BY DEF CreateDirect
  <2>2. \A m \in Sources : composer'[m] = "create" => composer[m] = "create"
    BY DEF CreateDirect, NewsInv, NewsTypeOK
  <2>3. \A m \in Sources \ {n} : mail'[m] = mail[m]
    BY <1>1, <1>2 DEF NewsInv, NewsTypeOK, Rows
  <2>4. QED BY <2>1, <2>2, <2>3 DEF NewsInv, AlertsOn, Alerts, Exists
<1>8. QED BY <1>3, <1>4, <1>5, <1>6, <1>7 DEF NewsInv

\* The digest's run collects.
LEMMA CollectDigestNews == NewsInv /\ CollectDigest => NewsInv'
<1> SUFFICES ASSUME NewsInv, CollectDigest PROVE NewsInv'
  OBVIOUS
<1>1. eligible' \subseteq Sources
  BY DEF CollectDigest, Collectable, NewsInv, NewsTypeOK
<1>2. NewsTypeOK'
  BY <1>1, SpendTyped DEF CollectDigest, NewsInv, NewsTypeOK
<1>3. QED BY <1>2, QuietNews DEF CollectDigest

\* The digest's row comes to exist once; nothing of it has been read before.
LEMMA CreateDigestNews == NewsInv /\ CreateDigest => NewsInv'
<1> SUFFICES ASSUME NewsInv, CreateDigest PROVE NewsInv'
  OBVIOUS
<1>1. CASE Exists(Digest)
  <2>1. NewsTypeOK'
    BY <1>1 DEF CreateDigest, NewsInv, NewsTypeOK
  <2>2. QED BY <1>1, <2>1, QuietNews DEF CreateDigest
<1>2. CASE ~Exists(Digest)
  <2>1. PICK row \in Mails :
          /\ mail' = [mail EXCEPT ![Digest] = row]
          /\ row.status = "pending" /\ row.owner = "user" /\ row.content = {}
    <3>1. [status |-> "pending", owner |-> "user", content |-> {}] \in Mails
      BY DEF Mails, MailStatuses, Claimable
    <3>2. QED BY <1>2, <3>1 DEF CreateDigest
  <2>2. Digest \in Rows /\ Digest \notin Sources /\ mail[Digest].owner = "none"
    BY <1>2, SourcesAssumption DEF Rows, Exists
  <2>3. sender[Digest].at = "idle" /\ (mailed[Digest] = {} \/ Digest \in history.unanswered)
    BY <2>2 DEF NewsInv, Owners, Working, Delivered
  <2>4. NewsTypeOK'
    <3>1. \A r \in Sources : mail[r].content \subseteq {r}
      BY DEF NewsInv, Copies
    <3>2. QED BY <1>2, <2>1, <2>2, <3>1 DEF CreateDigest, NewsInv, NewsTypeOK, Mails, Rows
  <2>5. ErasedRowsRest' /\ Owners' /\ Working'
    BY <1>2, <2>1, <2>2 DEF CreateDigest, NewsInv, NewsTypeOK, ErasedRowsRest, Owners, Working
  <2>6. Delivered' /\ Copies'
    BY <1>2, <2>1, <2>2, <2>3 DEF CreateDigest, NewsInv, NewsTypeOK, Owners, Delivered, Copies
  <2>7. Checked' /\ OneGoes'
    BY <1>2 DEF CreateDigest, NewsInv, Checked, OneGoes, DirectGoes, DigestGoes
  <2>8. AlertsOn'
    <3>1. \A n \in Sources : mail'[n] = mail[n]
      BY <2>1, <2>2 DEF NewsInv, NewsTypeOK, Rows
    <3>2. QED BY <3>1 DEF CreateDigest, NewsInv, AlertsOn, Alerts, Exists
  <2>9. QED BY <2>4, <2>5, <2>6, <2>7, <2>8 DEF NewsInv
<1>3. QED BY <1>1, <1>2

\* Composing takes what is still on (composeExistingOutbox); a row without
\* anything fails before it was ever claimed.
LEMMA ComposeDigestNews == NewsInv /\ ComposeDigest => NewsInv'
<1> SUFFICES ASSUME NewsInv, ComposeDigest PROVE NewsInv'
  OBVIOUS
<1>1. Digest \in Rows /\ Digest \notin Sources
  BY SourcesAssumption DEF Rows
<1>2. PICK row \in Mails :
        /\ mail' = [mail EXCEPT ![Digest] = row] /\ row.owner = mail[Digest].owner
        /\ row.status \in {"pending", "failed_permanent"} /\ row.content \subseteq bundle
        /\ mail[Digest].status = "pending"
  <2>1. CASE bundle \cap active = {}
    <3>1. [mail[Digest] EXCEPT !.status = "failed_permanent"] \in Mails
      BY <1>1, NewsTyped DEF NewsInv, Mails, MailStatuses
    <3>2. mail' = [mail EXCEPT ![Digest] = [mail[Digest] EXCEPT !.status = "failed_permanent"]]
      BY <2>1 DEF ComposeDigest
    <3>3. QED BY <1>1, <3>1, <3>2, NewsTyped DEF ComposeDigest, NewsInv, Mails
  <2>2. CASE bundle \cap active # {}
    <3>1. [mail[Digest] EXCEPT !.content = bundle \cap active] \in Mails
      BY <1>1, NewsTyped DEF NewsInv, NewsTypeOK, Mails
    <3>2. mail' = [mail EXCEPT ![Digest] = [mail[Digest] EXCEPT !.content = bundle \cap active]]
      BY <2>2 DEF ComposeDigest
    <3>3. QED BY <1>1, <3>1, <3>2, NewsTyped DEF ComposeDigest, NewsInv, Mails
  <2>3. QED BY <2>1, <2>2
<1>3. NewsTypeOK'
  BY <1>1, <1>2 DEF ComposeDigest, NewsInv, NewsTypeOK, Mails
<1>4. ErasedRowsRest' /\ Owners' /\ Working'
  BY <1>1, <1>2 DEF ComposeDigest, NewsInv, NewsTypeOK, ErasedRowsRest, Owners, Working, Claimable
<1>5. Delivered' /\ Copies'
  BY <1>1, <1>2 DEF ComposeDigest, NewsInv, NewsTypeOK, ErasedRowsRest, Delivered, Copies
<1>6. Checked' /\ OneGoes'
  BY DEF ComposeDigest, NewsInv, Checked, OneGoes, DirectGoes, DigestGoes
<1>7. AlertsOn'
  <2>1. \A q \in Rows : mail'[q].owner = mail[q].owner
    BY <1>2 DEF NewsInv, NewsTypeOK
  <2>2. QED BY <2>1, SameOwners DEF ComposeDigest
<1>8. QED BY <1>3, <1>4, <1>5, <1>6, <1>7 DEF NewsInv

-----------------------------------------------------------------------------
(* processSendJob                                                            *)

\* A row is claimed while nobody works on it and nothing of it has gone out
\* with an answer.
LEMMA ClaimMailNews ==
  ASSUME NewsInv, NEW r \in Rows, ClaimMail(r)
  PROVE  NewsInv'
<1>1. PICK row \in Mails :
        /\ mail' = [mail EXCEPT ![r] = row] /\ row.status = "sending"
        /\ row.owner = mail[r].owner /\ row.content = mail[r].content
  <2>1. [mail[r] EXCEPT !.status = "sending"] \in Mails
    BY NewsTyped DEF NewsInv, Mails, MailStatuses
  <2>2. mail' = [mail EXCEPT ![r] = [mail[r] EXCEPT !.status = "sending"]]
    BY DEF ClaimMail
  <2>3. QED BY <2>1, <2>2, NewsTyped DEF NewsInv, Mails
<1>2. PICK work \in SenderRecords :
        /\ sender' = [sender EXCEPT ![r] = work] /\ work.at = "erasure"
        /\ work.copy = mail[r].content /\ work.kept = sender[r].kept
  <2>1. [[sender[r] EXCEPT !.at = "erasure"] EXCEPT !.copy = mail[r].content] \in SenderRecords
    BY NewsTyped DEF NewsInv, SenderRecords, Steps, Mails
  <2>2. sender' = [sender EXCEPT ![r] = [[sender[r] EXCEPT !.at = "erasure"]
                                            EXCEPT !.copy = mail[r].content]]
    BY DEF ClaimMail
  <2>3. QED BY <2>1, <2>2, NewsTyped DEF NewsInv, SenderRecords
<1>3. /\ sender[r].at = "idle" /\ mail[r].status \in Claimable /\ mail[r].owner # "none"
      /\ mail[r].owner # "erased"
  BY DEF ClaimMail, NewsInv, Owners, ErasedRowsRest, At, Claimable
<1>4. mailed[r] = {} \/ r \in history.unanswered
  BY <1>3 DEF NewsInv, Delivered, Claimable
<1>5. /\ history' \in [unanswered: SUBSET Rows, crossed: SUBSET Sources, steady: SUBSET Sources,
                       welcome: SUBSET Rows]
      /\ history'.unanswered = history.unanswered
      /\ \A q \in Rows \ {r} : q \in history.welcome => q \in history'.welcome
      /\ ~optedOut => r \in history'.welcome
  <2>1. PICK welcome : welcome = IF optedOut THEN history.welcome \ {r} ELSE history.welcome \cup {r}
    OBVIOUS
  <2>2. history' = [history EXCEPT !.welcome = welcome]
    BY <2>1 DEF ClaimMail
  <2>3. /\ welcome \subseteq Rows /\ \A q \in Rows \ {r} : q \in history.welcome => q \in welcome
        /\ ~optedOut => r \in welcome
    BY <2>1 DEF NewsInv, NewsTypeOK
  <2>4. QED BY <2>2, <2>3 DEF NewsInv, NewsTypeOK
<1>6. wanted' \in [Rows -> SUBSET Sources] /\ \A q \in Rows \ {r} : wanted'[q] = wanted[q]
  BY DEF ClaimMail, NewsInv, NewsTypeOK, Wanted
<1>7. erasure = "none" => active \subseteq wanted'[r]
  <2>1. CASE r \in Alerts
    <3>1. UNCHANGED wanted /\ Exists(r)
      BY <1>3, <2>1 DEF ClaimMail, Exists
    <3>2. QED BY <2>1, <3>1 DEF NewsInv, AlertsOn
  <2>2. CASE r \notin Alerts
    BY <2>2 DEF ClaimMail, NewsInv, NewsTypeOK, Wanted
  <2>3. QED BY <2>1, <2>2
<1>8. NewsTypeOK'
  <2>1. mail' \in [Rows -> Mails] /\ sender' \in [Rows -> SenderRecords]
    BY <1>1, <1>2 DEF NewsInv, NewsTypeOK, Mails, SenderRecords
  <2>2. \A q \in Rows : mail'[q].content \subseteq bundle \cup {q}
    BY <1>1 DEF NewsInv, NewsTypeOK
  <2>3. QED BY <1>5, <1>6, <2>1, <2>2 DEF ClaimMail, NewsInv, NewsTypeOK, Mails, SenderRecords
<1>9. ErasedRowsRest' /\ Owners' /\ Working'
  BY <1>1, <1>2, <1>3 DEF ClaimMail, NewsInv, NewsTypeOK, ErasedRowsRest, Owners, Working
<1>10. Delivered'
  BY <1>1, <1>2, <1>4, <1>5 DEF ClaimMail, NewsInv, NewsTypeOK, Delivered
<1>11. Copies'
  <2>1. mail[r].content \subseteq bundle \cup {r}
    BY DEF NewsInv, NewsTypeOK
  <2>2. mail[r].content \subseteq Sources
    BY NewsTyped DEF NewsInv, Mails
  <2>3. UNCHANGED <<bundle, mailed>> /\ Digest \in Rows /\ \A n \in Sources : n \in Rows /\ n # Digest
    BY SourcesAssumption DEF ClaimMail, Rows
  <2>4. \A n \in Sources : mail'[n].content \subseteq {n} /\ sender'[n].copy \subseteq {n}
    BY <1>1, <1>2, <2>3 DEF NewsInv, NewsTypeOK, Copies
  <2>5. sender'[Digest].copy = mail[Digest].content \/ sender'[Digest] = sender[Digest]
    BY <1>2, <2>3 DEF NewsInv, NewsTypeOK
  <2>6. sender'[Digest].kept = sender[Digest].kept
    BY <1>2, <2>3 DEF NewsInv, NewsTypeOK
  <2>7. mail[Digest].content \subseteq bundle
    BY <2>3, NewsTyped, SourcesAssumption DEF NewsInv, NewsTypeOK, Mails
  <2>8. QED
    BY <1>2, <1>3, <1>5, <2>3, <2>4, <2>5, <2>6, <2>7 DEF NewsInv, NewsTypeOK, Copies
<1>12. Checked'
  BY <1>2, <1>5, <1>6, <1>7 DEF ClaimMail, NewsInv, NewsTypeOK, Checked, Rows
<1>13. OneGoes'
  <2>1. \A n \in Newsletters : n \in Rows /\ n # Digest
    BY SourcesAssumption DEF Rows
  <2>2. UNCHANGED <<mailed, erasure>>
    BY DEF ClaimMail
  <2>3. \A n \in Newsletters : (DirectGoes(n)' => DirectGoes(n)) /\ (DigestGoes(n)' => DigestGoes(n))
    BY <1>2, <2>1, <2>2 DEF NewsInv, NewsTypeOK, DirectGoes, DigestGoes, Rows
  <2>4. QED BY <1>5, <2>3 DEF NewsInv, OneGoes
<1>14. AlertsOn'
  <2>1. \A q \in Rows : mail'[q].owner = mail[q].owner
    BY <1>1 DEF NewsInv, NewsTypeOK
  <2>2. \A n \in Alerts : wanted'[n] = wanted[n]
    BY DEF ClaimMail, NewsInv, NewsTypeOK, Alerts, Rows
  <2>3. QED BY <2>1, <2>2, SameOwners DEF ClaimMail
<1>15. QED BY <1>8, <1>9, <1>10, <1>11, <1>12, <1>13, <1>14 DEF NewsInv

\* A worker that goes on to its next step keeps its row as it is.
LEMMA GoOnNews ==
  ASSUME NewsInv, NEW r \in Rows, NEW work \in SenderRecords,
         sender' = [sender EXCEPT ![r] = work], work.copy = sender[r].copy,
         sender[r].at \notin {"idle", "accepted"}, work.at # "idle",
         UNCHANGED <<active, optedOut, erasure, listed, mail, bundle, composer, eligible, mailed, wanted>>,
         budget' \in [runs: 0..MaxRuns, changes: 0..MaxUserChanges, failures: 0..MaxFailures],
         history' \in [unanswered: SUBSET Rows, crossed: SUBSET Sources, steady: SUBSET Sources,
                       welcome: SUBSET Rows],
         history'.unanswered = history.unanswered, history'.welcome = history.welcome
  PROVE  NewsTypeOK' /\ ErasedRowsRest' /\ Owners' /\ Working' /\ Delivered' /\ AlertsOn'
<1>1. NewsTypeOK'
  BY DEF NewsInv, NewsTypeOK, SenderRecords
<1>2. ErasedRowsRest' /\ Owners' /\ Working' /\ Delivered'
  BY DEF NewsInv, NewsTypeOK, ErasedRowsRest, Owners, Working, Delivered
<1>3. QED BY <1>1, <1>2, SameOwners

\* GoTo changes the step alone.
LEMMA GoToWork ==
  ASSUME NewsTypeOK, NEW r \in Rows, NEW step \in Steps, GoTo(r, step)
  PROVE  \E work \in SenderRecords :
           /\ sender' = [sender EXCEPT ![r] = work]
           /\ work.at = step /\ work.copy = sender[r].copy
           /\ work.left = sender[r].left /\ work.kept = sender[r].kept
<1>1. [sender[r] EXCEPT !.at = step] \in SenderRecords
  BY NewsTyped DEF SenderRecords
<1>2. sender' = [sender EXCEPT ![r] = [sender[r] EXCEPT !.at = step]]
  BY DEF GoTo
<1>3. QED BY <1>1, <1>2, NewsTyped DEF SenderRecords

\* Before its call a worker looks for an erasure, a first time and again
\* (skipIfUserAnonymizationStarted).
LEMMA CheckErasureNews ==
  ASSUME NewsInv, NEW r \in Rows, CheckErasure(r)
  PROVE  NewsInv'
<1>1. CASE erasure # "none"
  BY <1>1, GiveUpNews DEF CheckErasure, At, MailStatuses
<1>2. CASE erasure = "none"
  <2>1. PICK work \in SenderRecords :
          /\ sender' = [sender EXCEPT ![r] = work]
          /\ work.at = "optOut" /\ work.copy = sender[r].copy /\ work.kept = sender[r].kept
    BY <1>2, GoToWork DEF CheckErasure, NewsInv, Steps
  <2>2. NewsTypeOK' /\ ErasedRowsRest' /\ Owners' /\ Working' /\ Delivered' /\ AlertsOn'
    BY <1>2, <2>1, GoOnNews DEF CheckErasure, At, NewsInv, NewsTypeOK
  <2>3. /\ UNCHANGED <<active, optedOut, erasure, mail, bundle, mailed, wanted, history>>
        /\ sender[r].at = "erasure"
    BY <1>2 DEF CheckErasure, At
  <2>4. Copies'
    BY <2>1, <2>3 DEF NewsInv, NewsTypeOK, Copies, Rows
  <2>5. Checked'
    BY <1>2, <2>1, <2>3 DEF NewsInv, NewsTypeOK, Checked, Rows
  <2>6. OneGoes'
    BY <1>2, <2>1, <2>3 DEF NewsInv, NewsTypeOK, OneGoes, DirectGoes, DigestGoes, Rows
  <2>7. QED BY <2>2, <2>4, <2>5, <2>6 DEF NewsInv
<1>3. QED BY <1>1, <1>2

LEMMA CheckAgainNews ==
  ASSUME NewsInv, NEW r \in Rows, CheckAgain(r)
  PROVE  NewsInv'
<1>1. CASE erasure # "none"
  BY <1>1, GiveUpNews DEF CheckAgain, At, MailStatuses
<1>2. CASE erasure = "none"
  <2>1. PICK work \in SenderRecords :
          /\ sender' = [sender EXCEPT ![r] = work]
          /\ work.at = "call" /\ work.copy = sender[r].copy
    BY <1>2, GoToWork DEF CheckAgain, NewsInv, Steps
  <2>2. NewsTypeOK' /\ ErasedRowsRest' /\ Owners' /\ Working' /\ Delivered' /\ AlertsOn'
    BY <1>2, <2>1, GoOnNews DEF CheckAgain, At, NewsInv, NewsTypeOK
  <2>3. /\ UNCHANGED <<active, optedOut, erasure, mail, bundle, mailed, wanted, history>>
        /\ sender[r].at = "last"
    BY <1>2 DEF CheckAgain, At
  <2>4. Copies'
    BY <2>1, <2>3 DEF NewsInv, NewsTypeOK, Copies, Rows
  <2>5. Checked'
    BY <1>2, <2>1, <2>3 DEF NewsInv, NewsTypeOK, Checked, Rows
  <2>6. OneGoes'
    BY <1>2, <2>1, <2>3 DEF NewsInv, NewsTypeOK, OneGoes, DirectGoes, DigestGoes, Rows
  <2>7. QED BY <2>2, <2>4, <2>5, <2>6 DEF NewsInv
<1>3. QED BY <1>1, <1>2

\* A user who is unsubscribed is not sent to; of a digest the sources are next.
LEMMA CheckOptOutNews ==
  ASSUME NewsInv, NEW r \in Rows, CheckOptOut(r)
  PROVE  NewsInv'
<1>1. CASE optedOut
  BY <1>1, GiveUpNews DEF CheckOptOut, At, MailStatuses
<1>2. CASE ~optedOut
  <2>1. PICK work \in SenderRecords :
          /\ sender' = [sender EXCEPT ![r] = work] /\ work.copy = sender[r].copy
          /\ work.kept = sender[r].kept
          /\ \/ r = Digest /\ work.at = "bundle" /\ work.left = bundle /\ work.kept = {}
             \/ r \in Newsletters /\ work.at = "sources"
             \/ r \in Alerts /\ work.at = "last"
    <3>1. CASE r = Digest
      <4>1. [[sender[r] EXCEPT !.at = "bundle"] EXCEPT !.left = bundle] \in SenderRecords
        <5>1. sender[r] \in SenderRecords /\ bundle \subseteq Sources /\ "bundle" \in Steps
          BY NewsTyped DEF NewsInv, NewsTypeOK, Steps
        <5>2. QED BY <5>1 DEF SenderRecords
      <4>2. sender' = [sender EXCEPT ![r] = [[sender[r] EXCEPT !.at = "bundle"] EXCEPT !.left = bundle]]
        BY <1>2, <3>1 DEF CheckOptOut
      <4>3. sender[r].kept = {}
        BY <3>1 DEF CheckOptOut, At, NewsInv, Copies
      <4>4. QED BY <3>1, <4>1, <4>2, <4>3, NewsTyped DEF NewsInv, SenderRecords
    <3>2. CASE r # Digest
      <4>1. PICK step \in {"sources", "last"} :
              GoTo(r, step) /\ step = IF r \in Newsletters THEN "sources" ELSE "last"
        BY <1>2, <3>2 DEF CheckOptOut, GoTo
      <4>2. r \in Newsletters \/ r \in Alerts
        BY <3>2 DEF Rows, Alerts
      <4>3. QED BY <4>1, <4>2, GoToWork DEF NewsInv, Steps, Alerts
    <3>3. QED BY <3>1, <3>2
  <2>2. sender[r].at = "optOut" /\ UNCHANGED <<mail, budget, history>>
    BY <1>2 DEF CheckOptOut, At
  <2>3. NewsTypeOK' /\ ErasedRowsRest' /\ Owners' /\ Working' /\ Delivered' /\ AlertsOn'
    BY <2>1, <2>2, GoOnNews DEF CheckOptOut, NewsInv, NewsTypeOK
  <2>4. UNCHANGED <<active, optedOut, erasure, bundle, mailed, wanted>>
    BY DEF CheckOptOut
  <2>5. Copies'
    BY <2>1, <2>2, <2>4, SourcesAssumption DEF NewsInv, NewsTypeOK, Copies, Rows
  <2>6. Checked'
    <3>1. r \in history.welcome
      BY <1>2, <2>2 DEF NewsInv, Checked
    <3>2. r \in Alerts /\ erasure = "none" => sender[r].copy \subseteq wanted[r]
      <4>1. Exists(r)
        BY <2>2 DEF NewsInv, Owners, Working, Exists
      <4>2. QED BY <4>1 DEF NewsInv, Copies, AlertsOn, Alerts
    <3>3. r # Digest => work.at # "bundle"
      BY <2>1, SourcesAssumption DEF Alerts
    <3>4. work.at = "last" => r \in Alerts
      BY <2>1
    <3>5. work.at \in {"sources", "bundle", "last"} /\ (work.at = "bundle" => work.kept = {})
      BY <2>1
    <3>6. QED
      BY <2>1, <2>2, <2>4, <3>1, <3>2, <3>3, <3>4, <3>5, SourcesAssumption
         DEF NewsInv, NewsTypeOK, Checked, Rows
  <2>7. OneGoes'
    BY <2>1, <2>2, <2>4, SourcesAssumption
       DEF NewsInv, NewsTypeOK, OneGoes, DirectGoes, DigestGoes, Rows, Alerts
  <2>8. QED BY <2>3, <2>5, <2>6, <2>7 DEF NewsInv
<1>3. QED BY <1>1, <1>2

\* A newsletter's own mail goes on while its source is on.
LEMMA CheckSourceNews ==
  ASSUME NewsInv, NEW n \in Sources, CheckSource(n)
  PROVE  NewsInv'
<1>1. n \in Rows /\ n # Digest
  BY SourcesAssumption DEF Rows
<1>2. CASE n \notin active
  BY <1>1, <1>2, GiveUpNews DEF CheckSource, At, MailStatuses
<1>3. CASE n \in active
  <2>1. GoTo(n, "digest")
    BY <1>3 DEF CheckSource
  <2>2. PICK work \in SenderRecords :
          /\ sender' = [sender EXCEPT ![n] = work]
          /\ work.at = "digest" /\ work.copy = sender[n].copy
    BY <1>1, <2>1, GoToWork DEF NewsInv, Steps
  <2>3. /\ UNCHANGED <<active, optedOut, erasure, listed, mail, bundle, composer, eligible, mailed,
                       wanted, history, budget>>
        /\ sender[n].at = "sources"
    BY <1>3 DEF CheckSource, At
  <2>4. NewsTypeOK' /\ ErasedRowsRest' /\ Owners' /\ Working' /\ Delivered' /\ AlertsOn'
    BY <1>1, <2>1, <2>2, <2>3, GoOnNews DEF NewsInv, NewsTypeOK
  <2>5. Copies'
    BY <1>1, <2>1, <2>2, <2>3 DEF NewsInv, NewsTypeOK, Copies, Rows
  <2>6. Checked'
    <3>1. erasure = "none" => sender[n].copy \subseteq wanted[n]
      BY <1>1, <1>3, <2>3 DEF NewsInv, Copies, Checked
    <3>2. n \in history.welcome
      BY <1>1, <2>3 DEF NewsInv, Checked
    <3>3. QED BY <1>1, <2>1, <2>2, <2>3, <3>1, <3>2 DEF NewsInv, NewsTypeOK, Checked, Rows
  <2>7. OneGoes'
    BY <1>1, <2>1, <2>2, <2>3 DEF NewsInv, NewsTypeOK, OneGoes, DirectGoes, DigestGoes, Rows
  <2>8. QED BY <2>4, <2>5, <2>6, <2>7 DEF NewsInv
<1>4. QED BY <1>2, <1>3

\* A newsletter that goes on by itself has seen no digest that would bring it
\* (shouldSuppressDirectNewsletterForDigest).
LEMMA CheckDigestNews ==
  ASSUME NewsInv, NEW n \in Sources, CheckDigest(n)
  PROVE  NewsInv'
<1>1. n \in Rows /\ n # Digest /\ Digest \in Rows
  BY SourcesAssumption DEF Rows
<1>2. CASE SuppressedBy(n)
  BY <1>1, <1>2, GiveUpNews DEF CheckDigest, At, MailStatuses
<1>3. CASE ~SuppressedBy(n)
  <2>1. PICK work \in SenderRecords :
          /\ sender' = [sender EXCEPT ![n] = work]
          /\ work.at = "last" /\ work.copy = sender[n].copy
    BY <1>1, <1>3, GoToWork DEF CheckDigest, NewsInv, Steps
  <2>2. /\ UNCHANGED <<active, optedOut, erasure, listed, mail, bundle, composer, eligible, mailed,
                       wanted, history, budget>>
        /\ sender[n].at = "digest"
    BY <1>3 DEF CheckDigest, At
  <2>3. NewsTypeOK' /\ ErasedRowsRest' /\ Owners' /\ Working' /\ Delivered' /\ AlertsOn'
    BY <1>1, <2>1, <2>2, GoOnNews DEF NewsInv, NewsTypeOK
  <2>4. Copies'
    BY <1>1, <2>1, <2>2 DEF NewsInv, NewsTypeOK, Copies, Rows
  <2>5. Checked'
    BY <1>1, <2>1, <2>2 DEF NewsInv, NewsTypeOK, Checked, Rows
  <2>6. ASSUME erasure = "none", Digest \notin history.unanswered, DigestGoes(n) PROVE FALSE
    <3>1. mail[Digest].owner = "user"
      <4>1. mail[Digest].owner # "erased"
        BY <1>1, <2>6 DEF NewsInv, Owners
      <4>2. mail[Digest].status \in {"sending", "sent"}
        BY <1>1, <2>6, <4>1 DEF NewsInv, Working, Delivered, DigestGoes
      <4>3. mail[Digest].owner # "none"
        BY <1>1, <4>2 DEF NewsInv, Owners
      <4>4. QED BY <1>1, <4>1, <4>3, NewsTyped DEF NewsInv, Mails
    <3>2. mail[Digest].status \in {"sending", "sent"}
      BY <1>1, <2>6, <3>1 DEF NewsInv, Working, Delivered, DigestGoes
    <3>3. n \in bundle
      BY <2>6 DEF NewsInv, Copies, DigestGoes
    <3>4. QED BY <1>3, <3>1, <3>2, <3>3 DEF SuppressedBy, Findable
  <2>7. OneGoes'
    <3>1. \A m \in Newsletters : DigestGoes(m)' => DigestGoes(m)
      BY <1>1, <2>1, <2>2 DEF NewsInv, NewsTypeOK, DigestGoes
    <3>2. \A m \in Newsletters : DirectGoes(m)' => DirectGoes(m) \/ (m = n /\ erasure = "none")
      BY <1>1, <2>1, <2>2, SourcesAssumption DEF NewsInv, NewsTypeOK, DirectGoes, Rows
    <3>3. QED BY <2>2, <2>6, <3>1, <3>2 DEF NewsInv, OneGoes
  <2>8. QED BY <2>3, <2>4, <2>5, <2>7 DEF NewsInv
<1>4. QED BY <1>2, <1>3

\* The digest keeps a source that is on and not mailed, or about to be, by
\* itself (isBlockingDirectDeliveryForDigest).
LEMMA CheckBundledNews ==
  ASSUME NewsInv, NEW n \in Sources, CheckBundled(n)
  PROVE  NewsInv'
<1>1. n \in Rows /\ n # Digest /\ Digest \in Rows
  BY SourcesAssumption DEF Rows
<1>2. PICK kept : kept = IF n \in active /\ ~Blocking(n) THEN sender[Digest].kept \cup {n}
                         ELSE sender[Digest].kept
  OBVIOUS
<1>3. PICK work \in SenderRecords :
        /\ sender' = [sender EXCEPT ![Digest] = work]
        /\ work.at = "bundle" /\ work.copy = sender[Digest].copy
        /\ work.left \subseteq sender[Digest].left /\ work.kept = kept
  <2>1. sender[Digest] \in SenderRecords /\ kept \subseteq Sources /\ sender[Digest].at = "bundle"
    <3>1. sender[Digest] \in SenderRecords
      BY <1>1, NewsTyped DEF NewsInv
    <3>2. kept \subseteq Sources
      BY <1>2, <3>1 DEF SenderRecords
    <3>3. QED BY <3>1, <3>2 DEF CheckBundled, At
  <2>2. [[sender[Digest] EXCEPT !.left = @ \ {n}] EXCEPT !.kept = kept] \in SenderRecords
    BY <2>1 DEF SenderRecords
  <2>3. sender' = [sender EXCEPT ![Digest] = [[sender[Digest] EXCEPT !.left = @ \ {n}]
                                                EXCEPT !.kept = kept]]
    BY <1>2 DEF CheckBundled
  <2>4. QED BY <2>1, <2>2, <2>3 DEF SenderRecords
<1>4. /\ sender[Digest].at = "bundle" /\ n \in sender[Digest].left
      /\ UNCHANGED <<active, optedOut, erasure, listed, mail, bundle, composer, eligible, mailed,
                     wanted, budget>>
  BY DEF CheckBundled, At
<1>5. /\ history' \in [unanswered: SUBSET Rows, crossed: SUBSET Sources, steady: SUBSET Sources,
                       welcome: SUBSET Rows]
      /\ history'.unanswered = history.unanswered /\ history'.welcome = history.welcome
  BY DEF CheckBundled, NewsInv, NewsTypeOK
<1>6. NewsTypeOK' /\ ErasedRowsRest' /\ Owners' /\ Working' /\ Delivered' /\ AlertsOn'
  <2>1. budget' \in [runs: 0..MaxRuns, changes: 0..MaxUserChanges, failures: 0..MaxFailures]
    BY <1>4 DEF NewsInv, NewsTypeOK
  <2>2. QED BY <1>1, <1>3, <1>4, <1>5, <2>1, GoOnNews
<1>7. Copies'
  <2>1. n \in bundle /\ kept \subseteq bundle
    BY <1>2, <1>4 DEF NewsInv, Copies
  <2>2. QED BY <1>1, <1>3, <1>4, <1>5, <2>1, SourcesAssumption DEF NewsInv, NewsTypeOK, Copies, Rows
<1>8. Checked'
  <2>1. erasure = "none" => kept \subseteq wanted[Digest]
    BY <1>1, <1>2, <1>4 DEF NewsInv, Checked
  <2>2. QED BY <1>1, <1>3, <1>4, <1>5, <2>1, SourcesAssumption DEF NewsInv, NewsTypeOK, Checked, Rows
<1>9. ASSUME n \in active, ~Blocking(n), n \notin history.unanswered, DirectGoes(n) PROVE FALSE
  <2>1. mail[n].owner # "erased"
    BY <1>1, <1>9 DEF NewsInv, Owners
  <2>2. mail[n].status \in {"sending", "sent"}
    BY <1>1, <1>9, <2>1 DEF NewsInv, Working, Delivered, DirectGoes
  <2>3. mail[n].owner = "user"
    <3>1. mail[n].owner # "none"
      BY <1>1, <2>2 DEF NewsInv, Owners
    <3>2. QED BY <1>1, <2>1, <3>1, NewsTyped DEF NewsInv, Mails
  <2>4. QED BY <1>9, <2>2, <2>3 DEF Blocking, Findable
<1>10. OneGoes'
  <2>1. \A m \in Newsletters : DirectGoes(m)' => DirectGoes(m)
    BY <1>1, <1>3, <1>4, SourcesAssumption DEF NewsInv, NewsTypeOK, DirectGoes, Rows
  <2>2. \A m \in Newsletters : DigestGoes(m)' => DigestGoes(m) \/ (m = n /\ n \in active /\ ~Blocking(n))
    BY <1>1, <1>2, <1>3, <1>4 DEF NewsInv, NewsTypeOK, DigestGoes
  <2>3. QED BY <1>5, <1>9, <2>1, <2>2 DEF NewsInv, OneGoes
<1>11. QED BY <1>6, <1>7, <1>8, <1>10 DEF NewsInv

\* A digest that goes on contains what it kept, all of its bundle; otherwise it
\* is composed again from what was kept.
LEMMA DecideBundleNews == NewsInv /\ DecideBundle => NewsInv'
<1> SUFFICES ASSUME NewsInv, DecideBundle PROVE NewsInv'
  OBVIOUS
<1>1. /\ Digest \in Rows /\ \A n \in Sources : n \in Rows /\ n # Digest
      /\ sender[Digest].at = "bundle"
      /\ UNCHANGED <<active, optedOut, erasure, listed, composer, eligible, budget, mailed, wanted, history>>
  BY SourcesAssumption DEF DecideBundle, Rows, At
<1>2. CASE Remaining = {}
  <2>1. GiveUp(Digest, "skipped") /\ UNCHANGED bundle
    BY <1>2 DEF DecideBundle
  <2>2. QED BY <1>1, <2>1, GiveUpNews DEF MailStatuses
<1>3. CASE Remaining # {} /\ Remaining = bundle
  <2>1. GoTo(Digest, "last") /\ UNCHANGED <<mail, bundle>>
    BY <1>3 DEF DecideBundle
  <2>2. PICK work \in SenderRecords :
          /\ sender' = [sender EXCEPT ![Digest] = work]
          /\ work.at = "last" /\ work.copy = sender[Digest].copy
    BY <1>1, <2>1, GoToWork DEF NewsInv, Steps
  <2>3. NewsTypeOK' /\ ErasedRowsRest' /\ Owners' /\ Working' /\ Delivered' /\ AlertsOn'
    BY <1>1, <2>1, <2>2, GoOnNews DEF NewsInv, NewsTypeOK
  <2>4. sender[Digest].copy \subseteq sender[Digest].kept
    BY <1>1, <1>3 DEF NewsInv, Copies, Remaining
  <2>5. Copies'
    BY <1>1, <2>1, <2>2 DEF NewsInv, NewsTypeOK, Copies
  <2>6. Checked'
    BY <1>1, <2>2, <2>4 DEF NewsInv, NewsTypeOK, Checked, Rows
  <2>7. OneGoes'
    <3>1. \A n \in Newsletters : (DirectGoes(n)' => DirectGoes(n)) /\ (DigestGoes(n)' => DigestGoes(n))
      BY <1>1, <2>2, <2>4, SourcesAssumption DEF NewsInv, NewsTypeOK, DirectGoes, DigestGoes, Rows
    <3>2. QED BY <1>1, <3>1 DEF NewsInv, OneGoes
  <2>8. QED BY <2>3, <2>5, <2>6, <2>7 DEF NewsInv
<1>4. CASE Remaining # {} /\ Remaining # bundle
  <2>1. /\ sender' = [sender EXCEPT ![Digest] = Idle]
        /\ Idle \in SenderRecords /\ Idle.at = "idle" /\ Idle.copy = {} /\ Idle.kept = {}
    BY <1>4 DEF DecideBundle, Stop, Idle, SenderRecords, Steps
  <2>2. CASE mail[Digest].status # "sending"
    <3>1. UNCHANGED <<mail, bundle>>
      BY <1>4, <2>2 DEF DecideBundle
    <3>2. NewsTypeOK' /\ ErasedRowsRest' /\ Owners' /\ Working'
      BY <1>1, <2>1, <3>1 DEF NewsInv, NewsTypeOK, ErasedRowsRest, Owners, Working, SenderRecords
    <3>3. Delivered' /\ Copies'
      BY <1>1, <2>1, <3>1 DEF NewsInv, NewsTypeOK, Delivered, Copies
    <3>4. Checked'
      BY <1>1, <2>1, <3>1 DEF NewsInv, NewsTypeOK, Checked, Rows
    <3>5. OneGoes'
      <4>1. \A n \in Newsletters : (DirectGoes(n)' => DirectGoes(n)) /\ (DigestGoes(n)' => DigestGoes(n))
        BY <1>1, <2>1, SourcesAssumption DEF NewsInv, NewsTypeOK, DirectGoes, DigestGoes, Rows
      <4>2. QED BY <1>1, <4>1 DEF NewsInv, OneGoes
    <3>6. AlertsOn'
      BY <1>1, <3>1, SameOwners
    <3>7. QED BY <3>2, <3>3, <3>4, <3>5, <3>6 DEF NewsInv
  <2>3. CASE mail[Digest].status = "sending"
    <3>1. PICK row \in Mails :
            /\ mail' = [mail EXCEPT ![Digest] = row] /\ row.status = "pending"
            /\ row.owner = mail[Digest].owner /\ row.content = {}
      <4>1. ToCompose(mail[Digest]) \in Mails
        <5>1. mail[Digest] \in Mails /\ "pending" \in MailStatuses
          BY <1>1, NewsTyped DEF NewsInv, MailStatuses, Claimable
        <5>2. QED BY <5>1 DEF ToCompose, Mails
      <4>2. mail' = [mail EXCEPT ![Digest] = ToCompose(mail[Digest])]
        BY <1>4, <2>3 DEF DecideBundle
      <4>3. QED BY <1>1, <4>1, <4>2, NewsTyped DEF ToCompose, NewsInv, Mails
    <3>2. bundle' \subseteq bundle
      BY <1>1, <1>4, <2>3 DEF DecideBundle, Remaining, NewsInv, Copies
    <3>3. mail[Digest].owner # "erased" /\ mail[Digest].owner # "none"
      BY <1>1, <2>3 DEF NewsInv, ErasedRowsRest, Owners
    <3>4. Digest \in history.unanswered \/ mailed[Digest] = {}
      BY <1>1, <2>3, <3>3 DEF NewsInv, Delivered
    <3>5. NewsTypeOK'
      <4>1. \A n \in Sources : mail'[n].content \subseteq {n}
        BY <1>1, <3>1 DEF NewsInv, NewsTypeOK, Copies
      <4>2. \A q \in Rows : mail'[q].content \subseteq bundle' \cup {q}
        BY <1>1, <3>1, <4>1 DEF NewsInv, NewsTypeOK, Rows
      <4>3. mail' \in [Rows -> Mails] /\ sender' \in [Rows -> SenderRecords]
        BY <2>1, <3>1 DEF NewsInv, NewsTypeOK, Mails, SenderRecords
      <4>4. QED BY <1>1, <3>2, <4>2, <4>3 DEF NewsInv, NewsTypeOK, Mails, SenderRecords
    <3>6. ErasedRowsRest' /\ Owners' /\ Working'
      BY <1>1, <2>1, <3>1, <3>3 DEF NewsInv, NewsTypeOK, ErasedRowsRest, Owners, Working
    <3>7. Delivered'
      BY <1>1, <2>1, <3>1, <3>4 DEF NewsInv, NewsTypeOK, Delivered
    <3>8. Copies'
      BY <1>1, <2>1, <3>1, <3>4 DEF NewsInv, NewsTypeOK, Copies
    <3>9. Checked'
      BY <1>1, <2>1 DEF NewsInv, NewsTypeOK, Checked, Rows
    <3>10. OneGoes'
      <4>1. \A n \in Newsletters : (DirectGoes(n)' => DirectGoes(n)) /\ (DigestGoes(n)' => DigestGoes(n))
        BY <1>1, <2>1, SourcesAssumption DEF NewsInv, NewsTypeOK, DirectGoes, DigestGoes, Rows
      <4>2. QED BY <1>1, <4>1 DEF NewsInv, OneGoes
    <3>11. AlertsOn'
      <4>1. \A q \in Rows : mail'[q].owner = mail[q].owner
        BY <1>1, <3>1 DEF NewsInv, NewsTypeOK
      <4>2. QED BY <1>1, <4>1, SameOwners
    <3>12. QED BY <3>5, <3>6, <3>7, <3>8, <3>9, <3>10, <3>11 DEF NewsInv
  <2>4. QED BY <2>2, <2>3
<1>5. QED BY <1>2, <1>3, <1>4

\* What is mailed is what was copied when the row was claimed; whose answer is
\* lost is recorded.
LEMMA CallAcceptedNews ==
  ASSUME NewsInv, NEW r \in Rows, CallAccepted(r)
  PROVE  NewsInv'
<1>1. /\ sender[r].at = "call" /\ \A n \in Sources : n \in Rows /\ n # Digest
      /\ UNCHANGED <<active, optedOut, erasure, listed, mail, bundle, composer, eligible, wanted>>
  BY SourcesAssumption DEF CallAccepted, At, Rows
<1>2. PICK step \in {"accepted", "unanswered"} :
        /\ GoTo(r, step)
        /\ budget' \in [runs: 0..MaxRuns, changes: 0..MaxUserChanges, failures: 0..MaxFailures]
        /\ history' \in [unanswered: SUBSET Rows, crossed: SUBSET Sources, steady: SUBSET Sources,
                         welcome: SUBSET Rows]
        /\ history'.unanswered = IF step = "accepted" THEN history.unanswered
                                 ELSE history.unanswered \cup {r}
        /\ history'.welcome = history.welcome
  <2>1. CASE GoTo(r, "accepted") /\ UNCHANGED <<budget, history>>
    BY <2>1 DEF NewsInv, NewsTypeOK
  <2>2. CASE /\ GoTo(r, "unanswered") /\ Spend("failures")
             /\ history' = [history EXCEPT !.unanswered = @ \cup {r}]
    <3>1. budget' \in [runs: 0..MaxRuns, changes: 0..MaxUserChanges, failures: 0..MaxFailures]
      BY <2>2, SpendTyped DEF NewsInv
    <3>2. /\ history' \in [unanswered: SUBSET Rows, crossed: SUBSET Sources, steady: SUBSET Sources,
                           welcome: SUBSET Rows]
          /\ history'.unanswered = history.unanswered \cup {r} /\ history'.welcome = history.welcome
      BY <2>2 DEF NewsInv, NewsTypeOK
    <3>3. QED BY <2>2, <3>1, <3>2
  <2>3. QED BY <2>1, <2>2 DEF CallAccepted
<1>3. PICK work \in SenderRecords :
        /\ sender' = [sender EXCEPT ![r] = work]
        /\ work.at = step /\ work.copy = sender[r].copy
  BY <1>2, GoToWork DEF NewsInv, Steps
<1>4. /\ mailed' \in [Rows -> SUBSET Sources] /\ mailed'[r] = mailed[r] \cup sender[r].copy
      /\ \A q \in Rows \ {r} : mailed'[q] = mailed[q]
  <2>1. sender[r].copy \subseteq Sources
    BY NewsTyped DEF NewsInv, SenderRecords
  <2>2. QED BY <2>1 DEF CallAccepted, NewsInv, NewsTypeOK
<1>5. NewsTypeOK'
  BY <1>1, <1>2, <1>3, <1>4 DEF NewsInv, NewsTypeOK, SenderRecords
<1>6. ErasedRowsRest' /\ Owners' /\ Working'
  BY <1>1, <1>2, <1>3 DEF NewsInv, NewsTypeOK, ErasedRowsRest, Owners, Working
<1>7. Delivered'
  BY <1>1, <1>2, <1>3, <1>4 DEF NewsInv, NewsTypeOK, Delivered, Working
<1>8. Copies'
  <2>1. Digest \in Rows
    BY DEF Rows
  <2>2. QED BY <1>1, <1>2, <1>3, <1>4, <2>1 DEF NewsInv, NewsTypeOK, Copies
<1>9. Checked'
  BY <1>1, <1>2, <1>3 DEF NewsInv, NewsTypeOK, Checked
<1>10. OneGoes'
  <2>1. \A n \in Newsletters : n \in Rows /\ n # Digest /\ Digest \in Rows
    BY SourcesAssumption DEF Rows
  <2>2. \A n \in Newsletters :
          {n, Digest} \cap history'.unanswered = {} =>
            (DirectGoes(n)' => DirectGoes(n)) /\ (DigestGoes(n)' => DigestGoes(n))
    BY <1>1, <1>2, <1>3, <1>4, <2>1 DEF NewsInv, NewsTypeOK, Copies, DirectGoes, DigestGoes
  <2>3. QED BY <1>2, <2>2 DEF NewsInv, OneGoes
<1>11. AlertsOn'
  BY <1>1, SameOwners
<1>12. QED BY <1>5, <1>6, <1>7, <1>8, <1>9, <1>10, <1>11 DEF NewsInv

\* The call fails: nothing has gone out.
LEMMA CallFailsNews ==
  ASSUME NewsInv, NEW r \in Rows, CallFails(r)
  PROVE  NewsInv'
<1>1. /\ sender[r].at = "call"
      /\ UNCHANGED <<active, optedOut, erasure, listed, mail, bundle, composer, eligible, mailed,
                     wanted, history>>
      /\ budget' \in [runs: 0..MaxRuns, changes: 0..MaxUserChanges, failures: 0..MaxFailures]
  BY SpendTyped DEF CallFails, At, NewsInv
<1>2. PICK step \in {"refused", "rejected"} : GoTo(r, step)
  BY DEF CallFails
<1>3. PICK work \in SenderRecords :
        /\ sender' = [sender EXCEPT ![r] = work]
        /\ work.at = step /\ work.copy = sender[r].copy
  BY <1>2, GoToWork DEF NewsInv, Steps
<1>4. NewsTypeOK' /\ ErasedRowsRest' /\ Owners' /\ Working' /\ Delivered' /\ AlertsOn'
  BY <1>1, <1>2, <1>3, GoOnNews DEF NewsInv, NewsTypeOK
<1>5. Copies'
  BY <1>1, <1>2, <1>3 DEF NewsInv, NewsTypeOK, Copies, Rows
<1>6. Checked'
  BY <1>1, <1>2, <1>3 DEF NewsInv, NewsTypeOK, Checked
<1>7. OneGoes'
  BY <1>1, <1>2, <1>3, SourcesAssumption DEF NewsInv, NewsTypeOK, OneGoes, DirectGoes, DigestGoes, Rows
<1>8. QED BY <1>4, <1>5, <1>6, <1>7 DEF NewsInv

\* A mail that was accepted is recorded as sent, and only such a mail.
LEMMA RecordCallNews ==
  ASSUME NewsInv, NEW r \in Rows, RecordCall(r)
  PROVE  NewsInv'
<1>1. /\ sender[r].at \in {"accepted", "unanswered", "refused", "rejected"}
      /\ GiveUp(r, Recorded[sender[r].at])
  BY DEF RecordCall, Recorded
<1>2. /\ Recorded[sender[r].at] \in MailStatuses \ {"absent"}
      /\ sender[r].at = "accepted" => Recorded[sender[r].at] = "sent"
  BY <1>1 DEF Recorded, MailStatuses, Claimable
<1>3. QED BY <1>1, <1>2, GiveUpNews DEF RecordCall

-----------------------------------------------------------------------------
(* The user, and the erasure                                                 *)

\* A change of the user's is part of what later mails may contain.
LEMMA SwitchSourceNews ==
  ASSUME NewsInv, NEW n \in Sources, SwitchSource(n)
  PROVE  NewsInv'
<1>1. /\ active' \subseteq Sources /\ erasure = "none"
      /\ UNCHANGED <<optedOut, erasure, listed, mail, bundle, sender, composer, eligible, mailed>>
      /\ budget' \in [runs: 0..MaxRuns, changes: 0..MaxUserChanges, failures: 0..MaxFailures]
  BY SpendTyped DEF SwitchSource, NewsInv, NewsTypeOK
<1>2. /\ wanted' \in [Rows -> SUBSET Sources]
      /\ \A r \in Rows : wanted'[r] = wanted[r] \cup active'
  BY <1>1 DEF SwitchSource, NewsInv, NewsTypeOK
<1>3. /\ history' \in [unanswered: SUBSET Rows, crossed: SUBSET Sources, steady: SUBSET Sources,
                       welcome: SUBSET Rows]
      /\ history'.unanswered = history.unanswered /\ history'.welcome = history.welcome
  BY DEF SwitchSource, NewsInv, NewsTypeOK
<1>4. NewsTypeOK'
  BY <1>1, <1>2, <1>3 DEF NewsInv, NewsTypeOK
<1>5. ErasedRowsRest' /\ Owners' /\ Working' /\ Delivered' /\ Copies'
  BY <1>1, <1>3 DEF NewsInv, ErasedRowsRest, Owners, Working, Delivered, Copies
<1>6. Checked'
  BY <1>1, <1>2, <1>3 DEF NewsInv, Checked
<1>7. OneGoes'
  BY <1>1, <1>3 DEF NewsInv, OneGoes, DirectGoes, DigestGoes
<1>8. AlertsOn'
  BY <1>1, <1>2 DEF NewsInv, AlertsOn, Alerts, Exists, Rows
<1>9. QED BY <1>4, <1>5, <1>6, <1>7, <1>8 DEF NewsInv

\* The global unsubscription, and taking it back.
LEMMA SwitchAllNews == NewsInv /\ SwitchAll => NewsInv'
<1> SUFFICES ASSUME NewsInv, SwitchAll PROVE NewsInv'
  OBVIOUS
<1>1. /\ optedOut' = ~optedOut
      /\ UNCHANGED <<active, erasure, listed, mail, bundle, sender, composer, eligible, mailed, wanted>>
      /\ budget' \in [runs: 0..MaxRuns, changes: 0..MaxUserChanges, failures: 0..MaxFailures]
  BY SpendTyped DEF SwitchAll, NewsInv
<1>2. PICK welcome : welcome = IF optedOut THEN Rows ELSE history.welcome
  OBVIOUS
<1>3. /\ history' \in [unanswered: SUBSET Rows, crossed: SUBSET Sources, steady: SUBSET Sources,
                       welcome: SUBSET Rows]
      /\ history'.unanswered = history.unanswered /\ history'.welcome = welcome
  <2>1. welcome \subseteq Rows
    BY <1>2 DEF NewsInv, NewsTypeOK
  <2>2. history' = [[history EXCEPT !.steady = {}] EXCEPT !.welcome = welcome]
    BY <1>2 DEF SwitchAll
  <2>3. QED BY <2>1, <2>2 DEF NewsInv, NewsTypeOK
<1>4. NewsTypeOK'
  BY <1>1, <1>3 DEF NewsInv, NewsTypeOK
<1>5. ErasedRowsRest' /\ Owners' /\ Working' /\ Delivered' /\ Copies'
  BY <1>1, <1>3 DEF NewsInv, ErasedRowsRest, Owners, Working, Delivered, Copies
<1>6. Checked'
  <2>1. optedOut \in BOOLEAN
    BY DEF NewsInv, NewsTypeOK
  <2>2. \A r \in Rows : r \in history.welcome => r \in welcome
    BY <1>2
  <2>3. ~optedOut' => welcome = Rows
    BY <1>1, <1>2, <2>1
  <2>4. QED BY <1>1, <1>3, <2>2, <2>3 DEF NewsInv, Checked
<1>7. OneGoes'
  BY <1>1, <1>3 DEF NewsInv, OneGoes, DirectGoes, DigestGoes
<1>8. AlertsOn'
  BY <1>1, SameOwners
<1>9. QED BY <1>4, <1>5, <1>6, <1>7, <1>8 DEF NewsInv

\* From the mark on nothing is wanted but what passed its last check
\* (markAuditStarted).
LEMMA MarkErasureNews == NewsInv /\ MarkErasure => NewsInv'
<1> SUFFICES ASSUME NewsInv, MarkErasure PROVE NewsInv'
  OBVIOUS
<1>1. /\ erasure = "none" /\ erasure' = "marked"
      /\ UNCHANGED <<active, optedOut, listed, mail, bundle, sender, composer, eligible, mailed>>
      /\ budget' \in [runs: 0..MaxRuns, changes: 0..MaxUserChanges, failures: 0..MaxFailures]
  BY SpendTyped DEF MarkErasure, NewsInv
<1>2. /\ wanted' \in [Rows -> SUBSET Sources]
      /\ \A r \in Rows : sender[r].at = "call" => wanted'[r] = wanted[r]
  BY DEF MarkErasure, At, NewsInv, NewsTypeOK
<1>3. /\ history' \in [unanswered: SUBSET Rows, crossed: SUBSET Sources, steady: SUBSET Sources,
                       welcome: SUBSET Rows]
      /\ history'.unanswered = history.unanswered /\ history'.welcome = history.welcome
  BY DEF MarkErasure, NewsInv, NewsTypeOK
<1>4. NewsTypeOK'
  BY <1>1, <1>2, <1>3 DEF NewsInv, NewsTypeOK
<1>5. ErasedRowsRest' /\ Owners' /\ Working' /\ Delivered' /\ Copies'
  BY <1>1, <1>3 DEF NewsInv, ErasedRowsRest, Owners, Working, Delivered, Copies
<1>6. Checked'
  BY <1>1, <1>2, <1>3 DEF NewsInv, Checked
<1>7. OneGoes'
  BY <1>1, <1>3 DEF NewsInv, OneGoes, DirectGoes, DigestGoes
<1>8. AlertsOn'
  BY <1>1 DEF AlertsOn
<1>9. QED BY <1>4, <1>5, <1>6, <1>7, <1>8 DEF NewsInv

\* Reading the rows, and failing, change none.
LEMMA ListRowsNews == NewsInv /\ (ListRows \/ ErasureFails) => NewsInv'
<1> SUFFICES ASSUME NewsInv, ListRows \/ ErasureFails PROVE NewsInv'
  OBVIOUS
<1>1. /\ erasure \in {"marked", "listed"} /\ erasure' \in {"marked", "listed"} /\ listed' \subseteq Rows
      /\ UNCHANGED <<active, optedOut, mail, bundle, sender, composer, eligible, mailed, wanted, history>>
      /\ budget' \in [runs: 0..MaxRuns, changes: 0..MaxUserChanges, failures: 0..MaxFailures]
  <2>1. CASE ListRows
    BY <2>1 DEF ListRows, NewsInv, NewsTypeOK
  <2>2. CASE ErasureFails
    BY <2>2, SpendTyped DEF ErasureFails, NewsInv
  <2>3. QED BY <2>1, <2>2
<1>2. NewsTypeOK'
  BY <1>1 DEF NewsInv, NewsTypeOK
<1>3. ErasedRowsRest' /\ Owners' /\ Working' /\ Delivered' /\ Copies'
  BY <1>1 DEF NewsInv, ErasedRowsRest, Owners, Working, Delivered, Copies
<1>4. Checked' /\ OneGoes' /\ AlertsOn'
  BY <1>1 DEF NewsInv, Checked, OneGoes, DirectGoes, DigestGoes, AlertsOn
<1>5. QED BY <1>2, <1>3, <1>4 DEF NewsInv

\* The rows that were read lose their content and rest (anonymizeUserData).
LEMMA CommitErasureNews == NewsInv /\ CommitErasure => NewsInv'
<1> SUFFICES ASSUME NewsInv, CommitErasure PROVE NewsInv'
  OBVIOUS
<1>1. /\ erasure = "listed" /\ erasure' = "done" /\ active' = {}
      /\ UNCHANGED <<optedOut, listed, bundle, sender, composer, eligible, budget, mailed, wanted, history>>
  BY DEF CommitErasure
<1>2. \A r \in Rows :
        /\ mail'[r] \in Mails
        /\ \/ mail'[r] = mail[r]
           \/ /\ mail'[r].owner = "erased" /\ mail'[r].content = {}
              /\ mail'[r].status \notin Claimable \cup {"sending"}
  <2>1. SUFFICES ASSUME NEW r \in Rows
                 PROVE  /\ mail'[r] \in Mails
                        /\ \/ mail'[r] = mail[r]
                           \/ /\ mail'[r].owner = "erased" /\ mail'[r].content = {}
                              /\ mail'[r].status \notin Claimable \cup {"sending"}
    OBVIOUS
  <2>2. mail[r] \in Mails
    BY NewsTyped DEF NewsInv
  <2>3. mail'[r] = IF r \in listed THEN Anonymized(r) ELSE mail[r]
    BY DEF CommitErasure
  <2>4. Anonymized(r).owner = "erased" /\ Anonymized(r).content = {}
    BY DEF Anonymized
  <2>5. /\ Anonymized(r).status \notin Claimable \cup {"sending"}
        /\ Anonymized(r).status \in MailStatuses
    BY <2>2 DEF Anonymized, Claimable, Mails, MailStatuses
  <2>6. Anonymized(r) \in Mails
    BY <2>5 DEF Anonymized, Mails
  <2>7. QED BY <2>2, <2>3, <2>4, <2>5, <2>6
<1>3. NewsTypeOK'
  <2>1. mail' = [r \in Rows |-> mail'[r]]
    BY DEF CommitErasure
  <2>2. mail' \in [Rows -> Mails]
    BY <1>2, <2>1
  <2>3. \A r \in Rows : mail'[r].content \subseteq bundle \cup {r}
    BY <1>2 DEF NewsInv, NewsTypeOK
  <2>4. QED BY <1>1, <2>2, <2>3 DEF NewsInv, NewsTypeOK, Mails
<1>4. ErasedRowsRest' /\ Owners' /\ Working' /\ Delivered'
  BY <1>1, <1>2 DEF NewsInv, ErasedRowsRest, Owners, Working, Delivered, Claimable
<1>5. Copies'
  <2>1. \A n \in Sources : n \in Rows
    BY DEF Rows
  <2>2. QED BY <1>1, <1>2, <2>1 DEF NewsInv, Copies
<1>6. Checked' /\ OneGoes' /\ AlertsOn'
  BY <1>1 DEF NewsInv, Checked, OneGoes, DirectGoes, DigestGoes, AlertsOn
<1>7. QED BY <1>3, <1>4, <1>5, <1>6 DEF NewsInv

-----------------------------------------------------------------------------
(* Theorems                                                                  *)

\* Every step keeps the invariant.
LEMMA NewsInvStep == NewsInv /\ [NewsNext]_newsVars => NewsInv'
<1> SUFFICES ASSUME NewsInv, [NewsNext]_newsVars PROVE NewsInv'
  OBVIOUS
<1>1. CASE UNCHANGED newsVars
  <2>1. NewsTypeOK'
    BY <1>1 DEF newsVars, NewsInv, NewsTypeOK
  <2>2. QED BY <1>1, <2>1, QuietNews DEF newsVars
<1>2. CASE Trigger \/ CollectDigest \/ CreateDigest \/ ComposeDigest
  BY <1>2, TriggerNews, CollectDigestNews, CreateDigestNews, ComposeDigestNews
<1>3. CASE \E n \in Sources : ComposeDirect(n) \/ CreateDirect(n) \/ SwitchSource(n)
  BY <1>3, ComposeDirectNews, CreateDirectNews, SwitchSourceNews
<1>4. CASE \E r \in Rows : SendStep(r) \/ CallFails(r)
  <2>1. PICK r \in Rows : SendStep(r) \/ CallFails(r)
    BY <1>4
  <2>2. CASE \/ ClaimMail(r) \/ CheckErasure(r) \/ CheckOptOut(r) \/ CheckAgain(r)
             \/ CallAccepted(r) \/ RecordCall(r) \/ CallFails(r)
    BY <2>2, ClaimMailNews, CheckErasureNews, CheckOptOutNews, CheckAgainNews, CallAcceptedNews,
       RecordCallNews, CallFailsNews
  <2>3. CASE r \in Sources /\ (CheckSource(r) \/ CheckDigest(r))
    BY <2>3, CheckSourceNews, CheckDigestNews
  <2>4. CASE r = Digest /\ ((\E n \in Sources : CheckBundled(n)) \/ DecideBundle)
    BY <2>4, CheckBundledNews, DecideBundleNews
  <2>5. QED BY <2>1, <2>2, <2>3, <2>4 DEF SendStep
<1>5. CASE SwitchAll \/ MarkErasure \/ ListRows \/ CommitErasure \/ ErasureFails
  BY <1>5, SwitchAllNews, MarkErasureNews, ListRowsNews, CommitErasureNews
<1>6. QED BY <1>1, <1>2, <1>3, <1>4, <1>5 DEF NewsNext

\* The invariant of a user's news of a period.
THEOREM NewsInvariant == NewsSpec => []NewsInv
BY NewsInvInit, NewsInvStep, PTL DEF NewsSpec

\* A newsletter is not mailed both by itself and in the digest, unless an answer
\* of the provider was lost: a row is claimed before its worker looks at the
\* other (processSendJob).
THEOREM NewsletterOnceAlways == NewsSpec => []NewsletterOnce
<1>1. NewsInv => NewsletterOnce
  BY DEF NewsInv, OneGoes, DirectGoes, DigestGoes, NewsletterOnce
<1>2. QED BY <1>1, NewsInvariant, PTL

\* An erased row holds nothing of the user and is not taken up again, whatever a
\* worker that claimed it before still writes (updateStatusIfStillSending).
THEOREM ErasedRowsRestAlways == NewsSpec => []ErasedRowsRest
<1>1. NewsInv => ErasedRowsRest
  BY DEF NewsInv
<1>2. QED BY <1>1, NewsInvariant, PTL

\* What goes out was on, and its user not unsubscribed, at some time since its
\* row was claimed, and had passed its last check when an erasure was marked; an
\* alert's own mail was on at some time since it was composed (processSendJob
\* looks again only at newsletters and at what a digest bundles).
THEOREM MailsAreWantedAlways == NewsSpec => MailsAreWanted
<1>1. NewsInv /\ [NewsNext]_newsVars =>
        [\A r \in Rows : mailed'[r] # mailed[r] =>
           sender[r].copy \subseteq wanted[r] /\ r \in history.welcome]_newsVars
  <2> SUFFICES ASSUME NewsInv, NewsNext, NEW r \in Rows, mailed'[r] # mailed[r]
               PROVE  sender[r].copy \subseteq wanted[r] /\ r \in history.welcome
    BY DEF newsVars
  <2>1. PICK q \in Rows : CallAccepted(q)
    BY DEF NewsNext, SendStep, Trigger, CollectDigest, CreateDigest, ComposeDigest, ComposeDirect,
           CreateDirect, SwitchSource, ClaimMail, CheckErasure, CheckOptOut, CheckAgain, RecordCall,
           CallFails, CheckSource, CheckDigest, CheckBundled, DecideBundle, SwitchAll, MarkErasure,
           ListRows, CommitErasure, ErasureFails
  <2>2. q = r /\ sender[r].at = "call"
    BY <2>1 DEF CallAccepted, At, NewsInv, NewsTypeOK
  <2>3. QED BY <2>2 DEF NewsInv, Checked
<1>2. QED BY <1>1, NewsInvariant, PTL DEF NewsSpec, MailsAreWanted

=============================================================================
