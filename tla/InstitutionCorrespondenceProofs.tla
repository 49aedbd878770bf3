-------------------- MODULE InstitutionCorrespondenceProofs --------------------
(***************************************************************************)
(* Proofs about the correspondence with one institution, for any requests, *)
(* handlers, administrators, mails and workloads.  The inductive invariant *)
(* follows a mail from the provider's acceptance to every place that may   *)
(* say it went out: the threads, the outbox, the stored events and what    *)
(* each actor has read and not yet written.                                *)
(***************************************************************************)
EXTENDS InstitutionCorrespondence, FiniteSetTheorems, WellFoundedInduction, TLAPS

---------------------------------------------------------------------------
(* Types. *)
Mails == Replies \cup Captures
MailEntries == Mails \X Ids
Decisions == [entry : Entries, verdict : DOMAIN Outcomes]
ThreadRecords ==
  [phase : Phases, entries : SUBSET Entries, marked : BOOLEAN, review : {None} \cup Decisions,
   response : {None, "registration_number_received"} \cup FinalResponses]
NewsEvents == {"thread_started", "thread_failed", "reply_received", "reply_reviewed"}
NewsRecords == [slot : Slots, event : NewsEvents, entry : Entries \cup {None}]
Positions ==
  {"idle", "subscribe", "inform", "find", "create", "call", "give_up", "alert", "reconcile",
   "announce", "mark", "list", "republish", "match", "append", "approve", "store", "queue", "tell"}
ActorRecords ==
  [at : Positions, slot : Slots \cup {None}, event : Events \cup {None},
   entry : Entries \cup {None}, news : SUBSET NewsRecords, todo : SUBSET Platform]
JudgeRecords ==
  {NoJudge} \cup [at : {"judge"}, slot : Slots, entry : Entries, verdict : {None}]
            \cup [at : {"apply", "remove"}, slot : Slots, entry : Entries, verdict : DOMAIN Outcomes]
MailRecords == [slot : Slots, quotes : BOOLEAN]

Types ==
  /\ threads \in [Slots -> ThreadRecords]
  /\ stored \in [Events -> {"none", "stored", "matched", "unmatched"}]
  /\ outbox \subseteq NewsRecords
  /\ jobs \subseteq Slots \X Entries
  /\ actor \in [Actors -> ActorRecords]
  /\ reviewer \in [Reviewers -> JudgeRecords]
  /\ fresh \subseteq Reviewers
  /\ accepted \subseteq Platform
  /\ answered \subseteq Events

---------------------------------------------------------------------------
(* The inductive invariant. *)
\* What every thread is like: it has a mail once, and a review to do only with a reply.
RowOK(row) ==
  /\ row.phase = "none" => row = NoThread
  /\ \A e, f \in row.entries : e[1] = f[1] => e = f
  /\ \A e \in row.entries : e[1] = SentMail => e = SentEntry
  /\ row.phase = "reply_received_unreviewed" => Inbound(row) # {}
  /\ row.review # None => row.review.entry \in row.entries
  /\ \E b \in Nat : \A e \in row.entries : e[1] <= b
ThreadsOK == \A t \in Slots : RowOK(threads[t])

\* Platform threads are created one after the other; an earlier thread has failed, or a
\* reply revived it after the later one had failed.
Succeeds(t, u) ==
  Exists(u) => Exists(t) /\ (threads[t].phase = "failed"
                               \/ (threads[u].phase = "failed" /\ Inbound(threads[t]) # {}))
Order == \A t, u \in Platform : t < u => Succeeds(t, u)

\* What shows that the institution has the request of thread t.
Out(t) == t \in accepted \/ Inbound(threads[t]) # {}

\* Whatever claims that a mail went out was there after the provider accepted it.
Claim(t) ==
  /\ SentEntry \in threads[t].entries => t \in accepted
  /\ threads[t].phase = "awaiting_reply" => Out(t)
  /\ News(t, "thread_started", None) \in outbox => Out(t)
  /\ stored[Sent(t)] # "none" => t \in accepted
  /\ t \in accepted => Exists(t)
Claims == \A t \in Platform : Claim(t)

\* What an actor with local state s relies on.
ActorFine(a, s) ==
  /\ s.at \in {"reconcile", "announce", "mark"} => s.slot \in accepted
  /\ \A n \in s.news : n.event = "thread_started" /\ n.slot \in Platform => Out(n.slot)
  /\ s.at \in {"call", "give_up", "alert"} => s.slot \in Platform /\ Exists(s.slot)
  /\ a \in Handlers /\ s.at # "idle" => s.event \in Events
  /\ s.at = "match" => \E m \in Mails : s.event = Received(m) /\ mailbox[m].slot \in Slots
  /\ s.at \in {"append", "approve", "store", "queue", "tell"} \/ (s.at = "create" /\ a \in Handlers)
       => s.slot \in Slots /\ s.entry \in MailEntries /\ \E m \in Mails : s.event = Received(m)
  /\ s.at = "append" => Exists(s.slot) /\ (s.slot = SelfSend \/ s.entry[1] \in Replies)
  /\ s.at = "create" /\ a \in Handlers => s.slot = SelfSend /\ s.entry[1] \notin Replies
ActorsOK == \A a \in Actors : ActorFine(a, actor[a])

MailsOK ==
  /\ mailbox = [m \in Mails |-> mailbox[m]]
  /\ \A m \in Mails : mailbox[m] = None \/ mailbox[m].slot \in Slots

IInv == Types /\ ThreadsOK /\ Order /\ Claims /\ ActorsOK /\ MailsOK

---------------------------------------------------------------------------
(* The constants. *)
LEMMA ConstantFacts ==
  /\ \A m \in Mails : m \in Nat \ {0}
  /\ SentEntry \in Entries /\ MailEntries \subseteq Entries
  /\ \A e \in Entries : e[1] \in Nat /\ e[2] \in Ids
  /\ \A e \in MailEntries : e[1] \in Mails
  /\ Platform \subseteq Nat \ {0} /\ Platform \subseteq Slots /\ SelfSend \in Slots
  /\ SelfSend \notin Platform /\ \A t \in Slots \ Platform : t = SelfSend
  /\ MaxThreads \in Nat \ {0}
<1>1. \A m \in Mails : m \in Nat \ {0}
  BY MailsAssumption DEF Mails
<1>2. SentEntry \in Entries /\ MailEntries \subseteq Entries
  BY DEF SentEntry, Entries, MailEntries, SentMail, Ids, Mails
<1>3. \A e \in Entries : e[1] \in Nat /\ e[2] \in Ids
  BY <1>1 DEF Entries, SentMail, Mails
<1>4. \A e \in MailEntries : e[1] \in Mails
  BY DEF MailEntries
<1>5. MaxThreads \in Nat \ {0}
  BY MailsAssumption
<1>6. QED BY <1>1, <1>2, <1>3, <1>4, <1>5 DEF Platform, Slots, SelfSend

LEMMA OutcomeFacts ==
  /\ \A v \in DOMAIN Outcomes : Outcomes[v] \in Reviewed \cup {"awaiting_reply"}
  /\ FinalResponses = {"request_confirmed", "request_denied"}
  /\ \A r \in FinalResponses : FinalPhase[r] \in Reviewed
<1>1. DOMAIN Outcomes = {"debate_announced", "request_refused", "auto_reply", "other"}
  BY DEF Outcomes
<1>2. \A v \in DOMAIN Outcomes : Outcomes[v] \in Reviewed \cup {"awaiting_reply"}
  BY <1>1 DEF Outcomes, Reviewed
<1>3. FinalResponses = {"request_confirmed", "request_denied"}
  BY DEF FinalResponses, FinalPhase
<1>4. \A r \in FinalResponses : FinalPhase[r] \in Reviewed
  BY <1>3 DEF FinalPhase, Reviewed
<1>5. QED BY <1>2, <1>3, <1>4

LEMMA EventFacts ==
  /\ \A t \in Platform : Sent(t) \in Events
  /\ \A m \in Mails : Received(m) \in Events /\ Received(m)[2] = m /\ Received(m)[1] = "received"
  /\ \A e \in Events : \/ \E t \in Platform : e = Sent(t) /\ e[1] = "sent" /\ e[2] = t
                       \/ \E m \in Mails : e = Received(m) /\ e[1] = "received" /\ e[2] = m
  /\ \A t \in Platform, m \in Mails : Sent(t) # Received(m)
  /\ \A t, u \in Platform : Sent(t) = Sent(u) => t = u
<1>1. /\ \A t \in Platform : Sent(t) \in Events
      /\ \A m \in Mails : Received(m) \in Events
  BY DEF Events, Mails
<1>2. /\ \A m \in Mails : Received(m)[2] = m /\ Received(m)[1] = "received"
      /\ \A t \in Platform : Sent(t)[1] = "sent" /\ Sent(t)[2] = t
  BY DEF Sent, Received
<1>3. \A e \in Events : (\E t \in Platform : e = Sent(t)) \/ (\E m \in Mails : e = Received(m))
  BY DEF Events, Mails
<1>4. QED BY <1>1, <1>2, <1>3

LEMMA NoThreadOK == NoThread \in ThreadRecords /\ RowOK(NoThread)
<1>1. NoThread \in ThreadRecords
  BY DEF NoThread, ThreadRecords, Phases
<1>2. Inbound(NoThread) = {} /\ NoThread.entries = {} /\ NoThread.phase = "none" /\ NoThread.review = None
  BY DEF NoThread, Inbound
<1>3. QED BY <1>1, <1>2 DEF RowOK

LEMMA IdleFine == Idle \in ActorRecords /\ \A a : ActorFine(a, Idle) /\ ActorFine(a, Idle)'
<1>1. Idle \in ActorRecords
  BY DEF Idle, ActorRecords, Positions
<1>2. Idle.at = "idle" /\ Idle.news = {} /\ Idle.todo = {}
  BY DEF Idle
<1>3. \A a : ActorFine(a, Idle)
  BY <1>2 DEF ActorFine
<1>4. \A a : ActorFine(a, Idle)'
  BY <1>2 DEF ActorFine
<1>5. QED BY <1>1, <1>3, <1>4

---------------------------------------------------------------------------
(* Largest and least elements. *)
LEMMA LargestOf ==
  ASSUME NEW n \in Nat, NEW numbers \in SUBSET (0 .. n), numbers # {}
  PROVE  \E c \in numbers : \A b \in numbers : b <= c
<1> DEFINE intervals == {b .. n : b \in numbers}
<1>1. IsFiniteSet(0 .. n)
  BY FS_Interval
<1>2. intervals \subseteq SUBSET (0 .. n) /\ intervals # {}
  <2>1. \A b \in numbers : b .. n \in SUBSET (0 .. n)
    OBVIOUS
  <2>2. QED BY <2>1, Zenon
<1>3. IsWellFoundedOn(StrictSubsetOrdering(0 .. n), SUBSET (0 .. n))
  BY <1>1, FS_StrictSubsetOrderingWellFounded, FS_FiniteSubsetsOfFinite
<1>4. PICK x \in intervals : \A y \in intervals : ~(<<y, x>> \in StrictSubsetOrdering(0 .. n))
  <2> HIDE DEF intervals
  <2>1. QED BY <1>2, <1>3, WFMin
<1>5. PICK c \in numbers : x = c .. n
  OBVIOUS
<1>6. SUFFICES ASSUME NEW b \in numbers, c < b PROVE FALSE
  OBVIOUS
<1>7. b .. n \in SUBSET (0 .. n) /\ x \in SUBSET (0 .. n) /\ b .. n \in intervals
  BY <1>2
<1>8. b .. n \subseteq x /\ c \in x /\ c \notin b .. n
  BY <1>5, <1>6
<1>9. <<b .. n, x>> \in StrictSubsetOrdering(0 .. n)
  <2> HIDE DEF intervals
  <2>1. b .. n # x
    BY <1>8
  <2>2. QED BY <1>7, <1>8, <2>1 DEF StrictSubsetOrdering
<1>10. QED BY <1>4, <1>7, <1>9

LEMMA LatestIn ==
  ASSUME NEW S \in SUBSET Platform, S # {}
  PROVE  Max(S) \in S /\ \A s \in S : s <= Max(S)
<1>1. S \in SUBSET (0 .. MaxThreads) /\ MaxThreads \in Nat
  BY ConstantFacts DEF Platform
<1>2. \E c \in S : \A b \in S : b <= c
  BY <1>1, LargestOf
<1>3. \E c \in S : \A b \in S : c >= b
  BY <1>1, <1>2
<1>4. QED BY <1>1, <1>3 DEF Max

LEMMA NewEntryIn ==
  ASSUME NEW m \in Mails, FreshIds(m) # {}
  PROVE  NewEntry(m) \in MailEntries /\ NewEntry(m)[1] = m
<1> DEFINE free == FreshIds(m)
<1>1. free \subseteq 0 .. 3
  BY DEF FreshIds, Ids
<1>2. \E c \in free : \A b \in free : c =< b
  <2> HIDE DEF free
  <2>1. \A b \in free : b \in {0, 1, 2, 3}
    BY <1>1
  <2>2. free # {}
    BY DEF free
  <2>3. QED BY <2>1, <2>2
<1>3. Min(free) \in free
  BY <1>2 DEF Min
<1>4. QED BY <1>1, <1>3 DEF NewEntry, MailEntries, Ids

LEMMA LatestReplyIn ==
  ASSUME NEW row \in ThreadRecords, RowOK(row), Inbound(row) # {}
  PROVE  LatestReply(row) \in Inbound(row)
<1> DEFINE numbers == {e[1] : e \in Inbound(row)}
<1>1. PICK b \in Nat : \A e \in row.entries : e[1] <= b
  BY DEF RowOK
<1>2. \A e \in Inbound(row) : e \in row.entries /\ e[1] \in Nat
  BY ConstantFacts DEF Inbound, ThreadRecords
<1>3. numbers \in SUBSET (0 .. b) /\ numbers # {}
  BY <1>1, <1>2
<1>4. \E c \in numbers : \A d \in numbers : d <= c
  <2> HIDE DEF numbers
  <2>1. QED BY <1>3, LargestOf
<1>5. \E e \in Inbound(row) : \A f \in Inbound(row) : f[1] <= e[1]
  BY <1>4, Zenon
<1>6. QED BY <1>5, Zenon DEF LatestReply

LEMMA NextSlot ==
  ASSUME Types, Order, NEW t \in Platform, t = Cardinality(Existing) + 1
  PROVE  \A s \in Platform : s < t <=> Exists(s)
<1>1. Existing \in SUBSET Platform
  BY DEF Existing
<1>2. CASE Existing = {}
  <2>1. t = 1
    BY <1>2, FS_EmptySet
  <2>2. QED BY <1>2, <2>1 DEF Existing, Platform
<1>3. CASE Existing # {}
  <2> DEFINE c == Max(Existing)
  <2>1. c \in Existing /\ c \in Platform /\ \A s \in Existing : s <= c
    BY <1>1, <1>3, LatestIn DEF Existing
  <2>2. \A s \in Platform : s < c => Exists(s)
    BY <2>1 DEF Order, Succeeds, Existing
  <2>3. c \in Nat /\ c >= 1 /\ c <= MaxThreads /\ MaxThreads \in Nat
    BY <2>1, ConstantFacts DEF Platform
  <2>4. Existing = 1 .. c
    <3>1. \A s \in Existing : s \in 1 .. c
      BY <1>1, <2>1, <2>3, ConstantFacts
    <3>2. ASSUME NEW s \in 1 .. c PROVE s \in Existing
      <4>1. s \in Platform /\ (s < c \/ s = c)
        BY <2>3 DEF Platform
      <4>2. QED BY <2>1, <2>2, <4>1 DEF Existing
    <3>3. QED BY <3>1, <3>2
  <2>5. Cardinality(Existing) = c
    BY <2>3, <2>4, FS_Interval
  <2>6. t = c + 1
    BY <2>5
  <2>7. \A s \in Platform : Exists(s) <=> s <= c
    BY <2>3, <2>4 DEF Existing, Platform
  <2> HIDE DEF c
  <2>8. QED BY <2>3, <2>6, <2>7, ConstantFacts
<1>4. QED BY <1>2, <1>3

LEMMA NewsIsRecord ==
  ASSUME NEW t \in Slots, NEW event \in NewsEvents, NEW entry \in Entries \cup {None}
  PROVE  /\ News(t, event, entry) \in NewsRecords
         /\ News(t, event, entry).slot = t /\ News(t, event, entry).event = event
BY DEF News, NewsRecords

\* The news of the latest thread, which requests and the recovery job read and publish later.
LEMMA CurrentNewsOK ==
  ASSUME Types, ThreadsOK, Claims
  PROVE  /\ CurrentNews \subseteq NewsRecords
         /\ \A n \in CurrentNews : n.event = "thread_started" /\ n.slot \in Platform => Out(n.slot)
<1>1. SUFFICES ASSUME NEW t \in Platform, NEW n \in Derived(t)
               PROVE  n \in NewsRecords /\ (n.event = "thread_started" /\ n.slot \in Platform => Out(n.slot))
  BY DEF CurrentNews
<1> DEFINE row == threads[t]
<1>2. t \in Slots /\ row \in ThreadRecords /\ RowOK(row)
  BY ConstantFacts DEF Types, ThreadsOK
<1>3. \/ row.phase = "awaiting_reply" /\ n = News(t, "thread_started", None)
      \/ n = News(t, "thread_failed", None)
      \/ row.phase = "reply_received_unreviewed" /\ n = News(t, "reply_received", LatestReply(row))
      \/ row.review # None /\ n = News(t, "reply_reviewed", row.review.entry)
  BY DEF Derived
<1>4. CASE row.phase = "awaiting_reply" /\ n = News(t, "thread_started", None)
  <2>1. n \in NewsRecords /\ n.slot = t
    BY <1>2, <1>4, NewsIsRecord DEF NewsEvents
  <2>2. QED BY <1>4, <2>1 DEF Claims, Claim
<1>5. CASE n = News(t, "thread_failed", None)
  BY <1>2, <1>5, NewsIsRecord DEF NewsEvents
<1>6. CASE row.phase = "reply_received_unreviewed" /\ n = News(t, "reply_received", LatestReply(row))
  <2>1. LatestReply(row) \in Entries
    <3>1. LatestReply(row) \in Inbound(row)
      BY <1>2, <1>6, LatestReplyIn DEF RowOK
    <3>2. QED BY <1>2, <3>1 DEF Inbound, ThreadRecords
  <2>2. QED BY <1>2, <1>6, <2>1, NewsIsRecord DEF NewsEvents
<1>7. CASE row.review # None /\ n = News(t, "reply_reviewed", row.review.entry)
  <2>1. row.review.entry \in Entries
    BY <1>2, <1>7 DEF ThreadRecords, Decisions
  <2>2. QED BY <1>2, <1>7, <2>1, NewsIsRecord DEF NewsEvents
<1>8. QED BY <1>3, <1>4, <1>5, <1>6, <1>7

---------------------------------------------------------------------------
(* What steps leave alone. *)
\* No thread disappears and no reply is dropped.
Grown ==
  \A t \in Slots : (Exists(t) => threads'[t].phase # "none") /\ Inbound(threads[t]) \subseteq Inbound(threads'[t])

\* What a row written to thread t must be like.
GoodWrite(t, row) ==
  /\ row \in ThreadRecords /\ RowOK(row) /\ row.phase # "none"
  /\ Inbound(threads[t]) \subseteq Inbound(row)
  /\ t \in Platform =>
       /\ threads[t].phase = "none" => Active = {} /\ \A s \in Platform : s < t => Exists(s)
       /\ threads[t].phase = "failed" /\ row.phase # "failed" => Active \ {t} = {} /\ Inbound(row) # {}
       /\ SentEntry \in row.entries => t \in accepted
       /\ row.phase = "awaiting_reply" => t \in accepted \/ Inbound(row) # {}

LEMMA Unwritten ==
  ASSUME IInv, UNCHANGED threads
  PROVE  threads' \in [Slots -> ThreadRecords] /\ ThreadsOK' /\ Order' /\ Grown
<1>1. threads' \in [Slots -> ThreadRecords] /\ Grown
  BY DEF IInv, Types, Grown, Exists
<1>2. ThreadsOK'
  BY DEF IInv, ThreadsOK
<1>3. Order'
  BY DEF IInv, Order, Succeeds, Exists
<1>4. QED BY <1>1, <1>2, <1>3

LEMMA Written ==
  ASSUME IInv, NEW t \in Slots, NEW row, GoodWrite(t, row), Write(t, row)
  PROVE  threads' \in [Slots -> ThreadRecords] /\ ThreadsOK' /\ Order' /\ Grown
<1>1. threads \in [Slots -> ThreadRecords] /\ row \in ThreadRecords
  BY DEF IInv, Types, GoodWrite
<1>2. threads' = [threads EXCEPT ![t] = row]
  BY DEF Write
<1>3. /\ threads' \in [Slots -> ThreadRecords]
      /\ threads'[t] = row /\ \A u \in Slots \ {t} : threads'[u] = threads[u]
  BY <1>1, <1>2
<1>4. row.phase # "none" /\ Inbound(threads[t]) \subseteq Inbound(row) /\ RowOK(row)
  BY DEF GoodWrite
<1>5. Grown
  BY <1>3, <1>4 DEF Grown, Exists
<1>6. ThreadsOK'
  <2>1. \A u \in Slots : RowOK(threads'[u])
    BY <1>3, <1>4 DEF IInv, ThreadsOK
  <2>2. QED BY <2>1 DEF ThreadsOK
<1>7. Order'
  <2>1. SUFFICES ASSUME NEW s \in Platform, NEW u \in Platform, s < u, threads'[u].phase # "none"
                 PROVE  /\ threads'[s].phase # "none"
                        /\ \/ threads'[s].phase = "failed"
                           \/ threads'[u].phase = "failed" /\ Inbound(threads'[s]) # {}
    BY DEF Order, Succeeds, Exists
  <2>2. s \in Slots /\ u \in Slots /\ s # u /\ s \in Nat /\ u \in Nat
    BY <2>1, ConstantFacts
  <2>3. Succeeds(s, u)
    BY <2>1 DEF IInv, Order
  <2>4. CASE t # s /\ t # u
    BY <1>3, <2>1, <2>2, <2>3, <2>4 DEF Succeeds, Exists
  <2>5. CASE t = s
    <3>1. /\ threads[t].phase = "none" => Active = {}
          /\ threads[t].phase = "failed" /\ row.phase # "failed" => Active \ {t} = {} /\ Inbound(row) # {}
      BY <2>5 DEF GoodWrite
    <3>2. Exists(u) /\ threads'[u] = threads[u] /\ threads'[t] = row
      BY <1>3, <2>1, <2>2, <2>5 DEF Exists
    <3>3. threads[t].phase = "failed" \/ (threads[u].phase = "failed" /\ Inbound(threads[t]) # {})
      BY <2>3, <2>5, <3>2 DEF Succeeds
    <3>4. CASE threads[t].phase = "failed" /\ row.phase # "failed"
      BY <1>4, <2>2, <2>5, <3>1, <3>2, <3>4 DEF Active, Exists
    <3>5. QED BY <1>4, <2>5, <3>2, <3>3, <3>4
  <2>6. CASE t = u
    <3>1. threads'[s] = threads[s] /\ threads'[t] = row
      BY <1>3, <2>2, <2>6
    <3>2. /\ threads[t].phase = "none" => Active = {} /\ \A r \in Platform : r < t => Exists(r)
          /\ threads[t].phase = "failed" /\ row.phase # "failed" => Active \ {t} = {} /\ Inbound(row) # {}
      BY <2>6 DEF GoodWrite
    <3>3. Exists(s)
      BY <2>1, <2>3, <2>6, <3>2 DEF Succeeds, Exists
    <3>4. CASE s \notin Active
      BY <3>1, <3>3, <3>4 DEF Active, Exists
    <3>5. CASE s \in Active
      <4>1. threads[t].phase # "none" /\ ~(threads[t].phase = "failed" /\ row.phase # "failed")
        BY <2>2, <2>6, <3>2, <3>5
      <4>2. threads[s].phase # "failed"
        BY <3>5 DEF Active
      <4>3. threads[t].phase = "failed" /\ Inbound(threads[s]) # {}
        BY <2>3, <2>6, <4>1, <4>2 DEF Succeeds, Exists
      <4>4. QED BY <2>6, <3>1, <3>3, <4>1, <4>3 DEF Exists
    <3>6. QED BY <3>4, <3>5
  <2>7. QED BY <2>4, <2>5, <2>6
<1>8. QED BY <1>3, <1>5, <1>6, <1>7

LEMMA ClaimsWritten ==
  ASSUME IInv, NEW t \in Slots, NEW row, GoodWrite(t, row), Write(t, row),
         UNCHANGED <<stored, outbox, accepted>>
  PROVE  Claims'
<1>1. threads' = [threads EXCEPT ![t] = row] /\ threads \in [Slots -> ThreadRecords]
  BY DEF Write, IInv, Types
<1>2. threads'[t] = row /\ \A u \in Slots \ {t} : threads'[u] = threads[u]
  BY <1>1
<1>3. SUFFICES ASSUME NEW u \in Platform PROVE Claim(u)'
  BY DEF Claims
<1>4. Claim(u) /\ u \in Slots
  BY ConstantFacts DEF IInv, Claims
<1>5. CASE u # t
  <2>1. threads'[u] = threads[u]
    BY <1>2, <1>4, <1>5
  <2>2. QED BY <1>4, <2>1 DEF Claim, Out, Exists
<1>6. CASE u = t
  <2>1. /\ SentEntry \in row.entries => t \in accepted
        /\ row.phase = "awaiting_reply" => t \in accepted \/ Inbound(row) # {}
        /\ row.phase # "none" /\ Inbound(threads[t]) \subseteq Inbound(row)
    BY <1>6 DEF GoodWrite
  <2>2. QED BY <1>2, <1>4, <1>6, <2>1 DEF Claim, Out, Exists
<1>7. QED BY <1>5, <1>6

\* News and stored events that claim no more than is known.
LEMMA ClaimsKept ==
  ASSUME IInv, UNCHANGED <<threads, accepted>>,
         \A n \in outbox' \ outbox : n.event = "thread_started" /\ n.slot \in Platform => Out(n.slot),
         \A t \in Platform : stored'[Sent(t)] # "none" => stored[Sent(t)] # "none" \/ t \in accepted
  PROVE  Claims'
<1>1. SUFFICES ASSUME NEW t \in Platform PROVE Claim(t)'
  BY DEF Claims
<1>2. Claim(t) /\ t \in Slots
  BY ConstantFacts DEF IInv, Claims
<1>3. News(t, "thread_started", None) \in outbox' => Out(t)
  <2>1. News(t, "thread_started", None).event = "thread_started" /\ News(t, "thread_started", None).slot = t
    BY DEF News
  <2>2. QED BY <1>2, <2>1 DEF Claim
<1>4. QED BY <1>2, <1>3 DEF Claim, Out, Exists

LEMMA FineKept ==
  ASSUME IInv, Grown, accepted \subseteq accepted', \A m \in Mails : mailbox[m].slot \in Slots => mailbox'[m].slot \in Slots,
         NEW a \in Actors, NEW s \in ActorRecords, ActorFine(a, s)
  PROVE  ActorFine(a, s)'
<1>1. \A t \in Slots : Exists(t) => Exists(t)'
  BY DEF Grown, Exists
<1>2. \A t \in Platform : Out(t) => Out(t)'
  BY ConstantFacts DEF Grown, Out
<1>3. QED BY <1>1, <1>2, ConstantFacts DEF ActorFine

LEMMA ActorsKept ==
  ASSUME IInv, Grown, accepted \subseteq accepted', \A m \in Mails : mailbox[m].slot \in Slots => mailbox'[m].slot \in Slots,
         NEW a \in Actors, NEW after \in ActorRecords, ActorFine(a, after)',
         actor' = [actor EXCEPT ![a] = after]
  PROVE  actor' \in [Actors -> ActorRecords] /\ ActorsOK'
<1>1. actor \in [Actors -> ActorRecords]
  BY DEF IInv, Types
<1>2. /\ actor' \in [Actors -> ActorRecords]
      /\ actor'[a] = after /\ \A b \in Actors \ {a} : actor'[b] = actor[b]
  BY <1>1
<1>3. SUFFICES ASSUME NEW b \in Actors PROVE ActorFine(b, actor[b])'
  BY <1>2 DEF ActorsOK
<1>4. CASE b = a
  BY <1>2, <1>4
<1>5. CASE b # a
  <2>1. PICK s \in ActorRecords : s = actor[b]
    BY <1>1
  <2>2. ActorFine(b, s)
    BY <2>1 DEF IInv, ActorsOK
  <2>3. ActorFine(b, s)'
    BY <2>2, FineKept
  <2>4. actor'[b] = s
    BY <1>2, <1>5, <2>1
  <2>5. QED BY <2>3, <2>4
<1>6. QED BY <1>4, <1>5

LEMMA ActorsSame ==
  ASSUME IInv, Grown, accepted \subseteq accepted', \A m \in Mails : mailbox[m].slot \in Slots => mailbox'[m].slot \in Slots,
         UNCHANGED actor
  PROVE  actor' \in [Actors -> ActorRecords] /\ ActorsOK'
<1>1. actor' \in [Actors -> ActorRecords]
  BY DEF IInv, Types
<1>2. SUFFICES ASSUME NEW b \in Actors PROVE ActorFine(b, actor[b])'
  BY <1>1 DEF ActorsOK
<1>3. PICK s \in ActorRecords : s = actor[b] /\ s = actor'[b]
  BY DEF IInv, Types
<1>4. ActorFine(b, s)
  BY <1>3 DEF IInv, ActorsOK
<1>5. ActorFine(b, s)'
  BY <1>4, FineKept
<1>6. QED BY <1>3, <1>5

LEMMA MailsKept == ASSUME IInv, UNCHANGED mailbox PROVE MailsOK'
BY DEF IInv, MailsOK

\* A step of an actor that writes no thread.
LEMMA Quiet ==
  ASSUME IInv, UNCHANGED <<threads, accepted, mailbox, reviewer, fresh>>,
         NEW a \in Actors, NEW after \in ActorRecords, ActorFine(a, after),
         actor' = [actor EXCEPT ![a] = after],
         outbox' \subseteq NewsRecords, jobs' \subseteq Slots \X Entries, answered' \subseteq Events,
         stored' \in [Events -> {"none", "stored", "matched", "unmatched"}],
         \A n \in outbox' \ outbox : n.event = "thread_started" /\ n.slot \in Platform => Out(n.slot),
         \A t \in Platform : stored'[Sent(t)] # "none" => stored[Sent(t)] # "none" \/ t \in accepted
  PROVE  IInv'
<1>1. threads' \in [Slots -> ThreadRecords] /\ ThreadsOK' /\ Order' /\ Grown
  BY Unwritten
<1>2. Claims'
  BY ClaimsKept
<1>3. accepted \subseteq accepted' /\ \A m \in Mails : mailbox[m].slot \in Slots => mailbox'[m].slot \in Slots
  OBVIOUS
<1>4. ActorFine(a, after)'
  BY <1>1, <1>3, FineKept
<1>5. actor' \in [Actors -> ActorRecords] /\ ActorsOK'
  BY <1>1, <1>3, <1>4, ActorsKept
<1>6. MailsOK'
  BY MailsKept
<1>7. /\ reviewer' \in [Reviewers -> JudgeRecords] /\ fresh' \subseteq Reviewers
      /\ accepted' \subseteq Platform
  BY DEF IInv, Types
<1>8. Types'
  BY <1>1, <1>5, <1>7 DEF Types
<1>9. QED BY <1>1, <1>2, <1>5, <1>6, <1>8 DEF IInv

\* The same where neither the outbox nor the stored events change.
LEMMA Silent ==
  ASSUME IInv, UNCHANGED <<threads, accepted, mailbox, reviewer, fresh, stored, outbox, jobs>>,
         NEW a \in Actors, NEW after \in ActorRecords, ActorFine(a, after),
         actor' = [actor EXCEPT ![a] = after], answered' \subseteq Events
  PROVE  IInv'
<1>1. /\ outbox' \subseteq NewsRecords /\ jobs' \subseteq Slots \X Entries
      /\ stored' \in [Events -> {"none", "stored", "matched", "unmatched"}]
  BY DEF IInv, Types
<1>2. QED BY <1>1, Quiet

\* A step of an actor that writes a thread.
LEMMA Writes ==
  ASSUME IInv, NEW t \in Slots, NEW row, GoodWrite(t, row), Write(t, row),
         UNCHANGED <<stored, outbox, jobs, accepted, mailbox, reviewer>>,
         NEW a \in Actors, NEW after \in ActorRecords, ActorFine(a, after)',
         actor' = [actor EXCEPT ![a] = after], answered' \subseteq Events
  PROVE  IInv'
<1>1. threads' \in [Slots -> ThreadRecords] /\ ThreadsOK' /\ Order' /\ Grown
  BY Written
<1>2. Claims'
  BY ClaimsWritten
<1>3. accepted \subseteq accepted' /\ \A m \in Mails : mailbox[m].slot \in Slots => mailbox'[m].slot \in Slots
  OBVIOUS
<1>4. actor' \in [Actors -> ActorRecords] /\ ActorsOK'
  BY <1>1, <1>3, ActorsKept
<1>5. MailsOK'
  BY MailsKept
<1>6. /\ reviewer' \in [Reviewers -> JudgeRecords] /\ fresh' \subseteq Reviewers
      /\ accepted' \subseteq Platform /\ outbox' \subseteq NewsRecords /\ jobs' \subseteq Slots \X Entries
      /\ stored' \in [Events -> {"none", "stored", "matched", "unmatched"}]
  BY DEF IInv, Types, Write
<1>7. Types'
  BY <1>1, <1>4, <1>6 DEF Types
<1>8. QED BY <1>1, <1>2, <1>4, <1>5, <1>7 DEF IInv

\* An administrator's step: actors keep their state.
LEMMA Judged ==
  ASSUME IInv, UNCHANGED <<stored, outbox, accepted, mailbox, actor, answered>>,
         \/ UNCHANGED threads /\ fresh' \subseteq Reviewers
         \/ \E t \in Slots, row \in ThreadRecords : GoodWrite(t, row) /\ Write(t, row),
         reviewer' \in [Reviewers -> JudgeRecords], jobs' \subseteq Slots \X Entries
  PROVE  IInv'
<1>1. /\ threads' \in [Slots -> ThreadRecords] /\ ThreadsOK' /\ Order' /\ Grown
      /\ Claims' /\ fresh' \subseteq Reviewers
  <2>1. CASE UNCHANGED threads /\ fresh' \subseteq Reviewers
    BY <2>1, Unwritten, ClaimsKept
  <2>2. CASE \E t \in Slots, row \in ThreadRecords : GoodWrite(t, row) /\ Write(t, row)
    <3>1. PICK t \in Slots, row \in ThreadRecords : GoodWrite(t, row) /\ Write(t, row)
      BY <2>2
    <3>2. fresh' \subseteq Reviewers
      BY <3>1 DEF Write, IInv, Types
    <3>3. Claims'
      BY <3>1, ClaimsWritten
    <3>4. QED BY <3>1, <3>2, <3>3, Written
  <2>3. QED BY <2>1, <2>2
<1>2. accepted \subseteq accepted' /\ \A m \in Mails : mailbox[m].slot \in Slots => mailbox'[m].slot \in Slots
  OBVIOUS
<1>3. actor' \in [Actors -> ActorRecords] /\ ActorsOK'
  BY <1>1, <1>2, ActorsSame
<1>4. MailsOK'
  BY MailsKept
<1>5. /\ outbox' \subseteq NewsRecords /\ accepted' \subseteq Platform /\ answered' \subseteq Events
      /\ stored' \in [Events -> {"none", "stored", "matched", "unmatched"}]
  BY DEF IInv, Types
<1>6. Types'
  BY <1>1, <1>3, <1>5 DEF Types
<1>7. QED BY <1>1, <1>3, <1>4, <1>6 DEF IInv

\* An actor's fields.
LEMMA ActorFields ==
  ASSUME Types, NEW a \in Actors
  PROVE  /\ actor[a] \in ActorRecords /\ actor = [b \in Actors |-> actor[b]]
         /\ actor[a].slot \in Slots \cup {None} /\ actor[a].event \in Events \cup {None}
         /\ actor[a].entry \in Entries \cup {None} /\ actor[a].news \subseteq NewsRecords
         /\ actor[a].todo \subseteq Platform
BY DEF Types, ActorRecords

\* An actor that goes on keeps what it knows.
LEMMA Steps ==
  ASSUME IInv, NEW a \in Actors, NEW step \in Positions, Step(a, step)
  PROVE  \E after \in ActorRecords :
           /\ actor' = [actor EXCEPT ![a] = after]
           /\ after.at = step /\ after.slot = actor[a].slot /\ after.event = actor[a].event
           /\ after.entry = actor[a].entry /\ after.news = actor[a].news /\ after.todo = actor[a].todo
<1> DEFINE after == [actor[a] EXCEPT !.at = step]
<1>1. actor[a] \in ActorRecords
  BY DEF IInv, Types
<1>2. after \in ActorRecords
  BY <1>1 DEF ActorRecords
<1>3. /\ after.at = step /\ after.slot = actor[a].slot /\ after.event = actor[a].event
      /\ after.entry = actor[a].entry /\ after.news = actor[a].news /\ after.todo = actor[a].todo
  BY <1>1 DEF ActorRecords
<1>4. actor' = [actor EXCEPT ![a] = after]
  BY DEF Step
<1> HIDE DEF after
<1>5. QED BY <1>2, <1>3, <1>4

LEMMA Finishes ==
  ASSUME IInv, NEW a \in Actors, Ends(a), ~At(a, "idle")
  PROVE  /\ answered' \subseteq Events
         /\ \E after \in ActorRecords :
              /\ actor' = [actor EXCEPT ![a] = after] /\ ActorFine(a, after) /\ ActorFine(a, after)'
<1> DEFINE after == IF a = Recovery THEN [Idle EXCEPT !.at = "list", !.todo = actor[a].todo] ELSE Idle
<1>1. answered' \subseteq Events
  <2>1. a \in Handlers => actor[a].event \in Events
    BY DEF At, IInv, ActorsOK, ActorFine
  <2>2. QED BY <2>1 DEF Ends, IInv, Types
<1>2. actor' = [actor EXCEPT ![a] = after]
  BY DEF Ends
<1>3. CASE a # Recovery
  BY <1>1, <1>2, <1>3, IdleFine
<1>4. CASE a = Recovery
  <2>1. PICK todo \in SUBSET Platform : todo = actor[a].todo
    BY ActorFields DEF IInv
  <2>2. PICK s : s = [Idle EXCEPT !.at = "list", !.todo = todo]
    OBVIOUS
  <2>3. s \in ActorRecords /\ s.at = "list" /\ s.news = {}
    BY <2>2 DEF Idle, ActorRecords, Positions
  <2>4. a \notin Handlers
    BY <1>4, ActorsAssumption
  <2>5. ActorFine(a, s) /\ ActorFine(a, s)'
    BY <2>3, <2>4 DEF ActorFine
  <2>6. after = s
    BY <1>4, <2>1, <2>2
  <2> HIDE DEF after
  <2>7. QED BY <1>1, <1>2, <2>3, <2>5, <2>6
<1>5. QED BY <1>3, <1>4

---------------------------------------------------------------------------
(* Requests. *)
LEMMA RequestStep == ASSUME IInv, NEW q \in Requesters, Request(q) PROVE IInv'
<1>1. q \in Actors /\ q \notin Handlers
  BY ActorsAssumption DEF Actors
<1>2. PICK after \in ActorRecords : /\ actor' = [actor EXCEPT ![q] = after]
                                    /\ after.at = "subscribe" /\ after.news = actor[q].news
  BY <1>1, Steps DEF Request, Positions
<1>3. ActorFine(q, after)
  BY <1>1, <1>2 DEF IInv, ActorsOK, ActorFine
<1>4. answered' \subseteq Events
  BY DEF Request, world, IInv, Types
<1>5. QED BY <1>1, <1>2, <1>3, <1>4, Silent DEF Request, tables, world

LEMMA ReadNewsStep == ASSUME IInv, NEW q \in Requesters, ReadNews(q) PROVE IInv'
<1>1. q \in Actors /\ q \notin Handlers
  BY ActorsAssumption DEF Actors
<1>2. PICK news \in SUBSET NewsRecords :
        /\ news = CurrentNews
        /\ \A n \in news : n.event = "thread_started" /\ n.slot \in Platform => Out(n.slot)
  BY CurrentNewsOK DEF IInv
<1>3. PICK after : after = [actor[q] EXCEPT !.at = "inform", !.news = news]
  OBVIOUS
<1>4. after \in ActorRecords /\ after.at = "inform" /\ after.news = news
  BY <1>1, <1>3, ActorFields DEF IInv, ActorRecords, Positions
<1>5. actor' = [actor EXCEPT ![q] = after]
  BY <1>1, <1>2, <1>3, ActorFields DEF ReadNews, IInv
<1>6. ActorFine(q, after)
  BY <1>1, <1>2, <1>4 DEF ActorFine
<1>7. answered' \subseteq Events
  BY DEF ReadNews, world, IInv, Types
<1>8. QED BY <1>1, <1>4, <1>5, <1>6, <1>7, Silent DEF ReadNews, tables, world

\* News that an actor holds claims no more than is known.
LEMMA HeldNews ==
  ASSUME IInv, NEW a \in Actors
  PROVE  /\ actor[a].news \subseteq NewsRecords
         /\ \A n \in actor[a].news : n.event = "thread_started" /\ n.slot \in Platform => Out(n.slot)
BY ActorFields DEF IInv, ActorsOK, ActorFine

LEMMA InformStep == ASSUME IInv, NEW q \in Requesters, Inform(q) PROVE IInv'
<1>1. q \in Actors /\ q \notin Handlers
  BY ActorsAssumption DEF Actors
<1>2. PICK after : after = [actor[q] EXCEPT !.at = "find", !.news = {}]
  OBVIOUS
<1>3. after \in ActorRecords /\ after.at = "find" /\ after.news = {}
  BY <1>1, <1>2, ActorFields DEF IInv, ActorRecords, Positions
<1>4. actor' = [actor EXCEPT ![q] = after]
  BY <1>1, <1>2, ActorFields DEF Inform, IInv
<1>5. ActorFine(q, after)
  BY <1>1, <1>3 DEF ActorFine
<1>6. /\ answered' \subseteq Events /\ jobs' \subseteq Slots \X Entries
      /\ stored' \in [Events -> {"none", "stored", "matched", "unmatched"}]
      /\ UNCHANGED <<threads, accepted, mailbox, reviewer, fresh, stored>>
  BY DEF Inform, world, IInv, Types
<1>7. outbox' \subseteq outbox \cup actor[q].news
  BY DEF Inform
<1>8. /\ outbox' \subseteq NewsRecords
      /\ \A n \in outbox' \ outbox : n.event = "thread_started" /\ n.slot \in Platform => Out(n.slot)
  BY <1>1, <1>7, HeldNews DEF IInv, Types
<1>9. QED BY <1>1, <1>3, <1>4, <1>5, <1>6, <1>8, Quiet

LEMMA FindActiveStep == ASSUME IInv, NEW q \in Requesters, FindActive(q) PROVE IInv'
<1>1. q \in Actors /\ q \notin Handlers
  BY ActorsAssumption DEF Actors
<1>2. UNCHANGED <<threads, accepted, mailbox, reviewer, fresh, stored, outbox, jobs>> /\ ~At(q, "idle")
  BY DEF FindActive, tables, At
<1>3. CASE Ends(q)
  BY <1>1, <1>2, <1>3, Finishes, Silent
<1>4. CASE Step(q, "create") /\ UNCHANGED answered
  <2>1. PICK after \in ActorRecords : /\ actor' = [actor EXCEPT ![q] = after]
                                      /\ after.at = "create" /\ after.news = actor[q].news
    BY <1>1, <1>4, Steps DEF Positions
  <2>2. ActorFine(q, after)
    BY <1>1, <2>1, HeldNews DEF ActorFine
  <2>3. answered' \subseteq Events
    BY <1>4 DEF IInv, Types
  <2>4. QED BY <1>1, <1>2, <2>1, <2>2, <2>3, Silent
<1>5. QED BY <1>3, <1>4 DEF FindActive

\* The thread that createThread inserts.
LEMMA Creation ==
  ASSUME IInv, NEW t \in Platform, t = Cardinality(Existing) + 1, Active = {},
         NEW row, row = [NoThread EXCEPT !.phase = "sending"]
  PROVE  GoodWrite(t, row) /\ t \in Slots
<1>1. t \in Slots /\ \A s \in Platform : s < t <=> Exists(s)
  BY NextSlot, ConstantFacts DEF IInv
<1>2. threads[t].phase = "none"
  BY <1>1, ConstantFacts DEF Exists
<1>3. Inbound(threads[t]) = {}
  BY <1>1, <1>2 DEF IInv, ThreadsOK, RowOK, NoThread, Inbound
<1>4. row.phase = "sending" /\ row.entries = {} /\ row.review = None /\ Inbound(row) = {}
  BY DEF NoThread, Inbound
<1>5. row \in ThreadRecords /\ RowOK(row)
  <2>1. row \in ThreadRecords
    BY NoThreadOK DEF ThreadRecords, Phases
  <2>2. RowOK(row)
    BY <1>4 DEF RowOK
  <2>3. QED BY <2>1, <2>2
<1>6. QED BY <1>1, <1>2, <1>3, <1>4, <1>5 DEF GoodWrite

LEMMA CreateThreadStep == ASSUME IInv, NEW q \in Requesters, CreateThread(q) PROVE IInv'
<1> DEFINE t == Cardinality(Existing) + 1
<1>1. q \in Actors /\ q \notin Handlers
  BY ActorsAssumption DEF Actors
<1>2. UNCHANGED <<accepted, mailbox, reviewer, stored, outbox, jobs>> /\ ~At(q, "idle")
  BY DEF CreateThread, At
<1>3. CASE Active # {}
  <2>1. Ends(q) /\ UNCHANGED <<threads, fresh>>
    BY <1>3 DEF CreateThread, NoWrite
  <2>2. QED BY <1>1, <1>2, <2>1, Finishes, Silent
<1>4. CASE Active = {}
  <2>1. PICK slot \in Platform : slot = t
    BY <1>4 DEF CreateThread
  <2>2. PICK row : row = [NoThread EXCEPT !.phase = "sending"]
    OBVIOUS
  <2>3. Write(slot, row) /\ UNCHANGED answered
    BY <1>4, <2>1, <2>2 DEF CreateThread
  <2>4. GoodWrite(slot, row) /\ slot \in Slots
    BY <1>4, <2>1, <2>2, Creation
  <2>5. PICK after : after = [actor[q] EXCEPT !.at = "call", !.slot = slot]
    OBVIOUS
  <2>6. after \in ActorRecords /\ after.at = "call" /\ after.slot = slot /\ after.news = actor[q].news
    BY <1>1, <2>4, <2>5, ActorFields DEF IInv, ActorRecords, Positions
  <2>7. actor' = [actor EXCEPT ![q] = after]
    BY <1>1, <1>4, <2>1, <2>5, ActorFields DEF CreateThread, IInv
  <2>8. Grown /\ threads'[slot].phase # "none"
    <3>1. threads' = [threads EXCEPT ![slot] = row] /\ row.phase = "sending"
      BY <2>2, <2>3 DEF Write, NoThread
    <3>2. threads'[slot] = row
      BY <2>4, <3>1 DEF IInv, Types
    <3>3. QED BY <2>3, <2>4, <3>1, <3>2, Written
  <2>9. ActorFine(q, after)'
    <3>1. \A s \in Platform : Out(s) => Out(s)'
      BY <1>2, <2>8, ConstantFacts DEF Grown, Out
    <3>2. QED BY <1>1, <2>6, <2>8, <3>1, HeldNews DEF ActorFine, Exists
  <2>10. answered' \subseteq Events
    BY <2>3 DEF IInv, Types
  <2>11. QED BY <1>1, <1>2, <2>3, <2>4, <2>6, <2>7, <2>9, <2>10, Writes
<1>5. QED BY <1>3, <1>4

LEMMA CallProviderStep == ASSUME IInv, NEW q \in Requesters, CallProvider(q) PROVE IInv'
<1>1. q \in Actors /\ q \notin Handlers
  BY ActorsAssumption DEF Actors
<1>2. PICK t \in Platform : t = actor[q].slot /\ Exists(t)
  BY <1>1 DEF CallProvider, At, IInv, ActorsOK, ActorFine
<1>3. UNCHANGED <<threads, stored, outbox, jobs, mailbox, reviewer, fresh, answered>>
  BY DEF CallProvider, tables
<1>4. /\ accepted' \in {accepted, accepted \cup {t}}
      /\ \/ Step(q, "reconcile") /\ t \in accepted'
         \/ Step(q, "give_up")
  BY <1>2 DEF CallProvider
<1>5. threads' \in [Slots -> ThreadRecords] /\ ThreadsOK' /\ Order' /\ Grown
  BY <1>3, Unwritten
<1>6. accepted \subseteq accepted' /\ accepted' \subseteq Platform
  BY <1>4 DEF IInv, Types
<1>7. Claims'
  <2>1. SUFFICES ASSUME NEW u \in Platform PROVE Claim(u)'
    BY DEF Claims
  <2>2. Claim(u)
    BY DEF IInv, Claims
  <2>3. u \in accepted' => Exists(u)
    BY <1>2, <1>4, <2>2 DEF Claim
  <2>4. QED BY <1>3, <1>6, <2>2, <2>3 DEF Claim, Out, Exists
<1>8. PICK after \in ActorRecords :
        /\ actor' = [actor EXCEPT ![q] = after]
        /\ after.at \in {"reconcile", "give_up"} /\ after.slot = t /\ after.news = actor[q].news
        /\ after.at = "reconcile" => t \in accepted'
  <2>1. CASE Step(q, "reconcile") /\ t \in accepted'
    BY <1>1, <1>2, <2>1, Steps DEF Positions
  <2>2. CASE Step(q, "give_up")
    BY <1>1, <1>2, <2>2, Steps DEF Positions
  <2>3. QED BY <1>4, <2>1, <2>2
<1>9. ActorFine(q, after)'
  <2>1. \A s \in Platform : Out(s) => Out(s)'
    BY <1>5, <1>6, ConstantFacts DEF Grown, Out
  <2>2. QED BY <1>1, <1>2, <1>3, <1>8, <2>1, HeldNews DEF ActorFine, Exists
<1>10. actor' \in [Actors -> ActorRecords] /\ ActorsOK'
  BY <1>1, <1>3, <1>5, <1>6, <1>8, <1>9, ActorsKept
<1>11. MailsOK'
  BY <1>3, MailsKept
<1>12. Types'
  BY <1>3, <1>5, <1>6, <1>10 DEF IInv, Types
<1>13. QED BY <1>5, <1>7, <1>10, <1>11, <1>12 DEF IInv

\* A write that leaves a thread's entries alone and does not revive it.
LEMMA Edited ==
  ASSUME IInv, NEW t \in Slots, Exists(t), NEW row \in ThreadRecords,
         row.entries = threads[t].entries, row.phase # "none",
         row.review = threads[t].review \/ row.review.entry \in row.entries,
         threads[t].phase = "failed" => row.phase = "failed",
         row.phase = "reply_received_unreviewed" => Inbound(threads[t]) # {},
         row.phase = "awaiting_reply" /\ t \in Platform => Out(t)
  PROVE  GoodWrite(t, row)
<1>1. RowOK(threads[t]) /\ Inbound(row) = Inbound(threads[t])
  BY DEF IInv, ThreadsOK, Inbound
<1>2. RowOK(row)
  BY <1>1 DEF RowOK
<1>3. t \in Platform => (SentEntry \in row.entries => t \in accepted)
  BY DEF IInv, Claims, Claim
<1>4. QED BY <1>1, <1>2, <1>3 DEF GoodWrite, Exists, Out

LEMMA FailThreadStep == ASSUME IInv, NEW q \in Requesters, FailThread(q) PROVE IInv'
<1>1. q \in Actors /\ q \notin Handlers
  BY ActorsAssumption DEF Actors
<1>2. PICK t \in Platform : t = actor[q].slot /\ Exists(t) /\ t \in Slots
  BY <1>1, ConstantFacts DEF FailThread, At, IInv, ActorsOK, ActorFine
<1>3. PICK row : row = [threads[t] EXCEPT !.phase = "failed"]
  OBVIOUS
<1>4. Write(t, row)
  BY <1>2, <1>3 DEF FailThread
<1>5. /\ row \in ThreadRecords /\ row.phase = "failed" /\ row.entries = threads[t].entries
      /\ row.review = threads[t].review
  BY <1>2, <1>3 DEF IInv, Types, ThreadRecords, Phases
<1>6. GoodWrite(t, row)
  BY <1>2, <1>5, Edited
<1>7. PICK after \in ActorRecords : /\ actor' = [actor EXCEPT ![q] = after] /\ after.at = "alert"
                                    /\ after.slot = t /\ after.news = actor[q].news
  BY <1>1, <1>2, Steps DEF FailThread, Positions
<1>8. Grown
  BY <1>2, <1>4, <1>6, Written
<1>9. ActorFine(q, after)'
  <2>1. (\A s \in Platform : Out(s) => Out(s)') /\ threads'[t].phase # "none"
    BY <1>2, <1>8, ConstantFacts DEF Grown, Out, FailThread, world
  <2>2. QED BY <1>1, <1>2, <1>7, <2>1, HeldNews DEF ActorFine, Exists
<1>10. answered' \subseteq Events
  BY DEF FailThread, world, IInv, Types
<1>11. QED BY <1>1, <1>2, <1>4, <1>6, <1>7, <1>9, <1>10, Writes DEF FailThread, world

\* Publishing news that claims no more than is known, and ending.
LEMMA Publishes ==
  ASSUME IInv, NEW a \in Actors, NEW news \in SUBSET NewsRecords, ~At(a, "idle"),
         \A n \in news : n.event = "thread_started" /\ n.slot \in Platform => Out(n.slot),
         outbox' \in {outbox, outbox \cup news}, Ends(a),
         UNCHANGED <<threads, stored, jobs, accepted, mailbox, reviewer, fresh>>
  PROVE  IInv'
<1>1. PICK after \in ActorRecords : actor' = [actor EXCEPT ![a] = after] /\ ActorFine(a, after)
  BY Finishes
<1>2. answered' \subseteq Events
  BY Finishes
<1>3. outbox' \subseteq NewsRecords
  BY DEF IInv, Types
<1>4. jobs' \subseteq Slots \X Entries /\ stored' \in [Events -> {"none", "stored", "matched", "unmatched"}]
  BY DEF IInv, Types
<1>5. QED BY <1>1, <1>2, <1>3, <1>4, Quiet

LEMMA AlertFailureStep == ASSUME IInv, NEW q \in Requesters, AlertFailure(q) PROVE IInv'
<1>1. q \in Actors /\ ~At(q, "idle")
  BY DEF Actors, AlertFailure, At
<1>2. PICK t \in Platform : t = actor[q].slot /\ t \in Slots
  BY <1>1, ConstantFacts DEF AlertFailure, At, IInv, ActorsOK, ActorFine
<1>3. PICK news : news = {News(t, "thread_failed", None)}
  OBVIOUS
<1>4. news \in SUBSET NewsRecords /\ \A n \in news : n.event # "thread_started"
  BY <1>2, <1>3, NewsIsRecord DEF NewsEvents
<1>5. outbox' \in {outbox, outbox \cup news} /\ Ends(q)
  BY <1>2, <1>3 DEF AlertFailure, Publish, Goes
<1>6. QED BY <1>1, <1>4, <1>5, Publishes DEF AlertFailure

---------------------------------------------------------------------------
(* Reconciliation. *)
LEMMA ReconciledOK ==
  ASSUME IInv, NEW t \in Platform, t \in accepted
  PROVE  GoodWrite(t, Reconciled(threads[t]))
<1> DEFINE row == threads[t]
           after == Reconciled(row)
<1>1. t \in Slots /\ row \in ThreadRecords /\ RowOK(row) /\ Exists(t)
  BY ConstantFacts DEF IInv, Types, ThreadsOK, Claims, Claim
<1>2. /\ after \in ThreadRecords /\ after.entries = row.entries \cup {SentEntry}
      /\ after.phase = IF row.phase = "sending" THEN "awaiting_reply" ELSE row.phase
  BY <1>1, ConstantFacts DEF Reconciled, ThreadRecords, Phases
<1>3. Inbound(after) = Inbound(row)
  <2>1. SentEntry[1] = SentMail /\ SentMail \notin Replies
    BY MailsAssumption DEF SentEntry, SentMail
  <2>2. QED BY <1>2, <2>1 DEF Inbound
<1>4. RowOK(after)
  <2>1. SentEntry[1] = SentMail /\ SentMail = 0
    BY DEF SentEntry, SentMail
  <2>2. \A e, f \in after.entries : e[1] = f[1] => e = f
    BY <1>1, <1>2, <2>1 DEF RowOK
  <2>3. \A e \in after.entries : e[1] = SentMail => e = SentEntry
    BY <1>1, <1>2 DEF RowOK
  <2>4. \E b \in Nat : \A e \in after.entries : e[1] <= b
    <3>1. PICK b \in Nat : \A e \in row.entries : e[1] <= b
      BY <1>1 DEF RowOK
    <3>2. \A e \in after.entries : e[1] <= b
      BY <1>2, <2>1, <3>1
    <3>3. QED BY <3>2
  <2>5. after.phase # "none" /\ (after.phase = "reply_received_unreviewed" => Inbound(after) # {})
    BY <1>1, <1>2, <1>3 DEF RowOK, Exists
  <2>6. after.review = row.review /\ (row.review # None => row.review.entry \in after.entries)
    BY <1>1, <1>2 DEF RowOK, Reconciled, ThreadRecords
  <2> HIDE DEF after
  <2>7. QED BY <2>2, <2>3, <2>4, <2>5, <2>6 DEF RowOK
<1>5. GoodWrite(t, after)
  <2> HIDE DEF after
  <2>1. QED BY <1>1, <1>2, <1>3, <1>4 DEF GoodWrite, Exists
<1>6. QED BY <1>5

LEMMA ReconcileStep == ASSUME IInv, NEW a \in Actors, Reconcile(a) PROVE IInv'
<1>1. PICK t \in Platform : t = actor[a].slot /\ t \in accepted /\ t \in Slots
  BY ConstantFacts DEF Reconcile, At, IInv, Types, ActorsOK, ActorFine
<1>2. PICK row : row = Reconciled(threads[t])
  OBVIOUS
<1>3. GoodWrite(t, row) /\ Write(t, row)
  BY <1>1, <1>2, ReconciledOK DEF Reconcile
<1>4. Grown
  BY <1>1, <1>3, Written
<1>5. UNCHANGED <<stored, outbox, jobs, accepted, mailbox, reviewer>> /\ ~At(a, "idle")
  BY DEF Reconcile, At
<1>6. CASE Ends(a)
  BY <1>1, <1>3, <1>5, <1>6, Finishes, Writes
<1>7. CASE Step(a, "announce") /\ UNCHANGED answered
  <2>1. PICK after \in ActorRecords :
          /\ actor' = [actor EXCEPT ![a] = after] /\ after.at = "announce"
          /\ after.slot = t /\ after.news = actor[a].news /\ after.event = actor[a].event
    BY <1>1, <1>7, Steps DEF Positions
  <2>2. ActorFine(a, after)'
    <3>1. \A s \in Platform : Out(s) => Out(s)'
      BY <1>4, <1>5, ConstantFacts DEF Grown, Out
    <3>2. a \in Handlers => actor[a].event \in Events
      BY <1>5 DEF At, IInv, ActorsOK, ActorFine
    <3>3. QED BY <1>1, <1>5, <2>1, <3>1, <3>2, HeldNews DEF ActorFine
  <2>3. answered' \subseteq Events
    BY <1>7 DEF IInv, Types
  <2>4. QED BY <1>1, <1>3, <1>5, <2>1, <2>2, <2>3, Writes
<1>8. QED BY <1>6, <1>7 DEF Reconcile, Goes

LEMMA AnnounceStartStep == ASSUME IInv, NEW a \in Actors, AnnounceStart(a) PROVE IInv'
<1>1. PICK t \in Platform : t = actor[a].slot /\ t \in accepted /\ t \in Slots
  BY ConstantFacts DEF AnnounceStart, At, IInv, Types, ActorsOK, ActorFine
<1>2. PICK news : news = {News(t, "thread_started", None)}
  OBVIOUS
<1>3. /\ news \in SUBSET NewsRecords
      /\ \A n \in news : n.event = "thread_started" /\ n.slot \in Platform => Out(n.slot)
  BY <1>1, <1>2, NewsIsRecord DEF NewsEvents, Out
<1>4. UNCHANGED <<threads, stored, jobs, accepted, mailbox, reviewer, fresh>> /\ ~At(a, "idle")
  BY DEF AnnounceStart, At
<1>5. CASE Ends(a) /\ UNCHANGED outbox
  BY <1>3, <1>4, <1>5, Publishes
<1>6. CASE outbox' = outbox \cup news /\ Step(a, "mark") /\ UNCHANGED answered
  <2>1. PICK after \in ActorRecords :
          /\ actor' = [actor EXCEPT ![a] = after] /\ after.at = "mark"
          /\ after.slot = t /\ after.news = actor[a].news /\ after.event = actor[a].event
    BY <1>1, <1>6, Steps DEF Positions
  <2>2. ActorFine(a, after)
    <3>1. a \in Handlers => actor[a].event \in Events
      BY <1>4 DEF At, IInv, ActorsOK, ActorFine
    <3>2. QED BY <1>1, <2>1, <3>1, HeldNews DEF ActorFine
  <2>3. /\ answered' \subseteq Events /\ outbox' \subseteq NewsRecords /\ jobs' \subseteq Slots \X Entries
        /\ stored' \in [Events -> {"none", "stored", "matched", "unmatched"}]
    BY <1>3, <1>4, <1>6 DEF IInv, Types
  <2>4. \A n \in outbox' \ outbox : n.event = "thread_started" /\ n.slot \in Platform => Out(n.slot)
    BY <1>3, <1>6
  <2>5. QED BY <1>4, <2>1, <2>2, <2>3, <2>4, Quiet
<1>7. QED BY <1>1, <1>2, <1>5, <1>6 DEF AnnounceStart, Goes

LEMMA MarkAnnouncedStep == ASSUME IInv, NEW a \in Actors, MarkAnnounced(a) PROVE IInv'
<1>1. PICK t \in Platform : t = actor[a].slot /\ t \in accepted /\ t \in Slots
  BY ConstantFacts DEF MarkAnnounced, At, IInv, Types, ActorsOK, ActorFine
<1>2. /\ UNCHANGED <<stored, outbox, jobs, accepted, mailbox, reviewer>>
      /\ Ends(a) /\ ~At(a, "idle")
  BY DEF MarkAnnounced, At
<1>3. CASE UNCHANGED <<threads, fresh>>
  BY <1>2, <1>3, Finishes, Silent
<1>4. CASE Write(t, [threads[t] EXCEPT !.marked = TRUE])
  <2>1. PICK row : row = [threads[t] EXCEPT !.marked = TRUE]
    OBVIOUS
  <2>2. threads[t] \in ThreadRecords /\ RowOK(threads[t]) /\ Claim(t) /\ Exists(t)
    BY <1>1 DEF IInv, Types, ThreadsOK, Claims, Claim
  <2>3. /\ row \in ThreadRecords /\ row.entries = threads[t].entries /\ row.phase = threads[t].phase
        /\ row.review = threads[t].review
    BY <2>1, <2>2 DEF ThreadRecords
  <2>4. GoodWrite(t, row)
    BY <1>1, <2>2, <2>3, Edited DEF RowOK, Claim, Exists
  <2>5. QED BY <1>1, <1>2, <1>4, <2>1, <2>4, Finishes, Writes
<1>5. QED BY <1>1, <1>3, <1>4 DEF MarkAnnounced, NoWrite

---------------------------------------------------------------------------
(* The recovery job. *)
LEMMA RecoveryIsActor == Recovery \in Actors /\ Recovery \notin Handlers
BY ActorsAssumption DEF Actors

LEMMA StartRecoveryStep == ASSUME IInv, StartRecovery PROVE IInv'
<1>1. PICK todo \in SUBSET Platform : todo = Unconfirmed
  BY DEF Unconfirmed
<1>2. PICK after : after = [actor[Recovery] EXCEPT !.at = "list", !.todo = todo]
  OBVIOUS
<1>3. after \in ActorRecords /\ after.at = "list" /\ after.news = actor[Recovery].news
  BY <1>2, RecoveryIsActor, ActorFields DEF IInv, ActorRecords, Positions
<1>4. actor' = [actor EXCEPT ![Recovery] = after]
  BY <1>1, <1>2, RecoveryIsActor, ActorFields DEF StartRecovery, IInv
<1>5. ActorFine(Recovery, after)
  BY <1>3, RecoveryIsActor, HeldNews DEF ActorFine
<1>6. UNCHANGED <<threads, accepted, mailbox, reviewer, fresh, stored, outbox, jobs>> /\ answered' \subseteq Events
  BY DEF StartRecovery, tables, world, IInv, Types
<1>7. QED BY <1>3, <1>4, <1>5, <1>6, RecoveryIsActor, Silent

LEMMA RecoverThreadStep == ASSUME IInv, RecoverThread PROVE IInv'
<1>1. PICK t \in actor[Recovery].todo :
        actor' = [actor EXCEPT ![Recovery].todo = @ \ {t},
                               ![Recovery].slot = t,
                               ![Recovery].at = IF HasEvidence(t) THEN "reconcile" ELSE "list"]
  BY DEF RecoverThread
<1>2. t \in Platform /\ t \in Slots
  BY <1>1, RecoveryIsActor, ActorFields, ConstantFacts DEF IInv
<1>3. PICK step \in {"reconcile", "list"} : step = IF HasEvidence(t) THEN "reconcile" ELSE "list"
  OBVIOUS
<1>4. step = "reconcile" => t \in accepted
  BY <1>2, <1>3 DEF HasEvidence, IInv, Claims, Claim
<1>5. PICK after : after = [actor[Recovery] EXCEPT !.at = step, !.slot = t, !.todo = @ \ {t}]
  OBVIOUS
<1>6. after \in ActorRecords /\ after.at = step /\ after.slot = t /\ after.news = actor[Recovery].news
  BY <1>2, <1>5, RecoveryIsActor, ActorFields DEF IInv, ActorRecords, Positions
<1>7. actor' = [actor EXCEPT ![Recovery] = after]
  BY <1>1, <1>3, <1>5, RecoveryIsActor, ActorFields DEF IInv, ActorRecords
<1>8. ActorFine(Recovery, after)
  BY <1>3, <1>4, <1>6, RecoveryIsActor, HeldNews DEF ActorFine
<1>9. UNCHANGED <<threads, accepted, mailbox, reviewer, fresh, stored, outbox, jobs>> /\ answered' \subseteq Events
  BY DEF RecoverThread, tables, world, IInv, Types
<1>10. QED BY <1>6, <1>7, <1>8, <1>9, RecoveryIsActor, Silent

LEMMA ReadMissingNewsStep == ASSUME IInv, ReadMissingNews PROVE IInv'
<1>1. UNCHANGED <<threads, accepted, mailbox, reviewer, fresh, stored, outbox, jobs>> /\ answered' \subseteq Events
  BY DEF ReadMissingNews, tables, world, IInv, Types
<1>2. CASE Published(CurrentNews)
  <2>1. actor' = [actor EXCEPT ![Recovery] = Idle]
    BY <1>2 DEF ReadMissingNews
  <2>2. QED BY <1>1, <2>1, IdleFine, RecoveryIsActor, Silent
<1>3. CASE ~Published(CurrentNews)
  <2>1. PICK news \in SUBSET NewsRecords :
          /\ news = CurrentNews
          /\ \A n \in news : n.event = "thread_started" /\ n.slot \in Platform => Out(n.slot)
    BY CurrentNewsOK DEF IInv
  <2>2. PICK after : after = [Idle EXCEPT !.at = "republish", !.news = news]
    OBVIOUS
  <2>3. after \in ActorRecords /\ after.at = "republish" /\ after.news = news
    BY <2>2, IdleFine DEF ActorRecords, Positions
  <2>4. actor' = [actor EXCEPT ![Recovery] = after]
    BY <1>3, <2>1, <2>2 DEF ReadMissingNews
  <2>5. ActorFine(Recovery, after)
    BY <2>1, <2>3, RecoveryIsActor DEF ActorFine
  <2>6. QED BY <1>1, <2>3, <2>4, <2>5, RecoveryIsActor, Silent
<1>4. QED BY <1>2, <1>3

LEMMA RepublishStep == ASSUME IInv, Republish PROVE IInv'
<1>1. outbox' \subseteq outbox \cup actor[Recovery].news /\ actor' = [actor EXCEPT ![Recovery] = Idle]
  BY DEF Republish
<1>2. /\ outbox' \subseteq NewsRecords
      /\ \A n \in outbox' \ outbox : n.event = "thread_started" /\ n.slot \in Platform => Out(n.slot)
  BY <1>1, RecoveryIsActor, HeldNews DEF IInv, Types
<1>3. /\ UNCHANGED <<threads, accepted, mailbox, reviewer, fresh, stored, jobs>> /\ answered' \subseteq Events
      /\ jobs' \subseteq Slots \X Entries /\ stored' \in [Events -> {"none", "stored", "matched", "unmatched"}]
  BY DEF Republish, world, IInv, Types
<1>4. QED BY <1>1, <1>2, <1>3, IdleFine, RecoveryIsActor, Quiet

---------------------------------------------------------------------------
(* Mails and webhooks. *)
LEMMA MailStep ==
  ASSUME IInv, NEW m \in Mails, NEW mail, mail.slot \in Slots,
         mailbox' = [mailbox EXCEPT ![m] = mail],
         UNCHANGED <<tables, actor, reviewer, fresh, accepted, answered>>
  PROVE  IInv'
<1>1. mailbox' = [n \in Mails |-> mailbox'[n]] /\ mailbox'[m] = mail
      /\ \A n \in Mails \ {m} : mailbox'[n] = mailbox[n]
  BY DEF IInv, MailsOK
<1>2. MailsOK' /\ \A n \in Mails : mailbox[n].slot \in Slots => mailbox'[n].slot \in Slots
  BY <1>1 DEF IInv, MailsOK
<1>3. UNCHANGED <<threads, accepted, stored, outbox, jobs>>
  BY DEF tables
<1>4. threads' \in [Slots -> ThreadRecords] /\ ThreadsOK' /\ Order' /\ Grown
  BY <1>3, Unwritten
<1>5. Claims'
  BY <1>3, ClaimsKept
<1>6. actor' \in [Actors -> ActorRecords] /\ ActorsOK'
  BY <1>2, <1>3, <1>4, ActorsSame
<1>7. Types'
  BY <1>3, <1>4, <1>6 DEF IInv, Types
<1>8. QED BY <1>2, <1>4, <1>5, <1>6, <1>7 DEF IInv

LEMMA UserSendsStep == ASSUME IInv, NEW m \in Mails, UserSends(m) PROVE IInv'
<1>1. PICK mail : mail = [slot |-> SelfSend, quotes |-> FALSE]
  OBVIOUS
<1>2. mail.slot \in Slots
  BY <1>1, ConstantFacts
<1>3. QED BY <1>1, <1>2, MailStep DEF UserSends

LEMMA InstitutionRepliesStep == ASSUME IInv, NEW m \in Mails, InstitutionReplies(m) PROVE IInv'
<1>1. PICK t \in Slots, quotes \in left.quoting : mailbox' = [mailbox EXCEPT ![m] = [slot |-> t, quotes |-> quotes]]
  BY DEF InstitutionReplies
<1>2. PICK mail : mail = [slot |-> t, quotes |-> quotes]
  OBVIOUS
<1>3. mail.slot \in Slots
  BY <1>2
<1>4. QED BY <1>1, <1>2, <1>3, MailStep DEF InstitutionReplies

LEMMA ReceiveStep == ASSUME IInv, NEW h \in Handlers, NEW e \in Events, Receive(h, e) PROVE IInv'
<1>1. h \in Actors /\ h # Recovery
  BY ActorsAssumption DEF Actors
<1>2. UNCHANGED <<threads, outbox, jobs, accepted, mailbox, reviewer, fresh>> /\ Happened(e)
  BY DEF Receive, Calls
<1>3. /\ stored' \in {stored, [stored EXCEPT ![e] = "stored"]}
      /\ stored' \in [Events -> {"none", "stored", "matched", "unmatched"}]
      /\ outbox' \subseteq NewsRecords /\ jobs' \subseteq Slots \X Entries
  BY <1>2 DEF Receive, IInv, Types
<1>4. \A t \in Platform : stored'[Sent(t)] # "none" => stored[Sent(t)] # "none" \/ t \in accepted
  <2>1. SUFFICES ASSUME NEW t \in Platform, stored'[Sent(t)] # stored[Sent(t)] PROVE t \in accepted
    OBVIOUS
  <2>2. e = Sent(t)
    BY <1>3, <2>1, EventFacts DEF IInv, Types
  <2>3. QED BY <1>2, <2>2 DEF Happened, Sent
<1>5. answered' \subseteq Events
  BY DEF Receive, IInv, Types
<1>6. CASE UNCHANGED actor
  <2>1. PICK s \in ActorRecords : s = actor[h] /\ ActorFine(h, s)
    BY <1>1 DEF IInv, Types, ActorsOK
  <2>2. actor' = [actor EXCEPT ![h] = s]
    BY <1>1, <1>6, <2>1 DEF IInv, Types
  <2>3. QED BY <1>1, <1>2, <1>3, <1>4, <1>5, <2>1, <2>2, Quiet
<1>7. CASE actor' = [actor EXCEPT ![h].event = e,
                                  ![h].slot = IF e[1] = "sent" THEN e[2] ELSE None,
                                  ![h].at = IF e[1] = "sent" THEN "reconcile" ELSE "match"]
  <2>1. PICK t \in Slots \cup {None}, step \in {"reconcile", "match"} :
          /\ t = (IF e[1] = "sent" THEN e[2] ELSE None)
          /\ step = (IF e[1] = "sent" THEN "reconcile" ELSE "match")
    BY EventFacts, ConstantFacts
  <2>2. PICK after : after = [actor[h] EXCEPT !.event = e, !.slot = t, !.at = step]
    OBVIOUS
  <2>3. /\ after \in ActorRecords
        /\ after.event = e /\ after.slot = t /\ after.at = step /\ after.news = actor[h].news
    BY <1>1, <2>1, <2>2, ActorFields DEF IInv, ActorRecords, Positions
  <2>4. actor' = [actor EXCEPT ![h] = after]
    BY <1>1, <1>7, <2>1, <2>2, ActorFields DEF IInv, ActorRecords
  <2>5. step = "reconcile" => t \in accepted
    BY <1>2, <2>1, EventFacts DEF Happened
  <2>6. step = "match" => \E m \in Mails : e = Received(m) /\ mailbox[m].slot \in Slots
    BY <1>2, <2>1, EventFacts DEF Happened, IInv, MailsOK
  <2>7. ActorFine(h, after)
    BY <1>1, <2>1, <2>3, <2>5, <2>6, HeldNews DEF ActorFine
  <2>8. QED BY <1>1, <1>2, <1>3, <1>4, <1>5, <2>3, <2>4, <2>7, Quiet
<1>8. QED BY <1>6, <1>7 DEF Receive

\* A handler after the mail was stored: its mail and event.
LEMMA HandledMail ==
  ASSUME IInv, NEW h \in Handlers, ~At(h, "idle"),
         actor[h].at \in {"match", "append", "approve", "store", "queue", "tell", "create"}
  PROVE  /\ h \in Actors /\ h # Recovery
         /\ actor[h].event[2] \in Mails /\ actor[h].event = Received(actor[h].event[2])
         /\ actor[h].event \in Events
<1>1. h \in Actors /\ h # Recovery
  BY ActorsAssumption DEF Actors
<1>2. ActorFine(h, actor[h])
  BY <1>1 DEF IInv, ActorsOK
<1>3. PICK m \in Mails : actor[h].event = Received(m)
  BY <1>2 DEF ActorFine
<1>4. QED BY <1>1, <1>3, EventFacts

\* The event of a handler's mail is marked; no event of the provider's confirmations changes.
LEMMA Marked ==
  ASSUME IInv, NEW m \in Mails, NEW mark \in {"matched", "unmatched"},
         stored' = [stored EXCEPT ![Received(m)] = mark]
  PROVE  /\ stored' \in [Events -> {"none", "stored", "matched", "unmatched"}]
         /\ \A t \in Platform : stored'[Sent(t)] # "none" => stored[Sent(t)] # "none" \/ t \in accepted
<1>1. stored' \in [Events -> {"none", "stored", "matched", "unmatched"}]
  BY EventFacts DEF IInv, Types
<1>2. \A t \in Platform : stored'[Sent(t)] = stored[Sent(t)]
  BY EventFacts DEF IInv, Types
<1>3. QED BY <1>1, <1>2

\* A mail that finds no thread.
LEMMA UnmatchedStep ==
  ASSUME IInv, NEW h \in Handlers, At(h, "match"), Ends(h),
         stored' = [stored EXCEPT ![Received(actor[h].event[2])] = "unmatched"],
         UNCHANGED <<threads, outbox, jobs, approved, reviewer, fresh, accepted, mailbox>>
  PROVE  IInv'
<1>1. ~At(h, "idle") /\ h \in Actors /\ actor[h].event[2] \in Mails
  BY HandledMail DEF At
<1>2. PICK after \in ActorRecords : actor' = [actor EXCEPT ![h] = after] /\ ActorFine(h, after)
  BY <1>1, Finishes
<1>3. answered' \subseteq Events
  BY <1>1, Finishes
<1>4. outbox' \subseteq NewsRecords /\ jobs' \subseteq Slots \X Entries
  BY DEF IInv, Types
<1>5. QED BY <1>1, <1>2, <1>3, <1>4, Marked, Quiet

\* A mail whose entry goes to thread t.
LEMMA MatchedStep ==
  ASSUME IInv, NEW h \in Handlers, At(h, "match"), NEW t \in Slots, NEW step \in {"append", "create"},
         step = "append" => Exists(t) /\ (t = SelfSend \/ actor[h].event[2] \in Replies),
         step = "create" => t = SelfSend /\ actor[h].event[2] \notin Replies, FreshIds(actor[h].event[2]) # {},
         actor' = [actor EXCEPT ![h].at = step, ![h].slot = t, ![h].entry = NewEntry(actor[h].event[2])],
         UNCHANGED <<threads, stored, outbox, jobs, reviewer, fresh, accepted, mailbox, answered>>
  PROVE  IInv'
<1>1. /\ h \in Actors /\ actor[h].event[2] \in Mails /\ actor[h].event \in Events
      /\ actor[h].event = Received(actor[h].event[2])
  BY HandledMail DEF At
<1>2. PICK entry \in MailEntries : entry = NewEntry(actor[h].event[2]) /\ entry[1] = actor[h].event[2]
  BY <1>1, NewEntryIn DEF NewEntry
<1>3. PICK after : after = [actor[h] EXCEPT !.at = step, !.slot = t, !.entry = entry]
  OBVIOUS
<1>4. /\ after \in ActorRecords /\ after.at = step /\ after.slot = t /\ after.entry = entry
      /\ after.event = actor[h].event /\ after.news = actor[h].news
  <2>1. entry \in Entries
    BY ConstantFacts
  <2>2. QED BY <1>1, <1>3, <2>1, ActorFields DEF IInv, ActorRecords, Positions
<1>5. actor' = [actor EXCEPT ![h] = after]
  BY <1>1, <1>2, <1>3, ActorFields DEF IInv, ActorRecords
<1>6. ActorFine(h, after)
  BY <1>1, <1>2, <1>4, HeldNews DEF ActorFine
<1>7. answered' \subseteq Events
  BY DEF IInv, Types
<1>8. QED BY <1>1, <1>4, <1>5, <1>6, <1>7, Silent

LEMMA MatchReplyStep == ASSUME IInv, NEW h \in Handlers, MatchReply(h) PROVE IInv'
<1> DEFINE m == actor[h].event[2]
<1>1. At(h, "match") /\ m \in Mails /\ m \in Replies
  BY HandledMail DEF MatchReply, At
<1>2. CASE ThreadOf(m) = None
  BY <1>1, <1>2, UnmatchedStep DEF MatchReply
<1>3. CASE ThreadOf(m) # None
  <2>1. mailbox[m].slot \in Slots
    <3>1. PICK n \in Mails : actor[h].event = Received(n) /\ mailbox[n].slot \in Slots
      BY <1>1 DEF At, Actors, IInv, ActorsOK, ActorFine
    <3>2. n = m
      BY <3>1, EventFacts
    <3>3. QED BY <3>1, <3>2
  <2>2. PICK t \in Slots : t = ThreadOf(m) /\ Exists(t)
    <3>1. CASE mailbox[m].quotes
      BY <1>3, <2>1, <3>1 DEF ThreadOf
    <3>2. CASE ~mailbox[m].quotes
      <4>1. ThreadOf(m) = Latest(Active) /\ Active # {} /\ ThreadOf(m) = Max(Active)
        BY <1>3, <3>2 DEF ThreadOf, Latest
      <4>2. Active \in SUBSET Platform /\ \A t \in Active : Exists(t)
        BY DEF Active, Exists
      <4>3. QED BY <4>1, <4>2, LatestIn, ConstantFacts
    <3>3. QED BY <3>1, <3>2
  <2>3. PICK step \in {"append", "create"} : step = "append"
    OBVIOUS
  <2>4. /\ FreshIds(m) # {}
        /\ actor' = [actor EXCEPT ![h].at = step, ![h].slot = t, ![h].entry = NewEntry(m)]
        /\ UNCHANGED <<threads, stored, outbox, jobs, reviewer, fresh, accepted, mailbox, answered>>
    BY <1>3, <2>2, <2>3 DEF MatchReply
  <2>5. QED BY <1>1, <2>2, <2>3, <2>4, MatchedStep
<1>4. QED BY <1>2, <1>3

LEMMA MatchCaptureStep == ASSUME IInv, NEW h \in Handlers, MatchCapture(h) PROVE IInv'
<1> DEFINE m == actor[h].event[2]
<1>1. At(h, "match") /\ m \notin Replies
  BY MailsAssumption DEF MatchCapture
<1>2. CASE Ends(h) /\ stored' = [stored EXCEPT ![Received(m)] = "unmatched"]
  BY <1>1, <1>2, UnmatchedStep DEF MatchCapture
<1>3. CASE /\ FreshIds(m) # {}
           /\ actor' = [actor EXCEPT ![h].at = IF Exists(SelfSend) THEN "append" ELSE "create",
                                     ![h].slot = SelfSend, ![h].entry = NewEntry(m)]
           /\ UNCHANGED <<stored, answered>>
  <2>1. PICK step \in {"append", "create"} : step = IF Exists(SelfSend) THEN "append" ELSE "create"
    OBVIOUS
  <2>2. QED BY <1>1, <1>3, <2>1, ConstantFacts, MatchedStep DEF MatchCapture
<1>4. QED BY <1>2, <1>3 DEF MatchCapture

\* What a handler knows of the mail that it files.
LEMMA FiledMail ==
  ASSUME IInv, NEW h \in Handlers, actor[h].at \in {"append", "create", "approve", "store", "queue", "tell"}
  PROVE  /\ h \in Actors /\ h # Recovery /\ ~At(h, "idle")
         /\ actor[h].slot \in Slots /\ actor[h].entry \in MailEntries /\ actor[h].entry \in Entries
         /\ actor[h].event \in Events /\ \E m \in Mails : actor[h].event = Received(m)
<1>1. h \in Actors /\ h # Recovery
  BY ActorsAssumption DEF Actors
<1>2. ActorFine(h, actor[h])
  BY <1>1 DEF IInv, ActorsOK
<1>3. QED BY <1>1, <1>2, ConstantFacts DEF ActorFine, At

LEMMA CreateSelfSendStep == ASSUME IInv, NEW h \in Handlers, CreateSelfSend(h) PROVE IInv'
<1>1. /\ h \in Actors /\ actor[h].entry \in MailEntries /\ actor[h].entry \in Entries
      /\ actor[h].event \in Events /\ \E m \in Mails : actor[h].event = Received(m)
  BY FiledMail DEF CreateSelfSend, At
<1>2. actor[h].slot = SelfSend /\ SelfSend \in Slots /\ SelfSend \notin Platform
  BY <1>1, ConstantFacts DEF CreateSelfSend, At, IInv, ActorsOK, ActorFine
<1>3. UNCHANGED <<accepted, mailbox, reviewer, stored, outbox, jobs, answered>> /\ answered' \subseteq Events
  BY DEF CreateSelfSend, world, IInv, Types
<1>4. CASE Exists(SelfSend)
  <2>1. Step(h, "append") /\ UNCHANGED <<threads, fresh>>
    BY <1>4 DEF CreateSelfSend, NoWrite
  <2>2. PICK after \in ActorRecords :
          /\ actor' = [actor EXCEPT ![h] = after] /\ after.at = "append" /\ after.slot = SelfSend
          /\ after.entry = actor[h].entry /\ after.event = actor[h].event /\ after.news = actor[h].news
    BY <1>1, <1>2, <2>1, Steps DEF Positions
  <2>3. ActorFine(h, after)
    BY <1>1, <1>2, <1>4, <2>2, HeldNews DEF ActorFine
  <2>4. QED BY <1>1, <1>3, <2>1, <2>2, <2>3, Silent
<1>5. CASE ~Exists(SelfSend)
  <2>1. PICK entry \in MailEntries : entry = actor[h].entry
    BY <1>1
  <2>2. PICK row : row = [NoThread EXCEPT !.phase = "awaiting_reply", !.entries = {entry}]
    OBVIOUS
  <2>3. Write(SelfSend, row)
    BY <1>5, <2>1, <2>2 DEF CreateSelfSend
  <2>4. row \in ThreadRecords /\ row.phase = "awaiting_reply" /\ row.entries = {entry} /\ row.review = None
    BY <1>1, <2>1, <2>2, NoThreadOK DEF ThreadRecords, Phases, NoThread
  <2>5. RowOK(row)
    <3>1. entry[1] \in Nat \ {0}
      BY ConstantFacts
    <3>2. QED BY <2>4, <3>1 DEF RowOK, SentMail
  <2>6. Inbound(threads[SelfSend]) = {}
    BY <1>2, <1>5 DEF IInv, ThreadsOK, RowOK, Exists, NoThread, Inbound
  <2>7. GoodWrite(SelfSend, row)
    BY <1>2, <2>4, <2>5, <2>6 DEF GoodWrite
  <2>8. PICK news \in SUBSET NewsRecords :
          news = {News(SelfSend, "thread_started", None)} /\ \A n \in news : n.slot \notin Platform
    <3>1. PICK n : n = News(SelfSend, "thread_started", None)
      OBVIOUS
    <3>2. n \in NewsRecords /\ n.slot = SelfSend
      BY <1>2, <3>1, NewsIsRecord DEF NewsEvents
    <3>3. {n} \in SUBSET NewsRecords
      BY <3>2
    <3>4. QED BY <1>2, <3>1, <3>2, <3>3
  <2>9. PICK after : after = [actor[h] EXCEPT !.at = "approve", !.news = news]
    OBVIOUS
  <2>10. /\ after \in ActorRecords /\ after.at = "approve" /\ after.slot = SelfSend /\ after.news = news
         /\ after.entry = entry /\ after.event = actor[h].event
    BY <1>1, <1>2, <2>1, <2>9, ActorFields DEF IInv, ActorRecords, Positions
  <2>11. actor' = [actor EXCEPT ![h] = after]
    BY <1>1, <1>5, <2>8, <2>9, ActorFields DEF CreateSelfSend, IInv
  <2>12. ActorFine(h, after)'
    BY <1>1, <1>2, <2>1, <2>8, <2>10 DEF ActorFine
  <2>13. QED BY <1>1, <1>2, <1>3, <2>3, <2>7, <2>10, <2>11, <2>12, Writes
<1>6. QED BY <1>4, <1>5

LEMMA AppendedOK ==
  ASSUME IInv, NEW t \in Slots, NEW entry \in MailEntries, Exists(t),
         NEW row, row = Appended(threads[t], entry), row # threads[t]
  PROVE  /\ row \in ThreadRecords /\ RowOK(row) /\ row.phase # "none"
         /\ row.entries = threads[t].entries \cup {entry}
         /\ row.phase = IF entry[1] \in Replies THEN "reply_received_unreviewed" ELSE threads[t].phase
         /\ Inbound(row) = Inbound(threads[t]) \cup {e \in {entry} : e[1] \in Replies}
<1> DEFINE old == threads[t]
<1>1. old \in ThreadRecords /\ RowOK(old) /\ old.phase # "none"
  BY DEF IInv, Types, ThreadsOK, Exists
<1>2. entry \in Entries /\ entry[1] \in Nat \ {0}
  BY ConstantFacts
<1>3. /\ \A e \in old.entries : e[1] # entry[1]
      /\ row = [old EXCEPT !.entries = old.entries \cup {entry},
                           !.phase = IF entry[1] \in Replies THEN "reply_received_unreviewed" ELSE old.phase]
  BY <1>1 DEF Appended
<1>4. /\ row \in ThreadRecords /\ row.entries = old.entries \cup {entry} /\ row.review = old.review
      /\ row.phase = IF entry[1] \in Replies THEN "reply_received_unreviewed" ELSE old.phase
  <2>1. PICK entries \in SUBSET Entries : entries = old.entries \cup {entry}
    BY <1>1, <1>2 DEF ThreadRecords
  <2>2. PICK phase \in Phases :
          phase = IF entry[1] \in Replies THEN "reply_received_unreviewed" ELSE old.phase
    BY <1>1 DEF ThreadRecords, Phases
  <2>3. row = [old EXCEPT !.entries = entries, !.phase = phase]
    BY <1>3, <2>1, <2>2
  <2>4. row \in ThreadRecords /\ row.entries = entries /\ row.phase = phase /\ row.review = old.review
    BY <1>1, <2>3 DEF ThreadRecords
  <2>5. QED BY <2>1, <2>2, <2>4
<1>5. Inbound(row) = Inbound(old) \cup {e \in {entry} : e[1] \in Replies}
  BY <1>4 DEF Inbound
<1>6. RowOK(row)
  <2>1. \A e, f \in row.entries : e[1] = f[1] => e = f
    BY <1>1, <1>3, <1>4 DEF RowOK
  <2>2. \A e \in row.entries : e[1] = SentMail => e = SentEntry
    BY <1>1, <1>2, <1>4 DEF RowOK, SentMail
  <2>3. \E b \in Nat : \A e \in row.entries : e[1] <= b
    <3>1. PICK b \in Nat : \A e \in old.entries : e[1] <= b
      BY <1>1 DEF RowOK
    <3>2. PICK c \in Nat : b <= c /\ entry[1] <= c
      BY <1>2
    <3>3. \A e \in row.entries : e[1] <= c
      <4>1. \A e \in old.entries : e[1] \in Nat
        BY <1>1, ConstantFacts DEF ThreadRecords
      <4>2. QED BY <1>4, <3>1, <3>2, <4>1
    <3>4. QED BY <3>3
  <2>4. row.phase # "none" /\ (row.phase = "reply_received_unreviewed" => Inbound(row) # {})
    BY <1>1, <1>4, <1>5 DEF RowOK
  <2>5. row.review # None => row.review.entry \in row.entries
    BY <1>1, <1>4 DEF RowOK
  <2>6. QED BY <2>1, <2>2, <2>3, <2>4, <2>5 DEF RowOK
<1>7. row.phase # "none"
  BY <1>1, <1>4
<1>8. QED BY <1>4, <1>5, <1>6, <1>7

LEMMA AppendedWrite ==
  ASSUME IInv, NEW t \in Slots, NEW entry \in MailEntries, Exists(t),
         NEW row, row = Appended(threads[t], entry), row # threads[t], ~Violates(t, row)
  PROVE  GoodWrite(t, row)
<1>1. /\ row \in ThreadRecords /\ RowOK(row) /\ row.phase # "none"
      /\ row.entries = threads[t].entries \cup {entry}
      /\ row.phase = IF entry[1] \in Replies THEN "reply_received_unreviewed" ELSE threads[t].phase
      /\ Inbound(row) = Inbound(threads[t]) \cup {e \in {entry} : e[1] \in Replies}
  BY AppendedOK
<1>2. ASSUME t \in Platform
      PROVE  /\ threads[t].phase = "failed" /\ row.phase # "failed" => Active \ {t} = {} /\ Inbound(row) # {}
             /\ SentEntry \in row.entries => t \in accepted
             /\ row.phase = "awaiting_reply" => t \in accepted \/ Inbound(row) # {}
  <2>1. Claim(t)
    BY <1>2 DEF IInv, Claims
  <2>2. entry # SentEntry
    <3>1. entry[1] # 0
      BY ConstantFacts
    <3>2. QED BY <3>1 DEF SentEntry, SentMail
  <2>3. threads[t].phase = "failed" /\ row.phase # "failed" => Active \ {t} = {} /\ Inbound(row) # {}
    BY <1>1, <1>2 DEF Violates
  <2>4. QED BY <1>1, <2>1, <2>2, <2>3 DEF Claim, Out
<1>3. QED BY <1>1, <1>2 DEF GoodWrite, Exists

LEMMA AppendStep == ASSUME IInv, NEW h \in Handlers, Append(h) PROVE IInv'
<1>1. /\ h \in Actors /\ actor[h].entry \in MailEntries /\ actor[h].event \in Events
      /\ \E m \in Mails : actor[h].event = Received(m)
  BY FiledMail DEF Append, At
<1>2. PICK t \in Slots : t = actor[h].slot /\ Exists(t)
  BY <1>1, FiledMail DEF Append, At, IInv, ActorsOK, ActorFine
<1>3. PICK entry \in MailEntries : entry = actor[h].entry
  BY <1>1
<1>4. PICK row : row = Appended(threads[t], entry)
  OBVIOUS
<1>5. UNCHANGED <<accepted, mailbox, reviewer, stored, outbox, jobs, answered>> /\ answered' \subseteq Events
  BY DEF Append, world, IInv, Types
<1>6. PICK step \in {"store", "approve"} : step = IF entry[1] \in Replies THEN "store" ELSE "approve"
  OBVIOUS
<1>7. PICK after : after = [actor[h] EXCEPT !.at = step]
  OBVIOUS
<1>8. /\ after \in ActorRecords /\ after.at = step /\ after.slot = t /\ after.entry = entry
      /\ after.event = actor[h].event /\ after.news = actor[h].news
  BY <1>1, <1>2, <1>3, <1>7, ActorFields DEF IInv, ActorRecords, Positions
<1>9. ActorFine(h, after)
  BY <1>1, <1>8, HeldNews DEF ActorFine
<1>10. CASE row = threads[t]
  <2>1. UNCHANGED <<threads, fresh>>
    BY <1>2, <1>3, <1>4, <1>10 DEF Append, NoWrite
  <2>2. actor' = [actor EXCEPT ![h] = after]
    BY <1>2, <1>3, <1>4, <1>6, <1>7, <1>10 DEF Append
  <2>3. QED BY <1>1, <1>5, <1>8, <1>9, <2>1, <2>2, Silent
<1>11. CASE row # threads[t] /\ Violates(t, row)
  <2>1. UNCHANGED <<threads, fresh>>
    BY <1>2, <1>3, <1>4, <1>11 DEF Append, NoWrite
  <2>2. actor' = [actor EXCEPT ![h] = Idle]
    BY <1>2, <1>3, <1>4, <1>11 DEF Append
  <2>3. QED BY <1>1, <1>5, <2>1, <2>2, IdleFine, Silent
<1>12. CASE row # threads[t] /\ ~Violates(t, row)
  <2>1. Write(t, row)
    BY <1>2, <1>3, <1>4, <1>12 DEF Append
  <2>2. actor' = [actor EXCEPT ![h] = after]
    BY <1>2, <1>3, <1>4, <1>6, <1>7, <1>12 DEF Append
  <2>3. GoodWrite(t, row)
    BY <1>2, <1>4, <1>12, AppendedWrite
  <2>4. Grown
    BY <2>1, <2>3, Written
  <2>5. ActorFine(h, after)'
    BY <1>1, <1>5, <1>8, <1>9, <2>4, FineKept
  <2>6. QED BY <1>1, <1>5, <1>8, <2>1, <2>2, <2>3, <2>5, Writes
<1>13. QED BY <1>10, <1>11, <1>12

LEMMA ApproveRecordStep == ASSUME IInv, NEW h \in Handlers, ApproveRecord(h) PROVE IInv'
<1>1. /\ h \in Actors /\ actor[h].slot \in Slots /\ actor[h].entry \in MailEntries
      /\ actor[h].event \in Events /\ \E m \in Mails : actor[h].event = Received(m)
  BY FiledMail DEF ApproveRecord, At
<1>2. PICK after \in ActorRecords :
        /\ actor' = [actor EXCEPT ![h] = after] /\ after.at = "store" /\ after.slot = actor[h].slot
        /\ after.entry = actor[h].entry /\ after.event = actor[h].event /\ after.news = actor[h].news
  BY <1>1, Steps DEF ApproveRecord, Positions
<1>3. ActorFine(h, after)
  BY <1>1, <1>2, HeldNews DEF ActorFine
<1>4. /\ UNCHANGED <<threads, accepted, mailbox, reviewer, fresh, stored, outbox, jobs>>
      /\ answered' \subseteq Events
  BY DEF ApproveRecord, world, IInv, Types
<1>5. QED BY <1>1, <1>2, <1>3, <1>4, Silent

LEMMA StoreMatchStep == ASSUME IInv, NEW h \in Handlers, StoreMatch(h) PROVE IInv'
<1>1. /\ h \in Actors /\ actor[h].slot \in Slots /\ actor[h].entry \in MailEntries /\ ~At(h, "idle")
      /\ actor[h].event \in Events /\ \E m \in Mails : actor[h].event = Received(m)
  BY FiledMail DEF StoreMatch, At
<1>2. PICK m \in Mails : m = actor[h].event[2]
  BY HandledMail DEF StoreMatch, At
<1>3. stored' = [stored EXCEPT ![Received(m)] = "matched"]
  BY <1>2 DEF StoreMatch
<1>4. /\ UNCHANGED <<threads, accepted, mailbox, reviewer, fresh, outbox, jobs>>
      /\ outbox' \subseteq NewsRecords /\ jobs' \subseteq Slots \X Entries
  BY DEF StoreMatch, IInv, Types
<1>5. /\ stored' \in [Events -> {"none", "stored", "matched", "unmatched"}]
      /\ \A t \in Platform : stored'[Sent(t)] # "none" => stored[Sent(t)] # "none" \/ t \in accepted
  BY <1>3, Marked
<1>6. CASE Ends(h)
  BY <1>1, <1>4, <1>5, <1>6, Finishes, Quiet
<1>7. CASE \E step \in {"queue", "tell"} : Step(h, step) /\ UNCHANGED answered
  <2>1. PICK step \in {"queue", "tell"} : Step(h, step) /\ UNCHANGED answered
    BY <1>7
  <2>2. PICK after \in ActorRecords :
          /\ actor' = [actor EXCEPT ![h] = after] /\ after.at = step /\ after.slot = actor[h].slot
          /\ after.entry = actor[h].entry /\ after.event = actor[h].event /\ after.news = actor[h].news
    BY <1>1, <2>1, Steps DEF Positions
  <2>3. ActorFine(h, after)
    BY <1>1, <2>2, HeldNews DEF ActorFine
  <2>4. answered' \subseteq Events
    BY <2>1 DEF IInv, Types
  <2>5. QED BY <1>1, <1>4, <1>5, <2>2, <2>3, <2>4, Quiet
<1>8. QED BY <1>6, <1>7 DEF StoreMatch, Goes

LEMMA QueueReviewStep == ASSUME IInv, NEW h \in Handlers, QueueReview(h) PROVE IInv'
<1>1. /\ h \in Actors /\ actor[h].entry \in MailEntries /\ actor[h].entry \in Entries /\ actor[h].slot \in Slots
      /\ actor[h].event \in Events /\ \E m \in Mails : actor[h].event = Received(m)
  BY FiledMail DEF QueueReview, At
<1>2. PICK t \in Slots, entry \in MailEntries : t = actor[h].slot /\ entry = actor[h].entry /\ entry \in Entries
  BY <1>1
<1>3. PICK news \in SUBSET NewsRecords :
        news = {News(t, "reply_received", entry)} /\ \A n \in news : n.event # "thread_started"
  <2>1. PICK n : n = News(t, "reply_received", entry)
    OBVIOUS
  <2>2. n \in NewsRecords /\ n.event = "reply_received"
    BY <1>2, <2>1, NewsIsRecord DEF NewsEvents
  <2>3. {n} \in SUBSET NewsRecords
    BY <2>2
  <2>4. QED BY <2>1, <2>2, <2>3
<1>4. PICK after : after = [actor[h] EXCEPT !.at = "tell", !.news = news]
  OBVIOUS
<1>5. /\ after \in ActorRecords /\ after.at = "tell" /\ after.slot = t /\ after.entry = entry
      /\ after.news = news /\ after.event = actor[h].event
  BY <1>1, <1>2, <1>4, ActorFields DEF IInv, ActorRecords, Positions
<1>6. actor' = [actor EXCEPT ![h] = after]
  BY <1>1, <1>2, <1>3, <1>4, ActorFields DEF QueueReview, IInv
<1>7. ActorFine(h, after)
  BY <1>1, <1>3, <1>5 DEF ActorFine
<1>8. jobs' \subseteq Slots \X Entries
  <2>1. <<t, entry>> \in Slots \X Entries
    BY <1>2
  <2>2. jobs' \subseteq jobs \cup {<<t, entry>>}
    BY <1>2 DEF QueueReview
  <2>3. QED BY <2>1, <2>2 DEF IInv, Types
<1>9. /\ UNCHANGED <<threads, accepted, mailbox, reviewer, fresh, stored, outbox>>
      /\ answered' \subseteq Events /\ outbox' \subseteq NewsRecords
      /\ stored' \in [Events -> {"none", "stored", "matched", "unmatched"}]
  BY DEF QueueReview, world, IInv, Types
<1>10. QED BY <1>1, <1>5, <1>6, <1>7, <1>8, <1>9, Quiet

LEMMA TellStep == ASSUME IInv, NEW h \in Handlers, Tell(h) PROVE IInv'
<1>1. h \in Actors /\ ~At(h, "idle")
  BY FiledMail DEF Tell, At
<1>2. PICK news \in SUBSET NewsRecords :
        /\ news = actor[h].news
        /\ \A n \in news : n.event = "thread_started" /\ n.slot \in Platform => Out(n.slot)
  BY <1>1, HeldNews
<1>3. outbox' \in {outbox, outbox \cup news} /\ Ends(h)
  BY <1>2 DEF Tell, Publish, Goes
<1>4. QED BY <1>1, <1>2, <1>3, Publishes DEF Tell

LEMMA FailsStep == ASSUME IInv, NEW a \in Actors, Fails(a) PROVE IInv'
<1>1. /\ UNCHANGED <<threads, accepted, mailbox, reviewer, fresh, stored, outbox, jobs>>
      /\ answered' \subseteq Events /\ actor' = [actor EXCEPT ![a] = Idle]
  BY DEF Fails, tables, world, IInv, Types
<1>2. QED BY <1>1, IdleFine, Silent

---------------------------------------------------------------------------
(* Review and responses. *)
LEMMA ScanPendingStep == ASSUME IInv, ScanPending PROVE IInv'
<1>1. /\ UNCHANGED <<threads, stored, outbox, accepted, mailbox, actor, reviewer, fresh, answered>>
      /\ reviewer' \in [Reviewers -> JudgeRecords] /\ fresh' \subseteq Reviewers
  BY DEF ScanPending, world, IInv, Types
<1>2. \A t \in Slots : threads[t].phase = "reply_received_unreviewed" =>
        <<t, LatestReply(threads[t])>> \in Slots \X Entries
  <2>1. SUFFICES ASSUME NEW t \in Slots, threads[t].phase = "reply_received_unreviewed"
                 PROVE  LatestReply(threads[t]) \in Entries
    OBVIOUS
  <2>2. threads[t] \in ThreadRecords /\ RowOK(threads[t])
    BY DEF IInv, Types, ThreadsOK
  <2>3. LatestReply(threads[t]) \in Inbound(threads[t])
    BY <2>1, <2>2, LatestReplyIn DEF RowOK
  <2>4. QED BY <2>2, <2>3 DEF Inbound, ThreadRecords
<1>3. jobs' \subseteq Slots \X Entries
  <2>1. {<<t, LatestReply(threads[t])>> : t \in {u \in Slots : threads[u].phase = "reply_received_unreviewed"}}
          \subseteq Slots \X Entries
    BY <1>2, Zenon
  <2>2. QED BY <2>1 DEF ScanPending, IInv, Types
<1>4. QED BY <1>1, <1>3, Judged

LEMMA RemoveSettledStep == ASSUME IInv, NEW job, RemoveSettled(job) PROVE IInv'
<1>1. /\ UNCHANGED <<threads, stored, outbox, accepted, mailbox, actor, reviewer, fresh, answered>>
      /\ reviewer' \in [Reviewers -> JudgeRecords] /\ fresh' \subseteq Reviewers
      /\ jobs' \subseteq Slots \X Entries
  BY DEF RemoveSettled, world, IInv, Types
<1>2. QED BY <1>1, Judged

LEMMA ExportStep == ASSUME IInv, NEW v \in Reviewers, NEW job \in jobs, Export(v, job) PROVE IInv'
<1>1. PICK t \in Slots, entry \in Entries : t = job[1] /\ entry = job[2]
  BY DEF IInv, Types
<1>2. PICK after : after = [at |-> "judge", slot |-> t, entry |-> entry, verdict |-> None]
  OBVIOUS
<1>3. after \in JudgeRecords
  BY <1>2 DEF JudgeRecords
<1>4. reviewer' = [reviewer EXCEPT ![v] = after]
  BY <1>1, <1>2 DEF Export
<1>5. /\ UNCHANGED <<threads, stored, outbox, jobs, accepted, mailbox, actor, answered>>
      /\ reviewer' \in [Reviewers -> JudgeRecords] /\ fresh' \subseteq Reviewers /\ jobs' \subseteq Slots \X Entries
  BY <1>3, <1>4 DEF Export, tables, world, IInv, Types
<1>6. QED BY <1>5, Judged

LEMMA LeavesOK ==
  ASSUME IInv, NEW v \in Reviewers, reviewer' = [reviewer EXCEPT ![v] = NoJudge]
  PROVE  reviewer' \in [Reviewers -> JudgeRecords]
<1>1. NoJudge \in JudgeRecords
  BY DEF JudgeRecords
<1>2. QED BY <1>1 DEF IInv, Types

\* The local state of an administrator who judges.
LEMMA JudgeFields ==
  ASSUME IInv, NEW v \in Reviewers, reviewer[v].at \in {"judge", "apply", "remove"}
  PROVE  /\ reviewer[v].slot \in Slots /\ reviewer[v].entry \in Entries
         /\ reviewer[v].at # "judge" => reviewer[v].verdict \in DOMAIN Outcomes
         /\ reviewer[v] = [at |-> reviewer[v].at, slot |-> reviewer[v].slot, entry |-> reviewer[v].entry,
                           verdict |-> reviewer[v].verdict]
<1>1. reviewer[v] \in JudgeRecords /\ reviewer[v] # NoJudge
  BY DEF IInv, Types, NoJudge
<1>2. QED BY <1>1 DEF JudgeRecords

LEMMA ClassifyStep ==
  ASSUME IInv, NEW v \in Reviewers, NEW verdict \in Verdicts, Classify(v, verdict)
  PROVE  IInv'
<1>1. UNCHANGED <<threads, stored, outbox, accepted, mailbox, actor, answered>>
  BY DEF Classify, world
<1>2. /\ jobs' \subseteq jobs /\ fresh' \subseteq fresh
      /\ \/ reviewer' = [reviewer EXCEPT ![v] = NoJudge]
         \/ reviewer' = [reviewer EXCEPT ![v].at = "apply", ![v].verdict = verdict]
  BY DEF Classify, Leaves
<1>3. reviewer' \in [Reviewers -> JudgeRecords]
  <2>1. CASE reviewer' = [reviewer EXCEPT ![v] = NoJudge]
    BY <2>1, LeavesOK
  <2>2. CASE reviewer' = [reviewer EXCEPT ![v].at = "apply", ![v].verdict = verdict]
    <3>1. /\ reviewer[v].slot \in Slots /\ reviewer[v].entry \in Entries
          /\ reviewer[v] = [at |-> reviewer[v].at, slot |-> reviewer[v].slot, entry |-> reviewer[v].entry,
                            verdict |-> reviewer[v].verdict]
      BY JudgeFields DEF Classify
    <3>2. PICK after : after = [reviewer[v] EXCEPT !.at = "apply", !.verdict = verdict]
      OBVIOUS
    <3>3. after = [at |-> "apply", slot |-> reviewer[v].slot, entry |-> reviewer[v].entry, verdict |-> verdict]
      BY <3>1, <3>2
    <3>4. after \in JudgeRecords
      BY <3>1, <3>3, VerdictsAssumption DEF JudgeRecords
    <3>5. reviewer' = [reviewer EXCEPT ![v] = after]
      BY <2>2, <3>2 DEF IInv, Types
    <3>6. QED BY <3>4, <3>5 DEF IInv, Types
  <2>3. QED BY <1>2, <2>1, <2>2
<1>4. jobs' \subseteq Slots \X Entries /\ fresh' \subseteq Reviewers
  BY <1>2 DEF IInv, Types
<1>5. QED BY <1>1, <1>3, <1>4, Judged

\* The row that a review writes.
LEMMA ReviewedOK ==
  ASSUME IInv, NEW v \in Reviewers, NEW t \in Slots, t = reviewer[v].slot, reviewer[v].at = "apply",
         Reviewable(threads[t], reviewer[v].entry),
         NEW row, row = [threads[t] EXCEPT
                           !.phase = Outcomes[reviewer[v].verdict],
                           !.review = [entry |-> reviewer[v].entry, verdict |-> reviewer[v].verdict]]
  PROVE  /\ GoodWrite(t, row) /\ row \in ThreadRecords
         /\ row.phase # "reply_received_unreviewed" /\ row.response = threads[t].response
         /\ row.review.entry = reviewer[v].entry
<1>1. reviewer[v].entry \in Entries /\ reviewer[v].verdict \in DOMAIN Outcomes
  BY JudgeFields
<1>2. PICK phase \in Phases : /\ phase = Outcomes[reviewer[v].verdict]
                              /\ phase \in Reviewed \cup {"awaiting_reply"}
  BY <1>1, OutcomeFacts DEF Phases
<1>3. PICK review \in Decisions : /\ review = [entry |-> reviewer[v].entry, verdict |-> reviewer[v].verdict]
                                  /\ review.entry = reviewer[v].entry
  <2>1. PICK d : d = [entry |-> reviewer[v].entry, verdict |-> reviewer[v].verdict]
    OBVIOUS
  <2>2. d \in Decisions /\ d.entry = reviewer[v].entry
    BY <1>1, <2>1 DEF Decisions
  <2>3. QED BY <2>1, <2>2
<1>4. row = [threads[t] EXCEPT !.phase = phase, !.review = review]
  BY <1>2, <1>3
<1>5. /\ row \in ThreadRecords /\ row.phase = phase /\ row.entries = threads[t].entries
      /\ row.response = threads[t].response /\ row.review = review
  <2>1. threads[t] \in ThreadRecords
    BY DEF IInv, Types
  <2>2. QED BY <1>4, <2>1 DEF ThreadRecords
<1>6. /\ threads[t].phase = "reply_received_unreviewed" /\ Inbound(threads[t]) # {}
      /\ Exists(t) /\ reviewer[v].entry \in threads[t].entries
  BY DEF Reviewable, Exists, Inbound
<1>7. phase \notin {"none", "reply_received_unreviewed"}
  BY <1>2 DEF Reviewed
<1>8. GoodWrite(t, row)
  BY <1>3, <1>5, <1>6, <1>7, Edited DEF Out
<1>9. QED BY <1>3, <1>5, <1>7, <1>8

LEMMA ReviewReplyStep == ASSUME IInv, NEW v \in Reviewers, ReviewReply(v) PROVE IInv'
<1>1. PICK t \in Slots : t = reviewer[v].slot /\ reviewer[v].at = "apply"
  BY JudgeFields DEF ReviewReply
<1>2. /\ UNCHANGED <<stored, outbox, accepted, mailbox, actor, answered, jobs>>
      /\ jobs' \subseteq Slots \X Entries
  BY DEF ReviewReply, world, IInv, Types
<1>3. CASE Reviewable(threads[t], reviewer[v].entry)
  <2>1. PICK row : row = [threads[t] EXCEPT
                            !.phase = Outcomes[reviewer[v].verdict],
                            !.review = [entry |-> reviewer[v].entry, verdict |-> reviewer[v].verdict]]
    OBVIOUS
  <2>2. Write(t, row) /\ reviewer' = [reviewer EXCEPT ![v].at = "remove"]
    BY <1>1, <1>3, <2>1 DEF ReviewReply
  <2>3. GoodWrite(t, row) /\ row \in ThreadRecords
    BY <1>1, <1>3, <2>1, ReviewedOK
  <2>4. reviewer' \in [Reviewers -> JudgeRecords]
    <3>1. /\ reviewer[v].slot \in Slots /\ reviewer[v].entry \in Entries /\ reviewer[v].verdict \in DOMAIN Outcomes
          /\ reviewer[v] = [at |-> reviewer[v].at, slot |-> reviewer[v].slot, entry |-> reviewer[v].entry,
                            verdict |-> reviewer[v].verdict]
      BY <1>1, JudgeFields
    <3>2. PICK after : after = [reviewer[v] EXCEPT !.at = "remove"]
      OBVIOUS
    <3>3. after = [at |-> "remove", slot |-> reviewer[v].slot, entry |-> reviewer[v].entry,
                   verdict |-> reviewer[v].verdict]
      BY <3>1, <3>2
    <3>4. after \in JudgeRecords
      BY <3>1, <3>3 DEF JudgeRecords
    <3>5. reviewer' = [reviewer EXCEPT ![v] = after]
      BY <2>2, <3>2 DEF IInv, Types
    <3>6. QED BY <3>4, <3>5 DEF IInv, Types
  <2>5. QED BY <1>2, <2>2, <2>3, <2>4, Judged
<1>4. CASE ~Reviewable(threads[t], reviewer[v].entry)
  <2>1. UNCHANGED threads /\ reviewer' = [reviewer EXCEPT ![v] = NoJudge] /\ fresh' = fresh \ {v}
    BY <1>1, <1>4 DEF ReviewReply, Leaves
  <2>2. fresh' \subseteq Reviewers
    BY <2>1 DEF IInv, Types
  <2>3. QED BY <1>2, <2>1, <2>2, LeavesOK, Judged
<1>5. QED BY <1>3, <1>4

LEMMA RemoveJobStep == ASSUME IInv, NEW v \in Reviewers, RemoveJob(v) PROVE IInv'
<1>1. /\ UNCHANGED <<threads, stored, outbox, accepted, mailbox, actor, answered>>
      /\ jobs' \subseteq jobs /\ reviewer' = [reviewer EXCEPT ![v] = NoJudge] /\ fresh' = fresh \ {v}
  BY DEF RemoveJob, Leaves, world
<1>2. jobs' \subseteq Slots \X Entries /\ fresh' \subseteq Reviewers
  BY <1>1 DEF IInv, Types
<1>3. QED BY <1>1, <1>2, LeavesOK, Judged

Responses == FinalResponses \cup {"registration_number_received"}

\* The row that a response writes.
LEMMA RespondedOK ==
  ASSUME IInv, NEW t \in Platform, NEW r \in Responses,
         threads[t].phase \notin {"none", "failed", "sending"},
         NEW row, row = [threads[t] EXCEPT !.response = r,
                                           !.phase = IF r \in FinalResponses THEN FinalPhase[r] ELSE @]
  PROVE  /\ GoodWrite(t, row) /\ row \in ThreadRecords /\ t \in Slots /\ row.review = threads[t].review
         /\ row.phase = "reply_received_unreviewed" => threads[t].phase = "reply_received_unreviewed"
<1>1. t \in Slots /\ threads[t] \in ThreadRecords /\ RowOK(threads[t]) /\ Claim(t) /\ Exists(t)
  BY ConstantFacts DEF IInv, Types, ThreadsOK, Claims, Exists
<1>2. PICK phase \in Phases : /\ phase = IF r \in FinalResponses THEN FinalPhase[r] ELSE threads[t].phase
                              /\ phase \in Reviewed \cup {threads[t].phase}
  BY <1>1, OutcomeFacts DEF ThreadRecords, Phases
<1>3. row = [threads[t] EXCEPT !.response = r, !.phase = phase]
  BY <1>1, <1>2 DEF ThreadRecords
<1>4. /\ row \in ThreadRecords /\ row.phase = phase /\ row.entries = threads[t].entries
      /\ row.review = threads[t].review
  BY <1>1, <1>3 DEF ThreadRecords, Responses
<1>5. phase \notin {"none", "failed", "sending"}
  BY <1>2 DEF Reviewed
<1>6. phase \in {"reply_received_unreviewed", "awaiting_reply"} => phase = threads[t].phase
  BY <1>2 DEF Reviewed
<1>7. GoodWrite(t, row)
  BY <1>1, <1>4, <1>5, <1>6, Edited DEF RowOK, Claim
<1>8. QED BY <1>1, <1>4, <1>6, <1>7

LEMMA RespondStep == ASSUME IInv, NEW t \in Platform, NEW r \in Responses, Respond(t, r) PROVE IInv'
<1>1. PICK row : row = [threads[t] EXCEPT !.response = r,
                                          !.phase = IF r \in FinalResponses THEN FinalPhase[r] ELSE @]
  OBVIOUS
<1>2. Write(t, row) /\ threads[t].phase \notin {"none", "failed", "sending"}
  BY <1>1 DEF Respond
<1>3. GoodWrite(t, row) /\ row \in ThreadRecords /\ t \in Slots
  BY <1>1, <1>2, RespondedOK
<1>4. /\ UNCHANGED <<stored, outbox, accepted, mailbox, actor, answered>>
      /\ reviewer' \in [Reviewers -> JudgeRecords] /\ jobs' \subseteq Slots \X Entries
  BY DEF Respond, world, IInv, Types
<1>5. QED BY <1>2, <1>3, <1>4, Judged

---------------------------------------------------------------------------
(* The invariant holds initially and every step keeps it. *)
LEMMA IInvInit == Init => IInv
<1>1. SUFFICES ASSUME Init PROVE IInv
  OBVIOUS
<1>2. PICK open \in {{}, {1}} :
        /\ threads = [t \in Slots |-> IF t \in open THEN Confirmed ELSE NoThread]
        /\ stored = [e \in Events |-> IF e \in {Sent(t) : t \in open} THEN "stored" ELSE "none"]
        /\ outbox = {News(t, "thread_started", None) : t \in open}
        /\ accepted = open /\ answered = {Sent(t) : t \in open}
  BY <1>1, WorkloadsAssumption DEF Init
<1>3. /\ jobs = {} /\ fresh = {} /\ actor = [a \in Actors |-> Idle]
      /\ reviewer = [v \in Reviewers |-> NoJudge] /\ mailbox = [m \in Mails |-> None]
  BY <1>1 DEF Init, Mails
<1>4. open \subseteq Platform /\ 1 \in Platform /\ \A t \in Platform : 1 <= t /\ t \in Slots /\ t \in Nat
  BY ConstantFacts DEF Platform
<1>5. /\ Confirmed \in ThreadRecords /\ Confirmed.phase = "awaiting_reply" /\ Confirmed.entries = {SentEntry}
      /\ RowOK(Confirmed)
  <2>1. /\ Confirmed \in ThreadRecords /\ Confirmed.phase = "awaiting_reply" /\ Confirmed.entries = {SentEntry}
        /\ Confirmed.review = None
    BY NoThreadOK, ConstantFacts DEF Confirmed, ThreadRecords, Phases, NoThread
  <2>2. SentEntry[1] = 0
    BY DEF SentEntry, SentMail
  <2>3. QED BY <2>1, <2>2 DEF RowOK
<1>6. NoThread.phase = "none" /\ NoThread.entries = {}
  BY DEF NoThread
<1>7. \A t \in Slots : threads[t] = IF t \in open THEN Confirmed ELSE NoThread
  BY <1>2
<1>8. \A t \in Slots : Exists(t) <=> t \in open
  BY <1>5, <1>6, <1>7 DEF Exists
<1>9. \A t \in open : Sent(t) \in Events /\ News(t, "thread_started", None) \in NewsRecords
  BY <1>4, EventFacts, NewsIsRecord DEF NewsEvents
<1>10. Types
  <2>1. threads \in [Slots -> ThreadRecords]
    BY <1>2, <1>5, NoThreadOK
  <2>2. outbox \subseteq NewsRecords /\ answered \subseteq Events
    BY <1>2, <1>9
  <2>3. stored \in [Events -> {"none", "stored", "matched", "unmatched"}]
    BY <1>2
  <2>4. actor \in [Actors -> ActorRecords] /\ reviewer \in [Reviewers -> JudgeRecords]
    BY <1>3, IdleFine DEF JudgeRecords
  <2>5. QED BY <1>2, <1>3, <1>4, <2>1, <2>2, <2>3, <2>4 DEF Types
<1>11. ThreadsOK
  BY <1>5, <1>7, NoThreadOK DEF ThreadsOK
<1>12. Order
  BY <1>4, <1>8 DEF Order, Succeeds
<1>13. Claims
  <2>1. SUFFICES ASSUME NEW t \in Platform PROVE Claim(t)
    BY DEF Claims
  <2>2. t \in Slots /\ (t \in accepted <=> t \in open) /\ (Exists(t) <=> t \in open)
    BY <1>2, <1>4, <1>8
  <2>3. News(t, "thread_started", None) \in outbox => t \in open
    <3>1. \A u \in open : News(u, "thread_started", None).slot = u
      BY DEF News
    <3>2. News(t, "thread_started", None).slot = t
      BY DEF News
    <3>3. QED BY <1>2, <3>1, <3>2
  <2>4. stored[Sent(t)] # "none" => t \in open
    BY <1>2, <1>4, EventFacts
  <2>5. t \notin open => SentEntry \notin threads[t].entries /\ threads[t].phase = "none"
    BY <1>6, <1>7, <2>2
  <2>6. QED BY <2>2, <2>3, <2>4, <2>5 DEF Claim, Out
<1>14. ActorsOK
  BY <1>3, IdleFine DEF ActorsOK
<1>15. MailsOK
  BY <1>3 DEF MailsOK
<1>16. QED BY <1>10, <1>11, <1>12, <1>13, <1>14, <1>15 DEF IInv

LEMMA IInvStutters == IInv /\ UNCHANGED vars => IInv'
<1>1. SUFFICES ASSUME IInv, UNCHANGED vars PROVE IInv'
  OBVIOUS
<1>2. UNCHANGED <<threads, stored, outbox, jobs, actor, reviewer, fresh, accepted, mailbox, answered>>
  BY <1>1 DEF vars, tables, world
<1>3. /\ reviewer' \in [Reviewers -> JudgeRecords] /\ fresh' \subseteq Reviewers
      /\ jobs' \subseteq Slots \X Entries
  BY <1>1, <1>2 DEF IInv, Types
<1>4. QED BY <1>1, <1>2, <1>3, Judged

LEMMA IInvStep == IInv /\ [Next]_vars => IInv'
<1>1. SUFFICES ASSUME IInv, [Next]_vars PROVE IInv'
  OBVIOUS
<1>2. ASSUME NEW a \in Actors, Reconciles(a) PROVE IInv'
  BY <1>1, <1>2, ReconcileStep, AnnounceStartStep, MarkAnnouncedStep DEF Reconciles
<1>3. ASSUME NEW q \in Requesters, Request(q) \/ Requests(q) PROVE IInv'
  <2>1. CASE Reconciles(q)
    BY <1>2, <2>1 DEF Actors
  <2>2. CASE Request(q) \/ Subscriber(q)
    BY <1>1, <2>2, RequestStep, ReadNewsStep, InformStep, FindActiveStep, CreateThreadStep, CallProviderStep,
       FailThreadStep, AlertFailureStep DEF Subscriber
  <2>3. QED BY <1>3, <2>1, <2>2 DEF Requests
<1>4. ASSUME NEW h \in Handlers, Handles(h) \/ \E e \in Events : Receive(h, e) PROVE IInv'
  <2>1. CASE Reconciles(h)
    BY <1>2, <2>1 DEF Actors
  <2>2. CASE \E e \in Events : Receive(h, e)
    BY <1>1, <2>2, ReceiveStep
  <2>3. CASE MatchReply(h) \/ MatchCapture(h) \/ CreateSelfSend(h) \/ Append(h) \/ ApproveRecord(h)
               \/ StoreMatch(h) \/ QueueReview(h) \/ Tell(h)
    BY <1>1, <2>3, MatchReplyStep, MatchCaptureStep, CreateSelfSendStep, AppendStep, ApproveRecordStep,
       StoreMatchStep, QueueReviewStep, TellStep
  <2>4. QED BY <1>4, <2>1, <2>2, <2>3 DEF Handles
<1>5. CASE Recovers
  BY <1>1, <1>2, <1>5, RecoveryIsActor, StartRecoveryStep, RecoverThreadStep, ReadMissingNewsStep, RepublishStep
    DEF Recovers
<1>6. CASE \E a \in Actors : Fails(a)
  BY <1>1, <1>6, FailsStep
<1>7. CASE \E m \in Replies \cup Captures : UserSends(m) \/ InstitutionReplies(m)
  BY <1>1, <1>7, UserSendsStep, InstitutionRepliesStep DEF Mails
<1>8. CASE ScanPending
  BY <1>1, <1>8, ScanPendingStep
<1>9. CASE \E job \in jobs : RemoveSettled(job) \/ \E v \in Reviewers : Export(v, job)
  BY <1>1, <1>9, RemoveSettledStep, ExportStep
<1>10. CASE \E v \in Reviewers : Reviews(v)
  BY <1>1, <1>10, ClassifyStep, ReviewReplyStep, RemoveJobStep DEF Reviews
<1>11. CASE \E t \in Platform, r \in FinalResponses \cup {"registration_number_received"} : Respond(t, r)
  BY <1>1, <1>11, RespondStep DEF Responses
<1>12. CASE UNCHANGED vars
  BY <1>1, <1>12, IInvStutters
<1>13. QED BY <1>1, <1>3, <1>4, <1>5, <1>6, <1>7, <1>8, <1>9, <1>10, <1>11, <1>12 DEF Next

\* The invariant of the correspondence: what claims that a mail went out, in a thread, in
\* the outbox or in the hands of an actor, was there after the provider accepted it.
THEOREM CorrespondenceInvariant == Spec => []IInv
<1>1. Init => IInv
  BY IInvInit
<1>2. IInv /\ [Next]_vars => IInv'
  BY IInvStep
<1>3. QED BY <1>1, <1>2, PTL DEF Spec

---------------------------------------------------------------------------
(* The state properties. *)
\* Every variable has its type; a handler that is to write a thread finds it.
THEOREM TypesAlways == Spec => []TypeOK
<1>1. IInv => TypeOK
  <2>1. SUFFICES ASSUME IInv PROVE TypeOK
    OBVIOUS
  <2>2. /\ threads \in [Slots -> [phase : Phases, entries : SUBSET Entries, marked : BOOLEAN,
                                  review : {None} \cup [entry : Entries, verdict : DOMAIN Outcomes],
                                  response : {None, "registration_number_received"} \cup FinalResponses]]
        /\ stored \in [Events -> {"none", "stored", "matched", "unmatched"}]
    BY <2>1 DEF IInv, Types, ThreadRecords, Decisions
  <2>3. \A n \in outbox : n.slot \in Slots /\ n.entry \in Entries \cup {None}
    BY <2>1 DEF IInv, Types, NewsRecords
  <2>4. \A a \in Actors : actor[a].slot \in Slots \cup {None} /\ actor[a].entry \in Entries \cup {None}
    BY <2>1, ActorFields DEF IInv
  <2>5. ASSUME NEW h \in Handlers, actor[h].at \in {"append", "reconcile", "mark"}
        PROVE  Exists(actor[h].slot)
    <3>1. ActorFine(h, actor[h])
      BY <2>1 DEF IInv, ActorsOK, Actors
    <3>2. CASE actor[h].at = "append"
      BY <3>1, <3>2 DEF ActorFine
    <3>3. CASE actor[h].at \in {"reconcile", "mark"}
      BY <2>1, <3>1, <3>3 DEF ActorFine, IInv, Types, Claims, Claim
    <3>4. QED BY <2>5, <3>2, <3>3
  <2>6. jobs \subseteq Slots \X Entries /\ fresh \subseteq Reviewers /\ accepted \subseteq Platform /\ answered \subseteq Events
    BY <2>1 DEF IInv, Types
  <2>7. QED BY <2>2, <2>3, <2>4, <2>5, <2>6 DEF TypeOK
<1>2. QED BY <1>1, CorrespondenceInvariant, PTL

\* The institution never has two requests of the platform, unless the platform took the
\* earlier one to have failed, or the later one after a reply revived the earlier.
THEOREM OneRequestOutAlways == Spec => []OneRequestOut
<1>1. IInv => OneRequestOut
  <2>1. SUFFICES ASSUME IInv, NEW t \in accepted, NEW u \in accepted, t < u
                 PROVE  threads[t].phase = "failed" \/ (threads[u].phase = "failed" /\ Inbound(threads[t]) # {})
    BY DEF OneRequestOut
  <2>2. t \in Platform /\ u \in Platform
    BY <2>1 DEF IInv, Types
  <2>3. Exists(u) /\ Succeeds(t, u)
    BY <2>1, <2>2 DEF IInv, Claims, Claim, Order
  <2>4. QED BY <2>3 DEF Succeeds
<1>2. QED BY <1>1, CorrespondenceInvariant, PTL

\* A thread keeps a mail once, however often its webhook is called.
THEOREM EntriesOnceAlways == Spec => []EntriesOnce
<1>1. IInv => EntriesOnce
  BY DEF IInv, ThreadsOK, RowOK, EntriesOnce
<1>2. QED BY <1>1, CorrespondenceInvariant, PTL

\* Nothing says that a request went out unless the provider accepted its mail or the
\* institution answered it.
THEOREM NoPhantomRequestAlways == Spec => []NoPhantomRequest
<1>1. IInv => NoPhantomRequest
  <2>1. SUFFICES ASSUME IInv, NEW t \in Platform, Inbound(threads[t]) = {},
                        SentEntry \in threads[t].entries \/ threads[t].phase = "awaiting_reply"
                          \/ News(t, "thread_started", None) \in outbox
                 PROVE  t \in accepted
    BY DEF NoPhantomRequest
  <2>2. Claim(t)
    BY <2>1 DEF IInv, Claims
  <2>3. QED BY <2>1, <2>2 DEF Claim, Out
<1>2. QED BY <1>1, CorrespondenceInvariant, PTL

---------------------------------------------------------------------------
(* What a step may not do to a thread. *)
\* Sending, reconciling and filing mails: only a new reply asks for a review.
Filed(t, row) ==
  /\ row.review = threads[t].review /\ row.response = threads[t].response
  /\ row.phase = "reply_received_unreviewed" /\ row.phase # threads[t].phase
       => \E e \in row.entries \ threads[t].entries : e[1] \in Replies

\* A verdict on a reply that had none.
Judges(t, row) ==
  /\ row.phase # "reply_received_unreviewed" /\ row.response = threads[t].response
  /\ threads[t].review # None => row.review.entry # threads[t].review.entry

\* An administrator's response to a thread that is open.
Responds(t, row) ==
  /\ row.review = threads[t].review /\ ~Resolved(threads[t])
  /\ row.phase = "reply_received_unreviewed" => threads[t].phase = "reply_received_unreviewed"

Changed(t) ==
  \/ threads'[t] = threads[t]
  \/ Filed(t, threads'[t]) \/ Judges(t, threads'[t]) \/ (t \in Platform /\ Responds(t, threads'[t]))

\* A step that writes one thread changes that one only.
LEMMA WrittenRow ==
  ASSUME IInv, NEW t \in Slots, NEW row, Write(t, row)
  PROVE  threads'[t] = row /\ \A u \in Slots \ {t} : threads'[u] = threads[u]
BY DEF Write, IInv, Types

LEMMA FilesThread ==
  ASSUME IInv, NEW t \in Slots, NEW row, Write(t, row), Filed(t, row)
  PROVE  \A u \in Slots : Changed(u)
BY WrittenRow DEF Changed

LEMMA CreateThreadChanges ==
  ASSUME IInv, NEW q \in Requesters, CreateThread(q) PROVE \A t \in Slots : Changed(t)
<1>1. CASE Active # {}
  BY <1>1 DEF CreateThread, NoWrite, Changed
<1>2. CASE Active = {}
  <2>1. PICK t \in Platform : /\ t = Cardinality(Existing) + 1
                              /\ Write(t, [NoThread EXCEPT !.phase = "sending"])
    BY <1>2 DEF CreateThread
  <2>2. PICK row : row = [NoThread EXCEPT !.phase = "sending"]
    OBVIOUS
  <2>3. t \in Slots /\ threads[t].phase = "none"
    BY <2>1, NextSlot, ConstantFacts DEF IInv, Exists
  <2>4. threads[t] = NoThread
    BY <2>3 DEF IInv, ThreadsOK, RowOK
  <2>5. Filed(t, row)
    BY <2>2, <2>4 DEF Filed, NoThread
  <2>6. QED BY <2>1, <2>2, <2>3, <2>5, FilesThread
<1>3. QED BY <1>1, <1>2

LEMMA FailThreadChanges ==
  ASSUME IInv, NEW q \in Requesters, FailThread(q) PROVE \A t \in Slots : Changed(t)
<1>1. PICK t \in Slots : t = actor[q].slot
  BY ConstantFacts DEF FailThread, At, Actors, IInv, ActorsOK, ActorFine
<1>2. PICK row : row = [threads[t] EXCEPT !.phase = "failed"]
  OBVIOUS
<1>3. Filed(t, row)
  BY <1>2 DEF Filed, IInv, Types, ThreadRecords
<1>4. QED BY <1>1, <1>2, <1>3, FilesThread DEF FailThread

LEMMA ReconcilesChange ==
  ASSUME IInv, NEW a \in Actors, Reconciles(a) PROVE \A t \in Slots : Changed(t)
<1>1. CASE AnnounceStart(a)
  BY <1>1 DEF AnnounceStart, Changed
<1>2. ASSUME Reconcile(a) \/ MarkAnnounced(a)
      PROVE  actor[a].slot \in Slots /\ threads[actor[a].slot] \in ThreadRecords
  BY <1>2, ConstantFacts DEF Reconcile, MarkAnnounced, At, IInv, Types, ActorsOK, ActorFine
<1>3. CASE Reconcile(a)
  <2>1. PICK t \in Slots : t = actor[a].slot /\ threads[t] \in ThreadRecords
    BY <1>2, <1>3
  <2>2. PICK row : row = Reconciled(threads[t])
    OBVIOUS
  <2>3. Filed(t, row)
    BY <2>1, <2>2 DEF Filed, Reconciled, ThreadRecords
  <2>4. QED BY <1>3, <2>1, <2>2, <2>3, FilesThread DEF Reconcile
<1>4. CASE MarkAnnounced(a)
  <2>1. PICK t \in Slots : t = actor[a].slot /\ threads[t] \in ThreadRecords
    BY <1>2, <1>4
  <2>2. PICK row : row = [threads[t] EXCEPT !.marked = TRUE]
    OBVIOUS
  <2>3. Filed(t, row)
    BY <2>1, <2>2 DEF Filed, ThreadRecords
  <2>4. CASE Write(t, row)
    BY <2>3, <2>4, FilesThread
  <2>5. CASE UNCHANGED threads
    BY <2>5 DEF Changed
  <2>6. QED BY <1>4, <2>1, <2>2, <2>4, <2>5 DEF MarkAnnounced, NoWrite
<1>5. QED BY <1>1, <1>3, <1>4 DEF Reconciles

LEMMA CreateSelfSendChanges ==
  ASSUME IInv, NEW h \in Handlers, CreateSelfSend(h) PROVE \A t \in Slots : Changed(t)
<1>1. CASE Exists(SelfSend)
  BY <1>1 DEF CreateSelfSend, NoWrite, Changed
<1>2. CASE ~Exists(SelfSend)
  <2>1. PICK row : row = [NoThread EXCEPT !.phase = "awaiting_reply", !.entries = {actor[h].entry}]
    OBVIOUS
  <2>2. SelfSend \in Slots /\ threads[SelfSend] = NoThread
    BY <1>2, ConstantFacts DEF Exists, IInv, ThreadsOK, RowOK
  <2>3. Filed(SelfSend, row)
    BY <2>1, <2>2 DEF Filed, NoThread
  <2>4. QED BY <1>2, <2>1, <2>2, <2>3, FilesThread DEF CreateSelfSend
<1>3. QED BY <1>1, <1>2

LEMMA AppendChanges ==
  ASSUME IInv, NEW h \in Handlers, Append(h) PROVE \A t \in Slots : Changed(t)
<1>1. PICK t \in Slots, entry \in MailEntries : t = actor[h].slot /\ entry = actor[h].entry
  BY FiledMail DEF Append, At
<1>2. PICK row : row = Appended(threads[t], entry)
  OBVIOUS
<1>3. CASE UNCHANGED threads
  BY <1>3 DEF Changed
<1>4. CASE row # threads[t] /\ Write(t, row)
  <2>1. threads[t] \in ThreadRecords
    BY DEF IInv, Types
  <2>2. /\ \A e \in threads[t].entries : e[1] # entry[1]
        /\ row = [threads[t] EXCEPT !.entries = threads[t].entries \cup {entry},
                                    !.phase = IF entry[1] \in Replies THEN "reply_received_unreviewed"
                                              ELSE threads[t].phase]
    BY <1>2, <1>4, <2>1 DEF Appended
  <2>3. /\ row.review = threads[t].review /\ row.response = threads[t].response
        /\ row.phase = (IF entry[1] \in Replies THEN "reply_received_unreviewed" ELSE threads[t].phase)
        /\ row.entries = threads[t].entries \cup {entry}
    BY <2>1, <2>2 DEF ThreadRecords
  <2>4. Filed(t, row)
    BY <2>2, <2>3 DEF Filed
  <2>5. QED BY <1>4, <2>4, FilesThread
<1>5. QED BY <1>1, <1>2, <1>3, <1>4 DEF Append, NoWrite

LEMMA ReviewReplyChanges ==
  ASSUME IInv, NEW v \in Reviewers, ReviewReply(v) PROVE \A t \in Slots : Changed(t)
<1>1. PICK t \in Slots : t = reviewer[v].slot /\ reviewer[v].at = "apply"
  BY JudgeFields DEF ReviewReply
<1>2. CASE UNCHANGED threads
  BY <1>2 DEF Changed
<1>3. CASE Reviewable(threads[t], reviewer[v].entry)
  <2>1. PICK row : row = [threads[t] EXCEPT
                            !.phase = Outcomes[reviewer[v].verdict],
                            !.review = [entry |-> reviewer[v].entry, verdict |-> reviewer[v].verdict]]
    OBVIOUS
  <2>2. Write(t, row)
    BY <1>1, <1>3, <2>1 DEF ReviewReply
  <2>3. /\ row.phase # "reply_received_unreviewed" /\ row.response = threads[t].response
        /\ row.review.entry = reviewer[v].entry
    <3>1. threads[t] \in ThreadRecords /\ reviewer[v].verdict \in DOMAIN Outcomes
      BY <1>1, JudgeFields DEF IInv, Types
    <3>2. Outcomes[reviewer[v].verdict] \in Reviewed \cup {"awaiting_reply"}
      BY <3>1, OutcomeFacts
    <3>3. QED BY <2>1, <3>1, <3>2 DEF ThreadRecords, Reviewed
  <2>4. Judges(t, row)
    BY <1>3, <2>3 DEF Judges, Reviewable
  <2>5. QED BY <2>2, <2>4, WrittenRow DEF Changed
<1>4. QED BY <1>1, <1>2, <1>3 DEF ReviewReply

LEMMA RespondChanges ==
  ASSUME IInv, NEW t \in Platform, NEW r \in Responses, Respond(t, r) PROVE \A u \in Slots : Changed(u)
<1>1. PICK row : row = [threads[t] EXCEPT !.response = r,
                                          !.phase = IF r \in FinalResponses THEN FinalPhase[r] ELSE @]
  OBVIOUS
<1>2. Write(t, row) /\ threads[t].phase \notin {"none", "failed", "sending"} /\ ~Resolved(threads[t])
  BY <1>1 DEF Respond
<1>3. Responds(t, row) /\ t \in Slots
  <2>1. /\ t \in Slots /\ row.review = threads[t].review
        /\ row.phase = "reply_received_unreviewed" => threads[t].phase = "reply_received_unreviewed"
    <3>1. t \in Slots /\ threads[t] \in ThreadRecords
      BY ConstantFacts DEF IInv, Types
    <3>2. r \in FinalResponses => FinalPhase[r] \in Reviewed
      BY OutcomeFacts
    <3>3. QED BY <1>1, <3>1, <3>2 DEF ThreadRecords, Reviewed
  <2>2. QED BY <1>2, <2>1 DEF Responds
<1>4. QED BY <1>2, <1>3, WrittenRow DEF Changed

LEMMA ThreadChanges ==
  ASSUME IInv, [Next]_vars PROVE \A t \in Slots : Changed(t)
<1>1. CASE UNCHANGED threads
  BY <1>1 DEF Changed
<1>2. ASSUME NEW a \in Actors, Reconciles(a) PROVE \A t \in Slots : Changed(t)
  BY <1>2, ReconcilesChange
<1>3. ASSUME NEW q \in Requesters, Request(q) \/ Requests(q) PROVE \A t \in Slots : Changed(t)
  <2>1. CASE Reconciles(q)
    BY <1>2, <2>1 DEF Actors
  <2>2. CASE CreateThread(q) \/ FailThread(q)
    BY <2>2, CreateThreadChanges, FailThreadChanges
  <2>3. CASE Request(q) \/ ReadNews(q) \/ Inform(q) \/ FindActive(q) \/ CallProvider(q) \/ AlertFailure(q)
    BY <1>1, <2>3 DEF Request, ReadNews, Inform, FindActive, CallProvider, AlertFailure, tables
  <2>4. QED BY <1>3, <2>1, <2>2, <2>3 DEF Requests, Subscriber
<1>4. ASSUME NEW h \in Handlers, Handles(h) \/ \E e \in Events : Receive(h, e) PROVE \A t \in Slots : Changed(t)
  <2>1. CASE Reconciles(h)
    BY <1>2, <2>1 DEF Actors
  <2>2. CASE CreateSelfSend(h) \/ Append(h)
    BY <2>2, CreateSelfSendChanges, AppendChanges
  <2>3. CASE \E e \in Events : Receive(h, e)
    BY <1>1, <2>3 DEF Receive
  <2>4. CASE MatchReply(h) \/ MatchCapture(h) \/ ApproveRecord(h) \/ StoreMatch(h) \/ QueueReview(h) \/ Tell(h)
    BY <1>1, <2>4 DEF MatchReply, MatchCapture, ApproveRecord, StoreMatch, QueueReview, Tell
  <2>5. QED BY <1>4, <2>1, <2>2, <2>3, <2>4 DEF Handles
<1>5. CASE Recovers
  <2>1. CASE Reconciles(Recovery)
    BY <1>2, <2>1, RecoveryIsActor
  <2>2. CASE StartRecovery \/ RecoverThread \/ ReadMissingNews \/ Republish
    BY <1>1, <2>2 DEF StartRecovery, RecoverThread, ReadMissingNews, Republish, tables
  <2>3. QED BY <1>5, <2>1, <2>2 DEF Recovers
<1>6. CASE \E a \in Actors : Fails(a)
  BY <1>1, <1>6 DEF Fails, tables
<1>7. CASE \E m \in Replies \cup Captures : UserSends(m) \/ InstitutionReplies(m)
  BY <1>1, <1>7 DEF UserSends, InstitutionReplies, tables
<1>8. CASE ScanPending \/ \E job \in jobs : RemoveSettled(job) \/ \E v \in Reviewers : Export(v, job)
  BY <1>1, <1>8 DEF ScanPending, RemoveSettled, Export, tables
<1>9. CASE \E v \in Reviewers : Reviews(v)
  <2>1. PICK v \in Reviewers : Reviews(v)
    BY <1>9
  <2>2. CASE ReviewReply(v)
    BY <2>2, ReviewReplyChanges
  <2>3. CASE RemoveJob(v) \/ \E verdict \in Verdicts : Classify(v, verdict)
    BY <1>1, <2>3 DEF RemoveJob, Classify
  <2>4. QED BY <2>1, <2>2, <2>3 DEF Reviews
<1>10. CASE \E t \in Platform, r \in FinalResponses \cup {"registration_number_received"} : Respond(t, r)
  BY <1>10, RespondChanges DEF Responses
<1>11. CASE UNCHANGED vars
  BY <1>1, <1>11 DEF vars, tables
<1>12. QED BY <1>3, <1>4, <1>5, <1>6, <1>7, <1>8, <1>9, <1>10, <1>11 DEF Next

\* Only a reply that the thread did not have asks for a review: a repeated webhook never
\* reopens a thread that was reviewed or resolved.
THEOREM ReplayNeverReopensAlways == Spec => ReplayNeverReopens
<1>1. IInv /\ [Next]_vars =>
        [\A t \in Slots :
           threads'[t].phase = "reply_received_unreviewed" /\ threads'[t].phase # threads[t].phase
             => \E e \in threads'[t].entries \ threads[t].entries : e[1] \in Replies]_vars
  BY ThreadChanges DEF Changed, Filed, Judges, Responds
<1>2. QED BY <1>1, CorrespondenceInvariant, PTL DEF Spec, ReplayNeverReopens

\* A confirmation or denial is the last response of a thread, also when replies and
\* reviews have moved its phase since.
THEOREM ResolvedIsFinalAlways == Spec => ResolvedIsFinal
<1>1. IInv /\ [Next]_vars =>
        [\A t \in Platform :
           threads[t].response \in FinalResponses => threads'[t].response = threads[t].response]_vars
  <2>1. SUFFICES ASSUME IInv, [Next]_vars, NEW t \in Platform, threads[t].response \in FinalResponses
                 PROVE  threads'[t].response = threads[t].response
    OBVIOUS
  <2>2. Changed(t)
    BY <2>1, ThreadChanges, ConstantFacts
  <2>3. Resolved(threads[t])
    BY <2>1, NoneAssumption DEF Resolved
  <2>4. QED BY <2>2, <2>3 DEF Changed, Filed, Judges, Responds
<1>2. QED BY <1>1, CorrespondenceInvariant, PTL DEF Spec, ResolvedIsFinal

\* No verdict replaces another one on the same reply.
ReviewedOnce ==
  [][\A t \in Slots :
       threads[t].review # None /\ threads'[t].review # threads[t].review
         => threads'[t].review.entry # threads[t].review.entry]_vars

\* However long an administrator's bundle was out, and whatever reached the thread since.
THEOREM ReviewedOnceAlways == Spec => ReviewedOnce
<1>1. IInv /\ [Next]_vars =>
        [\A t \in Slots :
           threads[t].review # None /\ threads'[t].review # threads[t].review
             => threads'[t].review.entry # threads[t].review.entry]_vars
  BY ThreadChanges DEF Changed, Filed, Judges, Responds
<1>2. QED BY <1>1, CorrespondenceInvariant, PTL DEF Spec, ReviewedOnce

---------------------------------------------------------------------------
(* The correspondence implements CorrespondenceLifecycle. *)
LifecycleStep == [Lifecycle!Next]_(Lifecycle!vars)

LEMMA VisibleRow ==
  ASSUME NEW t \in Slots
  PROVE  /\ Visible[t] = ThreadView(threads[t])
         /\ Visible[t].phase = threads[t].phase /\ Visible[t].response = threads[t].response
         /\ Visible[t].mails = MailsOf(threads[t]) /\ Visible[t].judged = LastJudged(threads[t])
         /\ Lifecycle!IsOpen(t) <=> Exists(t)
         /\ Lifecycle!Active(t) <=> threads[t].phase \notin {"none", "failed"}
BY DEF Visible, ThreadView, Lifecycle!IsOpen, Lifecycle!Active, Exists

\* What the lifecycle sees of a step that writes one thread, or none.
LEMMA VisibleWritten ==
  ASSUME IInv, NEW t \in Slots, NEW row, Write(t, row), UNCHANGED accepted
  PROVE  Lifecycle!Becomes(t, ThreadView(row))
<1>1. threads' = [threads EXCEPT ![t] = row] /\ DOMAIN threads = Slots
  BY DEF Write, IInv, Types
<1>2. Visible' = [u \in Slots |-> ThreadView(threads'[u])]
  BY DEF Visible, ThreadView
<1>3. \A u \in Slots : ThreadView(threads'[u]) = IF u = t THEN ThreadView(row) ELSE Visible[u]
  BY <1>1 DEF Visible
<1>4. Visible' = [Visible EXCEPT ![t] = ThreadView(row)]
  BY <1>2, <1>3 DEF Visible
<1>5. QED BY <1>4 DEF Lifecycle!Becomes

LEMMA VisibleKept ==
  ASSUME UNCHANGED threads
  PROVE  UNCHANGED Visible
BY DEF Visible, ThreadView

LEMMA LifecycleStutters ==
  ASSUME UNCHANGED <<threads, accepted>>
  PROVE  LifecycleStep
BY VisibleKept DEF LifecycleStep, Lifecycle!vars

LEMMA LifecycleThreads == Lifecycle!Threads = Slots
BY DEF Lifecycle!Threads, Slots

LEMMA CreateThreadImplements == ASSUME IInv, NEW q \in Requesters, CreateThread(q) PROVE LifecycleStep
<1>1. CASE Active # {}
  BY <1>1, LifecycleStutters DEF CreateThread, NoWrite
<1>2. CASE Active = {}
  <2>1. PICK t \in Platform : /\ t = Cardinality(Existing) + 1
                              /\ Write(t, [NoThread EXCEPT !.phase = "sending"])
    BY <1>2 DEF CreateThread
  <2>2. t \in Slots /\ \A u \in Platform : u < t <=> Exists(u)
    BY <2>1, NextSlot, ConstantFacts DEF IInv
  <2>3. PICK row : row = [NoThread EXCEPT !.phase = "sending"]
    OBVIOUS
  <2>4. ThreadView(row) = [Lifecycle!Unopened EXCEPT !.phase = "sending"]
    <3>1. row = [phase |-> "sending", entries |-> {}, marked |-> FALSE, review |-> None, response |-> None]
      BY <2>3 DEF NoThread
    <3>2. MailsOf(row) = {} /\ LastJudged(row) = None /\ row.phase = "sending" /\ row.response = None
      BY <3>1 DEF MailsOf, LastJudged
    <3>3. QED BY <3>2 DEF ThreadView, Lifecycle!Unopened
  <2>5. \A u \in Platform : ~Lifecycle!Active(u) /\ (Lifecycle!IsOpen(u) <=> u < t)
    BY <1>2, <2>2, VisibleRow, ConstantFacts DEF Active
  <2>6. Lifecycle!Becomes(t, ThreadView(row))
    BY <2>1, <2>2, <2>3, VisibleWritten DEF CreateThread
  <2>7. Lifecycle!OpenRequest(t)
    BY <2>4, <2>5, <2>6 DEF Lifecycle!OpenRequest
  <2>8. QED BY <2>1, <2>7 DEF LifecycleStep, Lifecycle!Next
<1>3. QED BY <1>1, <1>2

LEMMA CallProviderImplements == ASSUME IInv, NEW q \in Requesters, CallProvider(q) PROVE LifecycleStep
<1>1. PICK t \in Platform : t = actor[q].slot /\ Exists(t) /\ t \in Slots
  BY ConstantFacts DEF CallProvider, At, Actors, IInv, ActorsOK, ActorFine
<1>2. UNCHANGED threads
  BY DEF CallProvider, tables
<1>3. CASE UNCHANGED accepted
  BY <1>2, <1>3, LifecycleStutters
<1>4. CASE accepted' = accepted \cup {t}
  <2>1. Lifecycle!Accept(t)
    BY <1>1, <1>2, <1>4, VisibleRow, VisibleKept DEF Lifecycle!Accept
  <2>2. QED BY <2>1 DEF LifecycleStep, Lifecycle!Next
<1>5. QED BY <1>1, <1>3, <1>4 DEF CallProvider

LEMMA FailThreadImplements == ASSUME IInv, NEW q \in Requesters, FailThread(q) PROVE LifecycleStep
<1>1. PICK t \in Platform : t = actor[q].slot /\ Exists(t) /\ t \in Slots
  BY ConstantFacts DEF FailThread, At, Actors, IInv, ActorsOK, ActorFine
<1>2. PICK row : row = [threads[t] EXCEPT !.phase = "failed"]
  OBVIOUS
<1>3. ThreadView(row) = [Visible[t] EXCEPT !.phase = "failed"]
  <2>1. threads[t] \in ThreadRecords
    BY <1>1 DEF IInv, Types
  <2>2. /\ row.phase = "failed" /\ row.entries = threads[t].entries /\ row.review = threads[t].review
        /\ row.response = threads[t].response
    BY <1>2, <2>1 DEF ThreadRecords
  <2>3. MailsOf(row) = MailsOf(threads[t]) /\ LastJudged(row) = LastJudged(threads[t])
    BY <2>2 DEF MailsOf, LastJudged
  <2>4. Visible[t] = ThreadView(threads[t])
    BY <1>1, VisibleRow
  <2>5. QED BY <2>2, <2>3, <2>4 DEF ThreadView
<1>4. Lifecycle!Becomes(t, ThreadView(row))
  BY <1>1, <1>2, VisibleWritten DEF FailThread, world
<1>5. Lifecycle!GiveUp(t)
  BY <1>1, <1>3, <1>4, VisibleRow DEF Lifecycle!GiveUp
<1>6. QED BY <1>5 DEF LifecycleStep, Lifecycle!Next

LEMMA ReconcilesImplement == ASSUME IInv, NEW a \in Actors, Reconciles(a) PROVE LifecycleStep
<1>1. CASE AnnounceStart(a)
  BY <1>1, LifecycleStutters DEF AnnounceStart
<1>2. ASSUME Reconcile(a) \/ MarkAnnounced(a)
      PROVE  /\ actor[a].slot \in Platform /\ actor[a].slot \in Slots /\ actor[a].slot \in accepted
             /\ UNCHANGED accepted /\ threads[actor[a].slot] \in ThreadRecords
  BY <1>2, ConstantFacts DEF Reconcile, MarkAnnounced, At, IInv, Types, ActorsOK, ActorFine
<1>3. CASE Reconcile(a)
  <2>1. PICK t \in Platform : /\ t = actor[a].slot /\ t \in Slots /\ t \in accepted
                              /\ threads[t] \in ThreadRecords
    BY <1>2, <1>3
  <2>2. PICK row : row = Reconciled(threads[t])
    OBVIOUS
  <2>3. /\ row.phase = (IF threads[t].phase = "sending" THEN "awaiting_reply" ELSE threads[t].phase)
        /\ row.entries = threads[t].entries \cup {SentEntry} /\ row.review = threads[t].review
        /\ row.response = threads[t].response
    BY <2>1, <2>2 DEF Reconciled, ThreadRecords
  <2>4. MailsOf(row) = MailsOf(threads[t]) \cup {SentMail} /\ LastJudged(row) = LastJudged(threads[t])
    <3>1. SentEntry[1] = SentMail
      BY DEF SentEntry
    <3>2. QED BY <2>3, <3>1 DEF MailsOf, LastJudged
  <2>5. ThreadView(row) = [Visible[t] EXCEPT
                             !.mails = @ \cup {SentMail},
                             !.phase = IF @ = "sending" THEN "awaiting_reply" ELSE @]
    <3>1. Visible[t].mails = MailsOf(threads[t]) /\ Visible[t].phase = threads[t].phase
      BY <2>1, VisibleRow
    <3>2. PICK mails, phase : /\ mails = Visible[t].mails \cup {SentMail}
                              /\ phase = IF Visible[t].phase = "sending" THEN "awaiting_reply"
                                         ELSE Visible[t].phase
      OBVIOUS
    <3>3. MailsOf(row) = mails /\ row.phase = phase
      BY <2>3, <2>4, <3>1, <3>2
    <3>4. ThreadView(row) = [Visible[t] EXCEPT !.mails = mails, !.phase = phase]
      <4>1. PICK between : between = [Visible[t] EXCEPT !.mails = mails]
        OBVIOUS
      <4>2. Visible[t] = ThreadView(threads[t])
        BY <2>1, VisibleRow
      <4>3. between = [phase |-> threads[t].phase, mails |-> mails,
                        judged |-> LastJudged(threads[t]), response |-> threads[t].response]
        BY <4>1, <4>2 DEF ThreadView
      <4>4. ThreadView(row) = [between EXCEPT !.phase = phase]
        BY <2>3, <2>4, <3>3, <4>3 DEF ThreadView
      <4>5. QED BY <4>1, <4>4
    <3>5. QED BY <3>2, <3>4
  <2>6. Lifecycle!Becomes(t, ThreadView(row))
    BY <1>2, <1>3, <2>1, <2>2, VisibleWritten DEF Reconcile
  <2>7. Lifecycle!Confirm(t)
    BY <2>1, <2>5, <2>6 DEF Lifecycle!Confirm
  <2>8. QED BY <2>7 DEF LifecycleStep, Lifecycle!Next
<1>4. CASE MarkAnnounced(a)
  <2>1. PICK t \in Slots : t = actor[a].slot /\ threads[t] \in ThreadRecords
    BY <1>2, <1>4
  <2>2. PICK row : row = [threads[t] EXCEPT !.marked = TRUE]
    OBVIOUS
  <2>3. CASE UNCHANGED threads
    BY <1>2, <1>4, <2>3, LifecycleStutters
  <2>4. CASE Write(t, row)
    <3>1. ThreadView(row) = Visible[t]
      BY <2>1, <2>2, VisibleRow DEF ThreadView, MailsOf, LastJudged, ThreadRecords
    <3>2. Lifecycle!Becomes(t, Visible[t])
      BY <1>2, <1>4, <2>1, <2>4, <3>1, VisibleWritten
    <3>3. UNCHANGED <<Visible, accepted>>
      BY <3>2 DEF Lifecycle!Becomes, Visible
    <3>4. QED BY <3>3 DEF LifecycleStep, Lifecycle!vars
  <2>5. QED BY <1>4, <2>1, <2>2, <2>3, <2>4 DEF MarkAnnounced, NoWrite
<1>5. QED BY <1>1, <1>3, <1>4 DEF Reconciles

LEMMA CreateSelfSendImplements == ASSUME IInv, NEW h \in Handlers, CreateSelfSend(h) PROVE LifecycleStep
<1>1. UNCHANGED accepted
  BY DEF CreateSelfSend, world
<1>2. CASE Exists(SelfSend)
  BY <1>1, <1>2, LifecycleStutters DEF CreateSelfSend, NoWrite
<1>3. CASE ~Exists(SelfSend)
  <2>1. PICK entry \in MailEntries : entry = actor[h].entry /\ entry[1] \in Captures
    <3>1. actor[h].entry \in MailEntries /\ actor[h].entry[1] \notin Replies
      BY FiledMail DEF CreateSelfSend, At, IInv, ActorsOK, ActorFine
    <3>2. QED BY <3>1, ConstantFacts DEF Mails
  <2>2. PICK row : row = [NoThread EXCEPT !.phase = "awaiting_reply", !.entries = {entry}]
    OBVIOUS
  <2>3. SelfSend \in Slots /\ threads[SelfSend] = NoThread
    BY <1>3, ConstantFacts DEF Exists, IInv, ThreadsOK, RowOK
  <2>4. /\ row.phase = "awaiting_reply" /\ row.entries = {entry} /\ row.review = None /\ row.response = None
        /\ NoThread.phase = "none" /\ NoThread.entries = {} /\ NoThread.review = None /\ NoThread.response = None
    BY <2>2 DEF NoThread
  <2>5. ThreadView(row) = [Visible[SelfSend] EXCEPT
                             !.mails = @ \cup {entry[1]},
                             !.phase = IF @ = "none" THEN "awaiting_reply" ELSE @]
    <3>1. MailsOf(row) = MailsOf(NoThread) \cup {entry[1]} /\ LastJudged(row) = LastJudged(NoThread)
      BY <2>4 DEF MailsOf, LastJudged
    <3>2. Visible[SelfSend].mails = MailsOf(NoThread) /\ Visible[SelfSend].phase = "none"
      BY <2>3, <2>4, VisibleRow
    <3>3. PICK mails, phase : /\ mails = Visible[SelfSend].mails \cup {entry[1]}
                              /\ phase = IF Visible[SelfSend].phase = "none" THEN "awaiting_reply"
                                         ELSE Visible[SelfSend].phase
      OBVIOUS
    <3>4. MailsOf(row) = mails /\ row.phase = phase
      BY <2>4, <3>1, <3>2, <3>3
    <3>5. ThreadView(row) = [Visible[SelfSend] EXCEPT !.mails = mails, !.phase = phase]
      <4>1. PICK between : between = [Visible[SelfSend] EXCEPT !.mails = mails]
        OBVIOUS
      <4>2. Visible[SelfSend] = ThreadView(threads[SelfSend])
        BY <2>3, VisibleRow
      <4>3. between = [phase |-> threads[SelfSend].phase, mails |-> mails,
                        judged |-> LastJudged(threads[SelfSend]), response |-> threads[SelfSend].response]
        BY <4>1, <4>2 DEF ThreadView
      <4>4. ThreadView(row) = [between EXCEPT !.phase = phase]
        BY <2>3, <2>4, <3>1, <3>4, <4>3 DEF ThreadView
      <4>5. QED BY <4>1, <4>4
    <3>6. QED BY <3>3, <3>5
  <2>6. Lifecycle!Becomes(SelfSend, ThreadView(row))
    BY <1>1, <1>3, <2>1, <2>2, <2>3, VisibleWritten DEF CreateSelfSend
  <2>7. entry[1] \notin Visible[SelfSend].mails
    BY <2>3, <2>4, VisibleRow DEF MailsOf
  <2>8. Lifecycle!KeepCopy(entry[1])
    BY <2>5, <2>6, <2>7 DEF Lifecycle!KeepCopy
  <2>9. QED BY <2>1, <2>8 DEF LifecycleStep, Lifecycle!Next
<1>4. QED BY <1>2, <1>3

LEMMA AppendImplements == ASSUME IInv, NEW h \in Handlers, Append(h) PROVE LifecycleStep
<1>1. PICK t \in Slots, entry \in MailEntries :
        /\ t = actor[h].slot /\ entry = actor[h].entry /\ Exists(t)
        /\ entry[1] \in Replies \/ (entry[1] \in Captures /\ t = SelfSend)
  <2>1. /\ actor[h].slot \in Slots /\ actor[h].entry \in MailEntries /\ Exists(actor[h].slot)
        /\ actor[h].slot = SelfSend \/ actor[h].entry[1] \in Replies
    BY FiledMail DEF Append, At, IInv, ActorsOK, ActorFine
  <2>2. QED BY <2>1, ConstantFacts DEF Mails
<1>2. PICK row : row = Appended(threads[t], entry)
  OBVIOUS
<1>3. UNCHANGED accepted
  BY DEF Append, world
<1>4. CASE UNCHANGED threads
  BY <1>3, <1>4, LifecycleStutters
<1>5. CASE row # threads[t] /\ ~Violates(t, row) /\ Write(t, row)
  <2>1. threads[t] \in ThreadRecords
    BY DEF IInv, Types
  <2>2. /\ \A e \in threads[t].entries : e[1] # entry[1]
        /\ row = [threads[t] EXCEPT !.entries = threads[t].entries \cup {entry},
                                    !.phase = IF entry[1] \in Replies THEN "reply_received_unreviewed"
                                              ELSE threads[t].phase]
    BY <1>2, <1>5, <2>1 DEF Appended
  <2>3. /\ row.review = threads[t].review /\ row.response = threads[t].response
        /\ row.phase = (IF entry[1] \in Replies THEN "reply_received_unreviewed" ELSE threads[t].phase)
        /\ row.entries = threads[t].entries \cup {entry}
    BY <2>1, <2>2 DEF ThreadRecords
  <2>4. MailsOf(row) = MailsOf(threads[t]) \cup {entry[1]} /\ LastJudged(row) = LastJudged(threads[t])
    BY <2>3 DEF MailsOf, LastJudged
  <2>5. entry[1] \notin Visible[t].mails
    <3>1. Visible[t].mails = MailsOf(threads[t])
      BY VisibleRow
    <3>2. QED BY <2>2, <3>1 DEF MailsOf
  <2>6. Lifecycle!Becomes(t, ThreadView(row)) /\ Visible[t].mails = MailsOf(threads[t])
    BY <1>3, <1>5, VisibleWritten, VisibleRow
  <2>7. CASE entry[1] \in Replies
    <3>1. ThreadView(row) = [Visible[t] EXCEPT !.mails = @ \cup {entry[1]},
                                               !.phase = "reply_received_unreviewed"]
      <4>1. PICK mails : mails = Visible[t].mails \cup {entry[1]}
        OBVIOUS
      <4>2. MailsOf(row) = mails /\ row.phase = "reply_received_unreviewed"
        BY <2>3, <2>4, <2>6, <2>7, <4>1
      <4>3. ThreadView(row) = [Visible[t] EXCEPT !.mails = mails, !.phase = "reply_received_unreviewed"]
        <5>1. PICK between : between = [Visible[t] EXCEPT !.mails = mails]
          OBVIOUS
        <5>2. Visible[t] = ThreadView(threads[t])
          BY VisibleRow
        <5>3. between = [phase |-> threads[t].phase, mails |-> mails,
                          judged |-> LastJudged(threads[t]), response |-> threads[t].response]
          BY <5>1, <5>2 DEF ThreadView
        <5>4. ThreadView(row) = [between EXCEPT !.phase = "reply_received_unreviewed"]
          BY <2>3, <2>4, <4>2, <5>3 DEF ThreadView
        <5>5. QED BY <5>1, <5>4
      <4>4. QED BY <4>1, <4>3
    <3>2. t \in Platform => \A u \in Platform \ {t} : ~Lifecycle!Active(u)
      BY <1>5, <2>3, <2>7, VisibleRow, ConstantFacts DEF Violates, Active
    <3>3. Lifecycle!KeepReply(t, entry[1])
      BY <1>1, <2>5, <2>6, <3>1, <3>2, VisibleRow DEF Lifecycle!KeepReply
    <3>4. QED BY <2>7, <3>3, LifecycleThreads DEF LifecycleStep, Lifecycle!Next
  <2>8. CASE entry[1] \notin Replies
    <3>1. t = SelfSend /\ entry[1] \in Captures /\ Visible[t].phase # "none"
      BY <1>1, <2>8, VisibleRow DEF Exists
    <3>2. ThreadView(row) = [Visible[t] EXCEPT
                               !.mails = @ \cup {entry[1]},
                               !.phase = IF @ = "none" THEN "awaiting_reply" ELSE @]
      <4>1. PICK mails, phase : /\ mails = Visible[t].mails \cup {entry[1]}
                                /\ phase = IF Visible[t].phase = "none" THEN "awaiting_reply"
                                           ELSE Visible[t].phase
        OBVIOUS
      <4>2. MailsOf(row) = mails /\ row.phase = phase
        BY <2>3, <2>4, <2>6, <2>8, <3>1, <4>1, VisibleRow
      <4>3. ThreadView(row) = [Visible[t] EXCEPT !.mails = mails, !.phase = phase]
        <5>1. PICK between : between = [Visible[t] EXCEPT !.mails = mails]
          OBVIOUS
        <5>2. Visible[t] = ThreadView(threads[t])
          BY VisibleRow
        <5>3. between = [phase |-> threads[t].phase, mails |-> mails,
                          judged |-> LastJudged(threads[t]), response |-> threads[t].response]
          BY <5>1, <5>2 DEF ThreadView
        <5>4. ThreadView(row) = [between EXCEPT !.phase = phase]
          BY <2>3, <2>4, <4>2, <5>3 DEF ThreadView
        <5>5. QED BY <5>1, <5>4
      <4>4. QED BY <4>1, <4>3
    <3>3. Lifecycle!KeepCopy(entry[1])
      BY <2>5, <2>6, <3>1, <3>2 DEF Lifecycle!KeepCopy
    <3>4. QED BY <3>1, <3>3 DEF LifecycleStep, Lifecycle!Next
  <2>9. QED BY <2>7, <2>8
<1>6. QED BY <1>1, <1>2, <1>4, <1>5 DEF Append, NoWrite

\* The verdict is on a mail that had none: a thread has one entry of a mail, and the
\* reply judged before is one of them.
LEMMA ReviewReplyImplements == ASSUME IInv, NEW v \in Reviewers, ReviewReply(v) PROVE LifecycleStep
<1>1. PICK t \in Slots : t = reviewer[v].slot /\ reviewer[v].at = "apply"
  BY JudgeFields DEF ReviewReply
<1>2. UNCHANGED accepted
  BY DEF ReviewReply, world
<1>3. CASE UNCHANGED threads
  BY <1>2, <1>3, LifecycleStutters
<1>4. CASE Reviewable(threads[t], reviewer[v].entry)
  <2>1. PICK entry \in Entries, verdict \in DOMAIN Outcomes :
          entry = reviewer[v].entry /\ verdict = reviewer[v].verdict
    BY <1>1, JudgeFields
  <2>2. PICK row : row = [threads[t] EXCEPT !.phase = Outcomes[verdict],
                                            !.review = [entry |-> entry, verdict |-> verdict]]
    OBVIOUS
  <2>3. threads[t] \in ThreadRecords /\ RowOK(threads[t])
    BY DEF IInv, Types, ThreadsOK
  <2>4. /\ row.phase = Outcomes[verdict] /\ row.review = [entry |-> entry, verdict |-> verdict]
        /\ row.entries = threads[t].entries /\ row.response = threads[t].response
    BY <2>2, <2>3 DEF ThreadRecords
  <2>5. /\ threads[t].phase = "reply_received_unreviewed"
        /\ entry \in threads[t].entries /\ entry[1] \in Replies
        /\ threads[t].review = None \/ threads[t].review.entry # entry
    BY <1>4, <2>1 DEF Reviewable, Inbound
  <2>6. Visible[t].judged = None \/ Visible[t].judged.mail # entry[1]
    <3>1. CASE threads[t].review = None
      BY <3>1, VisibleRow DEF LastJudged
    <3>2. CASE threads[t].review # None
      <4>1. threads[t].review.entry \in threads[t].entries
        BY <2>3, <3>2 DEF RowOK
      <4>2. threads[t].review.entry[1] # entry[1]
        BY <2>3, <2>5, <3>2, <4>1 DEF RowOK
      <4>3. Visible[t].judged = LastJudged(threads[t])
        BY VisibleRow
      <4>4. QED BY <3>2, <4>2, <4>3 DEF LastJudged
    <3>3. QED BY <3>1, <3>2
  <2>7. row.review # None
    <3>1. [entry |-> entry, verdict |-> verdict] \in [entry : Entries, verdict : DOMAIN Outcomes]
      OBVIOUS
    <3>2. QED BY <2>4, <3>1, NoneAssumption
  <2>8. ThreadView(row) = [Visible[t] EXCEPT !.phase = Outcomes[verdict],
                                             !.judged = [mail |-> entry[1], verdict |-> verdict]]
    <3>1. LastJudged(row) = [mail |-> entry[1], verdict |-> verdict] /\ MailsOf(row) = MailsOf(threads[t])
      BY <2>4, <2>7 DEF LastJudged, MailsOf
    <3>2. PICK between : between = [Visible[t] EXCEPT !.phase = Outcomes[verdict]]
      OBVIOUS
    <3>3. Visible[t] = ThreadView(threads[t])
      BY VisibleRow
    <3>4. between = [phase |-> Outcomes[verdict], mails |-> MailsOf(threads[t]),
                     judged |-> LastJudged(threads[t]), response |-> threads[t].response]
      BY <3>2, <3>3 DEF ThreadView
    <3>5. ThreadView(row) = [between EXCEPT !.judged = [mail |-> entry[1], verdict |-> verdict]]
      BY <2>4, <3>1, <3>4 DEF ThreadView
    <3>6. QED BY <3>2, <3>5
  <2>9. Lifecycle!Becomes(t, ThreadView(row))
    BY <1>1, <1>2, <1>4, <2>1, <2>2, VisibleWritten DEF ReviewReply
  <2>10. entry[1] \in Visible[t].mails /\ Visible[t].phase = "reply_received_unreviewed"
    BY <2>5, VisibleRow DEF MailsOf
  <2>11. Lifecycle!Judge(t, entry[1], verdict)
    BY <2>6, <2>8, <2>9, <2>10 DEF Lifecycle!Judge
  <2>12. QED BY <2>5, <2>11, LifecycleThreads DEF LifecycleStep, Lifecycle!Next
<1>5. QED BY <1>1, <1>3, <1>4 DEF ReviewReply

LEMMA RespondImplements ==
  ASSUME IInv, NEW t \in Platform, NEW r \in Responses, Respond(t, r) PROVE LifecycleStep
<1>1. PICK row : row = [threads[t] EXCEPT !.response = r,
                                          !.phase = IF r \in FinalResponses THEN FinalPhase[r] ELSE @]
  OBVIOUS
<1>2. /\ Write(t, row) /\ threads[t].phase \notin {"none", "failed", "sending"} /\ ~Resolved(threads[t])
      /\ UNCHANGED accepted
  BY <1>1 DEF Respond, world
<1>3. t \in Slots /\ threads[t] \in ThreadRecords
  BY ConstantFacts DEF IInv, Types
<1>4. \A s : s \in FinalResponses => s # "registration_number_received"
  BY OutcomeFacts
<1>5. /\ row.phase = (IF r = "registration_number_received" THEN threads[t].phase ELSE FinalPhase[r])
      /\ row.response = r /\ row.entries = threads[t].entries /\ row.review = threads[t].review
  BY <1>1, <1>3, <1>4 DEF ThreadRecords, Responses
<1>6. ThreadView(row) = [Visible[t] EXCEPT
                           !.response = r,
                           !.phase = IF r = "registration_number_received" THEN @ ELSE FinalPhase[r]]
  <2>1. MailsOf(row) = MailsOf(threads[t]) /\ LastJudged(row) = LastJudged(threads[t])
    BY <1>5 DEF MailsOf, LastJudged
  <2>2. PICK phase : phase = IF r = "registration_number_received" THEN Visible[t].phase ELSE FinalPhase[r]
    OBVIOUS
  <2>3. row.phase = phase
    BY <1>3, <1>5, <2>2, VisibleRow
  <2>4. ThreadView(row) = [Visible[t] EXCEPT !.response = r, !.phase = phase]
    <3>1. PICK between : between = [Visible[t] EXCEPT !.response = r]
      OBVIOUS
    <3>2. Visible[t] = ThreadView(threads[t])
      BY <1>3, VisibleRow
    <3>3. between = [phase |-> threads[t].phase, mails |-> MailsOf(threads[t]),
                      judged |-> LastJudged(threads[t]), response |-> r]
      BY <3>1, <3>2 DEF ThreadView
    <3>4. ThreadView(row) = [between EXCEPT !.phase = phase]
      BY <1>5, <2>1, <2>3, <3>3 DEF ThreadView
    <3>5. QED BY <3>1, <3>4
  <2>5. QED BY <2>2, <2>4
<1>7. ~Lifecycle!Ended(Visible[t])
  BY <1>2, <1>3, <1>4, VisibleRow DEF Lifecycle!Ended, Resolved, ThreadRecords
<1>8. Lifecycle!Becomes(t, ThreadView(row))
  BY <1>2, <1>3, VisibleWritten
<1>9. Lifecycle!Respond(t, r)
  BY <1>2, <1>3, <1>6, <1>7, <1>8, VisibleRow DEF Lifecycle!Respond
<1>10. r \in DOMAIN FinalPhase \cup {"registration_number_received"}
  BY DEF Responses, FinalResponses
<1>11. QED BY <1>9, <1>10 DEF LifecycleStep, Lifecycle!Next

LEMMA InitImplements == Init => Lifecycle!Init
<1>1. SUFFICES ASSUME Init PROVE Lifecycle!Init
  OBVIOUS
<1>2. PICK open \in {{}, {1}} :
        threads = [t \in Slots |-> IF t \in open THEN Confirmed ELSE NoThread] /\ accepted = open
  BY <1>1, WorkloadsAssumption DEF Init
<1>3. open \in SUBSET {t \in Platform : t = 1}
  BY <1>2, ConstantFacts DEF Platform
<1>4. ThreadView(NoThread) = Lifecycle!Unopened
  <2>1. MailsOf(NoThread) = {} /\ LastJudged(NoThread) = None
    BY DEF NoThread, MailsOf, LastJudged
  <2>2. QED BY <2>1 DEF ThreadView, NoThread, Lifecycle!Unopened
<1>5. ThreadView(Confirmed) = Lifecycle!Answered
  <2>1. /\ Confirmed.phase = "awaiting_reply" /\ Confirmed.entries = {SentEntry}
        /\ Confirmed.review = None /\ Confirmed.response = None
    BY DEF Confirmed, NoThread
  <2>2. MailsOf(Confirmed) = {SentMail}
    BY <2>1 DEF MailsOf, SentEntry
  <2>3. LastJudged(Confirmed) = None
    BY <2>1 DEF LastJudged
  <2>4. QED BY <2>1, <2>2, <2>3 DEF ThreadView, Lifecycle!Answered
<1>6. Visible = [t \in Slots |-> IF t \in open THEN Lifecycle!Answered ELSE Lifecycle!Unopened]
  BY <1>2, <1>4, <1>5 DEF Visible
<1>7. QED BY <1>2, <1>3, <1>6, LifecycleThreads DEF Lifecycle!Init

LEMMA StepImplements == IInv /\ [Next]_vars => LifecycleStep
<1>1. SUFFICES ASSUME IInv, [Next]_vars PROVE LifecycleStep
  OBVIOUS
<1>2. ASSUME NEW a \in Actors, Reconciles(a) PROVE LifecycleStep
  BY <1>1, <1>2, ReconcilesImplement
<1>3. ASSUME NEW q \in Requesters, Request(q) \/ Requests(q) PROVE LifecycleStep
  <2>1. CASE Reconciles(q)
    BY <1>2, <2>1 DEF Actors
  <2>2. CASE CreateThread(q) \/ CallProvider(q) \/ FailThread(q)
    BY <1>1, <2>2, CreateThreadImplements, CallProviderImplements, FailThreadImplements
  <2>3. CASE Request(q) \/ ReadNews(q) \/ Inform(q) \/ FindActive(q) \/ AlertFailure(q)
    BY <2>3, LifecycleStutters DEF Request, ReadNews, Inform, FindActive, AlertFailure, tables, world
  <2>4. QED BY <1>3, <2>1, <2>2, <2>3 DEF Requests, Subscriber
<1>4. ASSUME NEW h \in Handlers, Handles(h) \/ \E e \in Events : Receive(h, e) PROVE LifecycleStep
  <2>1. CASE Reconciles(h)
    BY <1>2, <2>1 DEF Actors
  <2>2. CASE CreateSelfSend(h) \/ Append(h)
    BY <1>1, <2>2, CreateSelfSendImplements, AppendImplements
  <2>3. CASE \E e \in Events : Receive(h, e)
    BY <2>3, LifecycleStutters DEF Receive
  <2>4. CASE MatchReply(h) \/ MatchCapture(h) \/ ApproveRecord(h) \/ StoreMatch(h) \/ QueueReview(h) \/ Tell(h)
    BY <2>4, LifecycleStutters DEF MatchReply, MatchCapture, ApproveRecord, StoreMatch, QueueReview, Tell, world
  <2>5. QED BY <1>4, <2>1, <2>2, <2>3, <2>4 DEF Handles
<1>5. CASE Recovers
  <2>1. CASE Reconciles(Recovery)
    BY <1>2, <2>1, RecoveryIsActor
  <2>2. CASE StartRecovery \/ RecoverThread \/ ReadMissingNews \/ Republish
    BY <2>2, LifecycleStutters DEF StartRecovery, RecoverThread, ReadMissingNews, Republish, tables, world
  <2>3. QED BY <1>5, <2>1, <2>2 DEF Recovers
<1>6. CASE \E a \in Actors : Fails(a)
  BY <1>6, LifecycleStutters DEF Fails, tables, world
<1>7. CASE \E m \in Replies \cup Captures : UserSends(m) \/ InstitutionReplies(m)
  BY <1>7, LifecycleStutters DEF UserSends, InstitutionReplies, tables
<1>8. CASE ScanPending \/ \E job \in jobs : RemoveSettled(job) \/ \E v \in Reviewers : Export(v, job)
  BY <1>8, LifecycleStutters DEF ScanPending, RemoveSettled, Export, tables, world
<1>9. CASE \E v \in Reviewers : Reviews(v)
  <2>1. PICK v \in Reviewers : Reviews(v)
    BY <1>9
  <2>2. CASE ReviewReply(v)
    BY <1>1, <2>2, ReviewReplyImplements
  <2>3. CASE RemoveJob(v) \/ \E verdict \in Verdicts : Classify(v, verdict)
    BY <2>3, LifecycleStutters DEF RemoveJob, Classify, world
  <2>4. QED BY <2>1, <2>2, <2>3 DEF Reviews
<1>10. CASE \E t \in Platform, r \in FinalResponses \cup {"registration_number_received"} : Respond(t, r)
  BY <1>1, <1>10, RespondImplements DEF Responses
<1>11. CASE UNCHANGED vars
  BY <1>11, LifecycleStutters DEF vars, tables, world
<1>12. QED BY <1>1, <1>3, <1>4, <1>5, <1>6, <1>7, <1>8, <1>9, <1>10, <1>11 DEF Next

\* Whatever requests, webhooks, the recovery job and administrators do at the same time, the
\* threads move as CorrespondenceLifecycle says.
THEOREM CorrespondenceImplementsLifecycle == Spec => ThreadsFollowLifecycle
<1>1. IInv /\ [Next]_vars => [Lifecycle!Next]_(Lifecycle!vars)
  BY StepImplements DEF LifecycleStep
<1>2. QED
  BY InitImplements, CorrespondenceInvariant, <1>1, PTL DEF Spec, ThreadsFollowLifecycle, Lifecycle!Spec

=============================================================================
