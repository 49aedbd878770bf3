---------------------- MODULE CorrespondenceLifecycle ----------------------
(***************************************************************************)
(* What the correspondence with one institution promises of its threads    *)
(* and mails, without webhooks, retries, queues, locks or notifications:   *)
(* one active request at a time, confirmed only after the provider         *)
(* accepted it; a mail kept once; every new reply asks for a review, and   *)
(* no verdict replaces the last one on the same reply; and administrators  *)
(* have no response after a final one.                                     *)
(***************************************************************************)
EXTENDS Naturals

CONSTANTS
  Platform,     \* threads of the platform's requests, numbered in their order
  Own,          \* the thread of the user's own mail
  Opening,      \* the platform's mail, of whichever of its threads
  Replies,      \* mails of the institution
  Copies,       \* mails of the user
  OutcomeOf,    \* the phase that each verdict on a reply leads to
  FinalPhase,   \* the phase that each final response of an administrator leads to
  Interim,      \* the response that keeps a thread open
  None

VARIABLES
  thread,       \* phase, mails, last verdict and response of each thread
  accepted      \* threads whose mail the provider accepted

vars == <<thread, accepted>>

Threads == Platform \cup {Own}
Unopened == [phase |-> "none", mails |-> {}, judged |-> None, response |-> None]
Answered == [phase |-> "awaiting_reply", mails |-> {Opening}, judged |-> None, response |-> None]

IsOpen(t) == thread[t].phase # "none"
Active(t) == thread[t].phase \notin {"none", "failed"}
Ended(row) ==
  IF row.response = None THEN row.phase \in {"resolved_positive", "resolved_negative"}
  ELSE row.response # Interim

\* Nothing yet, or requests that were confirmed before.
Init ==
  \E early \in SUBSET {t \in Platform : t = 1} :
    /\ thread = [t \in Threads |-> IF t \in early THEN Answered ELSE Unopened]
    /\ accepted = early

Becomes(t, row) == thread' = [thread EXCEPT ![t] = row] /\ UNCHANGED accepted

\* A request is made when the earlier ones have failed.
OpenRequest(t) ==
  /\ \A u \in Platform : ~Active(u) /\ (IsOpen(u) <=> u < t)
  /\ Becomes(t, [Unopened EXCEPT !.phase = "sending"])

Accept(t) ==
  /\ IsOpen(t)
  /\ accepted' = accepted \cup {t}
  /\ UNCHANGED thread

Confirm(t) ==
  /\ t \in accepted
  /\ Becomes(t, [thread[t] EXCEPT !.mails = @ \cup {Opening},
                                  !.phase = IF @ = "sending" THEN "awaiting_reply" ELSE @])

GiveUp(t) == IsOpen(t) /\ Becomes(t, [thread[t] EXCEPT !.phase = "failed"])

\* The first copy of the user's mail opens its thread, the others are kept in it.
KeepCopy(m) ==
  /\ m \notin thread[Own].mails
  /\ Becomes(Own, [thread[Own] EXCEPT !.mails = @ \cup {m},
                                      !.phase = IF @ = "none" THEN "awaiting_reply" ELSE @])

\* A reply to a request that had failed revives it, unless a later one is active.
KeepReply(t, m) ==
  /\ IsOpen(t) /\ m \notin thread[t].mails
  /\ t \in Platform => \A u \in Platform \ {t} : ~Active(u)
  /\ Becomes(t, [thread[t] EXCEPT !.mails = @ \cup {m}, !.phase = "reply_received_unreviewed"])

Judge(t, m, verdict) ==
  /\ thread[t].phase = "reply_received_unreviewed" /\ m \in thread[t].mails
  /\ thread[t].judged = None \/ thread[t].judged.mail # m
  /\ Becomes(t, [thread[t] EXCEPT !.phase = OutcomeOf[verdict],
                                  !.judged = [mail |-> m, verdict |-> verdict]])

Respond(t, response) ==
  /\ thread[t].phase \notin {"none", "failed", "sending"} /\ ~Ended(thread[t])
  /\ Becomes(t, [thread[t] EXCEPT !.response = response,
                   !.phase = IF response = Interim THEN @ ELSE FinalPhase[response]])

Next ==
  \/ \E t \in Platform : OpenRequest(t) \/ Accept(t) \/ Confirm(t) \/ GiveUp(t)
  \/ \E m \in Copies : KeepCopy(m)
  \/ \E t \in Threads, m \in Replies :
       KeepReply(t, m) \/ \E verdict \in DOMAIN OutcomeOf : Judge(t, m, verdict)
  \/ \E t \in Platform, r \in DOMAIN FinalPhase \cup {Interim} : Respond(t, r)

Spec == Init /\ [][Next]_vars
=============================================================================
