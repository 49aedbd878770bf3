--------------------------- MODULE CampaignPlans ---------------------------
(***************************************************************************)
(* Notifications an administrator sends from a stored plan: a dry run      *)
(* stores the rows to send, sending consumes the plan, executes its rows   *)
(* one by one, and gives the plan back when one failed.  Requests to send  *)
(* overlap, and every new plan deletes those that are consumed or expired. *)
(* All plans are of one administrator and campaign; others are refused.    *)
(***************************************************************************)
EXTENDS FiniteSets, Naturals

CONSTANTS
  Recipients,   \* what a dry run finds: one row each
  Plans,        \* plans made
  Senders,      \* executions of sendCampaignNotificationRunnablePlan
  MaxSends,     \* bound: requests to send
  MaxTrouble    \* bound: failures and crashes

ASSUME PlanBudgetAssumption == MaxSends \in Nat /\ MaxTrouble \in Nat

VARIABLES
  plans,        \* rows of campaignnotificationrunplans: status, expired, the rows to send
  senders,      \* each execution: its plan, the rows left, whether one failed
  queued,       \* recipients that have an outbox row of the campaign's delivery key
  used,         \* requests and troubles so far
  runs,         \* history: how often a plan was given back, a row of it executed; rows turned away
  dropped       \* history: plans whose execution was cut off, or deleted before it ended

planVars == <<plans, senders, queued, used, runs, dropped>>

NoPlan == [status |-> "absent", expired |-> FALSE, rows |-> {}]
NotSending == [at |-> "idle", plan |-> CHOOSE p \in Plans : TRUE, left |-> {}, failed |-> FALSE]

PlanTypeOK ==
  /\ plans \in [Plans -> [status: {"absent", "open", "consumed", "deleted"}, expired: BOOLEAN,
                          rows: SUBSET Recipients]]
  /\ senders \in [Senders -> [at: {"idle", "consume", "execute"}, plan: Plans,
                              left: SUBSET Recipients, failed: BOOLEAN]]
  /\ queued \subseteq Recipients
  /\ used \in [sends: 0..MaxSends, troubles: 0..MaxTrouble]
  /\ runs \in [Plans -> [released: 0..MaxSends, executed: [Recipients -> 0..MaxSends],
                          turnedAway: SUBSET Recipients]]
  /\ dropped \subseteq Plans

PlanInit ==
  /\ plans = [p \in Plans |-> NoPlan]
  /\ senders = [s \in Senders |-> NotSending]
  /\ queued = {} /\ dropped = {}
  /\ used = [sends |-> 0, troubles |-> 0]
  /\ runs = [p \in Plans |-> [released |-> 0, executed |-> [r \in Recipients |-> 0], turnedAway |-> {}]]

-----------------------------------------------------------------------------
PlanOf(s) == senders[s].plan
IsOpen(p) == plans[p].status = "open"
Finish(s) == senders' = [senders EXCEPT ![s] = NotSending]
Trouble == used.troubles < MaxTrouble /\ used' = [used EXCEPT !.troubles = @ + 1]
Executing(p) == {s \in Senders : senders[s].at = "execute" /\ PlanOf(s) = p}

\* A dry run marks as will_send who has no delivery yet; createPlan first
\* deletes every plan that is consumed or has expired.
CreatePlan(p) ==
  LET swept == {q \in Plans : plans[q].status = "consumed" \/ (IsOpen(q) /\ plans[q].expired)}
  IN  /\ plans[p].status = "absent"
      /\ plans' = [q \in Plans |->
                     IF q = p THEN [status |-> "open", expired |-> FALSE, rows |-> Recipients \ queued]
                     ELSE IF q \in swept THEN [plans[q] EXCEPT !.status = "deleted"]
                     ELSE plans[q]]
      /\ dropped' = dropped \cup {q \in swept : Executing(q) # {}}
      /\ UNCHANGED <<senders, queued, used, runs>>

ExpirePlan(p) ==
  /\ IsOpen(p) /\ ~plans[p].expired
  /\ plans' = [plans EXCEPT ![p].expired = TRUE]
  /\ UNCHANGED <<senders, queued, used, runs, dropped>>

\* findPlanById and assertReadableStoredPlan
ReadPlan(s, p) ==
  /\ senders[s].at = "idle" /\ used.sends < MaxSends
  /\ IsOpen(p) /\ ~plans[p].expired
  /\ used' = [used EXCEPT !.sends = @ + 1]
  /\ senders' = [senders EXCEPT ![s] = [at |-> "consume", plan |-> p,
                                        left |-> plans[p].rows, failed |-> FALSE]]
  /\ UNCHANGED <<plans, queued, runs, dropped>>

StillExists(p) == plans[p].status \in {"open", "consumed"} /\ ~plans[p].expired

\* The condition of consumePlan's update.  A plan that expired since it was read
\* still counts as valid: the time compared is that of the reading.
Consumable(p) == IsOpen(p)

ConsumePlan(s) ==
  /\ senders[s].at = "consume"
  /\ IF Consumable(PlanOf(s))
     THEN /\ plans' = [plans EXCEPT ![PlanOf(s)].status = "consumed"]
          /\ senders' = [senders EXCEPT ![s].at = "execute"]
     ELSE Finish(s) /\ UNCHANGED plans
  /\ UNCHANGED <<queued, used, runs, dropped>>

\* executeStoredRow: an outbox row, unless its delivery key has one; a recipient
\* no longer eligible is turned away; or a failure before or after the insert.
ExecuteRow(s, r) ==
  LET executed == [runs EXCEPT ![PlanOf(s)].executed[r] = @ + 1]
      ended(failed) == senders' = [senders EXCEPT ![s].left = @ \ {r}, ![s].failed = failed]
  IN  /\ senders[s].at = "execute" /\ r \in senders[s].left
      /\ \/ /\ runs' = executed /\ ended(senders[s].failed)
            /\ queued' = queued \cup {r} /\ UNCHANGED used
         \/ /\ runs' = [executed EXCEPT ![PlanOf(s)].turnedAway = @ \cup {r}]
            /\ ended(senders[s].failed)
            /\ UNCHANGED <<queued, used>>
         \/ /\ runs' = executed /\ ended(TRUE)
            /\ queued' \in {queued, queued \cup {r}} /\ Trouble
      /\ UNCHANGED <<plans, dropped>>

\* The end of the loop; releasePlan when a row failed.
FinishPlan(s) ==
  LET p == PlanOf(s)
  IN  /\ senders[s].at = "execute" /\ senders[s].left = {}
      /\ IF senders[s].failed /\ plans[p].status = "consumed"
         THEN /\ plans' = [plans EXCEPT ![p].status = "open"]
              /\ runs' = [runs EXCEPT ![p].released = @ + 1]
         ELSE UNCHANGED <<plans, runs>>
      /\ Finish(s)
      /\ UNCHANGED <<queued, used, dropped>>

\* The process stops, a row's execution throws, or releasePlan fails.
SendCutOff(s) ==
  /\ senders[s].at = "execute" /\ Trouble
  /\ dropped' = dropped \cup {PlanOf(s)}
  /\ Finish(s)
  /\ UNCHANGED <<plans, queued, runs>>

PlanNext ==
  \/ \E p \in Plans : CreatePlan(p) \/ ExpirePlan(p)
  \/ \E s \in Senders :
       \/ \E p \in Plans : ReadPlan(s, p)
       \/ \E r \in Recipients : ExecuteRow(s, r)
       \/ ConsumePlan(s) \/ FinishPlan(s) \/ SendCutOff(s)

PlanSpec == PlanInit /\ [][PlanNext]_planVars

-----------------------------------------------------------------------------
(* Properties *)

\* A plan is executed by one request at a time, and again only after a failure
\* gave it back: no row is executed more often than that.  A recipient of the
\* plan is queued or turned away, or the plan can be sent (again) or expired
\* unused, or is being sent, unless its sending was cut off or it was deleted
\* meanwhile.
PlansAreSentOnce ==
  \A p \in Plans :
    /\ Cardinality(Executing(p)) <= 1
    /\ \A r \in plans[p].rows :
         /\ runs[p].executed[r] <= 1 + runs[p].released
         /\ \/ r \in queued \cup runs[p].turnedAway \/ p \in dropped
            \/ IsOpen(p) \/ Executing(p) # {} \/ plans[p].expired
=============================================================================
