--------------------------- MODULE ServicesProofs ---------------------------
(***************************************************************************)
(* Theorems about three services that share only the database: campaign    *)
(* plans, the records the server keeps and short links, for any number of  *)
(* users, plans, servers, requests and failures; and about the six that    *)
(* MCServices puts together.                                               *)
(***************************************************************************)
EXTENDS MCServices, NewsletterDeliveryProofs, SubscriptionsProofs, MapLibraryProofs,
        FiniteSetTheorems, TLAPS

-----------------------------------------------------------------------------
(* Campaign plans                                                            *)

SenderStates == [at: {"idle", "consume", "execute"}, plan: Plans \cup {NotSending.plan},
                 left: SUBSET Recipients, failed: BOOLEAN]

PlanTypes ==
  /\ plans \in [Plans -> [status: {"absent", "open", "consumed", "deleted"}, expired: BOOLEAN,
                          rows: SUBSET Recipients]]
  /\ senders \in [Senders -> SenderStates]
  /\ runs \in [Plans -> [released: Nat, executed: [Recipients -> Nat], turnedAway: SUBSET Recipients]]

\* A plan that nobody made holds nothing.
AbsentPlans ==
  \A p \in Plans :
    plans[p].status = "absent" =>
      plans[p].rows = {} /\ \A r \in Recipients : runs[p].executed[r] = 0

\* What a request has read is still what its plan holds; whoever executes a plan
\* consumed it, is alone, and was recorded when the plan was deleted meanwhile.
SendersHoldPlans ==
  /\ \A s \in Senders :
       /\ senders[s].at # "idle" =>
            PlanOf(s) \in Plans /\ plans[PlanOf(s)].status # "absent"
       /\ senders[s].at = "consume" =>
            senders[s].left = plans[PlanOf(s)].rows /\ ~senders[s].failed
       /\ senders[s].at = "execute" =>
            \/ plans[PlanOf(s)].status = "consumed"
            \/ plans[PlanOf(s)].status = "deleted" /\ PlanOf(s) \in dropped
  /\ \A s, t \in Senders :
       senders[s].at = "execute" /\ senders[t].at = "execute" /\ PlanOf(s) = PlanOf(t) => s = t

\* A row is executed once more than its plan was given back, and not even that
\* while the plan is open, or the row is left to whoever executes the plan.
RowsAreCounted ==
  \A p \in Plans : \A r \in Recipients :
    /\ runs[p].executed[r] <= 1 + runs[p].released
    /\ IsOpen(p) => runs[p].executed[r] <= runs[p].released
    /\ \A s \in Executing(p) : r \in senders[s].left => runs[p].executed[r] <= runs[p].released

\* Where a row of a plan is.
RowsAreCovered ==
  \A p \in Plans : \A r \in plans[p].rows :
    \/ r \in queued \cup runs[p].turnedAway \/ p \in dropped
    \/ IsOpen(p) \/ plans[p].expired
    \/ \E s \in Executing(p) : r \in senders[s].left \/ senders[s].failed

PlanInv == PlanTypes /\ AbsentPlans /\ SendersHoldPlans /\ RowsAreCounted /\ RowsAreCovered

\* An idle execution is of no plan that matters.
LEMMA NotSendingIdles == NotSending \in SenderStates /\ NotSending.at = "idle"
BY DEF NotSending, SenderStates

\* There is no plan at first.
LEMMA PlanInvInit == PlanInit => PlanInv
BY NotSendingIdles
   DEF PlanInit, PlanInv, PlanTypes, AbsentPlans, SendersHoldPlans, RowsAreCounted, RowsAreCovered,
       NoPlan, IsOpen, Executing, PlanOf

\* A new plan deletes consumed and expired ones (createPlan).
LEMMA CreatePlanInv ==
  ASSUME PlanInv, NEW p \in Plans, CreatePlan(p)
  PROVE  PlanInv'
<1>1. PlanTypes' /\ UNCHANGED <<senders, queued, runs>> /\ dropped \subseteq dropped'
  <2>1. UNCHANGED <<senders, queued, runs>> /\ dropped \subseteq dropped'
    BY DEF CreatePlan
  <2>2. plans' \in [Plans -> [status: {"absent", "open", "consumed", "deleted"}, expired: BOOLEAN,
                              rows: SUBSET Recipients]]
    <3> DEFINE states == [status: {"absent", "open", "consumed", "deleted"}, expired: BOOLEAN,
                          rows: SUBSET Recipients]
    <3>1. \A q \in Plans : /\ [plans[q] EXCEPT !.status = "deleted"] \in states /\ plans[q] \in states
                           /\ [status |-> "open", expired |-> FALSE, rows |-> Recipients \ queued] \in states
      BY DEF PlanInv, PlanTypes
    <3> HIDE DEF states
    <3>2. plans' \in [Plans -> states]
      BY <3>1 DEF CreatePlan
    <3>3. QED BY <3>2 DEF states
  <2>3. QED BY <2>1, <2>2 DEF PlanInv, PlanTypes
<1>2. /\ plans[p].status = "absent" /\ plans'[p].status = "open" /\ ~plans'[p].expired
      /\ \A q \in Plans \ {p} :
           /\ plans'[q].rows = plans[q].rows /\ plans'[q].expired = plans[q].expired
           /\ \/ plans'[q].status = plans[q].status
              \/ /\ plans'[q].status = "deleted" /\ plans[q].status # "absent"
                 /\ plans[q].status = "consumed" \/ plans[q].expired
                 /\ Executing(q) = {} \/ q \in dropped'
  BY DEF CreatePlan, PlanInv, PlanTypes, IsOpen
<1>3. AbsentPlans'
  BY <1>1, <1>2 DEF PlanInv, AbsentPlans
<1>4. SendersHoldPlans'
  BY <1>1, <1>2 DEF PlanInv, SendersHoldPlans, Executing, PlanOf
<1>5. RowsAreCounted'
  <2>1. \A q \in Plans : Executing(q)' = Executing(q)
    BY <1>1 DEF Executing, PlanOf
  <2>2. \A r \in Recipients : runs[p].executed[r] = 0 /\ runs[p].released \in Nat
    BY <1>2 DEF PlanInv, PlanTypes, AbsentPlans
  <2>3. QED
    BY <1>1, <1>2, <2>1, <2>2 DEF PlanInv, RowsAreCounted, IsOpen
<1>6. RowsAreCovered'
  BY <1>1, <1>2 DEF PlanInv, RowsAreCovered, Executing, PlanOf, IsOpen
<1>7. QED BY <1>1, <1>3, <1>4, <1>5, <1>6 DEF PlanInv

\* Expiry takes nothing from a plan.
LEMMA ExpirePlanInv ==
  ASSUME PlanInv, NEW p \in Plans, ExpirePlan(p)
  PROVE  PlanInv'
<1>1. PlanTypes' /\ UNCHANGED <<senders, queued, runs, dropped>>
  BY DEF ExpirePlan, PlanInv, PlanTypes
<1>2. \A q \in Plans : /\ plans'[q].rows = plans[q].rows /\ plans'[q].status = plans[q].status
                       /\ plans[q].expired => plans'[q].expired
  BY DEF ExpirePlan, PlanInv, PlanTypes
<1>3. AbsentPlans' /\ SendersHoldPlans' /\ RowsAreCounted'
  BY <1>1, <1>2 DEF PlanInv, AbsentPlans, SendersHoldPlans, RowsAreCounted, Executing, PlanOf, IsOpen
<1>4. RowsAreCovered'
  BY <1>1, <1>2 DEF PlanInv, RowsAreCovered, Executing, PlanOf, IsOpen
<1>5. QED BY <1>1, <1>3, <1>4 DEF PlanInv

\* Reading takes what the plan holds (findPlanById).
LEMMA ReadPlanInv ==
  ASSUME PlanInv, NEW s \in Senders, NEW p \in Plans, ReadPlan(s, p)
  PROVE  PlanInv'
<1>1. /\ senders' = [senders EXCEPT ![s] = [at |-> "consume", plan |-> p,
                                            left |-> plans[p].rows, failed |-> FALSE]]
      /\ senders[s].at = "idle" /\ IsOpen(p) /\ UNCHANGED <<plans, queued, runs, dropped>>
  BY DEF ReadPlan
<1>2. PlanTypes'
  BY <1>1 DEF PlanInv, PlanTypes, SenderStates
<1>3. \A q \in Plans : Executing(q)' = Executing(q)
  BY <1>1 DEF PlanInv, PlanTypes, Executing, PlanOf
<1>4. \A t \in Senders : senders'[t].at = "execute" => senders'[t] = senders[t]
  BY <1>1 DEF PlanInv, PlanTypes
<1>5. SendersHoldPlans'
  BY <1>1 DEF PlanInv, PlanTypes, SendersHoldPlans, PlanOf, IsOpen
<1>6. AbsentPlans' /\ RowsAreCounted' /\ RowsAreCovered'
  BY <1>1, <1>3, <1>4 DEF PlanInv, AbsentPlans, RowsAreCounted, RowsAreCovered, Executing, IsOpen
<1>7. QED BY <1>2, <1>5, <1>6 DEF PlanInv

\* Whoever stops sending leaves the others as they were.
LEMMA FinishFrees ==
  ASSUME PlanTypes, NEW s \in Senders, Finish(s)
  PROVE  /\ senders' \in [Senders -> SenderStates]
         /\ senders'[s].at = "idle" /\ \A t \in Senders \ {s} : senders'[t] = senders[t]
         /\ \A p : Executing(p)' = Executing(p) \ {s}
BY NotSendingIdles DEF Finish, PlanTypes, Executing, PlanOf

\* One request consumes an open plan (consumePlan); others stop.
LEMMA ConsumePlanInv ==
  ASSUME PlanInv, NEW s \in Senders, ConsumePlan(s)
  PROVE  PlanInv'
<1>1. PICK p \in Plans :
      /\ p = PlanOf(s) /\ \A q \in Plans : s \notin Executing(q)
      /\ senders[s].left = plans[p].rows /\ ~senders[s].failed
  BY DEF PlanInv, SendersHoldPlans, ConsumePlan, Executing
<1>2. CASE ~IsOpen(p)
  <2>1. Finish(s) /\ UNCHANGED <<plans, queued, runs, dropped>>
    BY <1>1, <1>2 DEF ConsumePlan, Consumable
  <2>2. PlanTypes' /\ AbsentPlans'
    BY <2>1, FinishFrees DEF PlanInv, PlanTypes, AbsentPlans
  <2>3. SendersHoldPlans'
    BY <2>1, FinishFrees DEF PlanInv, SendersHoldPlans, PlanOf
  <2>4. RowsAreCounted' /\ RowsAreCovered'
    BY <1>1, <2>1, FinishFrees DEF PlanInv, RowsAreCounted, RowsAreCovered, IsOpen, Executing
  <2>5. QED BY <2>2, <2>3, <2>4 DEF PlanInv
<1>3. CASE IsOpen(p)
  <2>1. /\ plans' = [plans EXCEPT ![p].status = "consumed"]
        /\ senders' = [senders EXCEPT ![s].at = "execute"]
        /\ UNCHANGED <<queued, used, runs, dropped>>
    BY <1>1, <1>3 DEF ConsumePlan, Consumable
  <2>2. Executing(p)' = {s}
    BY <1>1, <1>3, <2>1 DEF PlanInv, PlanTypes, SendersHoldPlans, SenderStates, IsOpen, Executing, PlanOf
  <2>8. PlanTypes'
    <3>1. senders' \in [Senders -> SenderStates]
      BY <2>1 DEF PlanInv, PlanTypes, SenderStates
    <3>2. QED BY <2>1, <3>1 DEF PlanInv, PlanTypes
  <2>3. AbsentPlans'
    BY <2>1 DEF PlanInv, PlanTypes, AbsentPlans
  <2>4. SendersHoldPlans'
    <3>1. /\ \A t \in Senders : PlanOf(t)' = PlanOf(t) /\ senders'[t].left = senders[t].left
                              /\ senders'[t].failed = senders[t].failed
                              /\ senders'[t].at = IF t = s THEN "execute" ELSE senders[t].at
          /\ \A q \in Plans : /\ plans'[q].rows = plans[q].rows
                              /\ plans'[q].status = IF q = p THEN "consumed" ELSE plans[q].status
      BY <2>1 DEF PlanInv, PlanTypes, SenderStates, PlanOf
    <3>2. \A t \in Senders : senders[t].at = "execute" => PlanOf(t) # p
      BY <1>3 DEF PlanInv, SendersHoldPlans, IsOpen
    <3>3. QED BY <1>1, <1>3, <2>1, <3>1, <3>2 DEF PlanInv, SendersHoldPlans, PlanOf, IsOpen
  <2>5. RowsAreCounted'
    BY <1>1, <2>1, <2>2, <1>3 DEF PlanInv, PlanTypes, SenderStates, RowsAreCounted, PlanOf, IsOpen, Executing
  <2>6. RowsAreCovered'
    BY <1>1, <2>1, <2>2, <1>3 DEF PlanInv, PlanTypes, SenderStates, RowsAreCovered, PlanOf, IsOpen, Executing
  <2>7. QED BY <2>8, <2>3, <2>4, <2>5, <2>6 DEF PlanInv
<1>4. QED BY <1>2, <1>3

\* A row is executed by whoever consumed its plan (executeStoredRow).
LEMMA ExecuteRowInv ==
  ASSUME PlanInv, NEW s \in Senders, NEW r \in Recipients, ExecuteRow(s, r)
  PROVE  PlanInv'
<1>1. PICK p \in Plans :
      /\ p = PlanOf(s) /\ s \in Executing(p) /\ r \in senders[s].left
      /\ \A t \in Executing(p) : t = s
  BY DEF PlanInv, SendersHoldPlans, ExecuteRow, Executing
<1>2. PICK failed \in BOOLEAN :
        /\ senders' = [senders EXCEPT ![s].left = @ \ {r}, ![s].failed = failed]
        /\ senders[s].failed => failed
        /\ r \in queued' \cup runs'[p].turnedAway \/ failed
  <2>1. senders[s].failed \in BOOLEAN /\ runs[p] \in [released: Nat, executed: [Recipients -> Nat],
                                                      turnedAway: SUBSET Recipients]
    BY <1>1 DEF PlanInv, PlanTypes, SenderStates
  <2>2. \/ /\ senders' = [senders EXCEPT ![s].left = @ \ {r}, ![s].failed = senders[s].failed]
           /\ queued' = queued \cup {r}
        \/ /\ senders' = [senders EXCEPT ![s].left = @ \ {r}, ![s].failed = senders[s].failed]
           /\ runs' = [[runs EXCEPT ![p].executed[r] = @ + 1] EXCEPT ![p].turnedAway = @ \cup {r}]
        \/ senders' = [senders EXCEPT ![s].left = @ \ {r}, ![s].failed = TRUE]
    BY <1>1 DEF ExecuteRow
  <2>3. runs' = [[runs EXCEPT ![p].executed[r] = @ + 1] EXCEPT ![p].turnedAway = @ \cup {r}]
          => r \in runs'[p].turnedAway
    BY <1>1, <2>1 DEF PlanInv, PlanTypes
  <2>4. QED BY <2>1, <2>2, <2>3
<1>3. /\ senders' \in [Senders -> SenderStates]
      /\ senders'[s].left = senders[s].left \ {r} /\ senders'[s].failed = failed
      /\ senders'[s].at = senders[s].at /\ senders'[s].plan = p
      /\ \A t \in Senders \ {s} : senders'[t] = senders[t]
  <2>1. senders \in [Senders -> SenderStates] /\ senders[s].plan = p
    BY <1>1 DEF PlanInv, PlanTypes, PlanOf
  <2>2. QED BY <1>2, <2>1 DEF SenderStates
<1>4. /\ runs' \in [Plans -> [released: Nat, executed: [Recipients -> Nat], turnedAway: SUBSET Recipients]]
      /\ runs'[p].executed[r] = runs[p].executed[r] + 1
      /\ \A q \in Plans : \A i \in Recipients :
           (q # p \/ i # r) => runs'[q].executed[i] = runs[q].executed[i]
      /\ \A q \in Plans : runs'[q].released = runs[q].released /\ runs[q].turnedAway \subseteq runs'[q].turnedAway
  <2> DEFINE counted == [runs EXCEPT ![p].executed[r] = @ + 1]
  <2> USE DEF PlanInv, PlanTypes
  <2>4. /\ counted \in [Plans -> [released: Nat, executed: [Recipients -> Nat], turnedAway: SUBSET Recipients]]
    <3>1. [runs[p].executed EXCEPT ![r] = @ + 1] \in [Recipients -> Nat]
      OBVIOUS
    <3>2. counted = [runs EXCEPT ![p] = [@ EXCEPT !.executed = [runs[p].executed EXCEPT ![r] = @ + 1]]]
      OBVIOUS
    <3> HIDE DEF counted
    <3>3. QED BY <3>1, <3>2
  <2>5. /\ counted[p].executed[r] = runs[p].executed[r] + 1
        /\ \A q \in Plans : \A i \in Recipients :
             (q # p \/ i # r) => counted[q].executed[i] = runs[q].executed[i]
    OBVIOUS
  <2>6. \A q \in Plans : counted[q].released = runs[q].released /\ runs[q].turnedAway = counted[q].turnedAway
    OBVIOUS
  <2> HIDE DEF counted
  <2>1. CASE runs' = counted
    BY <2>1, <2>4, <2>5, <2>6
  <2>2. CASE runs' = [counted EXCEPT ![p].turnedAway = @ \cup {r}]
    <3>1. runs' \in [Plans -> [released: Nat, executed: [Recipients -> Nat], turnedAway: SUBSET Recipients]]
      BY <2>2, <2>4
    <3>2. \A q \in Plans : /\ runs'[q].executed = counted[q].executed
                           /\ runs'[q].released = counted[q].released
                           /\ counted[q].turnedAway \subseteq runs'[q].turnedAway
      BY <2>2, <2>4
    <3>3. \A q \in Plans : runs'[q].released = runs[q].released /\ runs[q].turnedAway \subseteq runs'[q].turnedAway
      BY <2>6, <3>2
    <3>4. runs'[p].executed = counted[p].executed /\ \A q \in Plans : runs'[q].executed = counted[q].executed
      BY <3>2
    <3> HIDE DEF PlanInv, PlanTypes
    <3>5. QED BY <2>5, <3>1, <3>3, <3>4
  <2>3. QED BY <1>1, <2>1, <2>2 DEF ExecuteRow, counted
<1>5. UNCHANGED <<plans, dropped>> /\ queued \subseteq queued'
  BY DEF ExecuteRow
<1>6. \A q \in Plans : Executing(q)' = Executing(q)
  BY <1>1, <1>3 DEF Executing, PlanOf
<1>7. PlanTypes'
  BY <1>3, <1>4, <1>5 DEF PlanInv, PlanTypes
<1>8. AbsentPlans'
  BY <1>1, <1>4, <1>5 DEF PlanInv, AbsentPlans, SendersHoldPlans, Executing
<1>9. SendersHoldPlans'
  BY <1>1, <1>3, <1>5 DEF PlanInv, SendersHoldPlans, Executing, PlanOf
<1>10. RowsAreCounted'
  <2>1. runs[p].executed[r] <= runs[p].released /\ ~IsOpen(p)
    BY <1>1 DEF PlanInv, RowsAreCounted, SendersHoldPlans, IsOpen, Executing
  <2>2. runs'[p].executed[r] <= 1 + runs'[p].released
    BY <2>1, <1>1, <1>4 DEF PlanInv, PlanTypes
  <2>3. \A q \in Plans : \A t \in Executing(q)' : \A i \in senders'[t].left :
          t \in Executing(q) /\ i \in senders[t].left /\ (q # p \/ i # r)
    BY <1>1, <1>3, <1>6 DEF Executing
  <2>4. SUFFICES ASSUME NEW q \in Plans, NEW i \in Recipients
                 PROVE  /\ runs'[q].executed[i] <= 1 + runs'[q].released
                        /\ IsOpen(q) => runs'[q].executed[i] <= runs'[q].released
                        /\ \A t \in Executing(q)' : i \in senders'[t].left =>
                             runs'[q].executed[i] <= runs'[q].released
    BY <1>5 DEF RowsAreCounted, IsOpen
  <2>5. CASE q = p /\ i = r
    BY <2>1, <2>2, <2>3, <2>5
  <2>6. CASE q # p \/ i # r
    BY <1>4, <2>3, <2>6 DEF PlanInv, RowsAreCounted
  <2>7. QED BY <2>5, <2>6
<1>11. RowsAreCovered'
  <2>1. SUFFICES ASSUME NEW q \in Plans, NEW i \in plans[q].rows
                 PROVE  \/ i \in queued' \cup runs'[q].turnedAway \/ q \in dropped
                        \/ IsOpen(q) \/ plans[q].expired
                        \/ \E t \in Executing(q)' : i \in senders'[t].left \/ senders'[t].failed
    BY <1>5 DEF RowsAreCovered, IsOpen
  <2>2. CASE \E t \in Executing(q) : i \in senders[t].left \/ senders[t].failed
    <3>1. PICK t \in Executing(q) : i \in senders[t].left \/ senders[t].failed
      BY <2>2
    <3>2. CASE t = s
      BY <1>1, <1>2, <1>3, <1>6, <3>1, <3>2 DEF Executing
    <3>3. CASE t # s
      BY <1>3, <1>6, <3>1, <3>3 DEF Executing
    <3>4. QED BY <3>2, <3>3
  <2>3. CASE ~ \E t \in Executing(q) : i \in senders[t].left \/ senders[t].failed
    BY <1>4, <1>5, <2>3 DEF PlanInv, RowsAreCovered
  <2>4. QED BY <2>2, <2>3
<1>12. QED BY <1>7, <1>8, <1>9, <1>10, <1>11 DEF PlanInv

\* A plan is given back by its only execution (releasePlan).
LEMMA FinishPlanInv ==
  ASSUME PlanInv, NEW s \in Senders, FinishPlan(s)
  PROVE  PlanInv'
<1> senders[s].at = "execute" /\ senders[s].left = {}
  BY DEF FinishPlan
<1>1. PICK p \in Plans :
      /\ p = PlanOf(s) /\ s \in Executing(p)
      /\ plans[p].status = "consumed" \/ (plans[p].status = "deleted" /\ p \in dropped)
  BY DEF PlanInv, SendersHoldPlans, Executing
<1>2. \A t \in Executing(p) : t = s
  BY <1>1 DEF PlanInv, SendersHoldPlans, Executing
<1>3. /\ senders' \in [Senders -> SenderStates]
      /\ senders'[s].at = "idle" /\ \A t \in Senders \ {s} : senders'[t] = senders[t]
      /\ \A q \in Plans : Executing(q)' = Executing(q) \ {s}
      /\ UNCHANGED <<queued, dropped>>
  BY FinishFrees DEF FinishPlan, PlanInv
<1>4. \A q \in Plans \ {p} : Executing(q)' = Executing(q)
  BY <1>1, <1>3 DEF Executing
<1>5. CASE senders[s].failed /\ plans[p].status = "consumed"
  <2>1. /\ plans' = [plans EXCEPT ![p].status = "open"]
        /\ runs' = [runs EXCEPT ![p].released = @ + 1]
    BY <1>1, <1>5 DEF FinishPlan
  <2>10. plans' \in [Plans -> [status: {"absent", "open", "consumed", "deleted"}, expired: BOOLEAN,
                              rows: SUBSET Recipients]]
    BY <2>1 DEF PlanInv, PlanTypes
  <2>11. runs' \in [Plans -> [released: Nat, executed: [Recipients -> Nat], turnedAway: SUBSET Recipients]]
    <3>1. runs[p].released + 1 \in Nat
      BY DEF PlanInv, PlanTypes
    <3>2. [runs[p] EXCEPT !.released = runs[p].released + 1] \in
            [released: Nat, executed: [Recipients -> Nat], turnedAway: SUBSET Recipients]
      BY <3>1 DEF PlanInv, PlanTypes
    <3>3. QED
      BY <2>1, <3>2 DEF PlanInv, PlanTypes
  <2>8. PlanTypes'
    BY <1>3, <2>10, <2>11 DEF PlanTypes
  <2>9. \A q \in Plans : /\ plans'[q].rows = plans[q].rows /\ plans'[q].expired = plans[q].expired
                         /\ plans'[q].status = IF q = p THEN "open" ELSE plans[q].status
                         /\ runs'[q].executed = runs[q].executed /\ runs'[q].turnedAway = runs[q].turnedAway
                         /\ runs'[q].released = runs[q].released + (IF q = p THEN 1 ELSE 0)
    BY <2>1 DEF PlanInv, PlanTypes
  <2>2. AbsentPlans'
    BY <2>9 DEF PlanInv, AbsentPlans
  <2>3. Executing(p)' = {}
    BY <1>1, <1>2, <1>3
  <2>4. SendersHoldPlans'
    <3>1. \A t \in Senders : senders'[t].at # "idle" =>
            /\ senders'[t] = senders[t] /\ senders[t].at = "execute" => PlanOf(t) # p
      BY <1>1, <1>2, <1>3 DEF Executing
    <3>2. QED
      BY <1>3, <2>9, <3>1 DEF PlanInv, SendersHoldPlans, PlanOf
  <2>5. RowsAreCounted'
    BY <1>1, <1>3, <1>4, <2>3, <2>9 DEF PlanInv, PlanTypes, RowsAreCounted, IsOpen, Executing
  <2>6. RowsAreCovered'
    BY <1>1, <1>3, <1>4, <2>9 DEF PlanInv, RowsAreCovered, IsOpen, Executing
  <2>7. QED BY <2>2, <2>4, <2>5, <2>6, <2>8 DEF PlanInv
<1>6. CASE ~(senders[s].failed /\ plans[p].status = "consumed")
  <2>1. UNCHANGED <<plans, runs>>
    BY <1>1, <1>6 DEF FinishPlan
  <2>2. PlanTypes' /\ AbsentPlans'
    BY <1>3, <2>1 DEF PlanInv, PlanTypes, AbsentPlans
  <2>6. SendersHoldPlans'
    BY <1>3, <2>1 DEF PlanInv, SendersHoldPlans, PlanOf
  <2>3. RowsAreCounted'
    BY <1>3, <2>1 DEF PlanInv, RowsAreCounted, IsOpen, Executing
  <2>4. RowsAreCovered'
    BY <1>1, <1>2, <1>3, <1>4, <1>6, <2>1 DEF PlanInv, RowsAreCovered, IsOpen, Executing
  <2>5. QED BY <2>2, <2>3, <2>4, <2>6 DEF PlanInv
<1>7. QED BY <1>5, <1>6

\* An execution that is cut off is recorded.
LEMMA SendCutOffInv ==
  ASSUME PlanInv, NEW s \in Senders, SendCutOff(s)
  PROVE  PlanInv'
<1>1. /\ senders' \in [Senders -> SenderStates]
      /\ senders'[s].at = "idle" /\ \A t \in Senders \ {s} : senders'[t] = senders[t]
      /\ \A q \in Plans : Executing(q)' = Executing(q) \ {s}
      /\ UNCHANGED <<plans, queued, runs>> /\ dropped' = dropped \cup {PlanOf(s)}
  BY FinishFrees DEF SendCutOff, PlanInv
<1>2. PlanTypes' /\ AbsentPlans' /\ SendersHoldPlans'
  BY <1>1 DEF PlanInv, PlanTypes, AbsentPlans, SendersHoldPlans, PlanOf
<1>3. RowsAreCounted'
  BY <1>1 DEF PlanInv, RowsAreCounted, IsOpen, Executing
<1>4. RowsAreCovered'
  BY <1>1 DEF PlanInv, RowsAreCovered, IsOpen, Executing
<1>5. QED BY <1>2, <1>3, <1>4 DEF PlanInv

\* Every step keeps the invariant of plans.
LEMMA PlanInvStep == PlanInv /\ [PlanNext]_planVars => PlanInv'
<1> SUFFICES ASSUME PlanInv, [PlanNext]_planVars PROVE PlanInv'
  OBVIOUS
<1>1. CASE UNCHANGED planVars
  BY <1>1 DEF planVars, PlanInv, PlanTypes, AbsentPlans, SendersHoldPlans, RowsAreCounted,
              RowsAreCovered, IsOpen, Executing, PlanOf
<1>2. CASE PlanNext
  BY <1>2, CreatePlanInv, ExpirePlanInv, ReadPlanInv, ExecuteRowInv, ConsumePlanInv, FinishPlanInv,
     SendCutOffInv
     DEF PlanNext
<1>3. QED BY <1>1, <1>2

\* One execution of a plan at a time: at most one element.
LEMMA PlanInvIsEnough == PlanInv => PlansAreSentOnce
<1> SUFFICES ASSUME PlanInv, NEW p \in Plans
             PROVE  /\ Cardinality(Executing(p)) <= 1
                    /\ \A r \in plans[p].rows :
                         /\ runs[p].executed[r] <= 1 + runs[p].released
                         /\ \/ r \in queued \cup runs[p].turnedAway \/ p \in dropped
                            \/ IsOpen(p) \/ Executing(p) # {} \/ plans[p].expired
  BY DEF PlansAreSentOnce
<1>1. Executing(p) = {} \/ \E s : Executing(p) = {s}
  BY DEF PlanInv, SendersHoldPlans, Executing
<1>2. Cardinality(Executing(p)) <= 1
  <2>1. CASE Executing(p) = {}
    BY <2>1, FS_EmptySet
  <2>2. CASE \E s : Executing(p) = {s}
    <3>1. PICK s : Executing(p) = {s}
      BY <2>2
    <3>2. Cardinality({s}) = 1
      BY FS_Singleton
    <3>3. QED BY <3>1, <3>2
  <2>3. QED BY <1>1, <2>1, <2>2
<1>3. QED
  BY <1>2 DEF PlanInv, PlanTypes, RowsAreCounted, RowsAreCovered

\* consumePlan, the execution and releasePlan (sendCampaignNotificationRunnablePlan)
\* execute no row twice and lose no recipient, for any overlap of requests.
THEOREM PlansAreSentOnceAlways == PlanSpec => []PlansAreSentOnce
BY PlanInvInit, PlanInvStep, PlanInvIsEnough, PTL DEF PlanSpec

-----------------------------------------------------------------------------
(* The records the server keeps                                              *)

EditorStates == [at: {"idle", "lock", "read", "write"}, expected: Nat, updated: Nat]

RecordTypes ==
  /\ sentAt \in [Digests -> SUBSET Instants]
  /\ reconciler \in [Reconcilers -> [digest: Digests \cup {0}, sent: Instants \cup {0}]]
  /\ reconciled \subseteq Digests
  /\ cursor.watermark \in Digests \cup {0} /\ cursor.updated \in Nat
  /\ config.updated \in Nat /\ config.version \in Nat
  /\ editor \in [Editors -> EditorStates]

\* The cursor carries a time of its own digest; whatever is reconciled, or was,
\* is a digest that was sent.
CursorInv ==
  /\ IF cursor.watermark = 0 THEN cursor.updated = 0
     ELSE cursor.updated \in sentAt[cursor.watermark]
  /\ \A r \in Reconcilers : reconciler[r] # Idling =>
       reconciler[r].digest \in Digests /\ reconciler[r].sent \in sentAt[reconciler[r].digest]
  /\ \A d \in reconciled : cursor.watermark >= d \/ SentOutOfOrder

\* Between reading the configuration and writing it an editor holds the lock, and
\* nothing it has read is stale.
ConfigInv ==
  \A e \in Editors :
    /\ editor[e].at \in {"read", "write"} => advisoryLock = e
    /\ editor[e].at = "write" =>
         editor[e].expected = config.version /\ editor[e].updated = config.updated

RecordInv == RecordTypes /\ CursorInv /\ ConfigInv

\* Times of sending are only added, so digests out of order stay so.
LEMMA SentOutOfOrderIsStable ==
  ASSUME \A d \in Digests : sentAt[d] \subseteq sentAt'[d], SentOutOfOrder
  PROVE  SentOutOfOrder'
BY DEF SentOutOfOrder

\* Nothing is stored at first.
LEMMA RecordInvInit == RecordInit => RecordInv
BY DEF RecordInit, RecordInv, RecordTypes, EditorStates, CursorInv, ConfigInv, NotEditing, Idling

\* Whoever leaves the configuration changes no other editor and takes no lock.
LEMMA EndEditTypes ==
  ASSUME RecordTypes, NEW e \in Editors, EndEdit(e)
  PROVE  /\ editor' \in [Editors -> EditorStates] /\ editor'[e].at = "idle"
         /\ \A f \in Editors \ {e} : editor'[f] = editor[f] /\ (advisoryLock = f => advisoryLock' = f)
BY EditorsAssumption DEF EndEdit, RecordTypes, EditorStates, NotEditing

\* Sending a digest, and a report of it, adds a time.
LEMMA SendDigestInv ==
  ASSUME RecordInv, NEW d \in Digests, NEW now \in Instants, SendDigest(d, now)
  PROVE  RecordInv'
<1>1. now \in Nat \ {0} /\ d \in Nat \ {0}
  BY InstantsAssumption
<1>2. /\ sentAt' = [sentAt EXCEPT ![d] = sentAt[d] \cup {now}]
      /\ UNCHANGED <<cursor, reconciler, reconciled, config, editor, advisoryLock>>
  BY DEF SendDigest, configVars
<1>3. RecordTypes' /\ ConfigInv'
  BY <1>1, <1>2 DEF RecordInv, RecordTypes, ConfigInv
<1>4. SentOutOfOrder => SentOutOfOrder'
  <2>1. \A e \in Digests : sentAt[e] \subseteq sentAt'[e]
    BY <1>2 DEF RecordInv, RecordTypes
  <2>2. QED BY <2>1, SentOutOfOrderIsStable
<1>5. CursorInv'
  <2>1. \A e \in Digests : sentAt[e] \subseteq sentAt'[e]
    BY <1>2 DEF RecordInv, RecordTypes
  <2>2. QED BY <1>2, <1>4, <2>1 DEF RecordInv, RecordTypes, CursorInv
<1>6. QED BY <1>3, <1>5 DEF RecordInv

\* What is behind the cursor needs no writing (getWeeklyDigestCursor).
LEMMA ReadCursorInv ==
  ASSUME RecordInv, NEW d \in Digests, NEW r \in Reconcilers, NEW sent \in Instants,
         ReadCursor(r, d, sent)
  PROVE  RecordInv'
<1>1. UNCHANGED <<cursor, sentAt, config, editor, advisoryLock>>
  BY DEF ReadCursor, configVars
<1>2. SentOutOfOrder' = SentOutOfOrder
  BY <1>1 DEF SentOutOfOrder
<1>3. \/ cursor.watermark >= d /\ reconciled' = reconciled \cup {d} /\ reconciler' = reconciler
      \/ /\ sent \in sentAt[d] /\ reconciled' = reconciled
         /\ reconciler' = [reconciler EXCEPT ![r] = [digest |-> d, sent |-> sent]]
  BY DEF ReadCursor
<1>4. RecordTypes' /\ ConfigInv'
  BY <1>1, <1>3 DEF RecordInv, RecordTypes, ConfigInv
<1>5. CursorInv'
  BY <1>1, <1>2, <1>3 DEF RecordInv, RecordTypes, CursorInv
<1>6. QED BY <1>4, <1>5 DEF RecordInv

\* Why the cursor follows the watermarks: if the digest it leaves behind has a
\* later watermark, or the digest dropped as stale has, their times are inverted.
LEMMA WriteCursorInv ==
  ASSUME RecordInv, NEW r \in Reconcilers, WriteCursor(r)
  PROVE  /\ RecordInv'
         /\ cursor'.watermark < cursor.watermark => SentOutOfOrder
<1>1. PICK d \in Digests, sent \in Instants :
        d = reconciler[r].digest /\ sent = reconciler[r].sent /\ sent \in sentAt[d]
  BY DEF WriteCursor, RecordInv, RecordTypes, CursorInv
<1>2. /\ UNCHANGED <<sentAt, config, editor, advisoryLock>>
      /\ reconciled' = reconciled \cup {d} /\ reconciler' = [reconciler EXCEPT ![r] = Idling]
      /\ cursor' = Upserted(cursor, [watermark |-> d, updated |-> sent])
  BY <1>1 DEF WriteCursor, configVars
<1>3. SentOutOfOrder' = SentOutOfOrder
  BY <1>2 DEF SentOutOfOrder
<1>4. \/ sent < cursor.updated /\ cursor' = cursor
      \/ /\ ~(sent < cursor.updated)
         /\ cursor'.watermark = d /\ cursor'.updated = sent
  BY <1>2 DEF Upserted
<1>5. RecordTypes' /\ ConfigInv'
  <2>1. sent \in Nat /\ Idling \in [digest: Digests \cup {0}, sent: Instants \cup {0}]
    BY InstantsAssumption DEF Idling
  <2>2. QED BY <1>2, <1>4, <2>1 DEF RecordInv, RecordTypes, ConfigInv
<1> DEFINE w == cursor.watermark
<1>6. /\ d \in Nat \ {0} /\ w \in Nat /\ sent \in Nat /\ cursor.updated \in Nat
      /\ reconciled \subseteq Nat \ {0}
      /\ w # 0 => w \in Digests /\ cursor.updated \in sentAt[w]
      /\ w = 0 => cursor.updated = 0
  BY InstantsAssumption DEF RecordInv, RecordTypes, CursorInv
<1>7. sent < cursor.updated /\ w < d => SentOutOfOrder
  BY <1>1, <1>6 DEF SentOutOfOrder
<1>8. ~(sent < cursor.updated) /\ d < w => SentOutOfOrder
  BY <1>1, <1>6 DEF SentOutOfOrder
<1>9. \A i \in reconciled : w >= i \/ SentOutOfOrder
  BY DEF RecordInv, CursorInv
<1>10. \A i \in reconciled' : cursor'.watermark >= i \/ SentOutOfOrder
  BY <1>2, <1>4, <1>6, <1>7, <1>8, <1>9
<1>11. CursorInv'
  BY <1>1, <1>2, <1>3, <1>4, <1>6, <1>10 DEF RecordInv, RecordTypes, CursorInv
<1>12. cursor'.watermark < cursor.watermark => SentOutOfOrder
  BY <1>4, <1>6, <1>8
<1>13. QED BY <1>5, <1>11, <1>12 DEF RecordInv

\* A failed reconciliation writes nothing.
LEMMA ReconcileFailsInv ==
  ASSUME RecordInv, NEW r \in Reconcilers, ReconcileFails(r)
  PROVE  RecordInv'
BY DEF ReconcileFails, configVars, RecordInv, RecordTypes, CursorInv, ConfigInv, SentOutOfOrder, Idling

\* What the editors do leaves the cursor alone.
LEMMA EditorsLeaveCursor ==
  ASSUME CursorInv, UNCHANGED <<cursor, sentAt, reconciler, reconciled>>
  PROVE  CursorInv'
BY DEF CursorInv, SentOutOfOrder

\* An edit arrives with any version ever read.
LEMMA EditInv ==
  ASSUME RecordInv, NEW e \in Editors, NEW version \in 0 .. config.version, Edit(e, version)
  PROVE  RecordInv'
<1>1. UNCHANGED <<cursor, sentAt, reconciler, reconciled, config, advisoryLock>>
  BY DEF Edit, cursorVars
<1>2. /\ editor'[e].at = "lock" /\ \A f \in Editors \ {e} : editor'[f] = editor[f]
      /\ editor' \in [Editors -> EditorStates]
  <2>1. version \in Nat
    BY DEF RecordInv, RecordTypes
  <2>2. QED BY <2>1 DEF Edit, RecordInv, RecordTypes, EditorStates
<1>3. RecordTypes' /\ ConfigInv' /\ CursorInv'
  BY <1>1, <1>2, EditorsLeaveCursor DEF RecordInv, RecordTypes, ConfigInv
<1>4. QED BY <1>3 DEF RecordInv

\* The advisory lock has one holder.
LEMMA LockConfigInv ==
  ASSUME RecordInv, NEW e \in Editors, LockConfig(e)
  PROVE  RecordInv'
<1>1. UNCHANGED <<cursor, sentAt, reconciler, reconciled, config>>
  BY DEF LockConfig, cursorVars
<1>2. /\ editor'[e].at = "read" /\ \A f \in Editors \ {e} : editor'[f] = editor[f]
      /\ editor' \in [Editors -> EditorStates] /\ advisoryLock = Nobody /\ advisoryLock' = e
  BY DEF LockConfig, RecordInv, RecordTypes, EditorStates
<1>3. RecordTypes' /\ CursorInv'
  BY <1>1, <1>2, EditorsLeaveCursor DEF RecordInv, RecordTypes
<1>4. ConfigInv'
  BY <1>1, <1>2, EditorsAssumption DEF RecordInv, ConfigInv
<1>5. QED BY <1>3, <1>4 DEF RecordInv

\* The version is compared under the lock (getRecordForUpdate).
LEMMA ReadConfigInv ==
  ASSUME RecordInv, NEW e \in Editors, ReadConfig(e)
  PROVE  RecordInv'
<1>1. UNCHANGED <<cursor, sentAt, reconciler, reconciled, config>>
  BY DEF ReadConfig, cursorVars
<1>2. CursorInv'
  BY <1>1, EditorsLeaveCursor DEF RecordInv
<1>3. CASE EndEdit(e)
  BY <1>1, <1>2, <1>3, EndEditTypes DEF RecordInv, RecordTypes, ConfigInv
<1>4. CASE ~EndEdit(e)
  <2>1. /\ editor' = [editor EXCEPT ![e].at = "write", ![e].updated = config.updated]
        /\ editor[e].at = "read" /\ editor[e].expected = config.version /\ UNCHANGED advisoryLock
    BY <1>4 DEF ReadConfig
  <2>2. /\ editor'[e].at = "write" /\ editor'[e].expected = config.version
        /\ editor'[e].updated = config.updated /\ \A f \in Editors \ {e} : editor'[f] = editor[f]
        /\ editor' \in [Editors -> EditorStates]
    BY <2>1 DEF RecordInv, RecordTypes, EditorStates
  <2>3. RecordTypes' /\ ConfigInv'
    BY <1>1, <2>1, <2>2 DEF RecordInv, RecordTypes, ConfigInv
  <2>4. QED BY <1>2, <2>3 DEF RecordInv
<1>5. QED BY <1>3, <1>4

\* An accepted edit is later than what it replaces, so it is not dropped.
LEMMA WriteConfigInv ==
  ASSUME RecordInv, NEW e \in Editors, NEW now \in Instants, WriteConfig(e, now)
  PROVE  RecordInv' /\ config'.by = e /\ editor[e].expected = config.version
<1>1. UNCHANGED <<cursor, sentAt, reconciler, reconciled>> /\ EndEdit(e)
  BY DEF WriteConfig, cursorVars
<1>2. /\ editor[e].expected = config.version /\ editor[e].updated = config.updated /\ advisoryLock = e
      /\ config.version \in Nat /\ config.updated \in Nat
  BY DEF WriteConfig, RecordInv, RecordTypes, ConfigInv
<1>3. now \in Nat
  BY InstantsAssumption
<1>4. /\ NextUpdatedAt(config.updated, now) \in Nat
      /\ ~(NextUpdatedAt(config.updated, now) < config.updated)
  BY <1>2, <1>3 DEF NextUpdatedAt
<1>5. config' = [updated |-> NextUpdatedAt(config.updated, now), version |-> config.version + 1, by |-> e]
  BY <1>2, <1>4 DEF WriteConfig, Upserted
<1>6. \A f \in Editors \ {e} : editor[f].at \notin {"read", "write"}
  BY <1>2 DEF RecordInv, ConfigInv
<1>7. /\ editor' \in [Editors -> EditorStates] /\ editor'[e].at = "idle"
      /\ \A f \in Editors \ {e} : editor'[f] = editor[f]
  BY <1>1, EndEditTypes DEF RecordInv
<1>8. RecordTypes'
  BY <1>1, <1>2, <1>4, <1>5, <1>7 DEF RecordInv, RecordTypes
<1>9. ConfigInv' /\ CursorInv'
  BY <1>1, <1>6, <1>7, EditorsLeaveCursor DEF RecordInv, ConfigInv
<1>10. QED BY <1>2, <1>5, <1>8, <1>9 DEF RecordInv

\* A failed edit gives the lock back.
LEMMA EditFailsInv ==
  ASSUME RecordInv, NEW e \in Editors, EditFails(e)
  PROVE  RecordInv'
<1>1. UNCHANGED <<cursor, sentAt, reconciler, reconciled, config>> /\ EndEdit(e)
  BY DEF EditFails, cursorVars
<1>2. RecordTypes' /\ ConfigInv' /\ CursorInv'
  BY <1>1, EndEditTypes, EditorsLeaveCursor DEF RecordInv, RecordTypes, ConfigInv
<1>3. QED BY <1>2 DEF RecordInv

\* Every step keeps the invariant of the two records.
LEMMA RecordInvStep == RecordInv /\ [RecordNext]_recordVars => RecordInv'
<1> SUFFICES ASSUME RecordInv, [RecordNext]_recordVars PROVE RecordInv'
  OBVIOUS
<1>1. CASE UNCHANGED recordVars
  BY <1>1 DEF recordVars, RecordInv, RecordTypes, CursorInv, ConfigInv, SentOutOfOrder
<1>2. CASE RecordNext
  BY <1>2, SendDigestInv, ReadCursorInv, WriteCursorInv, ReconcileFailsInv, EditInv, LockConfigInv,
     ReadConfigInv, EditFailsInv, WriteConfigInv
     DEF RecordNext
<1>3. QED BY <1>1, <1>2

\* What one step may do to the two records.
RecordStep ==
  /\ cursor'.watermark < cursor.watermark => SentOutOfOrder
  /\ \A d \in reconciled' : cursor'.watermark >= d \/ SentOutOfOrder
  /\ config' # config => \E e \in Editors :
       editor[e].expected = config.version /\ config'.by = e
  /\ \A e \in Editors, now \in Instants : WriteConfig(e, now) => config'.by = e

\* What a step does from a state of the invariant.
LEMMA RecordInvIsEnough == RecordInv /\ RecordNext => RecordStep
<1> SUFFICES ASSUME RecordInv, RecordNext PROVE RecordStep
  OBVIOUS
<1>1. \A e \in Editors, now \in Instants : WriteConfig(e, now) => config'.by = e
  BY WriteConfigInv
<1>2. config' # config => \E e \in Editors : editor[e].expected = config.version /\ config'.by = e
  BY WriteConfigInv
     DEF RecordNext, SendDigest, ReadCursor, WriteCursor, ReconcileFails, Edit, LockConfig,
         ReadConfig, EditFails, configVars
<1>3. CASE \E r \in Reconcilers : WriteCursor(r)
  <2>1. UNCHANGED sentAt
    BY <1>3 DEF WriteCursor
  <2>2. SentOutOfOrder' => SentOutOfOrder
    BY <2>1 DEF SentOutOfOrder
  <2>3. RecordInv' /\ (cursor'.watermark < cursor.watermark => SentOutOfOrder)
    BY <1>3, WriteCursorInv
  <2>4. QED BY <1>1, <1>2, <2>2, <2>3 DEF RecordStep, RecordInv, CursorInv
<1>4. CASE ~ \E r \in Reconcilers : WriteCursor(r)
  <2>1. UNCHANGED cursor
    BY <1>4 DEF RecordNext, SendDigest, ReadCursor, ReconcileFails, Edit, LockConfig,
                ReadConfig, WriteConfig, EditFails, cursorVars
  <2>2. \A d \in reconciled' : d \in reconciled \/ cursor.watermark >= d
    BY <1>4 DEF RecordNext, SendDigest, ReadCursor, ReconcileFails, Edit, LockConfig,
                ReadConfig, WriteConfig, EditFails, cursorVars
  <2>3. ~(cursor.watermark < cursor.watermark)
    <3>1. cursor.watermark \in Nat
      BY InstantsAssumption DEF RecordInv, RecordTypes
    <3>2. QED BY <3>1
  <2>4. QED BY <1>1, <1>2, <2>1, <2>2, <2>3 DEF RecordStep, RecordInv, CursorInv
<1>5. QED BY <1>3, <1>4

\* The weekly digest's cursor and an entity's configuration (reconcile,
\* upsertCampaignEntityConfig) never lose what was accepted, for any number of
\* digests, servers and editors and whatever their clocks say.
THEOREM RecordsMoveForwardAlways == RecordSpec => RecordsMoveForward
<1>1. RecordInv /\ [RecordNext]_recordVars => [RecordStep]_recordVars
  BY RecordInvIsEnough
<1>2. RecordSpec => [][RecordStep]_recordVars
  BY RecordInvInit, RecordInvStep, <1>1, PTL DEF RecordSpec
<1>3. QED BY <1>2 DEF RecordsMoveForward, RecordStep

-----------------------------------------------------------------------------
(* Short links                                                               *)

LinkUrls == Urls \cup {NoLink.url}
LinkSteps == {"idle", "code", "url", "append", "codeAgain", "insert", "failed"}
AskStates == [at: LinkSteps, url: LinkUrls, known: BOOLEAN, id: Nat]

LinkTypes ==
  /\ link \in [id: Nat, url: LinkUrls, users: SUBSET LinkUsers]
  /\ asking \in [LinkUsers -> AskStates]
  /\ erasing \in [LinkUsers -> {"no", "deleting", "removing", "done"}]
  /\ asked.rows \in Nat

\* Who was put on the link is on it, until their erasure.
HoldersStay ==
  \A u \in LinkUsers, url \in Urls :
    <<u, url>> \in handed \ unlisted /\ erasing[u] = "no" =>
      /\ LinkExists /\ u \in link.users
      /\ (link.url \in SamePage) = (url \in SamePage)

\* No row gets the id of an earlier one, so the row a request found is still
\* the one of its URL when it has that id.
RowsAreNumbered ==
  /\ link.id <= asked.rows
  /\ \A u \in LinkUsers : Asks(u, "append") =>
       /\ asking[u].id \in 1 .. asked.rows
       /\ link.id = asking[u].id => link.url = UrlOf(u)

\* A row that is being deleted keeps its only user; writers wait for it.
DeletedAlone ==
  \A u \in LinkUsers : erasing[u] = "deleting" => OwnedAlone(u)

\* Who asks while erased was recorded, and so is an erased user on a link.
LateIsRecorded ==
  \A u \in LinkUsers :
    /\ ~Asks(u, "idle") /\ erasing[u] # "no" => u \in irregular.late
    /\ u \in link.users /\ erasing[u] = "done" => u \in irregular.late

Regular == ~irregular.overlap /\ irregular.late = {}

\* Two erasures that both leave the row to the other overlapped: an erasure
\* alone never takes a row's last user off it.
NotEmptied ==
  Regular =>
    /\ LinkExists => link.users # {}
    /\ \A u \in LinkUsers : erasing[u] = "removing" =>
         /\ ~OwnedAlone(u)
         /\ \A v \in LinkUsers : erasing[v] = "removing" => v = u

LinkInv == LinkTypes /\ HoldersStay /\ RowsAreNumbered /\ DeletedAlone /\ LateIsRecorded /\ NotEmptied

\* Whoever does not ask is idle.
LEMMA NotAskingIdles == NotAsking \in AskStates /\ NotAsking.at = "idle"
BY DEF NotAsking, AskStates, LinkSteps, LinkUrls

\* There is no link at first.
LEMMA LinkInvInit == LinkInit => LinkInv
<1> SUFFICES ASSUME LinkInit PROVE LinkInv
  OBVIOUS
<1>1. /\ link.id = 0 /\ link.users = {} /\ link \in [id: Nat, url: LinkUrls, users: SUBSET LinkUsers]
      /\ asked.rows = 0 /\ handed = {}
  BY DEF LinkInit, NoLink, LinkUrls
<1>2. LinkTypes
  BY <1>1, NotAskingIdles DEF LinkInit, LinkTypes
<1>3. RowsAreNumbered /\ HoldersStay
  BY <1>1, NotAskingIdles DEF LinkInit, RowsAreNumbered, HoldersStay, Asks
<1>4. DeletedAlone /\ LateIsRecorded /\ NotEmptied
  BY <1>1, NotAskingIdles DEF LinkInit, DeletedAlone, LateIsRecorded, NotEmptied, LinkExists, Asks
<1>5. QED BY <1>2, <1>3, <1>4 DEF LinkInv

\* What a request's step does to the request.
LEMMA AskingMoves ==
  ASSUME LinkTypes, NEW u \in LinkUsers, NEW step \in LinkSteps,
         HandOut(u) \/ Refuse(u) \/ Proceed(u, step)
  PROVE  /\ asking' \in [LinkUsers -> AskStates]
         /\ \A v \in LinkUsers \ {u} : asking'[v] = asking[v]
         /\ asking'[u].at \in {"idle", step}
         /\ UNCHANGED irregular
<1>1. CASE HandOut(u) \/ Refuse(u)
  BY <1>1, NotAskingIdles DEF HandOut, Refuse, LinkTypes, linkHistory
<1>2. CASE Proceed(u, step)
  BY <1>2 DEF Proceed, LinkTypes, AskStates, linkHistory
<1>3. QED BY <1>1, <1>2

\* A step of a request that writes no row: it may hand the code out for the page
\* the row has, and only proceeds to appending with the row it found.
LEMMA RequestReads ==
  ASSUME LinkInv, NEW u \in LinkUsers, UNCHANGED <<link, erasing, irregular>>,
         asked'.rows = asked.rows, asking' \in [LinkUsers -> AskStates],
         \A v \in LinkUsers \ {u} : asking'[v] = asking[v],
         ~Asks(u, "idle")' => ~Asks(u, "idle") \/ erasing[u] = "no",
         Asks(u, "append")' => LinkExists /\ asking'[u].id = link.id /\ asking'[u].url = link.url,
         (HandOut(u) /\ SameCanonical(u)) \/ UNCHANGED <<handed, unlisted>>
  PROVE  LinkInv'
<1>1. LinkTypes' /\ DeletedAlone' /\ LateIsRecorded' /\ NotEmptied'
  BY DEF LinkInv, LinkTypes, DeletedAlone, LateIsRecorded, NotEmptied, Regular, LinkExists, Asks,
         OwnedAlone
<1>2. RowsAreNumbered'
  BY DEF LinkInv, LinkTypes, RowsAreNumbered, LinkExists, Asks, UrlOf
<1>3. HoldersStay'
  <2>1. CASE UNCHANGED <<handed, unlisted>>
    BY <2>1 DEF LinkInv, HoldersStay, LinkExists
  <2>2. CASE HandOut(u) /\ SameCanonical(u)
    BY <2>2 DEF LinkInv, HoldersStay, LinkExists, HandOut, SameCanonical
  <2>3. QED BY <2>1, <2>2
<1>4. QED BY <1>1, <1>2, <1>3 DEF LinkInv

\* Only who is not erased asks.
LEMMA AskForLinkInv ==
  ASSUME LinkInv, NEW u \in LinkUsers, NEW url \in Urls, AskForLink(u, url)
  PROVE  LinkInv'
<1>1. /\ asking' \in [LinkUsers -> AskStates] /\ asking'[u].at = "code"
      /\ \A v \in LinkUsers \ {u} : asking'[v] = asking[v]
  <2>1. PICK state \in AskStates :
          asking' = [asking EXCEPT ![u] = state] /\ state.at = "code"
    <3>1. [asking[u] EXCEPT !.at = "code", !.url = url] \in AskStates
      BY DEF LinkInv, LinkTypes, AskStates, LinkSteps, LinkUrls
    <3>2. asking' = [asking EXCEPT ![u] = [asking[u] EXCEPT !.at = "code", !.url = url]]
      BY DEF AskForLink
    <3>3. QED BY <3>1, <3>2 DEF LinkInv, LinkTypes, AskStates
  <2>2. QED BY <2>1 DEF LinkInv, LinkTypes
<1>2. /\ UNCHANGED <<link, erasing, irregular, handed, unlisted>> /\ erasing[u] = "no"
      /\ asked'.rows = asked.rows
  BY DEF AskForLink, linkHistory
<1>3. QED BY <1>1, <1>2, RequestReads DEF Asks

\* getByCode.
LEMMA LookUpCodeInv ==
  ASSUME LinkInv, NEW u \in LinkUsers, LookUpCode(u)
  PROVE  LinkInv'
<1>1. UNCHANGED <<link, erasing, asked>> /\ ~Asks(u, "idle")
  BY DEF LookUpCode, Asks
<1>2. CASE Proceed(u, "url")
  BY <1>1, <1>2, AskingMoves, RequestReads DEF Proceed, linkHistory, Asks, LinkSteps, LinkInv
<1>3. CASE asking' = [asking EXCEPT ![u].at = "url", ![u].known = TRUE] /\ UNCHANGED linkHistory
  <2>1. /\ asking' \in [LinkUsers -> AskStates] /\ asking'[u].at = "url"
        /\ \A v \in LinkUsers \ {u} : asking'[v] = asking[v]
    BY <1>3 DEF LinkInv, LinkTypes, AskStates, LinkSteps
  <2>2. QED BY <1>1, <1>3, <2>1, RequestReads DEF linkHistory, Asks
<1>4. CASE SameCanonical(u) /\ HandOut(u)
  BY <1>1, <1>4, AskingMoves, RequestReads DEF Asks, LinkSteps, LinkInv
<1>5. CASE Refuse(u)
  BY <1>1, <1>5, AskingMoves, RequestReads DEF Refuse, linkHistory, Asks, LinkSteps, LinkInv
<1>6. QED BY <1>2, <1>3, <1>4, <1>5 DEF LookUpCode

\* getByOriginalUrl.
LEMMA LookUpUrlInv ==
  ASSUME LinkInv, NEW u \in LinkUsers, LookUpUrl(u)
  PROVE  LinkInv'
<1>1. UNCHANGED <<link, erasing, asked>> /\ ~Asks(u, "idle")
  BY DEF LookUpUrl, Asks
<1>2. CASE Proceed(u, "codeAgain")
  BY <1>1, <1>2, AskingMoves, RequestReads DEF Proceed, linkHistory, Asks, LinkSteps, LinkInv
<1>3. CASE SameUrl(u) /\ asking' = [asking EXCEPT ![u].at = "append", ![u].id = link.id] /\ UNCHANGED linkHistory
  <2>1. /\ asking' \in [LinkUsers -> AskStates] /\ asking'[u].id = link.id /\ asking'[u].url = link.url
        /\ \A v \in LinkUsers \ {u} : asking'[v] = asking[v]
    BY <1>3 DEF LinkInv, LinkTypes, AskStates, LinkSteps, SameUrl, UrlOf
  <2>2. QED BY <1>1, <1>3, <2>1, RequestReads DEF linkHistory, SameUrl, Asks
<1>4. CASE SameUrl(u) /\ HandOut(u)
  BY <1>1, <1>4, AskingMoves, RequestReads DEF Asks, LinkSteps, LinkInv, SameUrl, SameCanonical
<1>5. QED BY <1>2, <1>3, <1>4 DEF LookUpUrl

\* getByCode, before the insert.
LEMMA LookUpCodeAgainInv ==
  ASSUME LinkInv, NEW u \in LinkUsers, LookUpCodeAgain(u)
  PROVE  LinkInv'
<1>1. UNCHANGED <<link, erasing, asked>> /\ ~Asks(u, "idle")
  BY DEF LookUpCodeAgain, Asks
<1>2. PICK step \in {"failed", "insert"} : Proceed(u, step)
  BY DEF LookUpCodeAgain
<1>3. QED BY <1>1, <1>2, AskingMoves, RequestReads DEF Proceed, linkHistory, Asks, LinkSteps, LinkInv

\* A query fails.
LEMMA QueryFailsInv ==
  ASSUME LinkInv, NEW u \in LinkUsers, QueryFails(u)
  PROVE  LinkInv'
<1>1. UNCHANGED <<link, erasing, asked>> /\ ~Asks(u, "idle")
  BY DEF QueryFails
<1>2. CASE Proceed(u, "failed")
  BY <1>1, <1>2, AskingMoves, RequestReads DEF Proceed, linkHistory, Asks, LinkSteps, LinkInv
<1>3. CASE Refuse(u)
  BY <1>1, <1>3, AskingMoves, RequestReads DEF Refuse, linkHistory, Asks, LinkSteps, LinkInv
<1>4. QED BY <1>2, <1>3 DEF QueryFails

\* What follows a refused insert or append.
LEMMA CheckForRaceInv ==
  ASSUME LinkInv, NEW u \in LinkUsers, CheckForRace(u)
  PROVE  LinkInv'
<1>1. UNCHANGED <<link, erasing, asked>> /\ ~Asks(u, "idle")
  BY DEF CheckForRace, Asks
<1>2. CASE SameCanonical(u) /\ HandOut(u)
  BY <1>1, <1>2, AskingMoves, RequestReads DEF Asks, LinkSteps, LinkInv
<1>3. CASE Refuse(u)
  BY <1>1, <1>3, AskingMoves, RequestReads DEF Refuse, linkHistory, Asks, LinkSteps, LinkInv
<1>4. QED BY <1>2, <1>3 DEF CheckForRace

\* The append finds the row by its id: still a row of the URL.
LEMMA AppendUserInv ==
  ASSUME LinkInv, NEW u \in LinkUsers, AppendUser(u)
  PROVE  LinkInv'
<1>1. Asks(u, "append") /\ ~BeingDeleted /\ UNCHANGED <<erasing, asked>>
  BY DEF AppendUser
<1>2. CASE link.id = asking[u].id
  <2>1. /\ link'.id = link.id /\ link'.url = link.url /\ link'.users = link.users \cup {u}
        /\ link' \in [id: Nat, url: LinkUrls, users: SUBSET LinkUsers]
    BY <1>2 DEF AppendUser, LinkInv, LinkTypes
  <2>2. HandOut(u) /\ LinkExists /\ link.url = UrlOf(u)
    BY <1>1, <1>2 DEF AppendUser, LinkInv, LinkTypes, RowsAreNumbered, LinkExists
  <2>3. /\ asking' \in [LinkUsers -> AskStates] /\ asking'[u].at = "idle"
        /\ \A v \in LinkUsers \ {u} : asking'[v] = asking[v]
        /\ UNCHANGED <<irregular, erasing, asked>>
    BY <1>1, <2>2, AskingMoves DEF LinkInv, LinkSteps
  <2>4. LinkTypes'
    BY <2>1, <2>3 DEF LinkInv, LinkTypes
  <2>5. RowsAreNumbered'
    BY <2>1, <2>3 DEF LinkInv, RowsAreNumbered, Asks, UrlOf
  <2>6. DeletedAlone'
    BY <1>1, <2>3 DEF DeletedAlone, BeingDeleted
  <2>7. LateIsRecorded'
    BY <1>1, <2>1, <2>3 DEF LinkInv, LinkTypes, LateIsRecorded, Asks
  <2>8. HoldersStay'
    <3>1. \A v \in LinkUsers, url \in Urls :
            <<v, url>> \in handed' \ unlisted' =>
              <<v, url>> \in handed \ unlisted \/ (v = u /\ url = UrlOf(u))
      BY <2>2 DEF HandOut
    <3>2. QED
      BY <2>1, <2>2, <2>3, <3>1 DEF LinkInv, HoldersStay, LinkExists
  <2>9. NotEmptied'
    <3>1. Regular => erasing[u] # "removing"
      BY <1>1 DEF LinkInv, LinkTypes, LateIsRecorded, Regular, Asks
    <3>2. QED
      BY <2>1, <2>3, <3>1 DEF LinkInv, LinkTypes, NotEmptied, Regular, LinkExists, OwnedAlone
  <2>10. QED BY <2>4, <2>5, <2>6, <2>7, <2>8, <2>9 DEF LinkInv
<1>3. CASE link.id # asking[u].id
  BY <1>1, <1>3, AskingMoves, RequestReads DEF AppendUser, Proceed, linkHistory, Asks, LinkSteps, LinkInv
<1>4. QED BY <1>2, <1>3

\* A new row has a new id.
LEMMA InsertLinkInv ==
  ASSUME LinkInv, NEW u \in LinkUsers, InsertLink(u)
  PROVE  LinkInv'
<1>1. Asks(u, "insert") /\ ~BeingDeleted /\ UNCHANGED erasing
  BY DEF InsertLink
<1>2. CASE LinkExists
  <2>1. Proceed(u, "failed") /\ UNCHANGED <<link, asked>>
    BY <1>2 DEF InsertLink
  <2>2. QED
    BY <1>1, <2>1, AskingMoves, RequestReads DEF Proceed, linkHistory, Asks, LinkSteps, LinkInv
<1>3. CASE ~LinkExists
  <2>1. /\ link' = [id |-> asked.rows + 1, url |-> UrlOf(u), users |-> {u}]
        /\ asked' = [asked EXCEPT !.rows = @ + 1]
        /\ HandOut(u) \/ Proceed(u, "failed")
    BY <1>3 DEF InsertLink
  <2>2. UrlOf(u) \in LinkUrls /\ asked'.rows = asked.rows + 1 /\ asked.rows \in Nat
    BY <2>1 DEF LinkInv, LinkTypes, AskStates, UrlOf
  <2>3. /\ asking' \in [LinkUsers -> AskStates] /\ asking'[u].at \in {"idle", "failed"}
        /\ \A v \in LinkUsers \ {u} : asking'[v] = asking[v]
        /\ UNCHANGED <<irregular, erasing>>
    BY <1>1, <2>1, AskingMoves DEF LinkInv, LinkSteps
  <2>4. LinkTypes'
    BY <2>1, <2>2, <2>3 DEF LinkInv, LinkTypes
  <2>5. RowsAreNumbered'
    <3>1. \A v \in LinkUsers : Asks(v, "append")' =>
            asking'[v].id \in 1 .. asked.rows /\ link'.id # asking'[v].id
      BY <2>1, <2>2, <2>3 DEF LinkInv, RowsAreNumbered, Asks
    <3>2. QED
      BY <2>1, <2>2, <3>1 DEF RowsAreNumbered
  <2>6. DeletedAlone'
    BY <1>1, <2>3 DEF DeletedAlone, BeingDeleted
  <2>7. LateIsRecorded'
    BY <1>1, <2>1, <2>3 DEF LinkInv, LinkTypes, LateIsRecorded, Asks
  <2>8. HoldersStay'
    <3>1. \A v \in LinkUsers, url \in Urls :
            <<v, url>> \in handed' \ unlisted' =>
              <<v, url>> \in handed \ unlisted \/ (v = u /\ url = UrlOf(u))
      BY <2>1 DEF HandOut, Proceed, linkHistory
    <3>2. QED
      BY <1>3, <2>1, <2>2, <2>3, <3>1 DEF LinkInv, HoldersStay, LinkExists
  <2>9. NotEmptied'
    <3>1. Regular => erasing[u] # "removing"
      BY <1>1 DEF LinkInv, LinkTypes, LateIsRecorded, Regular, Asks
    <3>2. QED
      BY <2>1, <2>3, <3>1 DEF LinkInv, LinkTypes, NotEmptied, Regular, LinkExists, OwnedAlone
  <2>10. QED BY <2>4, <2>5, <2>6, <2>7, <2>8, <2>9 DEF LinkInv
<1>4. QED BY <1>2, <1>3

\* The first statement of an erasure deletes the row or leaves it.
LEMMA DeleteOwnLinkInv ==
  ASSUME LinkInv, NEW u \in LinkUsers, DeleteOwnLink(u)
  PROVE  LinkInv'
<1>1. /\ UNCHANGED <<link, asking, asked, handed, unlisted>> /\ erasing[u] = "no"
      /\ erasing'[u] = (IF OwnedAlone(u) THEN "deleting" ELSE "removing")
      /\ \A v \in LinkUsers \ {u} : erasing'[v] = erasing[v]
      /\ erasing' \in [LinkUsers -> {"no", "deleting", "removing", "done"}]
  BY DEF DeleteOwnLink, LinkInv, LinkTypes
<1>2. /\ irregular.late \subseteq irregular'.late
      /\ ~Asks(u, "idle") => u \in irregular'.late
      /\ irregular.overlap => irregular'.overlap
      /\ (\E v \in LinkUsers : erasing[v] = "removing") => irregular'.overlap
  BY DEF DeleteOwnLink
<1>3. LinkTypes' /\ RowsAreNumbered'
  BY <1>1 DEF LinkInv, LinkTypes, RowsAreNumbered, Asks, UrlOf
<1>4. DeletedAlone' /\ HoldersStay'
  BY <1>1 DEF LinkInv, DeletedAlone, HoldersStay, OwnedAlone, LinkExists
<1>5. LateIsRecorded'
  BY <1>1, <1>2 DEF LinkInv, LateIsRecorded, Asks
<1>6. NotEmptied'
  BY <1>1, <1>2 DEF LinkInv, NotEmptied, Regular, OwnedAlone, LinkExists
<1>7. QED BY <1>3, <1>4, <1>5, <1>6 DEF LinkInv

\* The second statement takes the user off what is left.
LEMMA LeaveLinksInv ==
  ASSUME LinkInv, NEW u \in LinkUsers, LeaveLinks(u)
  PROVE  LinkInv'
<1>1. /\ UNCHANGED <<asking, asked, handed, unlisted, irregular>>
      /\ erasing'[u] = "done" /\ \A v \in LinkUsers \ {u} : erasing'[v] = erasing[v]
      /\ erasing' \in [LinkUsers -> {"no", "deleting", "removing", "done"}]
  BY DEF LeaveLinks, linkHistory, LinkInv, LinkTypes
<1>2. CASE erasing[u] = "deleting"
  <2>1. link' = NoLink /\ link.users = {u} /\ LinkExists
    BY <1>2 DEF LeaveLinks, LinkInv, DeletedAlone, OwnedAlone
  <2>2. link'.id = 0 /\ link'.users = {} /\ link' \in [id: Nat, url: LinkUrls, users: SUBSET LinkUsers]
    BY <2>1 DEF NoLink, LinkUrls
  <2>3. LinkTypes' /\ ~LinkExists'
    BY <1>1, <2>2 DEF LinkInv, LinkTypes, LinkExists
  <2>4. RowsAreNumbered'
    BY <1>1, <2>2 DEF LinkInv, LinkTypes, RowsAreNumbered, Asks, UrlOf
  <2>5. DeletedAlone'
    BY <1>1, <2>1 DEF LinkInv, DeletedAlone, OwnedAlone
  <2>6. HoldersStay'
    BY <1>1, <2>1 DEF LinkInv, HoldersStay
  <2>7. LateIsRecorded'
    BY <1>1, <1>2, <2>2 DEF LinkInv, LateIsRecorded, Asks
  <2>8. NotEmptied'
    BY <1>1, <2>3 DEF LinkInv, NotEmptied, Regular, OwnedAlone, LinkExists
  <2>9. QED BY <2>3, <2>4, <2>5, <2>6, <2>7, <2>8 DEF LinkInv
<1>3. CASE erasing[u] = "removing"
  <2>1. /\ link'.id = link.id /\ link'.url = link.url /\ link'.users = link.users \ {u}
        /\ link' \in [id: Nat, url: LinkUrls, users: SUBSET LinkUsers]
    BY <1>3 DEF LeaveLinks, LinkInv, LinkTypes
  <2>2. LinkTypes' /\ RowsAreNumbered'
    BY <1>1, <2>1 DEF LinkInv, LinkTypes, RowsAreNumbered, Asks, UrlOf
  <2>3. DeletedAlone'
    BY <1>1, <1>3, <2>1 DEF LinkInv, DeletedAlone, OwnedAlone, LinkExists
  <2>4. HoldersStay'
    BY <1>1, <2>1 DEF LinkInv, HoldersStay, LinkExists
  <2>5. LateIsRecorded'
    BY <1>1, <1>3, <2>1 DEF LinkInv, LateIsRecorded, Asks
  <2>6. NotEmptied'
    BY <1>1, <1>3, <2>1 DEF LinkInv, NotEmptied, Regular, OwnedAlone, LinkExists
  <2>7. QED BY <2>2, <2>3, <2>4, <2>5, <2>6 DEF LinkInv
<1>4. QED BY <1>2, <1>3 DEF LeaveLinks

\* Every step keeps the invariant of links.
LEMMA LinkInvStep == LinkInv /\ [LinkNext]_linkVars => LinkInv'
<1> SUFFICES ASSUME LinkInv, [LinkNext]_linkVars PROVE LinkInv'
  OBVIOUS
<1>1. CASE UNCHANGED linkVars
  BY <1>1
     DEF linkVars, LinkInv, LinkTypes, HoldersStay, RowsAreNumbered, DeletedAlone, LateIsRecorded,
         NotEmptied, Regular, LinkExists, Asks, UrlOf, OwnedAlone
<1>2. CASE LinkNext
  BY <1>2, AskForLinkInv, LookUpCodeInv, LookUpUrlInv, AppendUserInv, LookUpCodeAgainInv,
     InsertLinkInv, QueryFailsInv, CheckForRaceInv, DeleteOwnLinkInv, LeaveLinksInv
     DEF LinkNext
<1>3. QED BY <1>1, <1>2

\* The property follows.
LEMMA LinkInvIsEnough == LinkInv => LinksFollowTheirUsers
BY DEF LinkInv, LinkTypes, HoldersStay, LateIsRecorded, NotEmptied, Regular, LinksFollowTheirUsers

\* createShortLink and anonymizeUserData keep a page's link for whoever was put
\* on it, for any number of users and requests.
THEOREM LinksFollowTheirUsersAlways == LinkSpec => []LinksFollowTheirUsers
BY LinkInvInit, LinkInvStep, LinkInvIsEnough, PTL DEF LinkSpec

-----------------------------------------------------------------------------
(* The bounds of the runs: what is done and what is still under way never    *)
(* exceed the requests made.                                                 *)

Within(done, pending, requests) ==
  /\ done \in Nat /\ requests \in Nat /\ IsFiniteSet(pending)
  /\ done + Cardinality(pending) <= requests

\* Some of what is pending may come to nothing.
LEMMA FewerPending ==
  ASSUME NEW done, NEW pending, NEW requests, Within(done, pending, requests),
         NEW rest \in SUBSET pending
  PROVE  Within(done, rest, requests)
<1>1. IsFiniteSet(rest) /\ Cardinality(rest) \in Nat /\ Cardinality(pending) \in Nat
      /\ Cardinality(rest) <= Cardinality(pending)
  BY FS_Subset, FS_CardinalityType DEF Within
<1>2. QED BY <1>1 DEF Within

\* A request adds one at most.
LEMMA OneMorePending ==
  ASSUME NEW done, NEW pending, NEW requests, Within(done, pending, requests),
         NEW new, NEW next \in SUBSET (pending \cup {new})
  PROVE  Within(done, next, requests + 1)
<1>1. /\ IsFiniteSet(pending \cup {new}) /\ Cardinality(pending) \in Nat
      /\ Cardinality(pending \cup {new}) \in Nat
      /\ Cardinality(pending \cup {new}) <= Cardinality(pending) + 1
  BY FS_AddElement, FS_CardinalityType DEF Within
<1>2. IsFiniteSet(next) /\ Cardinality(next) \in Nat
      /\ Cardinality(next) <= Cardinality(pending \cup {new})
  BY <1>1, FS_Subset, FS_CardinalityType
<1>3. QED BY <1>1, <1>2 DEF Within

\* What is done was pending.
LEMMA OneDone ==
  ASSUME NEW done, NEW pending, NEW requests, Within(done, pending, requests),
         NEW one \in pending, NEW rest \in SUBSET (pending \ {one})
  PROVE  Within(done + 1, rest, requests)
<1>1. /\ IsFiniteSet(pending \ {one}) /\ Cardinality(pending) \in Nat
      /\ Cardinality(pending \ {one}) \in Nat
      /\ Cardinality(pending \ {one}) = Cardinality(pending) - 1
  BY FS_RemoveElement, FS_CardinalityType DEF Within
<1>2. IsFiniteSet(rest) /\ Cardinality(rest) \in Nat
      /\ Cardinality(rest) <= Cardinality(pending \ {one})
  BY <1>1, FS_Subset, FS_CardinalityType
<1>3. QED BY <1>1, <1>2 DEF Within

\* Executions of a plan, and those that may still execute a row of it.
Active(p) == {s \in Senders : senders[s].at # "idle" /\ PlanOf(s) = p}
StillToExecute(p, r) == {s \in Active(p) : senders[s].at = "consume" \/ r \in senders[s].left}

PlanBounds ==
  /\ used \in [sends: 0..MaxSends, troubles: 0..MaxTrouble]
  /\ queued \subseteq Recipients /\ dropped \subseteq Plans
  /\ \A p \in Plans :
       /\ Within(runs[p].released, Active(p), used.sends)
       /\ \A r \in Recipients : Within(runs[p].executed[r], StillToExecute(p, r), used.sends)

LEMMA PlanBoundsInit == PlanInit => PlanBounds
<1> SUFFICES ASSUME PlanInit PROVE PlanBounds
  OBVIOUS
<1>1. \A p \in Plans : Active(p) = {} /\ \A r \in Recipients : StillToExecute(p, r) = {}
  BY NotSendingIdles DEF PlanInit, Active, StillToExecute
<1>2. /\ used = [sends |-> 0, troubles |-> 0] /\ queued = {} /\ dropped = {}
      /\ \A p \in Plans : runs[p].released = 0 /\ \A r \in Recipients : runs[p].executed[r] = 0
  BY DEF PlanInit
<1>3. Within(0, {}, 0)
  BY FS_EmptySet DEF Within
<1>4. \A p \in Plans :
        /\ Within(runs[p].released, Active(p), used.sends)
        /\ \A r \in Recipients : Within(runs[p].executed[r], StillToExecute(p, r), used.sends)
  BY <1>1, <1>2, <1>3
<1>5. QED BY <1>2, <1>4, PlanBudgetAssumption DEF PlanBounds

\* Steps that execute no row, give no plan back and take no request.
LEMMA PlanBoundsKept ==
  ASSUME PlanBounds, UNCHANGED runs, used' \in [sends: 0..MaxSends, troubles: 0..MaxTrouble],
         used'.sends = used.sends, queued' \subseteq Recipients, dropped' \subseteq Plans,
         \A p \in Plans : /\ Active(p)' \subseteq Active(p)
                          /\ \A r \in Recipients : StillToExecute(p, r)' \subseteq StillToExecute(p, r)
  PROVE  PlanBounds'
BY FewerPending DEF PlanBounds

\* An execution that ends is no longer under way.
LEMMA FinishLeaves ==
  ASSUME PlanInv, NEW s \in Senders, Finish(s), NEW p \in Plans
  PROVE  /\ Active(p)' = Active(p) \ {s}
         /\ \A r \in Recipients : StillToExecute(p, r)' = StillToExecute(p, r) \ {s}
<1>1. /\ senders'[s].at = "idle" /\ DOMAIN senders' = Senders
      /\ \A t \in Senders \ {s} : senders'[t] = senders[t]
  BY NotSendingIdles DEF Finish, PlanInv, PlanTypes
<1>2. QED BY <1>1 DEF Active, StillToExecute, PlanOf

LEMMA TroubleTyped ==
  ASSUME PlanBounds, Trouble
  PROVE  used' \in [sends: 0..MaxSends, troubles: 0..MaxTrouble] /\ used'.sends = used.sends
BY PlanBudgetAssumption DEF PlanBounds, Trouble

\* One execution's step leaves the others where they were.
LEMMA OthersStay ==
  ASSUME PlanInv, NEW s \in Senders, NEW p \in Plans,
         \A t \in Senders \ {s} : senders'[t] = senders[t]
  PROVE  /\ Active(p)' \ {s} = Active(p) \ {s}
         /\ \A r \in Recipients : StillToExecute(p, r)' \ {s} = StillToExecute(p, r) \ {s}
BY DEF Active, StillToExecute, PlanOf

LEMMA ReadPlanBounds ==
  ASSUME PlanInv, PlanBounds, NEW s \in Senders, NEW p \in Plans, ReadPlan(s, p)
  PROVE  PlanBounds'
<1>1. /\ \A t \in Senders \ {s} : senders'[t] = senders[t]
      /\ UNCHANGED <<queued, runs, dropped>>
      /\ used' \in [sends: 0..MaxSends, troubles: 0..MaxTrouble] /\ used'.sends = used.sends + 1
  BY PlanBudgetAssumption DEF ReadPlan, PlanBounds, PlanInv, PlanTypes
<1>2. \A q \in Plans :
        /\ Active(q)' \subseteq Active(q) \cup {s}
        /\ \A r \in Recipients : StillToExecute(q, r)' \subseteq StillToExecute(q, r) \cup {s}
  BY <1>1, OthersStay
<1>3. \A q \in Plans : Within(runs[q].released, Active(q)', used.sends + 1)
  BY <1>2, OneMorePending DEF PlanBounds
<1>4. \A q \in Plans, r \in Recipients :
        Within(runs[q].executed[r], StillToExecute(q, r)', used.sends + 1)
  <2>1. SUFFICES ASSUME NEW q \in Plans, NEW r \in Recipients
                 PROVE  Within(runs[q].executed[r], StillToExecute(q, r)', used.sends + 1)
    OBVIOUS
  <2>2. /\ Within(runs[q].executed[r], StillToExecute(q, r), used.sends)
        /\ StillToExecute(q, r)' \in SUBSET (StillToExecute(q, r) \cup {s})
    BY <1>2 DEF PlanBounds
  <2>3. QED BY <2>2, OneMorePending
<1>5. QED BY <1>1, <1>3, <1>4 DEF PlanBounds

LEMMA ConsumePlanBounds ==
  ASSUME PlanInv, PlanBounds, NEW s \in Senders, ConsumePlan(s)
  PROVE  PlanBounds'
<1>1. UNCHANGED <<queued, used, runs, dropped>> /\ senders[s].at = "consume"
  BY DEF ConsumePlan
<1>2. CASE Finish(s)
  BY <1>1, <1>2, FinishLeaves, PlanBoundsKept DEF PlanBounds
<1>3. CASE ~Finish(s)
  <2>1. \A t \in Senders \ {s} : senders'[t] = senders[t]
    BY <1>3 DEF ConsumePlan, PlanInv, PlanTypes
  <2>4. PlanOf(s)' = PlanOf(s)
    BY <1>3 DEF ConsumePlan, PlanOf, PlanInv, PlanTypes, SenderStates
  <2>2. \A p \in Plans :
          /\ Active(p)' \subseteq Active(p)
          /\ \A r \in Recipients : StillToExecute(p, r)' \subseteq StillToExecute(p, r)
    <3>1. SUFFICES ASSUME NEW p \in Plans
                   PROVE  /\ Active(p)' \subseteq Active(p)
                          /\ \A r \in Recipients : StillToExecute(p, r)' \subseteq StillToExecute(p, r)
      OBVIOUS
    <3>2. PlanOf(s) = p => s \in Active(p) /\ \A r \in Recipients : s \in StillToExecute(p, r)
      BY <1>1 DEF Active, StillToExecute
    <3>3. PlanOf(s) # p => s \notin Active(p)' /\ \A r \in Recipients : s \notin StillToExecute(p, r)'
      BY <2>4 DEF Active, StillToExecute
    <3>4. QED BY <2>1, <3>2, <3>3, OthersStay
  <2>3. QED BY <1>1, <2>2, PlanBoundsKept DEF PlanBounds
<1>4. QED BY <1>2, <1>3

\* A row that is executed was still to be.
LEMMA ExecuteRowBounds ==
  ASSUME PlanInv, PlanBounds, NEW s \in Senders, NEW r \in Recipients, ExecuteRow(s, r)
  PROVE  PlanBounds'
<1>1. PICK p \in Plans : p = PlanOf(s) /\ senders[s].at = "execute" /\ r \in senders[s].left
  BY DEF PlanInv, SendersHoldPlans, ExecuteRow
<1>2. /\ \A t \in Senders \ {s} : senders'[t] = senders[t]
      /\ PlanOf(s)' = p /\ senders'[s].at = "execute" /\ senders'[s].left = senders[s].left \ {r}
  <2>1. PICK failed \in BOOLEAN : senders' = [senders EXCEPT ![s].left = @ \ {r}, ![s].failed = failed]
    BY DEF ExecuteRow, PlanInv, PlanTypes, SenderStates
  <2>2. QED BY <1>1, <2>1 DEF PlanInv, PlanTypes, SenderStates, PlanOf
<1>3. /\ \A q \in Plans : runs'[q].released = runs[q].released
      /\ \A q \in Plans, other \in Recipients :
           runs'[q].executed[other] = runs[q].executed[other] + (IF q = p /\ other = r THEN 1 ELSE 0)
  <2>1. \/ runs' = [runs EXCEPT ![p].executed[r] = @ + 1]
        \/ runs' = [[runs EXCEPT ![p].executed[r] = @ + 1] EXCEPT ![p].turnedAway = @ \cup {r}]
    BY <1>1 DEF ExecuteRow
  <2>2. CASE runs' = [runs EXCEPT ![p].executed[r] = @ + 1]
    BY <2>2 DEF PlanInv, PlanTypes
  <2>3. CASE runs' = [[runs EXCEPT ![p].executed[r] = @ + 1] EXCEPT ![p].turnedAway = @ \cup {r}]
    BY <2>3 DEF PlanInv, PlanTypes
  <2>4. QED BY <2>1, <2>2, <2>3
<1>4. /\ used' \in [sends: 0..MaxSends, troubles: 0..MaxTrouble] /\ used'.sends = used.sends
      /\ queued' \subseteq Recipients /\ dropped' \subseteq Plans
  BY TroubleTyped DEF ExecuteRow, PlanBounds
<1>5. \A q \in Plans : Active(q)' \subseteq Active(q)
  <2>1. s \in Active(p) /\ \A q \in Plans : q # p => s \notin Active(q)'
    BY <1>1, <1>2 DEF Active
  <2>2. QED BY <1>2, <2>1, OthersStay
<1>6. s \in StillToExecute(p, r) /\ StillToExecute(p, r)' \subseteq StillToExecute(p, r) \ {s}
  <2>1. s \in StillToExecute(p, r) /\ s \notin StillToExecute(p, r)'
    BY <1>1, <1>2 DEF Active, StillToExecute
  <2>2. QED BY <1>2, <2>1, OthersStay
<1>7. \A q \in Plans, other \in Recipients : StillToExecute(q, other)' \subseteq StillToExecute(q, other)
  <2>1. \A q \in Plans, other \in Recipients :
          s \in StillToExecute(q, other)' => s \in StillToExecute(q, other)
    BY <1>1, <1>2 DEF Active, StillToExecute
  <2>2. QED BY <1>2, <2>1, OthersStay
<1>8. \A q \in Plans, other \in Recipients :
        Within(runs'[q].executed[other], StillToExecute(q, other)', used'.sends)
  <2>1. SUFFICES ASSUME NEW q \in Plans, NEW other \in Recipients
                 PROVE  Within(runs'[q].executed[other], StillToExecute(q, other)', used'.sends)
    OBVIOUS
  <2>2. CASE q = p /\ other = r
    BY <1>3, <1>4, <1>6, <2>2, OneDone DEF PlanBounds
  <2>3. CASE ~(q = p /\ other = r)
    <3>1. runs'[q].executed[other] = runs[q].executed[other]
      BY <1>3, <2>3 DEF PlanInv, PlanTypes
    <3>2. QED BY <1>4, <1>7, <3>1, FewerPending DEF PlanBounds
  <2>4. QED BY <2>2, <2>3
<1>9. QED BY <1>3, <1>4, <1>5, <1>8, FewerPending DEF PlanBounds

\* A plan is given back by an execution that ends.
LEMMA FinishPlanBounds ==
  ASSUME PlanInv, PlanBounds, NEW s \in Senders, FinishPlan(s)
  PROVE  PlanBounds'
<1>1. PICK p \in Plans : p = PlanOf(s) /\ s \in Active(p)
  BY DEF PlanInv, SendersHoldPlans, FinishPlan, Active
<1>2. Finish(s) /\ UNCHANGED <<queued, used, dropped>>
  BY DEF FinishPlan
<1>3. CASE UNCHANGED runs
  BY <1>2, <1>3, FinishLeaves, PlanBoundsKept DEF PlanBounds
<1>4. CASE ~UNCHANGED runs
  <2>1. runs' = [runs EXCEPT ![p].released = @ + 1]
    BY <1>1, <1>4 DEF FinishPlan
  <2>2. /\ \A q \in Plans : runs'[q].released = runs[q].released + (IF q = p THEN 1 ELSE 0)
        /\ \A q \in Plans, r \in Recipients : runs'[q].executed[r] = runs[q].executed[r]
    BY <2>1 DEF PlanInv, PlanTypes
  <2>3. \A q \in Plans, r \in Recipients : Within(runs'[q].executed[r], StillToExecute(q, r)', used'.sends)
    BY <1>2, <2>2, FinishLeaves, FewerPending DEF PlanBounds
  <2>4. \A q \in Plans : Within(runs'[q].released, Active(q)', used'.sends)
    <3>1. SUFFICES ASSUME NEW q \in Plans PROVE Within(runs'[q].released, Active(q)', used'.sends)
      OBVIOUS
    <3>2. CASE q = p
      BY <1>1, <1>2, <2>2, <3>2, FinishLeaves, OneDone DEF PlanBounds
    <3>3. CASE q # p
      <4>1. runs'[q].released = runs[q].released
        BY <2>2, <3>3 DEF PlanInv, PlanTypes
      <4>2. QED BY <1>2, <4>1, FinishLeaves, FewerPending DEF PlanBounds
    <3>4. QED BY <3>2, <3>3
  <2>5. QED BY <1>2, <2>3, <2>4 DEF PlanBounds
<1>5. QED BY <1>3, <1>4

LEMMA PlanBoundsStep ==
  ASSUME PlanInv, PlanBounds, [PlanNext]_planVars
  PROVE  PlanBounds'
<1>1. ASSUME NEW p \in Plans, CreatePlan(p) \/ ExpirePlan(p) PROVE PlanBounds'
  BY <1>1, PlanBoundsKept DEF CreatePlan, ExpirePlan, PlanBounds, Active, StillToExecute, PlanOf
<1>2. ASSUME NEW s \in Senders, SendCutOff(s) PROVE PlanBounds'
  <2>1. dropped' \subseteq Plans
    BY <1>2 DEF SendCutOff, PlanBounds, PlanInv, SendersHoldPlans
  <2>2. QED BY <1>2, <2>1, TroubleTyped, FinishLeaves, PlanBoundsKept DEF SendCutOff, PlanBounds
<1>3. CASE UNCHANGED planVars
  BY <1>3, PlanBoundsKept DEF planVars, PlanBounds, Active, StillToExecute, PlanOf
<1>4. QED
  BY <1>1, <1>2, <1>3, ReadPlanBounds, ConsumePlanBounds, ExecuteRowBounds, FinishPlanBounds
     DEF PlanNext

\* PlanTypeOK, with its bounds.
LEMMA PlanTyped ==
  ASSUME PlanInv, PlanBounds, Plans # {}
  PROVE  PlanTypeOK
<1>1. NotSending.plan \in Plans
  BY DEF NotSending
<1>2. senders \in [Senders -> [at: {"idle", "consume", "execute"}, plan: Plans,
                               left: SUBSET Recipients, failed: BOOLEAN]]
  BY <1>1 DEF PlanInv, PlanTypes, SenderStates
<1>3. \A p \in Plans : /\ runs[p].released \in 0..MaxSends
                       /\ \A r \in Recipients : runs[p].executed[r] \in 0..MaxSends
  <2>1. \A done, pending : Within(done, pending, used.sends) => done \in 0..MaxSends
    BY PlanBudgetAssumption, FS_CardinalityType DEF Within, PlanBounds
  <2>2. QED BY <2>1 DEF PlanBounds
<1>4. runs \in [Plans -> [released: 0..MaxSends, executed: [Recipients -> 0..MaxSends],
                          turnedAway: SUBSET Recipients]]
  BY <1>3 DEF PlanInv, PlanTypes
<1>5. QED BY <1>2, <1>4 DEF PlanTypeOK, PlanBounds, PlanInv, PlanTypes

\* Edits under way.
Editing == {e \in Editors : editor[e].at # "idle"}

RecordBounds ==
  /\ cursor \in [watermark: Digests \cup {0}, updated: Instants \cup {0}]
  /\ config \in [updated: Nat, version: Nat, by: Editors \cup {Nobody}]
  /\ advisoryLock \in Editors \cup {Nobody}
  /\ work \in 0..MaxWork /\ Within(config.version, Editing, work)
  /\ \A e \in Editors : editor[e].expected <= config.version

LEMMA RecordBoundsInit == RecordInit => RecordBounds
<1> SUFFICES ASSUME RecordInit PROVE RecordBounds
  OBVIOUS
<1>1. Editing = {} /\ \A e \in Editors : editor[e].expected = 0
  BY DEF RecordInit, NotEditing, Editing
<1>2. Within(0, {}, 0)
  BY FS_EmptySet DEF Within
<1>3. config.version = 0 /\ work = 0
  BY DEF RecordInit
<1>4. QED BY <1>1, <1>2, <1>3, MaxWorkAssumption DEF RecordInit, RecordBounds

\* The cursor's steps.
LEMMA CursorBounds ==
  ASSUME RecordInv, RecordBounds, UNCHANGED configVars,
         \/ \E d \in Digests : \/ \E now \in Instants : SendDigest(d, now)
                               \/ \E r \in Reconcilers, sent \in Instants : ReadCursor(r, d, sent)
         \/ \E r \in Reconcilers : WriteCursor(r) \/ ReconcileFails(r)
         \/ UNCHANGED recordVars
  PROVE  RecordBounds'
<1>1. Editing' = Editing /\ config' = config /\ editor' = editor /\ advisoryLock' = advisoryLock
  BY DEF configVars, Editing
<1>2. cursor' \in [watermark: Digests \cup {0}, updated: Instants \cup {0}]
  <2>1. CASE UNCHANGED cursor
    BY <2>1 DEF RecordBounds
  <2>2. CASE ~UNCHANGED cursor
    <3>1. PICK r \in Reconcilers : WriteCursor(r)
      BY <2>2 DEF SendDigest, ReadCursor, ReconcileFails, recordVars
    <3>2. reconciler[r].digest \in Digests \cup {0} /\ reconciler[r].sent \in Instants \cup {0}
      BY <3>1 DEF RecordInv, RecordTypes
    <3>3. cursor' \in {cursor, [watermark |-> reconciler[r].digest, updated |-> reconciler[r].sent]}
      BY <3>1 DEF WriteCursor, Upserted
    <3>4. QED BY <3>2, <3>3 DEF RecordBounds
  <2>3. QED BY <2>1, <2>2
<1>3. work' \in 0..MaxWork /\ work' \in {work, work + 1}
  <2>1. work' = work \/ (work' = work + 1 /\ work < MaxWork)
    BY DEF SendDigest, ReadCursor, WriteCursor, ReconcileFails, recordVars
  <2>2. QED BY <2>1, MaxWorkAssumption DEF RecordBounds
<1>4. Within(config.version, Editing, work')
  <2>1. Within(config.version, Editing, work + 1)
    <3>1. Editing \subseteq Editing \cup {0}
      OBVIOUS
    <3>2. QED BY <3>1, OneMorePending DEF RecordBounds
  <2>2. QED BY <1>3, <2>1 DEF RecordBounds
<1>5. QED BY <1>1, <1>2, <1>3, <1>4 DEF RecordBounds

\* One editor's step.
LEMMA EditorMoves ==
  ASSUME RecordInv, RecordBounds, NEW e \in Editors,
         LockConfig(e) \/ ReadConfig(e) \/ EditFails(e) \/ \E version \in 0..config.version : Edit(e, version)
  PROVE  RecordBounds'
<1>1. UNCHANGED <<cursor, sentAt, config>>
  BY DEF Edit, LockConfig, ReadConfig, EditFails, cursorVars
<1> DEFINE moved == /\ \A f \in Editors \ {e} : editor'[f] = editor[f]
                    /\ editor'[e].expected \in 0..config.version
                    /\ advisoryLock' \in Editors \cup {Nobody}
<1>2. moved
  <2>1. editor[e].expected \in Nat /\ config.version \in Nat
    BY DEF RecordInv, RecordTypes, EditorStates, RecordBounds
  <2>2. ASSUME EndEdit(e) PROVE moved
    BY <2>1, <2>2, EndEditTypes DEF EndEdit, RecordInv, RecordTypes, NotEditing, RecordBounds
  <2>3. CASE ReadConfig(e)
    BY <2>1, <2>2, <2>3 DEF ReadConfig, RecordInv, RecordTypes, EditorStates, RecordBounds
  <2>4. CASE EditFails(e)
    BY <2>2, <2>4 DEF EditFails
  <2>5. CASE LockConfig(e)
    BY <2>1, <2>5 DEF LockConfig, RecordInv, RecordTypes, EditorStates, RecordBounds
  <2>6. ASSUME NEW version \in 0..config.version, Edit(e, version) PROVE moved
    <3>1. /\ editor' = [editor EXCEPT ![e] = [editor[e] EXCEPT !.at = "lock", !.expected = version]]
          /\ UNCHANGED advisoryLock
      BY <2>6 DEF Edit, RecordInv, RecordTypes, EditorStates
    <3>2. editor \in [Editors -> EditorStates]
      BY DEF RecordInv, RecordTypes
    <3>3. editor'[e].expected = version /\ \A f \in Editors \ {e} : editor'[f] = editor[f]
      BY <3>1, <3>2 DEF EditorStates
    <3>4. QED BY <2>6, <3>1, <3>3 DEF RecordBounds
  <2>7. QED BY <2>3, <2>4, <2>5, <2>6
<1>3. work' \in 0..MaxWork /\ Within(config.version, Editing', work')
  <2>1. CASE UNCHANGED work
    <3>1. Editing' \subseteq Editing
      BY <1>2, <2>1 DEF Edit, LockConfig, ReadConfig, EditFails, Editing, RecordBounds
    <3>2. QED BY <2>1, <3>1, FewerPending DEF RecordBounds
  <2>2. CASE ~UNCHANGED work
    <3>1. work' = work + 1 /\ work < MaxWork
      BY <2>2 DEF Edit, LockConfig, ReadConfig, EditFails
    <3>2. Editing' \subseteq Editing \cup {e}
      BY <1>2 DEF Editing
    <3>3. Within(config.version, Editing', work + 1)
      BY <3>2, OneMorePending DEF RecordBounds
    <3>4. work' \in 0..MaxWork
      BY <3>1, MaxWorkAssumption DEF RecordBounds
    <3>5. QED BY <3>1, <3>3, <3>4
  <2>3. QED BY <2>1, <2>2
<1>4. QED BY <1>1, <1>2, <1>3 DEF RecordBounds

\* An edit that writes ends, and the version is one later at most.
LEMMA WriteConfigBounds ==
  ASSUME RecordInv, RecordBounds, NEW e \in Editors, NEW now \in Instants, WriteConfig(e, now)
  PROVE  RecordBounds'
<1>1. UNCHANGED <<cursor, sentAt, work>> /\ EndEdit(e) /\ e \in Editing
  BY DEF WriteConfig, cursorVars, Editing
<1>2. /\ editor'[e] = NotEditing /\ \A f \in Editors \ {e} : editor'[f] = editor[f]
      /\ advisoryLock' \in Editors \cup {Nobody}
  BY <1>1 DEF EndEdit, RecordInv, RecordTypes, RecordBounds
<1>3. Editing' \subseteq Editing \ {e}
  BY <1>2 DEF Editing, NotEditing
<1>4. PICK updated \in Nat :
        config' \in {config, [updated |-> updated, version |-> config.version + 1, by |-> e]}
  <2>1. NextUpdatedAt(editor[e].updated, now) \in Nat
    BY InstantsAssumption DEF NextUpdatedAt, RecordInv, RecordTypes, EditorStates
  <2>2. QED BY <2>1 DEF WriteConfig, Upserted
<1>5. /\ config' \in [updated: Nat, version: Nat, by: Editors \cup {Nobody}]
      /\ config'.version \in {config.version, config.version + 1}
  BY <1>4 DEF RecordBounds
<1>6. Within(config.version, Editing', work) /\ Within(config.version + 1, Editing', work)
  <2>1. Editing' \subseteq Editing
    BY <1>3
  <2>2. QED BY <1>1, <1>3, <2>1, FewerPending, OneDone DEF RecordBounds
<1>7. \A f \in Editors : editor'[f].expected <= config'.version
  <2>1. \A f \in Editors : editor'[f].expected \in Nat /\ editor'[f].expected <= config.version
    BY <1>2 DEF NotEditing, RecordInv, RecordTypes, EditorStates, RecordBounds
  <2>2. config.version \in Nat
    BY DEF RecordBounds
  <2>3. QED BY <1>5, <2>1, <2>2
<1>8. QED BY <1>1, <1>2, <1>5, <1>6, <1>7 DEF RecordBounds

LEMMA RecordBoundsStep ==
  ASSUME RecordInv, RecordBounds, [RecordNext]_recordVars
  PROVE  RecordBounds'
<1>1. CASE \/ \E d \in Digests : \/ \E now \in Instants : SendDigest(d, now)
                                 \/ \E r \in Reconcilers, sent \in Instants : ReadCursor(r, d, sent)
           \/ \E r \in Reconcilers : WriteCursor(r) \/ ReconcileFails(r)
           \/ UNCHANGED recordVars
  <2>1. UNCHANGED configVars
    BY <1>1 DEF SendDigest, ReadCursor, WriteCursor, ReconcileFails, recordVars, configVars
  <2>2. QED BY <1>1, <2>1, CursorBounds
<1>2. QED BY <1>1, EditorMoves, WriteConfigBounds DEF RecordNext

\* RecordTypeOK, with its bounds.
LEMMA RecordTyped ==
  ASSUME RecordInv, RecordBounds
  PROVE  RecordTypeOK
<1>1. config.version \in 0..MaxWork
  BY MaxWorkAssumption, FS_CardinalityType DEF RecordBounds, Within
<1>2. editor \in [Editors -> [at: {"idle", "lock", "read", "write"}, expected: 0..MaxWork, updated: Nat]]
  <2>1. \A e \in Editors : editor[e].expected \in 0..MaxWork
    BY <1>1, MaxWorkAssumption DEF RecordBounds, RecordInv, RecordTypes, EditorStates
  <2>2. QED BY <2>1 DEF RecordInv, RecordTypes, EditorStates
<1>3. QED BY <1>1, <1>2 DEF RecordTypeOK, RecordBounds, RecordInv, RecordTypes

\* Requests for a link that may still insert it.
MayInsert == {u \in LinkUsers : asking[u].at \in {"code", "url", "append", "codeAgain", "insert"}}

LinkBounds ==
  /\ asked \in [requests: 0..MaxAsked, rows: Nat]
  /\ Within(asked.rows, MayInsert, asked.requests)
  /\ \A u \in LinkUsers : asking[u].id <= asked.rows
  /\ handed \subseteq LinkUsers \X Urls /\ unlisted \subseteq handed
  /\ irregular \in [late: SUBSET LinkUsers, overlap: BOOLEAN]
  /\ \A u \in LinkUsers : ~Asks(u, "idle") => UrlOf(u) \in Urls

LEMMA LinkBoundsInit == LinkInit => LinkBounds
<1> SUFFICES ASSUME LinkInit PROVE LinkBounds
  OBVIOUS
<1>1. MayInsert = {} /\ \A u \in LinkUsers : asking[u].id = 0 /\ Asks(u, "idle")
  BY DEF LinkInit, NotAsking, MayInsert, Asks
<1>2. Within(0, {}, 0)
  BY FS_EmptySet DEF Within
<1>3. asked.rows = 0 /\ asked.requests = 0 /\ asked \in [requests: 0..MaxAsked, rows: Nat]
  BY MaxAskedAssumption DEF LinkInit
<1>4. QED BY <1>1, <1>2, <1>3 DEF LinkInit, LinkBounds

\* What a step of a request without an insert does to the counts.
LEMMA RequestCounts ==
  ASSUME LinkInv, LinkBounds, NEW u \in LinkUsers, UNCHANGED asked,
         \A v \in LinkUsers \ {u} : asking'[v] = asking[v],
         asking'[u].at \in {"idle", "failed"} \/ u \in MayInsert,
         asking'[u].id \in {0, asking[u].id, link.id},
         asking'[u].at # "idle" => UrlOf(u)' = UrlOf(u) /\ ~Asks(u, "idle"),
         UNCHANGED linkHistory \/ (HandOut(u) /\ ~Asks(u, "idle"))
  PROVE  LinkBounds'
<1>1. MayInsert' \subseteq MayInsert
  BY DEF MayInsert
<1>2. Within(asked.rows, MayInsert', asked.requests)
  BY <1>1, FewerPending DEF LinkBounds
<1>3. \A v \in LinkUsers : asking'[v].id <= asked.rows
  BY DEF LinkBounds, LinkInv, LinkTypes, RowsAreNumbered
<1>4. \A v \in LinkUsers : ~Asks(v, "idle")' => UrlOf(v)' \in Urls
  BY DEF LinkBounds, Asks, UrlOf
<1>5. /\ handed' \subseteq LinkUsers \X Urls /\ unlisted' \subseteq handed'
      /\ irregular' \in [late: SUBSET LinkUsers, overlap: BOOLEAN]
  <2>1. CASE UNCHANGED linkHistory
    BY <2>1 DEF linkHistory, LinkBounds
  <2>2. CASE HandOut(u) /\ ~Asks(u, "idle")
    BY <2>2 DEF HandOut, LinkBounds
  <2>3. QED BY <2>1, <2>2
<1>6. QED BY <1>2, <1>3, <1>4, <1>5 DEF LinkBounds

\* The shapes of a request's step.
LEMMA RequestShapes ==
  ASSUME LinkInv, NEW u \in LinkUsers, NEW step \in LinkSteps \ {"idle"},
         HandOut(u) \/ Refuse(u) \/ Proceed(u, step)
  PROVE  /\ \A v \in LinkUsers \ {u} : asking'[v] = asking[v]
         /\ asking'[u].at \in {"idle", step} /\ asking'[u].id \in {0, asking[u].id}
         /\ asking'[u].at # "idle" => UrlOf(u)' = UrlOf(u)
         /\ UNCHANGED linkHistory \/ HandOut(u)
<1>1. CASE HandOut(u) \/ Refuse(u)
  BY <1>1 DEF HandOut, Refuse, LinkInv, LinkTypes, NotAsking
<1>2. CASE Proceed(u, step)
  BY <1>2 DEF Proceed, LinkInv, LinkTypes, AskStates, UrlOf
<1>3. QED BY <1>1, <1>2

LEMMA LookUpBounds ==
  ASSUME LinkInv, LinkBounds, NEW u \in LinkUsers,
         LookUpCode(u) \/ LookUpUrl(u) \/ AppendUser(u) \/ LookUpCodeAgain(u) \/ QueryFails(u)
           \/ CheckForRace(u)
  PROVE  LinkBounds'
<1>1. UNCHANGED asked /\ ~Asks(u, "idle")
  BY DEF LookUpCode, LookUpUrl, AppendUser, LookUpCodeAgain, QueryFails, CheckForRace, Asks
<1>2. u \in MayInsert \/ Asks(u, "failed")
  BY <1>1 DEF MayInsert, Asks, LinkInv, LinkTypes, AskStates, LinkSteps
<1>3. CASE HandOut(u) \/ Refuse(u) \/ \E step \in LinkSteps \ {"idle"} :
             Proceed(u, step) /\ (step = "failed" \/ u \in MayInsert)
  <2>1. PICK step \in LinkSteps \ {"idle"} :
          /\ HandOut(u) \/ Refuse(u) \/ Proceed(u, step)
          /\ step = "failed" \/ u \in MayInsert
    BY <1>3 DEF LinkSteps
  <2>2. /\ \A v \in LinkUsers \ {u} : asking'[v] = asking[v]
        /\ asking'[u].at \in {"idle", step} /\ asking'[u].id \in {0, asking[u].id}
        /\ asking'[u].at # "idle" => UrlOf(u)' = UrlOf(u)
        /\ UNCHANGED linkHistory \/ HandOut(u)
    BY <2>1, RequestShapes
  <2>3. QED BY <1>1, <2>1, <2>2, RequestCounts
<1>4. CASE ~(HandOut(u) \/ Refuse(u) \/ \E step \in LinkSteps \ {"idle"} :
               Proceed(u, step) /\ (step = "failed" \/ u \in MayInsert))
  <2>1. /\ u \in MayInsert /\ UNCHANGED linkHistory
        /\ \/ asking' = [asking EXCEPT ![u].at = "url", ![u].known = TRUE]
           \/ asking' = [asking EXCEPT ![u].at = "append", ![u].id = link.id]
    BY <1>2, <1>4
       DEF LookUpCode, LookUpUrl, AppendUser, LookUpCodeAgain, QueryFails, CheckForRace, Asks,
           LinkSteps, MayInsert
  <2>2. /\ \A v \in LinkUsers \ {u} : asking'[v] = asking[v]
        /\ asking'[u].id \in {asking[u].id, link.id} /\ UrlOf(u)' = UrlOf(u)
    BY <2>1 DEF LinkInv, LinkTypes, AskStates, UrlOf
  <2>3. QED BY <1>1, <2>1, <2>2, RequestCounts
<1>5. QED BY <1>3, <1>4

LEMMA AskForLinkBounds ==
  ASSUME LinkInv, LinkBounds, NEW u \in LinkUsers, NEW url \in Urls, AskForLink(u, url)
  PROVE  LinkBounds'
<1>1. /\ \A v \in LinkUsers \ {u} : asking'[v] = asking[v]
      /\ UrlOf(u)' = url /\ asking'[u].id = asking[u].id
  BY DEF AskForLink, LinkInv, LinkTypes, AskStates, UrlOf
<1>2. /\ asked' \in [requests: 0..MaxAsked, rows: Nat] /\ asked'.rows = asked.rows
      /\ asked'.requests = asked.requests + 1
  BY MaxAskedAssumption DEF AskForLink, LinkBounds
<1>3. MayInsert' \subseteq MayInsert \cup {u}
  BY <1>1 DEF MayInsert
<1>4. Within(asked.rows, MayInsert', asked.requests + 1)
  BY <1>3, OneMorePending DEF LinkBounds
<1>5. UNCHANGED <<handed, unlisted, irregular>>
  BY DEF AskForLink, linkHistory
<1>6. \A v \in LinkUsers : /\ asking'[v].id <= asked.rows
                           /\ ~Asks(v, "idle")' => UrlOf(v)' \in Urls
  BY <1>1 DEF LinkBounds, Asks, UrlOf
<1>7. QED BY <1>2, <1>4, <1>5, <1>6 DEF LinkBounds

\* Who has inserted a row inserts no other.
LEMMA InsertLinkBounds ==
  ASSUME LinkInv, LinkBounds, NEW u \in LinkUsers, InsertLink(u)
  PROVE  LinkBounds'
<1>1. u \in MayInsert /\ ~Asks(u, "idle") /\ (HandOut(u) \/ Proceed(u, "failed"))
  BY DEF InsertLink, MayInsert, Asks
<1>2. /\ \A v \in LinkUsers \ {u} : asking'[v] = asking[v]
      /\ asking'[u].at \in {"idle", "failed"} /\ asking'[u].id \in {0, asking[u].id}
      /\ asking'[u].at # "idle" => UrlOf(u)' = UrlOf(u)
      /\ UNCHANGED linkHistory \/ HandOut(u)
  <2>1. "failed" \in LinkSteps \ {"idle"}
    BY DEF LinkSteps
  <2>2. QED BY <1>1, <2>1, RequestShapes
<1>3. CASE UNCHANGED asked
  BY <1>1, <1>2, <1>3, RequestCounts
<1>4. CASE ~UNCHANGED asked
  <2>1. asked' = [asked EXCEPT !.rows = @ + 1]
    BY <1>4 DEF InsertLink
  <2>2. /\ asked' \in [requests: 0..MaxAsked, rows: Nat] /\ asked'.rows = asked.rows + 1
        /\ asked'.requests = asked.requests
    BY <2>1 DEF LinkBounds
  <2>3. MayInsert' \subseteq MayInsert \ {u}
    BY <1>2 DEF MayInsert
  <2>4. Within(asked.rows + 1, MayInsert', asked.requests)
    BY <1>1, <2>3, OneDone DEF LinkBounds
  <2>5. \A v \in LinkUsers : asking'[v].id <= asked.rows + 1
    BY <1>2 DEF LinkBounds, LinkInv, LinkTypes, AskStates
  <2>6. \A v \in LinkUsers : ~Asks(v, "idle")' => UrlOf(v)' \in Urls
    BY <1>1, <1>2 DEF LinkBounds, Asks, UrlOf
  <2>7. /\ handed' \subseteq LinkUsers \X Urls /\ unlisted' \subseteq handed'
        /\ irregular' \in [late: SUBSET LinkUsers, overlap: BOOLEAN]
    <3>1. CASE UNCHANGED linkHistory
      BY <3>1 DEF linkHistory, LinkBounds
    <3>2. CASE HandOut(u)
      BY <1>1, <3>2 DEF HandOut, LinkBounds
    <3>3. QED BY <1>2, <3>1, <3>2
  <2>8. QED BY <2>2, <2>4, <2>5, <2>6, <2>7 DEF LinkBounds
<1>5. QED BY <1>3, <1>4

LEMMA LinkBoundsStep ==
  ASSUME LinkInv, LinkBounds, [LinkNext]_linkVars
  PROVE  LinkBounds'
<1>1. ASSUME UNCHANGED <<asking, asked, handed, unlisted>>,
             irregular' \in [late: SUBSET LinkUsers, overlap: BOOLEAN]
      PROVE  LinkBounds'
  BY <1>1 DEF LinkBounds, MayInsert, Asks, UrlOf
<1>2. ASSUME NEW u \in LinkUsers, DeleteOwnLink(u) \/ LeaveLinks(u) PROVE LinkBounds'
  <2>1. irregular' \in [late: SUBSET LinkUsers, overlap: BOOLEAN]
    <3>1. CASE LeaveLinks(u)
      BY <3>1 DEF LeaveLinks, linkHistory, LinkBounds
    <3>2. CASE DeleteOwnLink(u)
      <4>1. irregular'.late \subseteq LinkUsers /\ irregular'.overlap \in BOOLEAN
        BY <3>2 DEF DeleteOwnLink, LinkBounds
      <4>2. irregular' = [late |-> irregular'.late, overlap |-> irregular'.overlap]
        BY <3>2 DEF DeleteOwnLink
      <4>3. QED BY <4>1, <4>2
    <3>3. QED BY <1>2, <3>1, <3>2
  <2>2. QED BY <1>1, <1>2, <2>1 DEF DeleteOwnLink, LeaveLinks, linkHistory
<1>3. CASE UNCHANGED linkVars
  BY <1>1, <1>3 DEF linkVars, LinkBounds
<1>4. QED BY <1>2, <1>3, AskForLinkBounds, LookUpBounds, InsertLinkBounds DEF LinkNext

\* LinkTypeOK, with its bounds.
LEMMA LinkTyped ==
  ASSUME LinkInv, LinkBounds, Urls # {}
  PROVE  LinkTypeOK
<1>1. LinkUrls = Urls
  BY DEF LinkUrls, NoLink
<1>2. asked.rows \in 0..MaxAsked /\ asked.requests \in 0..MaxAsked
  BY MaxAskedAssumption, FS_CardinalityType DEF LinkBounds, Within
<1>3. link.id \in 0..MaxAsked /\ \A u \in LinkUsers : asking[u].id \in 0..MaxAsked
  BY <1>2, MaxAskedAssumption
     DEF LinkBounds, LinkInv, LinkTypes, RowsAreNumbered, AskStates
<1>4. QED BY <1>1, <1>2, <1>3 DEF LinkTypeOK, LinkBounds, LinkInv, LinkTypes, AskStates, LinkSteps

-----------------------------------------------------------------------------
(* The services together: a behaviour of all is a behaviour of each.         *)

\* Nothing that one service does is seen by another.
THEOREM ServicesImplementEach ==
  ServicesSpec => NewsSpec /\ MapSpec /\ LinkSpec /\ PlanSpec /\ RecordSpec /\ PrefSpec
<1>1. ServicesInit => NewsInit /\ MapInit /\ LinkInit /\ PlanInit /\ RecordInit /\ PrefInit
  BY DEF ServicesInit
<1>2. [ServicesNext]_servicesVars =>
        /\ [NewsNext]_newsVars /\ [MapNext]_mapVars /\ [LinkNext]_linkVars
        /\ [PlanNext]_planVars /\ [RecordNext]_recordVars /\ [PrefNext]_prefVars
  BY DEF ServicesNext, servicesVars
<1>3. QED
  BY <1>1, <1>2, PTL DEF ServicesSpec, NewsSpec, MapSpec, LinkSpec, PlanSpec, RecordSpec, PrefSpec

\* Every variable of every service keeps its type, and the counts their bounds.
THEOREM ServicesTypesAlways == ServicesSpec => []ServicesTypeOK
<1>1. PlanSpec => [](PlanInv /\ PlanBounds)
  BY PlanInvInit, PlanBoundsInit, PlanInvStep, PlanBoundsStep, PTL DEF PlanSpec
<1>2. RecordSpec => [](RecordInv /\ RecordBounds)
  BY RecordInvInit, RecordBoundsInit, RecordInvStep, RecordBoundsStep, PTL DEF RecordSpec
<1>3. LinkSpec => [](LinkInv /\ LinkBounds)
  BY LinkInvInit, LinkBoundsInit, LinkInvStep, LinkBoundsStep, PTL DEF LinkSpec
<1>4. NewsInv => NewsTypeOK
  BY DEF NewsInv
<1>5. PrefInv => PrefTypeOK
  BY DEF PrefInv
<1>6. LibraryInv => MapTypeOK
  <2>1. NoWrite.on \in Maps
    BY InstancesAssumption DEF NoWrite
  <2>2. Maps \cup Datasets \cup {NoWrite.on} = Maps \cup Datasets
    BY <2>1
  <2>3. MapOps \cup DatasetOps \cup {"none"} = MapOps \cup {"none", "setVisibility", "deleteDataset"}
    BY DEF DatasetOps
  <2>4. WriteRecords = [op: MapOps \cup {"none", "setVisibility", "deleteDataset"},
                        on: Maps \cup Datasets, refs: SUBSET Datasets,
                        next: {"private", "public", "shared"}, at: Stages]
    BY <2>2, <2>3 DEF WriteRecords
  <2>5. QED BY <2>4 DEF LibraryInv, LibraryTypes, MapTypeOK, MapRows, DatasetRows
<1>7. NewsInv /\ LibraryInv /\ PrefInv /\ PlanInv /\ PlanBounds /\ RecordInv /\ RecordBounds
        /\ LinkInv /\ LinkBounds => ServicesTypeOK
  BY <1>4, <1>5, <1>6, PlanTyped, RecordTyped, LinkTyped, InstancesAssumption DEF ServicesTypeOK
<1>8. QED
  BY <1>1, <1>2, <1>3, <1>7, ServicesImplementEach, NewsInvariant, LibraryInvariant,
     PreferencesInvariant, PTL

=============================================================================
