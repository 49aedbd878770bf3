------------------------- MODULE SubscriptionsProofs -------------------------
(***************************************************************************)
(* What a user's preferences promise, proved for any number of windows and *)
(* requests.                                                               *)
(***************************************************************************)
EXTENDS Subscriptions, TLAPS

-----------------------------------------------------------------------------
(* The inductive invariant                                                   *)

AskRecords == [op: {"none", "optIn", "turnOff", "leave", "unsubscribe", "delete", "ensure"},
               key: Kinds, at: AskSteps, todo: SUBSET Subscribable,
               writes: [Kinds -> {"same", "on", "off"}],
               should: BOOLEAN, overtaken: BOOLEAN]

\* Leaving is a row that is off, until a request turns it on or deletes it.
LeavingHolds ==
  /\ left.all => prefs["unsubscription"] = "off"
  /\ left.campaign => prefs["campaign"] = "off"

\* What a subscription may write: its row, the unsubscription, and the campaign
\* for the sake of updates; and only to turn it on.
OptsIn(s) ==
  /\ s.op = "optIn" /\ s.key \in Subscribable
  /\ \A k \in Kinds : s.writes[k] # Nothing =>
       /\ s.writes[k] = "on"
       /\ k \in {s.key, "unsubscription"} \/ (k = "campaign" /\ s.key = "updates")

\* What leaving may write: rows it turns off, of the campaign only, or with the
\* unsubscription.
LeavesAll(s) ==
  /\ s.op = "unsubscribe" /\ s.writes["unsubscription"] = "off"
  /\ \A k \in Kinds : s.writes[k] \in {Nothing, "off"}
LeavesOne(s) ==
  /\ s.op = "leave" /\ s.writes["campaign"] = "off" /\ s.todo \subseteq {"updates"}
  /\ \A k \in {"newsletter", "unsubscription"} : s.writes[k] = Nothing
  /\ \A k \in Kinds : s.writes[k] \in {Nothing, "off"}


\* What a request writes, at each of its steps.
AskOK(s) ==
  /\ s.at = "idle" => s = NotAsked
  /\ s.at \in {"own", "create", "lift", "join", "commit"} => OptsIn(s)
  /\ s.at = "join" => s.key = "updates"
  /\ s.at = "turnOff" => s.key \in {"newsletter", "updates"}
  /\ s.at \in {"leave", "unsubscribe"} =>
       s.op = s.at /\ s.todo = {} /\ \A k \in Kinds : s.writes[k] = Nothing
  /\ s.at \in {"scan", "others"} => LeavesAll(s) \/ LeavesOne(s)

\* A subscription that no withdrawal overtook has written what it needs, or has
\* found it, which stays.
StillFound(s) ==
  /\ ~s.overtaken /\ s.at \in {"lift", "join", "commit"} /\ s.writes[s.key] = Nothing =>
       prefs[s.key] = "on"
  /\ ~s.overtaken /\ s.at \in {"join", "commit"} /\ s.writes["unsubscription"] = Nothing =>
       prefs["unsubscription"] # "off"
  /\ s.at = "commit" /\ s.key = "updates" => s.writes["campaign"] = "on"

\* An automatic subscription that goes by a campaign that was off.
Aligning(s) == ~s.should /\ s.at \in {"updates", "createUpdates", "updatesAgain", "align"}

AsksOK == \A r \in Askers : AskOK(ask[r])
AllStillFound == \A r \in Askers : StillFound(ask[r])

PromisesKept ==
  /\ \A k \in promised : Eligible(k)
  /\ "updates" \in promised => \A r \in Askers : ~Aligning(ask[r])

PrefInv == PrefTypeOK /\ LeavingHolds /\ AsksOK /\ AllStillFound /\ PromisesKept

-----------------------------------------------------------------------------
(* What the steps have in common                                             *)

\* Nothing is asked at first.
LEMMA PrefInvInit == PrefInit => PrefInv
<1> SUFFICES ASSUME PrefInit PROVE PrefInv
  OBVIOUS
<1>1. NotAsked \in AskRecords /\ NotAsked.at = "idle"
  BY DEF NotAsked, AskRecords, Kinds, Subscribable, AskSteps, Nothing
<1>2. PrefTypeOK
  <2>1. prefs \in [Kinds -> {"none", "on", "off"}]
    BY DEF PrefInit
  <2>2. ask \in [Askers -> AskRecords] /\ prefLock \in [Kinds -> Askers \cup {Nobodys}]
    BY <1>1 DEF PrefInit
  <2>3. asks \in 0..MaxAsks /\ promised \subseteq Subscribable
    BY MaxAsksAssumption DEF PrefInit
  <2>4. left \in [all: BOOLEAN, campaign: BOOLEAN]
    BY DEF PrefInit
  <2>5. QED BY <2>1, <2>2, <2>3, <2>4 DEF PrefTypeOK, AskRecords
<1>3. QED
  BY <1>1, <1>2
     DEF PrefInit, PrefInv, LeavingHolds, AsksOK, AskOK, AllStillFound, StillFound, PromisesKept, Aligning

\* The type of a request.
LEMMA AskTyped ==
  ASSUME PrefTypeOK, NEW r \in Askers
  PROVE  ask[r] \in AskRecords
BY DEF PrefTypeOK, AskRecords

\* A step of one request that turns no row off, and none of those that leaving
\* turned off on.
LEMMA GainPrefs ==
  ASSUME PrefInv, NEW r \in Askers, NEW s \in AskRecords,
         ask' = [ask EXCEPT ![r] = s], UNCHANGED <<left, promised>>,
         prefs' \in [Kinds -> {"none", "on", "off"}],
         \A k \in Kinds : (prefs[k] = "on" => prefs'[k] = "on") /\ (prefs'[k] = "off" => prefs[k] = "off"),
         \A k \in {"unsubscription", "campaign"} : prefs[k] = "off" => prefs'[k] = "off",
         asks' \in 0..MaxAsks, prefLock' \in [Kinds -> Askers \cup {Nobodys}],
         AskOK(s), StillFound(s), "updates" \in promised => ~Aligning(s)
  PROVE  PrefInv'
<1>1. PrefTypeOK'
  BY DEF PrefInv, PrefTypeOK, AskRecords
<1>2. LeavingHolds'
  BY DEF PrefInv, LeavingHolds
<1>3. \A q \in Askers : ask'[q] = IF q = r THEN s ELSE ask[q]
  BY DEF PrefInv, PrefTypeOK
<1>4. AsksOK'
  BY <1>3 DEF PrefInv, AsksOK
<1>5. AllStillFound'
  <2>1. \A q \in Askers : ask'[q].key \in Kinds /\ StillFound(ask'[q])
    BY <1>3, AskTyped DEF PrefInv, AllStillFound, AskRecords
  <2>2. QED BY <2>1 DEF AllStillFound, StillFound, Kinds
<1>6. PromisesKept'
  <2>1. \A k \in promised : k \in Kinds
    BY DEF PrefInv, PrefTypeOK, Kinds
  <2>2. \A k \in promised : Eligible(k)'
    BY <2>1 DEF PrefInv, PromisesKept, Eligible, Kinds, Subscribable
  <2>3. QED BY <1>3, <2>2 DEF PrefInv, PromisesKept, Aligning
<1>7. QED BY <1>1, <1>2, <1>4, <1>5, <1>6 DEF PrefInv

\* A statement within a transaction concerns its request alone.
LEMMA StatementPrefs ==
  ASSUME PrefInv, NEW r \in Askers, NEW s \in AskRecords,
         ask' = [ask EXCEPT ![r] = s], UNCHANGED <<prefs, left, promised>>,
         asks' \in 0..MaxAsks, prefLock' \in [Kinds -> Askers \cup {Nobodys}],
         AskOK(s), StillFound(s), "updates" \in promised => ~Aligning(s)
  PROVE  PrefInv'
<1>1. prefs' \in [Kinds -> {"none", "on", "off"}]
  BY DEF PrefInv, PrefTypeOK
<1>2. QED BY <1>1, GainPrefs

\* A request that has ended promises nothing.
LEMMA NotAskedFine ==
  NotAsked \in AskRecords /\ NotAsked.at = "idle" /\ AskOK(NotAsked) /\ StillFound(NotAsked)
    /\ ~Aligning(NotAsked)
<1>1. NotAsked \in AskRecords /\ NotAsked.at = "idle"
  BY DEF NotAsked, AskRecords, Kinds, Subscribable, AskSteps, Nothing
<1>2. QED BY <1>1 DEF AskOK, StillFound, Aligning

\* Locks are released, and taken, by requests.
LEMMA LocksTyped ==
  ASSUME PrefTypeOK, NEW r \in Askers
  PROVE  /\ Unlock(r) => prefLock' \in [Kinds -> Askers \cup {Nobodys}]
         /\ \A k \in Kinds : prefLock' = [prefLock EXCEPT ![k] = r]
              => prefLock' \in [Kinds -> Askers \cup {Nobodys}]
BY DEF PrefTypeOK, Unlock

\* A request that ends without a commit leaves no trace.
LEMMA LeavesNoTrace ==
  ASSUME PrefInv, NEW r \in Askers, Leaves(r), UNCHANGED <<prefs, asks, left, promised>>,
         prefLock' \in [Kinds -> Askers \cup {Nobodys}]
  PROVE  PrefInv'
<1>1. ask' = [ask EXCEPT ![r] = NotAsked]
  BY DEF Leaves
<1>2. asks' \in 0..MaxAsks
  BY DEF PrefInv, PrefTypeOK
<1>3. QED BY <1>1, <1>2, NotAskedFine, StatementPrefs

LEMMA FailsWithoutTrace ==
  ASSUME PrefInv, NEW r \in Askers, Fails(r), UNCHANGED <<prefs, asks, left, promised>>
  PROVE  PrefInv'
<1>1. prefLock' \in [Kinds -> Askers \cup {Nobodys}]
  BY LocksTyped DEF Fails, PrefInv
<1>2. QED BY <1>1, LeavesNoTrace DEF Fails

\* A step to another stage.
LEMMA ToStepAsk ==
  ASSUME PrefTypeOK, NEW r \in Askers, NEW step \in AskSteps, ToStep(r, step)
  PROVE  \E s \in AskRecords :
           /\ ask' = [ask EXCEPT ![r] = s]
           /\ s.op = ask[r].op /\ s.key = ask[r].key /\ s.at = step /\ s.todo = ask[r].todo
           /\ s.writes = ask[r].writes /\ s.should = ask[r].should /\ s.overtaken = ask[r].overtaken
<1>1. [ask[r] EXCEPT !.at = step] \in AskRecords
  BY AskTyped DEF AskRecords
<1>2. ask' = [ask EXCEPT ![r] = [ask[r] EXCEPT !.at = step]]
  BY DEF ToStep
<1>3. QED BY <1>1, <1>2, AskTyped DEF AskRecords

\* A write of a row.
Written(s, k, value, step) ==
  [[s EXCEPT !.writes = [s.writes EXCEPT ![k] = value]] EXCEPT !.at = step]

LEMMA WritesAsk ==
  ASSUME PrefTypeOK, NEW r \in Askers, NEW k \in Kinds, NEW value \in {"on", "off"}, NEW step \in AskSteps,
         Writes(r, k, value, step)
  PROVE  /\ prefLock' \in [Kinds -> Askers \cup {Nobodys}]
         /\ ask' = [ask EXCEPT ![r] = Written(ask[r], k, value, step)]
BY LocksTyped DEF Writes, Written

LEMMA WrittenTyped ==
  ASSUME NEW s \in AskRecords, NEW k \in Kinds, NEW value \in {"on", "off"}, NEW step \in AskSteps
  PROVE  /\ Written(s, k, value, step) \in AskRecords
         /\ Written(s, k, value, step).op = s.op /\ Written(s, k, value, step).key = s.key
         /\ Written(s, k, value, step).at = step /\ Written(s, k, value, step).todo = s.todo
         /\ Written(s, k, value, step).should = s.should
         /\ Written(s, k, value, step).overtaken = s.overtaken
         /\ Written(s, k, value, step).writes[k] = value
         /\ \A l \in Kinds \ {k} : Written(s, k, value, step).writes[l] = s.writes[l]
<1>1. [s.writes EXCEPT ![k] = value] \in [Kinds -> {"same", "on", "off"}]
  BY DEF AskRecords
<1>2. PICK w \in [Kinds -> {"same", "on", "off"}] : w = [s.writes EXCEPT ![k] = value]
  BY <1>1
<1>3. w[k] = value /\ \A l \in Kinds \ {k} : w[l] = s.writes[l]
  BY <1>2 DEF AskRecords
<1>4. Written(s, k, value, step) = [[s EXCEPT !.writes = w] EXCEPT !.at = step]
  BY <1>2 DEF Written
<1>5. QED BY <1>3, <1>4 DEF AskRecords

\* A request of which nothing is expected of the rows.
Rests(s) ==
  /\ s.overtaken \/ s.at \notin {"lift", "join", "commit"}
  /\ s.at = "commit" /\ s.key = "updates" => s.writes["campaign"] = "on"

\* A withdrawal overtakes what is under way, and changes nothing else of it.
LEMMA OvertakenAsk ==
  ASSUME PrefInv, NEW q \in Askers
  PROVE  /\ Overtaken(q) \in AskRecords /\ AskOK(Overtaken(q))
         /\ Rests(Overtaken(q)) /\ (Aligning(Overtaken(q)) => Aligning(ask[q]))
<1>1. PICK s \in AskRecords : s = ask[q]
  BY AskTyped DEF PrefInv
<1>2. PICK over \in BOOLEAN : over = (s.at # "idle")
  OBVIOUS
<1>3. PICK t \in AskRecords :
        /\ t = Overtaken(q)
        /\ t.op = s.op /\ t.key = s.key /\ t.at = s.at /\ t.todo = s.todo /\ t.writes = s.writes
        /\ t.should = s.should /\ t.overtaken = over
  <2>1. [s EXCEPT !.overtaken = over] \in AskRecords
    BY DEF AskRecords
  <2>2. Overtaken(q) = [s EXCEPT !.overtaken = over]
    BY <1>1, <1>2 DEF Overtaken, In
  <2>3. QED BY <2>1, <2>2 DEF AskRecords
<1>4. AskOK(s) /\ StillFound(s)
  BY <1>1 DEF PrefInv, AsksOK, AllStillFound
<1>5. AskOK(t)
  <2>1. t.at = "idle" => t = s
    BY <1>2, <1>3, <1>4 DEF AskOK, NotAsked, AskRecords
  <2>2. QED BY <1>3, <1>4, <2>1 DEF AskOK, OptsIn, LeavesAll, LeavesOne
<1>6. Rests(t)
  BY <1>2, <1>3, <1>4 DEF StillFound, Rests
<1>7. QED BY <1>1, <1>3, <1>5, <1>6 DEF Aligning

\* What takes subscriptions away overtakes what is under way, and promises no
\* more what it takes.
LEMMA WithdrawnPrefs ==
  ASSUME PrefInv,
         ask' \in [Askers -> AskRecords],
         \A q \in Askers : /\ AskOK(ask'[q]) /\ Rests(ask'[q])
                           /\ Aligning(ask'[q]) => Aligning(ask[q]),
         prefs' \in [Kinds -> {"none", "on", "off"}],
         prefLock' \in [Kinds -> Askers \cup {Nobodys}], UNCHANGED asks,
         left' \in [all: BOOLEAN, campaign: BOOLEAN], LeavingHolds',
         promised' \subseteq promised, \A k \in promised' : Eligible(k)'
  PROVE  PrefInv'
<1>1. PrefTypeOK'
  BY DEF PrefInv, PrefTypeOK, AskRecords
<1>2. AsksOK'
  BY DEF AsksOK
<1>3. AllStillFound'
  BY DEF AllStillFound, StillFound, Rests
<1>4. PromisesKept'
  BY DEF PrefInv, PromisesKept, Aligning
<1>5. QED BY <1>1, <1>2, <1>3, <1>4 DEF PrefInv

LEMMA WithdrawalPrefs ==
  ASSUME PrefInv, NEW r \in Askers, Overtakes(r),
         prefs' \in [Kinds -> {"none", "on", "off"}],
         prefLock' \in [Kinds -> Askers \cup {Nobodys}], UNCHANGED asks,
         left' \in [all: BOOLEAN, campaign: BOOLEAN], LeavingHolds',
         promised' \subseteq promised, \A k \in promised' : Eligible(k)'
  PROVE  PrefInv'
<1>1. \A q \in Askers : ask'[q] = IF q = r THEN NotAsked ELSE Overtaken(q)
  BY DEF Overtakes
<1>2. \A q \in Askers : /\ ask'[q] \in AskRecords /\ AskOK(ask'[q]) /\ Rests(ask'[q])
                        /\ Aligning(ask'[q]) => Aligning(ask[q])
  BY <1>1, OvertakenAsk, NotAskedFine DEF Rests
<1>3. ask' \in [Askers -> AskRecords]
  BY <1>2 DEF Overtakes
<1>4. QED BY <1>2, <1>3, WithdrawnPrefs

-----------------------------------------------------------------------------
(* Requests                                                                  *)

\* A request begins with what it is asked.
LEMMA AsksToPrefs ==
  ASSUME PrefInv, NEW r \in Askers, NEW key \in Kinds, NEW step \in AskSteps \ {"idle"},
         NEW op \in {"optIn", "turnOff", "leave", "unsubscribe", "delete", "ensure"},
         AsksTo(r, op, key, step),
         step \in {"own", "create", "lift"} => op = "optIn" /\ key \in Subscribable,
         step \notin {"join", "commit", "scan", "others", "updates", "createUpdates", "updatesAgain", "align"},
         step = "lift" => prefs[key] = "on",
         step = "turnOff" => key \in {"newsletter", "updates"},
         step \in {"leave", "unsubscribe"} => op = step
  PROVE  PrefInv'
<1>1. ask[r] = NotAsked
  BY DEF AsksTo, In, PrefInv, AsksOK, AskOK
<1>2. PICK s \in AskRecords :
        /\ ask' = [ask EXCEPT ![r] = s]
        /\ s.op = op /\ s.key = key /\ s.at = step /\ s.todo = {}
        /\ s.writes = NotAsked.writes
  <2>1. [[[NotAsked EXCEPT !.op = op] EXCEPT !.key = key] EXCEPT !.at = step] \in AskRecords
    BY NotAskedFine DEF AskRecords
  <2>2. ask' = [ask EXCEPT ![r] = [[[NotAsked EXCEPT !.op = op] EXCEPT !.key = key] EXCEPT !.at = step]]
    BY <1>1 DEF AsksTo
  <2>3. NotAsked.todo = {}
    BY DEF NotAsked
  <2>4. QED BY <2>1, <2>2, <2>3, NotAskedFine DEF AskRecords
<1>3. \A k \in Kinds : s.writes[k] = Nothing
  BY <1>2 DEF NotAsked
<1>4. AskOK(s)
  BY <1>2, <1>3 DEF AskOK, OptsIn
<1>5. StillFound(s) /\ ~Aligning(s)
  BY <1>2 DEF StillFound, Aligning
<1>6. asks' \in 0..MaxAsks
  BY MaxAsksAssumption DEF AsksTo, PrefInv, PrefTypeOK
<1>7. prefLock' \in [Kinds -> Askers \cup {Nobodys}] /\ UNCHANGED <<prefs, left, promised>>
  BY DEF AsksTo, PrefInv, PrefTypeOK
<1>8. QED BY <1>2, <1>4, <1>5, <1>6, <1>7, StatementPrefs

\* subscribe, updateNotification, deleteNotification, the link of a mail, and the
\* automatic subscriptions.
LEMMA RequestPrefs ==
  ASSUME PrefInv, NEW r \in Askers,
         \/ \E k \in Subscribable : Subscribe(r, k) \/ SwitchOn(r, k) \/ SwitchOff(r, k)
         \/ \E k \in Kinds : DeletePref(r, k)
         \/ UnsubscribeViaToken(r) \/ EnsureAutoSubscriptions(r)
  PROVE  PrefInv'
<1>1. CASE \E k \in Subscribable : Subscribe(r, k)
  <2>1. PICK k \in Subscribable : Subscribe(r, k)
    BY <1>1
  <2>2. k \in Kinds /\ prefs[k] \in {"none", "on", "off"}
    BY DEF Kinds, PrefInv, PrefTypeOK
  <2>3. PICK step \in {"create", "own", "lift"} :
          AsksTo(r, "optIn", k, step) /\ (step = "lift" => prefs[k] = "on")
    BY <2>1, <2>2 DEF Subscribe
  <2>4. QED BY <2>2, <2>3, AsksToPrefs DEF AskSteps
<1>2. CASE \E k \in Subscribable : SwitchOn(r, k)
  BY <1>2, AsksToPrefs DEF SwitchOn, AskSteps, Kinds
<1>3. CASE \E k \in Subscribable : SwitchOff(r, k)
  <2>1. PICK k \in Subscribable : SwitchOff(r, k)
    BY <1>3
  <2>2. CASE k = "campaign"
    BY <2>1, <2>2, AsksToPrefs DEF SwitchOff, AskSteps, Kinds
  <2>3. CASE k # "campaign"
    BY <2>1, <2>3, AsksToPrefs DEF SwitchOff, AskSteps, Kinds, Subscribable
  <2>4. QED BY <2>2, <2>3
<1>4. CASE \E k \in Kinds : DeletePref(r, k)
  BY <1>4, AsksToPrefs DEF DeletePref, AskSteps
<1>5. CASE UnsubscribeViaToken(r)
  BY <1>5, AsksToPrefs DEF UnsubscribeViaToken, AskSteps, Kinds
<1>6. CASE EnsureAutoSubscriptions(r)
  BY <1>6, AsksToPrefs DEF EnsureAutoSubscriptions, AskSteps, Kinds, Subscribable
<1>7. QED BY <1>1, <1>2, <1>3, <1>4, <1>5, <1>6

-----------------------------------------------------------------------------
(* Opting in                                                                 *)

\* A row that a subscription has written is its own.
LEMMA OwnWritten ==
  ASSUME PrefInv, NEW r \in Askers, NEW key \in Kinds, ask[r].key = key, OptsIn(ask[r]),
         Writes(r, key, "on", "lift"), UNCHANGED <<prefs, asks, left, promised>>
  PROVE  PrefInv'
<1>1. "on" \in {"on", "off"} /\ "lift" \in AskSteps /\ PrefTypeOK /\ ask[r] \in AskRecords
  BY AskTyped DEF PrefInv, AskSteps
<1>2. PICK s : s = Written(ask[r], key, "on", "lift")
  OBVIOUS
<1>3. /\ s \in AskRecords /\ s.op = ask[r].op /\ s.key = key /\ s.at = "lift"
      /\ s.writes[key] = "on" /\ \A k \in Kinds \ {key} : s.writes[k] = ask[r].writes[k]
  BY <1>1, <1>2, WrittenTyped
<1>4. AskOK(s)
  BY <1>3 DEF AskOK, OptsIn
<1>5. StillFound(s) /\ ~Aligning(s)
  BY <1>3 DEF StillFound, Aligning, Nothing
<1>6. asks' \in 0..MaxAsks
  BY DEF PrefInv, PrefTypeOK
<1>7. prefLock' \in [Kinds -> Askers \cup {Nobodys}] /\ ask' = [ask EXCEPT ![r] = s]
  BY <1>1, <1>2, WritesAsk
<1>8. QED BY <1>3, <1>4, <1>5, <1>6, <1>7, StatementPrefs

\* The own row is turned on (updateWithManualOptIn) ...
LEMMA WriteOwnPrefs ==
  ASSUME PrefInv, NEW r \in Askers, WriteOwn(r)
  PROVE  PrefInv'
<1>1. PICK key : key = KeyOf(r)
  OBVIOUS
<1>2. ask[r].at = "own" /\ OptsIn(ask[r]) /\ key \in Kinds /\ ask[r].key = key
  BY <1>1, AskTyped DEF WriteOwn, In, PrefInv, AsksOK, AskOK, KeyOf, AskRecords
<1>3. Writes(r, key, "on", "lift") /\ UNCHANGED <<prefs, asks, left, promised>>
  BY <1>1 DEF WriteOwn
<1>4. QED BY <1>2, <1>3, OwnWritten

\* ... or inserted (createWithManualOptIn).
LEMMA CreateOwnPrefs ==
  ASSUME PrefInv, NEW r \in Askers, CreateOwn(r)
  PROVE  PrefInv'
<1>1. PICK key : key = KeyOf(r)
  OBVIOUS
<1>2. ask[r].at = "create" /\ OptsIn(ask[r]) /\ key \in Kinds /\ ask[r].key = key
  BY <1>1, AskTyped DEF CreateOwn, In, PrefInv, AsksOK, AskOK, KeyOf, AskRecords
<1>3. CASE prefs[key] # "none"
  BY <1>1, <1>3, FailsWithoutTrace DEF CreateOwn
<1>4. CASE prefs[key] = "none"
  <2>1. Writes(r, key, "on", "lift") /\ UNCHANGED <<prefs, asks, left, promised>>
    BY <1>1, <1>4 DEF CreateOwn
  <2>2. QED BY <1>2, <2>1, OwnWritten
<1>5. QED BY <1>3, <1>4

\* An unsubscription that is there to be seen is lifted.
LEMMA LiftPrefs ==
  ASSUME PrefInv, NEW r \in Askers, Lift(r)
  PROVE  PrefInv'
<1>1. /\ ask[r].at = "lift" /\ OptsIn(ask[r]) /\ StillFound(ask[r]) /\ ask[r] \in AskRecords
      /\ UNCHANGED <<prefs, asks, left, promised>> /\ asks' \in 0..MaxAsks
  BY AskTyped DEF Lift, In, PrefInv, PrefTypeOK, AsksOK, AskOK, AllStillFound
<1>2. PICK step \in {"join", "commit"} :
        step = AfterLift(r) /\ (step = "join" <=> ask[r].key = "updates")
  BY DEF AfterLift, KeyOf
<1>3. CASE prefs["unsubscription"] = "none"
  <2>1. PICK s \in AskRecords :
          /\ ask' = [ask EXCEPT ![r] = s]
          /\ s.op = ask[r].op /\ s.key = ask[r].key /\ s.at = step /\ s.todo = ask[r].todo
          /\ s.writes = ask[r].writes /\ s.should = ask[r].should /\ s.overtaken = ask[r].overtaken
    BY <1>2, <1>3, ToStepAsk DEF Lift, PrefInv, AskSteps
  <2>2. AskOK(s)
    BY <1>1, <1>2, <2>1 DEF AskOK, OptsIn
  <2>3. StillFound(s) /\ ~Aligning(s)
    BY <1>1, <1>2, <1>3, <2>1 DEF StillFound, Aligning
  <2>4. prefLock' \in [Kinds -> Askers \cup {Nobodys}]
    BY <1>3 DEF Lift, PrefInv, PrefTypeOK
  <2>5. QED BY <1>1, <2>1, <2>2, <2>3, <2>4, StatementPrefs
<1>4. CASE prefs["unsubscription"] # "none"
  <2>1. Writes(r, "unsubscription", "on", step)
    BY <1>2, <1>4 DEF Lift
  <2>2. /\ "on" \in {"on", "off"} /\ step \in AskSteps /\ PrefTypeOK
        /\ "unsubscription" \in Kinds
    BY DEF PrefInv, AskSteps, Kinds
  <2>3. PICK s : s = Written(ask[r], "unsubscription", "on", step)
    OBVIOUS
  <2>4. /\ s \in AskRecords /\ s.op = ask[r].op /\ s.key = ask[r].key /\ s.at = step
        /\ s.overtaken = ask[r].overtaken /\ s.writes["unsubscription"] = "on"
        /\ \A k \in Kinds \ {"unsubscription"} : s.writes[k] = ask[r].writes[k]
    BY <1>1, <2>2, <2>3, WrittenTyped
  <2>5. AskOK(s)
    BY <1>1, <1>2, <2>4 DEF AskOK, OptsIn
  <2>6. StillFound(s) /\ ~Aligning(s)
    <3>1. s.key \in Kinds \ {"unsubscription"}
      BY <1>1, <2>4 DEF OptsIn, Subscribable, Kinds
    <3>2. QED BY <1>1, <1>2, <2>4, <3>1 DEF StillFound, Aligning, Nothing
  <2>7. prefLock' \in [Kinds -> Askers \cup {Nobodys}] /\ ask' = [ask EXCEPT ![r] = s]
    BY <2>1, <2>2, <2>3, WritesAsk
  <2>8. QED BY <1>1, <2>4, <2>5, <2>6, <2>7, StatementPrefs
<1>5. QED BY <1>3, <1>4

\* Updates need the campaign.
LEMMA JoinCampaignPrefs ==
  ASSUME PrefInv, NEW r \in Askers, JoinCampaign(r)
  PROVE  PrefInv'
<1>1. /\ ask[r].at = "join" /\ OptsIn(ask[r]) /\ StillFound(ask[r]) /\ ask[r] \in AskRecords
      /\ UNCHANGED <<prefs, asks, left, promised>> /\ asks' \in 0..MaxAsks
  BY AskTyped DEF JoinCampaign, In, PrefInv, PrefTypeOK, AsksOK, AskOK, AllStillFound
<1>2. ask[r].key = "updates"
  BY <1>1 DEF PrefInv, AsksOK, AskOK
<1>3. /\ "on" \in {"on", "off"} /\ "commit" \in AskSteps /\ PrefTypeOK
      /\ "campaign" \in Kinds /\ Writes(r, "campaign", "on", "commit")
  BY DEF JoinCampaign, PrefInv, AskSteps, Kinds, Subscribable
<1>4. PICK s : s = Written(ask[r], "campaign", "on", "commit")
  OBVIOUS
<1>5. /\ s \in AskRecords /\ s.op = ask[r].op /\ s.key = ask[r].key /\ s.at = "commit"
      /\ s.overtaken = ask[r].overtaken /\ s.writes["campaign"] = "on"
      /\ \A k \in Kinds \ {"campaign"} : s.writes[k] = ask[r].writes[k]
  BY <1>1, <1>3, <1>4, WrittenTyped
<1>6. AskOK(s)
  BY <1>1, <1>2, <1>5 DEF AskOK, OptsIn
<1>7. StillFound(s) /\ ~Aligning(s)
  BY <1>1, <1>2, <1>5 DEF StillFound, Aligning, Kinds, Subscribable
<1>8. prefLock' \in [Kinds -> Askers \cup {Nobodys}] /\ ask' = [ask EXCEPT ![r] = s]
  BY <1>3, <1>4, WritesAsk
<1>9. QED BY <1>1, <1>5, <1>6, <1>7, <1>8, StatementPrefs

\* What a subscription commits: rows of its own turned on, others as they are.
LEMMA CommittedOptIn ==
  ASSUME PrefInv, NEW r \in Askers, OptsIn(ask[r])
  PROVE  \A k \in Kinds :
           /\ Committed(r)[k] = IF ask[r].writes[k] = Nothing THEN prefs[k] ELSE "on"
           /\ ask[r].writes[k] # Nothing =>
                k \in {ask[r].key, "unsubscription"} \/ (k = "campaign" /\ ask[r].key = "updates")
BY DEF Committed, OptsIn

\* A subscription takes back what it must, and promises its row, if no
\* withdrawal overtook it and no automatic one is about to turn it off.
LEMMA CommitOptInPrefs ==
  ASSUME PrefInv, NEW r \in Askers, CommitOptIn(r)
  PROVE  PrefInv'
<1>1. PICK key \in Subscribable : key = ask[r].key
  BY DEF CommitOptIn, In, PrefInv, AsksOK, AskOK, OptsIn
<1>2. /\ ask[r].at = "commit" /\ OptsIn(ask[r]) /\ StillFound(ask[r]) /\ ask[r] \in AskRecords
      /\ key \in Kinds /\ {"campaign", "updates", "unsubscription"} \subseteq Kinds
      /\ prefs \in [Kinds -> {"none", "on", "off"}]
  BY AskTyped DEF CommitOptIn, In, PrefInv, PrefTypeOK, AsksOK, AskOK, AllStillFound, Kinds, Subscribable
<1>3. \A k \in Kinds :
        /\ prefs'[k] = IF ask[r].writes[k] = Nothing THEN prefs[k] ELSE "on"
        /\ ask[r].writes[k] # Nothing =>
             k \in {key, "unsubscription"} \/ (k = "campaign" /\ key = "updates")
  BY <1>1, <1>2, CommittedOptIn DEF CommitOptIn
<1>4. prefs' \in [Kinds -> {"none", "on", "off"}]
  BY <1>2, <1>3 DEF CommitOptIn, Committed
<1>5. /\ prefLock' \in [Kinds -> Askers \cup {Nobodys}] /\ asks' \in 0..MaxAsks
      /\ left' \in [all: BOOLEAN, campaign: BOOLEAN]
      /\ promised' \subseteq promised \cup {key}
      /\ ~left'.all /\ (left'.campaign => left.campaign /\ key = "newsletter")
  BY <1>1, LocksTyped DEF CommitOptIn, Fails, KeyOf, PrefInv, PrefTypeOK
<1>6. ask' = [ask EXCEPT ![r] = NotAsked]
  BY DEF CommitOptIn, Fails, Leaves
<1>7. PrefTypeOK'
  BY <1>1, <1>4, <1>5, <1>6, NotAskedFine DEF PrefInv, PrefTypeOK, AskRecords
<1>8. LeavingHolds'
  BY <1>2, <1>3, <1>5 DEF PrefInv, LeavingHolds
<1>9. \A q \in Askers : ask'[q] = IF q = r THEN NotAsked ELSE ask[q]
  BY <1>6 DEF PrefInv, PrefTypeOK
<1>10. AsksOK'
  BY <1>9, NotAskedFine DEF PrefInv, AsksOK
<1>11. AllStillFound'
  <2>1. \A q \in Askers : ask[q].key \in Kinds /\ (ask[q].at = "commit" => TRUE)
    BY AskTyped DEF PrefInv, AskRecords
  <2>2. \A k \in Kinds : (prefs[k] = "on" => prefs'[k] = "on") /\ (prefs[k] # "off" => prefs'[k] # "off")
    BY <1>3
  <2>3. \A q \in Askers \ {r} : StillFound(ask[q])'
    BY <1>2, <1>9, <2>1, <2>2 DEF PrefInv, AllStillFound, StillFound
  <2>4. QED BY <1>9, <2>3, NotAskedFine DEF AllStillFound, StillFound
<1>12. PromisesKept'
  <2>1. \A k \in Kinds : (prefs[k] = "on" => prefs'[k] = "on") /\ (prefs[k] # "off" => prefs'[k] # "off")
    BY <1>3
  <2>2. \A k \in promised : Eligible(k)'
    BY <1>2, <2>1 DEF PrefInv, PrefTypeOK, PromisesKept, Eligible, Kinds
  <2>3. ASSUME ~ask[r].overtaken PROVE Eligible(key)'
    <3>1. prefs'[key] = "on"
      BY <1>1, <1>2, <1>3, <2>3 DEF StillFound
    <3>2. prefs'["unsubscription"] # "off"
      BY <1>2, <1>3, <2>3 DEF StillFound
    <3>3. key = "updates" => prefs'["campaign"] # "off"
      BY <1>1, <1>2, <1>3 DEF StillFound, Nothing
    <3>4. QED BY <3>1, <3>2, <3>3 DEF Eligible
  <2>4. key \in promised' \ promised => ~ask[r].overtaken /\ ~(key = "updates" /\ AboutToAlign)
    BY <1>1 DEF CommitOptIn, KeyOf
  <2>5. AboutToAlign <=> \E q \in Askers : Aligning(ask[q])
    BY DEF AboutToAlign, Aligning
  <2>6. "updates" \in promised' => \A q \in Askers : ~Aligning(ask[q])
    BY <1>5, <2>4, <2>5 DEF PrefInv, PromisesKept
  <2>7. "updates" \in promised' => \A q \in Askers : ~Aligning(ask[q])'
    BY <1>9, <2>6, NotAskedFine DEF Aligning
  <2>8. QED BY <1>5, <2>2, <2>3, <2>4, <2>7 DEF PromisesKept, Aligning
<1>13. QED BY <1>7, <1>8, <1>10, <1>11, <1>12 DEF PrefInv

-----------------------------------------------------------------------------
(* Leaving                                                                   *)

\* One row is turned off (update).
LEMMA TurnOffPrefs ==
  ASSUME PrefInv, NEW r \in Askers, TurnOff(r)
  PROVE  PrefInv'
<1>1. PICK key \in {"newsletter", "updates"} : key = KeyOf(r)
  BY DEF TurnOff, In, PrefInv, AsksOK, AskOK, KeyOf
<1>2. /\ prefs' = [prefs EXCEPT ![key] = "off"] /\ promised' = promised \ {key} /\ Overtakes(r)
      /\ UNCHANGED <<prefLock, asks, left>>
  BY <1>1 DEF TurnOff, Withdraws
<1>3. /\ prefs' \in [Kinds -> {"none", "on", "off"}] /\ prefLock' \in [Kinds -> Askers \cup {Nobodys}]
      /\ left' \in [all: BOOLEAN, campaign: BOOLEAN]
  BY <1>2 DEF PrefInv, PrefTypeOK
<1>4. LeavingHolds'
  BY <1>2 DEF PrefInv, PrefTypeOK, LeavingHolds, Kinds
<1>5. \A k \in promised' : Eligible(k)'
  <2>1. \A k \in Kinds \ {key} : prefs'[k] = prefs[k]
    BY <1>2 DEF PrefInv, PrefTypeOK
  <2>2. \A k \in promised' : k \in Kinds \ {key}
    BY <1>2 DEF PrefInv, PrefTypeOK, Kinds
  <2>3. {"unsubscription", "campaign"} \subseteq Kinds \ {key}
    BY DEF Kinds, Subscribable
  <2>4. QED BY <1>2, <2>1, <2>2, <2>3 DEF PrefInv, PromisesKept, Eligible
<1>6. QED BY <1>2, <1>3, <1>4, <1>5, WithdrawalPrefs

\* A row is deleted, with what it stood for (deleteCascade).
LEMMA DeletePrefs ==
  ASSUME PrefInv, NEW r \in Askers, Delete(r)
  PROVE  PrefInv'
<1>1. PICK key \in Kinds : key = KeyOf(r)
  BY AskTyped DEF PrefInv, AskRecords, KeyOf
<1>2. /\ prefs' = [prefs EXCEPT ![key] = "none"] /\ promised' = promised \ {key}
      /\ left' = [all |-> left.all /\ key # "unsubscription",
                  campaign |-> left.campaign /\ key # "campaign"]
      /\ UNCHANGED <<prefLock, asks>>
  BY <1>1 DEF Delete
<1>3. /\ prefs' \in [Kinds -> {"none", "on", "off"}] /\ prefLock' \in [Kinds -> Askers \cup {Nobodys}]
      /\ left.all \in BOOLEAN /\ left.campaign \in BOOLEAN
  BY <1>2 DEF PrefInv, PrefTypeOK
<1>4. left' \in [all: BOOLEAN, campaign: BOOLEAN]
  BY <1>2, <1>3
<1>5. \A k \in Kinds \ {key} : prefs'[k] = prefs[k]
  BY <1>2 DEF PrefInv, PrefTypeOK
<1>6. LeavingHolds'
  BY <1>2, <1>5 DEF PrefInv, LeavingHolds, Kinds, Subscribable
<1>7. \A k \in promised' : Eligible(k)'
  <2>1. \A k \in promised' : k \in Kinds \ {key} /\ Eligible(k)
    BY <1>2 DEF PrefInv, PrefTypeOK, PromisesKept, Kinds
  <2>2. \A k \in Kinds : prefs'[k] = prefs[k] \/ prefs'[k] = "none"
    BY <1>2, <1>5 DEF PrefInv, PrefTypeOK
  <2>3. QED BY <1>5, <2>1, <2>2 DEF Eligible, Kinds, Subscribable
<1>8. \A q \in Askers : /\ ask'[q] \in AskRecords /\ AskOK(ask'[q]) /\ Rests(ask'[q])
                        /\ Aligning(ask'[q]) => Aligning(ask[q])
  <2>1. SUFFICES ASSUME NEW q \in Askers
                 PROVE  /\ ask'[q] \in AskRecords /\ AskOK(ask'[q]) /\ Rests(ask'[q])
                        /\ Aligning(ask'[q]) => Aligning(ask[q])
    OBVIOUS
  <2>2. ask'[q] = NotAsked \/ ask'[q] = [Overtaken(q) EXCEPT !.todo = @ \ {key}]
    BY <1>1 DEF Delete
  <2>3. PICK s \in AskRecords : s = Overtaken(q)
    BY OvertakenAsk
  <2>4. AskOK(s) /\ Rests(s) /\ (Aligning(s) => Aligning(ask[q]))
    BY <2>3, OvertakenAsk
  <2>5. PICK todo \in SUBSET Subscribable : todo = s.todo \ {key}
    BY DEF AskRecords
  <2>6. PICK t \in AskRecords :
          /\ t = [s EXCEPT !.todo = todo]
          /\ t.op = s.op /\ t.key = s.key /\ t.at = s.at /\ t.todo = todo /\ t.writes = s.writes
          /\ t.should = s.should /\ t.overtaken = s.overtaken
    <3>1. [s EXCEPT !.todo = todo] \in AskRecords
      BY DEF AskRecords
    <3>2. QED BY <3>1 DEF AskRecords
  <2>7. AskOK(t)
    <3>1. t.at = "idle" => t = s
      <4>1. s.at = "idle" => s.todo = {}
        BY <2>4 DEF AskOK, NotAsked
      <4>2. s.at = "idle" => todo = s.todo
        BY <2>5, <4>1
      <4>3. QED BY <2>6, <4>2 DEF AskRecords
    <3>2. todo \subseteq s.todo
      BY <2>5
    <3>3. QED BY <2>4, <2>6, <3>1, <3>2 DEF AskOK, OptsIn, LeavesAll, LeavesOne
  <2>8. Rests(t) /\ (Aligning(t) => Aligning(ask[q]))
    BY <2>4, <2>6 DEF Rests, Aligning
  <2>9. ask'[q] \in {NotAsked, t}
    BY <2>2, <2>3, <2>5, <2>6
  <2>10. QED BY <2>7, <2>8, <2>9, NotAskedFine DEF Rests
<1>9. ask' \in [Askers -> AskRecords]
  BY <1>8 DEF Delete
<1>10. QED BY <1>2, <1>3, <1>4, <1>6, <1>7, <1>8, <1>9, WithdrawnPrefs

\* The campaign, or the unsubscription, is written first
\* (updateCampaignGlobalPreference, deactivateGlobalUnsubscribe).
LEMMA StartLeavingPrefs ==
  ASSUME PrefInv, NEW r \in Askers, LeaveCampaign(r) \/ Unsubscribe(r)
  PROVE  PrefInv'
<1>1. PICK key \in {"campaign", "unsubscription"} :
        /\ Writes(r, key, "off", "scan") /\ UNCHANGED <<prefs, asks, left, promised>>
        /\ ask[r].op = IF key = "campaign" THEN "leave" ELSE "unsubscribe"
        /\ ask[r].todo = {} /\ \A k \in Kinds : ask[r].writes[k] = Nothing
  BY DEF LeaveCampaign, Unsubscribe, In, PrefInv, AsksOK, AskOK
<1>2. /\ "off" \in {"on", "off"} /\ "scan" \in AskSteps /\ PrefTypeOK /\ key \in Kinds
      /\ ask[r] \in AskRecords
  BY AskTyped DEF PrefInv, AskSteps, Kinds, Subscribable
<1>3. PICK s : s = Written(ask[r], key, "off", "scan")
  OBVIOUS
<1>4. /\ s \in AskRecords /\ s.op = ask[r].op /\ s.at = "scan" /\ s.todo = ask[r].todo
      /\ s.writes[key] = "off" /\ \A k \in Kinds \ {key} : s.writes[k] = ask[r].writes[k]
  <2>1. /\ Written(ask[r], key, "off", "scan") \in AskRecords
        /\ Written(ask[r], key, "off", "scan").op = ask[r].op
        /\ Written(ask[r], key, "off", "scan").at = "scan"
        /\ Written(ask[r], key, "off", "scan").todo = ask[r].todo
        /\ Written(ask[r], key, "off", "scan").writes[key] = "off"
        /\ \A k \in Kinds \ {key} :
             Written(ask[r], key, "off", "scan").writes[k] = ask[r].writes[k]
    BY <1>2, WrittenTyped
  <2>2. QED BY <1>3, <2>1
<1>5. AskOK(s)
  <2>1. \A k \in Kinds \ {key} : s.writes[k] = Nothing
    BY <1>1, <1>4
  <2>2. "newsletter" \in Kinds /\ "unsubscription" \in Kinds
    BY DEF Kinds, Subscribable
  <2>3. CASE key = "campaign"
    BY <1>1, <1>4, <2>1, <2>2, <2>3 DEF AskOK, LeavesOne
  <2>4. CASE key = "unsubscription"
    BY <1>1, <1>4, <2>1, <2>2, <2>4 DEF AskOK, LeavesAll
  <2>5. QED BY <2>3, <2>4
<1>6. StillFound(s) /\ ~Aligning(s)
  BY <1>4 DEF StillFound, Aligning
<1>7. prefLock' \in [Kinds -> Askers \cup {Nobodys}] /\ ask' = [ask EXCEPT ![r] = s]
  BY <1>1, <1>2, <1>3, WritesAsk
<1>8. asks' \in 0..MaxAsks
  BY <1>1 DEF PrefInv, PrefTypeOK
<1>9. QED BY <1>1, <1>4, <1>5, <1>6, <1>7, <1>8, StatementPrefs

\* Which rows it takes with it.
LEMMA FindOthersPrefs ==
  ASSUME PrefInv, NEW r \in Askers, FindOthers(r)
  PROVE  PrefInv'
<1>1. ask[r] \in AskRecords /\ ask[r].at = "scan" /\ (LeavesAll(ask[r]) \/ LeavesOne(ask[r]))
  BY AskTyped DEF FindOthers, In, PrefInv, AsksOK, AskOK
<1>2. PICK todo \in SUBSET Subscribable :
        /\ todo = {k \in Subscribable : prefs[k] = "on" /\ ask[r].writes[k] = Nothing
                                          /\ (ask[r].op = "leave" => k = "updates")}
        /\ ask[r].op = "leave" => todo \subseteq {"updates"}
  <2>1. PICK todo : todo = {k \in Subscribable : prefs[k] = "on" /\ ask[r].writes[k] = Nothing
                                                /\ (ask[r].op = "leave" => k = "updates")}
    OBVIOUS
  <2>2. todo \in SUBSET Subscribable /\ (ask[r].op = "leave" => todo \subseteq {"updates"})
    BY <2>1
  <2>3. QED BY <2>1, <2>2
<1>3. PICK s \in AskRecords :
        /\ ask' = [ask EXCEPT ![r] = s] /\ s.op = ask[r].op /\ s.at = "others" /\ s.todo = todo
        /\ s.writes = ask[r].writes
  <2>1. [[ask[r] EXCEPT !.at = "others"] EXCEPT !.todo = todo] \in AskRecords
    <3>1. "others" \in AskSteps
      BY DEF AskSteps
    <3>2. QED BY <1>1, <3>1 DEF AskRecords
  <2>2. ask' = [ask EXCEPT ![r] = [[ask[r] EXCEPT !.at = "others"] EXCEPT !.todo = todo]]
    BY <1>2 DEF FindOthers
  <2>3. QED BY <1>1, <2>1, <2>2 DEF AskRecords
<1>4. AskOK(s)
  BY <1>1, <1>2, <1>3 DEF AskOK, LeavesAll, LeavesOne
<1>5. StillFound(s) /\ ~Aligning(s)
  BY <1>3 DEF StillFound, Aligning
<1>6. /\ UNCHANGED <<prefs, left, promised>> /\ asks' \in 0..MaxAsks
      /\ prefLock' \in [Kinds -> Askers \cup {Nobodys}]
  BY DEF FindOthers, PrefInv, PrefTypeOK
<1>7. QED BY <1>3, <1>4, <1>5, <1>6, StatementPrefs

\* Another row is turned off, if it is still on.
LEMMA SwitchOtherPrefs ==
  ASSUME PrefInv, NEW r \in Askers, NEW k \in Subscribable, SwitchOther(r, k)
  PROVE  PrefInv'
<1>1. /\ ask[r] \in AskRecords /\ ask[r].at = "others" /\ (LeavesAll(ask[r]) \/ LeavesOne(ask[r]))
      /\ k \in ask[r].todo /\ k \in Kinds /\ k # "unsubscription"
  BY AskTyped DEF SwitchOther, In, PrefInv, AsksOK, AskOK, Kinds, Subscribable
<1>2. PICK value \in {Nothing, "off"} : value = IF prefs[k] = "on" THEN "off" ELSE Nothing
  OBVIOUS
<1>3. PICK w \in [Kinds -> {"same", "on", "off"}] : w = [ask[r].writes EXCEPT ![k] = value]
  BY <1>1 DEF AskRecords, Nothing
<1>4. w[k] = value /\ \A l \in Kinds \ {k} : w[l] = ask[r].writes[l]
  BY <1>1, <1>3 DEF AskRecords
<1>5. PICK s \in AskRecords :
        /\ ask' = [ask EXCEPT ![r] = s] /\ s.op = ask[r].op /\ s.at = "others"
        /\ s.todo = ask[r].todo \ {k} /\ s.writes = w
  <2>1. [[ask[r] EXCEPT !.todo = ask[r].todo \ {k}] EXCEPT !.writes = w] \in AskRecords
    BY <1>1 DEF AskRecords
  <2>2. ask' = [ask EXCEPT ![r] = [[ask[r] EXCEPT !.todo = ask[r].todo \ {k}] EXCEPT !.writes = w]]
    <3>1. ask' = [ask EXCEPT ![r].todo = ask[r].todo \ {k}, ![r].writes[k] = value]
      BY <1>2 DEF SwitchOther
    <3>2. QED BY <1>1, <1>3, <3>1 DEF AskRecords
  <2>3. QED BY <1>1, <2>1, <2>2 DEF AskRecords
<1>6. AskOK(s)
  <2>1. CASE LeavesAll(ask[r])
    <3>1. LeavesAll(s)
      BY <1>1, <1>4, <1>5, <2>1 DEF LeavesAll, Kinds
    <3>2. QED BY <1>5, <3>1 DEF AskOK
  <2>2. CASE LeavesOne(ask[r])
    <3>1. k = "updates"
      BY <1>1, <2>2 DEF LeavesOne
    <3>2. LeavesOne(s)
      BY <1>4, <1>5, <2>2, <3>1 DEF LeavesOne, Kinds, Subscribable
    <3>3. QED BY <1>5, <3>2 DEF AskOK
  <2>3. QED BY <1>1, <2>1, <2>2
<1>7. StillFound(s) /\ ~Aligning(s)
  BY <1>5 DEF StillFound, Aligning
<1>8. /\ UNCHANGED <<prefs, left, promised>> /\ asks' \in 0..MaxAsks
      /\ prefLock' \in [Kinds -> Askers \cup {Nobodys}]
  BY <1>1, LocksTyped DEF SwitchOther, PrefInv, PrefTypeOK
<1>9. QED BY <1>5, <1>6, <1>7, <1>8, StatementPrefs

\* Whoever has left is eligible for nothing of it.
LEMMA CommitLeavingPrefs ==
  ASSUME PrefInv, NEW r \in Askers, CommitLeaving(r)
  PROVE  PrefInv'
<1>1. /\ ask[r] \in AskRecords /\ (LeavesAll(ask[r]) \/ LeavesOne(ask[r]))
      /\ {"newsletter", "campaign", "updates", "unsubscription"} \subseteq Kinds
      /\ prefs \in [Kinds -> {"none", "on", "off"}]
      /\ left \in [all: BOOLEAN, campaign: BOOLEAN] /\ promised \subseteq Subscribable
  BY AskTyped DEF CommitLeaving, In, PrefInv, PrefTypeOK, AsksOK, AskOK, Kinds, Subscribable
<1>2. /\ prefs' = Committed(r) /\ Overtakes(r) /\ UNCHANGED asks
      /\ promised' = promised \ (IF ask[r].op = "leave" THEN {"campaign", "updates"} ELSE Subscribable)
      /\ left' = IF ask[r].op = "leave" THEN [left EXCEPT !.campaign = TRUE] ELSE [left EXCEPT !.all = TRUE]
      /\ prefLock' \in [Kinds -> Askers \cup {Nobodys}]
  BY LocksTyped DEF CommitLeaving, Withdraws, PrefInv
<1>3. \A k \in Kinds :
        /\ prefs'[k] = IF ask[r].writes[k] = Nothing THEN prefs[k] ELSE ask[r].writes[k]
        /\ ask[r].writes[k] \in {Nothing, "off"}
  BY <1>1, <1>2 DEF Committed, LeavesAll, LeavesOne
<1>4. prefs' \in [Kinds -> {"none", "on", "off"}]
  BY <1>1, <1>2, <1>3 DEF Committed
<1>5. left' \in [all: BOOLEAN, campaign: BOOLEAN]
  BY <1>1, <1>2
<1>6. LeavingHolds'
  <2>1. \A k \in Kinds : prefs[k] = "off" => prefs'[k] = "off"
    BY <1>3
  <2>2. CASE LeavesAll(ask[r])
    <3>1. left'.campaign = left.campaign /\ prefs'["unsubscription"] = "off"
      BY <1>1, <1>2, <1>3, <2>2 DEF LeavesAll, Nothing
    <3>2. QED BY <1>1, <2>1, <3>1 DEF PrefInv, LeavingHolds
  <2>3. CASE LeavesOne(ask[r])
    <3>1. left'.all = left.all /\ prefs'["campaign"] = "off"
      BY <1>1, <1>2, <1>3, <2>3 DEF LeavesOne, Nothing
    <3>2. QED BY <1>1, <2>1, <3>1 DEF PrefInv, LeavingHolds
  <2>4. QED BY <1>1, <2>2, <2>3
<1>7. \A k \in promised' : Eligible(k)'
  <2>1. CASE LeavesAll(ask[r])
    BY <1>1, <1>2, <2>1 DEF LeavesAll
  <2>2. CASE LeavesOne(ask[r])
    <3>1. \A k \in promised' : k = "newsletter" /\ k \in promised
      BY <1>1, <1>2, <2>2 DEF LeavesOne, Subscribable
    <3>2. \A k \in {"newsletter", "unsubscription"} : prefs'[k] = prefs[k]
      BY <1>1, <1>3, <2>2 DEF LeavesOne
    <3>3. QED BY <3>1, <3>2 DEF PrefInv, PromisesKept, Eligible
  <2>3. QED BY <1>1, <2>1, <2>2
<1>8. QED BY <1>2, <1>4, <1>5, <1>6, <1>7, WithdrawalPrefs

-----------------------------------------------------------------------------
(* Automatic subscriptions                                                   *)

\* A row that is turned on, or none: nothing that holds of the rows is lost.
RowsGain ==
  /\ prefs' \in [Kinds -> {"none", "on", "off"}]
  /\ \A l \in Kinds : (prefs[l] = "on" => prefs'[l] = "on") /\ (prefs'[l] = "off" => prefs[l] = "off")
  /\ \A l \in {"unsubscription", "campaign"} : prefs[l] = "off" => prefs'[l] = "off"

\* The campaign's row is read, as long as updates are promised a row that is on.
LEMMA ReadCampaignPrefs ==
  ASSUME PrefInv, NEW r \in Askers, ReadCampaign(r)
  PROVE  PrefInv'
<1>1. /\ ask[r] \in AskRecords /\ ask[r].at \in {"campaign", "campaignAgain"}
      /\ UNCHANGED <<prefs, prefLock, asks, left, promised>>
      /\ asks' \in 0..MaxAsks /\ prefLock' \in [Kinds -> Askers \cup {Nobodys}]
  BY AskTyped DEF ReadCampaign, PrefInv, PrefTypeOK
<1>2. CASE prefs["campaign"] # "none"
  <2>1. PICK found \in BOOLEAN : found = (prefs["campaign"] = "on")
    OBVIOUS
  <2>2. PICK s \in AskRecords :
          ask' = [ask EXCEPT ![r] = s] /\ s.at = "updates" /\ s.should = found
    <3>1. [[ask[r] EXCEPT !.at = "updates"] EXCEPT !.should = found] \in AskRecords
      <4>1. "updates" \in AskSteps
        BY DEF AskSteps
      <4>2. QED BY <1>1, <4>1 DEF AskRecords
    <3>2. ask' = [ask EXCEPT ![r] = [[ask[r] EXCEPT !.at = "updates"] EXCEPT !.should = found]]
      BY <1>2, <2>1 DEF ReadCampaign, Found
    <3>3. QED BY <1>1, <3>1, <3>2 DEF AskRecords
  <2>3. AskOK(s) /\ StillFound(s)
    BY <2>2 DEF AskOK, StillFound
  <2>4. "updates" \in promised => ~Aligning(s)
    <3>1. prefs["campaign"] \in {"none", "on", "off"}
      BY DEF PrefInv, PrefTypeOK, Kinds, Subscribable
    <3>2. "updates" \in promised => prefs["campaign"] # "off"
      BY DEF PrefInv, PromisesKept, Eligible
    <3>3. QED BY <1>2, <2>1, <2>2, <3>1, <3>2 DEF Aligning
  <2>5. QED BY <1>1, <2>2, <2>3, <2>4, StatementPrefs
<1>3. CASE prefs["campaign"] = "none" /\ In(r, "campaign")
  <2>1. PICK s \in AskRecords : ask' = [ask EXCEPT ![r] = s] /\ s.at = "createCampaign"
    BY <1>3, ToStepAsk DEF ReadCampaign, PrefInv, AskSteps
  <2>2. AskOK(s) /\ StillFound(s) /\ ~Aligning(s)
    BY <2>1 DEF AskOK, StillFound, Aligning
  <2>3. QED BY <1>1, <2>1, <2>2, StatementPrefs
<1>4. CASE prefs["campaign"] = "none" /\ ~In(r, "campaign")
  BY <1>1, <1>4, LeavesNoTrace DEF ReadCampaign
<1>5. QED BY <1>2, <1>3, <1>4

\* A row that is created is on; one that exists already is read again.
LEMMA CreateCampaignPrefs ==
  ASSUME PrefInv, NEW r \in Askers, CreateCampaign(r)
  PROVE  PrefInv'
<1>1. /\ ask[r] \in AskRecords /\ ask[r].at = "createCampaign"
      /\ UNCHANGED <<prefLock, asks, left, promised>>
      /\ asks' \in 0..MaxAsks /\ prefLock' \in [Kinds -> Askers \cup {Nobodys}]
  BY AskTyped DEF CreateCampaign, CreateOrReload, In, PrefInv, PrefTypeOK
<1>2. CASE prefs["campaign"] = "none"
  <2>1. /\ prefs' = [prefs EXCEPT !["campaign"] = "on"]
        /\ ask' = [ask EXCEPT ![r] = [[ask[r] EXCEPT !.at = "updates"] EXCEPT !.should = TRUE]]
    BY <1>2 DEF CreateCampaign, CreateOrReload
  <2>2. PICK s \in AskRecords :
          ask' = [ask EXCEPT ![r] = s] /\ s.at = "updates" /\ s.should = TRUE
    <3>1. [[ask[r] EXCEPT !.at = "updates"] EXCEPT !.should = TRUE] \in AskRecords
      <4>1. "updates" \in AskSteps
        BY DEF AskSteps
      <4>2. QED BY <1>1, <4>1 DEF AskRecords
    <3>2. QED BY <1>1, <2>1, <3>1 DEF AskRecords
  <2>3. AskOK(s) /\ StillFound(s) /\ ~Aligning(s)
    BY <2>2 DEF AskOK, StillFound, Aligning
  <2>4. RowsGain
    BY <1>2, <2>1 DEF PrefInv, PrefTypeOK, RowsGain, Kinds, Subscribable
  <2>5. QED BY <1>1, <2>2, <2>3, <2>4, GainPrefs DEF RowsGain
<1>3. CASE prefs["campaign"] # "none"
  <2>1. ToStep(r, "campaignAgain") /\ UNCHANGED prefs
    BY <1>3 DEF CreateCampaign, CreateOrReload
  <2>2. PICK s \in AskRecords : ask' = [ask EXCEPT ![r] = s] /\ s.at = "campaignAgain"
    BY <2>1, ToStepAsk DEF PrefInv, AskSteps
  <2>3. AskOK(s) /\ StillFound(s) /\ ~Aligning(s)
    BY <2>2 DEF AskOK, StillFound, Aligning
  <2>4. QED BY <1>1, <2>1, <2>2, <2>3, StatementPrefs
<1>4. QED BY <1>2, <1>3

\* An automatic subscription goes on by what it has read of the campaign.
LEMMA GoesOnAligning ==
  ASSUME PrefInv, NEW r \in Askers, NEW step \in {"createUpdates", "updatesAgain", "align"},
         ToStep(r, step), UNCHANGED <<left, promised>>, RowsGain,
         ask[r].at \in {"updates", "createUpdates", "updatesAgain"},
         asks' \in 0..MaxAsks, prefLock' \in [Kinds -> Askers \cup {Nobodys}]
  PROVE  PrefInv'
<1>1. PICK s \in AskRecords :
        ask' = [ask EXCEPT ![r] = s] /\ s.at = step /\ s.should = ask[r].should
  BY ToStepAsk DEF PrefInv, AskSteps
<1>2. AskOK(s) /\ StillFound(s)
  BY <1>1 DEF AskOK, StillFound
<1>3. "updates" \in promised => ~Aligning(s)
  BY <1>1 DEF PrefInv, PromisesKept, Aligning
<1>4. QED BY <1>1, <1>2, <1>3, GainPrefs DEF RowsGain

LEMMA ReadUpdatesPrefs ==
  ASSUME PrefInv, NEW r \in Askers, ReadUpdates(r)
  PROVE  PrefInv'
<1>1. /\ ask[r].at \in {"updates", "updatesAgain"}
      /\ UNCHANGED <<prefs, prefLock, asks, left, promised>>
      /\ asks' \in 0..MaxAsks /\ prefLock' \in [Kinds -> Askers \cup {Nobodys}]
  BY DEF ReadUpdates, PrefInv, PrefTypeOK
<1>2. CASE Leaves(r)
  BY <1>1, <1>2, LeavesNoTrace
<1>3. CASE \E step \in {"createUpdates", "align"} : ToStep(r, step)
  <2>1. RowsGain
    BY <1>1 DEF RowsGain, PrefInv, PrefTypeOK
  <2>2. QED BY <1>1, <1>3, <2>1, GoesOnAligning
<1>4. QED BY <1>2, <1>3 DEF ReadUpdates

LEMMA CreateUpdatesPrefs ==
  ASSUME PrefInv, NEW r \in Askers, CreateUpdates(r)
  PROVE  PrefInv'
<1>1. /\ ask[r].at = "createUpdates" /\ UNCHANGED <<prefLock, asks, left, promised>>
      /\ asks' \in 0..MaxAsks /\ prefLock' \in [Kinds -> Askers \cup {Nobodys}]
  BY DEF CreateUpdates, CreateOrReload, In, PrefInv, PrefTypeOK
<1>2. CASE prefs["updates"] # "none"
  <2>1. ToStep(r, "updatesAgain") /\ UNCHANGED prefs
    BY <1>2 DEF CreateUpdates, CreateOrReload
  <2>2. RowsGain
    BY <2>1 DEF RowsGain, PrefInv, PrefTypeOK
  <2>3. QED BY <1>1, <2>1, <2>2, GoesOnAligning
<1>3. CASE prefs["updates"] = "none"
  <2>1. prefs' = [prefs EXCEPT !["updates"] = "on"]
    BY <1>3 DEF CreateUpdates, CreateOrReload
  <2>2. RowsGain
    BY <1>3, <2>1 DEF PrefInv, PrefTypeOK, RowsGain, Kinds, Subscribable
  <2>3. CASE ask[r].should
    <3>1. ask' = [ask EXCEPT ![r] = NotAsked]
      BY <1>3, <2>3 DEF CreateUpdates, CreateOrReload, Leaves
    <3>2. QED BY <1>1, <2>2, <3>1, NotAskedFine, GainPrefs DEF RowsGain
  <2>4. CASE ~ask[r].should
    <3>1. ToStep(r, "align")
      BY <1>3, <2>4 DEF CreateUpdates, CreateOrReload
    <3>2. QED BY <1>1, <2>2, <3>1, GoesOnAligning
  <2>5. QED BY <2>3, <2>4
<1>4. QED BY <1>2, <1>3

\* Updates follow the campaign as it was read: they are turned off only while
\* they are not promised.
LEMMA AlignUpdatesPrefs ==
  ASSUME PrefInv, NEW r \in Askers, AlignUpdates(r)
  PROVE  PrefInv'
<1>1. /\ ask[r].at = "align" /\ UNCHANGED <<prefLock, asks, left, promised>>
      /\ asks' \in 0..MaxAsks /\ prefLock' \in [Kinds -> Askers \cup {Nobodys}]
  BY DEF AlignUpdates, In, PrefInv, PrefTypeOK
<1>2. CASE ask[r].should
  <2>1. /\ prefs' = [prefs EXCEPT !["updates"] = "on"] /\ ask' = [ask EXCEPT ![r] = NotAsked]
    BY <1>2 DEF AlignUpdates, Leaves
  <2>2. RowsGain
    BY <2>1 DEF PrefInv, PrefTypeOK, RowsGain, Kinds, Subscribable
  <2>3. QED BY <1>1, <2>1, <2>2, NotAskedFine, GainPrefs DEF RowsGain
<1>3. CASE ~ask[r].should
  <2>1. prefs' = [prefs EXCEPT !["updates"] = "off"] /\ Overtakes(r)
    BY <1>3 DEF AlignUpdates
  <2>2. /\ prefs' \in [Kinds -> {"none", "on", "off"}]
        /\ \A k \in Kinds \ {"updates"} : prefs'[k] = prefs[k]
        /\ {"unsubscription", "campaign"} \subseteq Kinds \ {"updates"}
    BY <2>1 DEF PrefInv, PrefTypeOK, Kinds, Subscribable
  <2>3. LeavingHolds'
    BY <1>1, <2>2 DEF PrefInv, LeavingHolds
  <2>4. "updates" \notin promised
    BY <1>1, <1>3 DEF PrefInv, PromisesKept, Aligning
  <2>5. \A k \in promised' : Eligible(k)'
    <3>1. \A k \in promised : k \in Kinds \ {"updates"} /\ Eligible(k)
      BY <2>4 DEF PrefInv, PrefTypeOK, PromisesKept, Kinds
    <3>2. QED BY <1>1, <2>2, <3>1 DEF Eligible
  <2>6. left' \in [all: BOOLEAN, campaign: BOOLEAN]
    BY <1>1 DEF PrefInv, PrefTypeOK
  <2>7. QED BY <1>1, <2>1, <2>2, <2>3, <2>5, <2>6, WithdrawalPrefs
<1>4. QED BY <1>2, <1>3

-----------------------------------------------------------------------------
(* Theorems                                                                  *)

\* Every step keeps the invariant.
LEMMA PrefInvStep == PrefInv /\ [PrefNext]_prefVars => PrefInv'
<1> SUFFICES ASSUME PrefInv, [PrefNext]_prefVars PROVE PrefInv'
  OBVIOUS
<1>1. CASE UNCHANGED prefVars
  BY <1>1
     DEF prefVars, PrefInv, PrefTypeOK, LeavingHolds, AsksOK, AllStillFound, StillFound, PromisesKept,
         Eligible
<1>2. CASE PrefNext
  <2>1. PICK r \in Askers :
          \/ \E k \in Subscribable : Subscribe(r, k) \/ SwitchOn(r, k) \/ SwitchOff(r, k) \/ SwitchOther(r, k)
          \/ \E k \in Kinds : DeletePref(r, k)
          \/ UnsubscribeViaToken(r) \/ EnsureAutoSubscriptions(r)
          \/ WriteOwn(r) \/ CreateOwn(r) \/ Lift(r) \/ JoinCampaign(r) \/ CommitOptIn(r)
          \/ TurnOff(r) \/ Delete(r) \/ LeaveCampaign(r) \/ Unsubscribe(r)
          \/ FindOthers(r) \/ CommitLeaving(r)
          \/ ReadCampaign(r) \/ CreateCampaign(r) \/ ReadUpdates(r) \/ CreateUpdates(r) \/ AlignUpdates(r)
          \/ RollBack(r)
    BY <1>2 DEF PrefNext
  <2>2. CASE \/ \E k \in Subscribable : Subscribe(r, k) \/ SwitchOn(r, k) \/ SwitchOff(r, k)
             \/ \E k \in Kinds : DeletePref(r, k)
             \/ UnsubscribeViaToken(r) \/ EnsureAutoSubscriptions(r)
    BY <2>2, RequestPrefs
  <2>3. CASE WriteOwn(r) \/ CreateOwn(r) \/ Lift(r) \/ JoinCampaign(r) \/ CommitOptIn(r)
    BY <2>3, WriteOwnPrefs, CreateOwnPrefs, LiftPrefs, JoinCampaignPrefs, CommitOptInPrefs
  <2>4. CASE \/ TurnOff(r) \/ Delete(r) \/ LeaveCampaign(r) \/ Unsubscribe(r) \/ FindOthers(r)
             \/ (\E k \in Subscribable : SwitchOther(r, k)) \/ CommitLeaving(r)
    BY <2>4, TurnOffPrefs, DeletePrefs, StartLeavingPrefs, FindOthersPrefs, SwitchOtherPrefs,
       CommitLeavingPrefs
  <2>5. CASE \/ ReadCampaign(r) \/ CreateCampaign(r) \/ ReadUpdates(r) \/ CreateUpdates(r)
             \/ AlignUpdates(r)
    BY <2>5, ReadCampaignPrefs, CreateCampaignPrefs, ReadUpdatesPrefs, CreateUpdatesPrefs,
       AlignUpdatesPrefs
  <2>6. CASE RollBack(r)
    BY <2>6, FailsWithoutTrace DEF RollBack
  <2>7. QED BY <2>1, <2>2, <2>3, <2>4, <2>5, <2>6
<1>3. QED BY <1>1, <1>2

\* The invariant of a user's preferences.
THEOREM PreferencesInvariant == PrefSpec => []PrefInv
BY PrefInvInit, PrefInvStep, PTL DEF PrefSpec

\* Who has left receives nothing of it until a request of theirs takes that back,
\* and who was told of a subscription is eligible until a request withdraws it,
\* for any number of windows, links and automatic subscriptions.
THEOREM PreferencesHoldAlways == PrefSpec => []PreferencesHold
<1>1. PrefInv => PreferencesHold
  BY DEF PrefInv, LeavingHolds, PromisesKept, Eligible, PreferencesHold
<1>2. QED BY <1>1, PreferencesInvariant, PTL

=============================================================================
