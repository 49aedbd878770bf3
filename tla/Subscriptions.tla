--------------------------- MODULE Subscriptions ---------------------------
(***************************************************************************)
(* One user's rows of table notifications: a newsletter, updates of an     *)
(* entity, the campaign they belong to, and the global unsubscription,     *)
(* which is in force while its row is inactive.  The user subscribes,      *)
(* switches, deletes and unsubscribes in several windows; terms accepted   *)
(* for an entity subscribe the user without being asked.  A transaction    *)
(* holds the locks of the rows it has written, a statement waits for rows  *)
(* that another one has written, and does not see rows another inserted.   *)
(***************************************************************************)
EXTENDS FiniteSets, Naturals

CONSTANTS
  Askers,      \* executions of requests
  MaxAsks      \* bound: requests made

ASSUME MaxAsksAssumption == MaxAsks \in Nat

VARIABLES
  prefs,       \* the rows: none, on, off
  ask,         \* the execution of each request
  prefLock,    \* who has written a row and not ended
  asks,        \* requests made
  left,        \* history: the user has left everything, or the campaign, and not come back
  promised     \* history: subscriptions answered by a request that met no withdrawal

prefVars == <<prefs, ask, prefLock, asks, left, promised>>

Subscribable == {"newsletter", "updates", "campaign"}
Kinds == Subscribable \cup {"unsubscription"}
Nothing == "same"
NotAsked == [op |-> "none", key |-> "newsletter", at |-> "idle", todo |-> {},
             writes |-> [k \in Kinds |-> Nothing], should |-> FALSE, overtaken |-> FALSE]
AskSteps == {"idle", "own", "create", "lift", "join", "commit", "turnOff", "leave", "unsubscribe",
             "scan", "others", "delete", "campaign", "createCampaign", "campaignAgain",
             "updates", "createUpdates", "updatesAgain", "align"}
GoesById == {"own", "turnOff", "delete", "leave", "align"}
Nobodys == "nobody's"

PrefTypeOK ==
  /\ prefs \in [Kinds -> {"none", "on", "off"}]
  /\ ask \in [Askers -> [op: {"none", "optIn", "turnOff", "leave", "unsubscribe", "delete", "ensure"},
                         key: Kinds, at: AskSteps, todo: SUBSET Subscribable,
                         writes: [Kinds -> {"same", "on", "off"}],
                         should: BOOLEAN, overtaken: BOOLEAN]]
  /\ prefLock \in [Kinds -> Askers \cup {Nobodys}]
  /\ asks \in 0..MaxAsks
  /\ left \in [all: BOOLEAN, campaign: BOOLEAN]
  /\ promised \subseteq Subscribable

\* Before the first request, and after a subscription to everything.
PrefInit ==
  /\ prefs \in {[k \in Kinds |-> "none"],
                [k \in Kinds |-> IF k = "unsubscription" THEN "none" ELSE "on"]}
  /\ ask = [r \in Askers |-> NotAsked]
  /\ prefLock = [k \in Kinds |-> Nobodys]
  /\ asks = 0 /\ left = [all |-> FALSE, campaign |-> FALSE] /\ promised = {}

-----------------------------------------------------------------------------
\* What findEligible... sends to: an inactive campaign row stops the updates.
Eligible(k) ==
  /\ prefs[k] = "on" /\ prefs["unsubscription"] # "off"
  /\ k = "updates" => prefs["campaign"] # "off"

In(r, step) == ask[r].at = step
KeyOf(r) == ask[r].key
Unlocked(r, k) == prefLock[k] \in {r, Nobodys}
ToStep(r, step) == ask' = [ask EXCEPT ![r].at = step]
Leaves(r) == ask' = [ask EXCEPT ![r] = NotAsked]

\* A statement within a transaction.
Writes(r, k, value, step) ==
  /\ Unlocked(r, k)
  /\ prefLock' = [prefLock EXCEPT ![k] = r]
  /\ ask' = [ask EXCEPT ![r].writes[k] = value, ![r].at = step]

Unlock(r) == prefLock' = [k \in Kinds |-> IF prefLock[k] = r THEN Nobodys ELSE prefLock[k]]
Fails(r) == Leaves(r) /\ Unlock(r)

\* A commit that takes subscriptions away: others under way are overtaken.
Overtaken(q) == [ask[q] EXCEPT !.overtaken = ~In(q, "idle")]
Overtakes(r) == ask' = [q \in Askers |-> IF q = r THEN NotAsked ELSE Overtaken(q)]
Withdraws(r, withdrawn) == promised' = promised \ withdrawn /\ Overtakes(r)

-----------------------------------------------------------------------------
(* Requests, up to what they read first *)

AsksTo(r, op, key, step) ==
  /\ In(r, "idle") /\ asks < MaxAsks
  /\ asks' = asks + 1
  /\ ask' = [ask EXCEPT ![r].op = op, ![r].key = key, ![r].at = step]
  /\ UNCHANGED <<prefs, prefLock, left, promised>>

\* subscribe
Subscribe(r, k) ==
  AsksTo(r, "optIn", k, CASE prefs[k] = "none" -> "create" [] prefs[k] = "off" -> "own" [] OTHER -> "lift")

\* updateNotification
SwitchOn(r, k) == prefs[k] # "none" /\ AsksTo(r, "optIn", k, "own")
SwitchOff(r, k) ==
  /\ prefs[k] # "none"
  /\ IF k = "campaign" THEN AsksTo(r, "leave", k, "leave") ELSE AsksTo(r, "turnOff", k, "turnOff")

\* deleteNotification takes any row of the user
DeletePref(r, k) == prefs[k] # "none" /\ AsksTo(r, "delete", k, "delete")

UnsubscribeViaToken(r) == AsksTo(r, "unsubscribe", "unsubscription", "unsubscribe")
EnsureAutoSubscriptions(r) == AsksTo(r, "ensure", "updates", "campaign")

-----------------------------------------------------------------------------
(* createWithManualOptIn, updateWithManualOptIn, applyManualNotificationOptIn *)

WriteOwn(r) ==
  /\ In(r, "own") /\ Writes(r, KeyOf(r), "on", "lift")
  /\ UNCHANGED <<prefs, asks, left, promised>>

\* The insert fails when the row has come to exist.
CreateOwn(r) ==
  /\ In(r, "create") /\ Unlocked(r, KeyOf(r))
  /\ IF prefs[KeyOf(r)] # "none" THEN Fails(r) ELSE Writes(r, KeyOf(r), "on", "lift")
  /\ UNCHANGED <<prefs, asks, left, promised>>

AfterLift(r) == IF KeyOf(r) = "updates" THEN "join" ELSE "commit"

LiftUnlessJoining(r) ==
  /\ In(r, "lift")
  /\ IF prefs["unsubscription"] = "none" \/ AfterLift(r) = "join"
     THEN ToStep(r, AfterLift(r)) /\ UNCHANGED prefLock
     ELSE Writes(r, "unsubscription", "on", AfterLift(r))
  /\ UNCHANGED <<prefs, asks, left, promised>>

\* An update of the unsubscription, if there is one to be seen.
Lift(r) ==
  /\ In(r, "lift")
  /\ IF prefs["unsubscription"] = "none" THEN ToStep(r, AfterLift(r)) /\ UNCHANGED prefLock
     ELSE Writes(r, "unsubscription", "on", AfterLift(r))
  /\ UNCHANGED <<prefs, asks, left, promised>>

\* The updates need the campaign: an upsert.
JoinCampaign(r) ==
  /\ In(r, "join") /\ Writes(r, "campaign", "on", "commit")
  /\ UNCHANGED <<prefs, asks, left, promised>>

Committed(r) == [k \in Kinds |-> IF ask[r].writes[k] = Nothing THEN prefs[k] ELSE ask[r].writes[k]]

\* An automatic subscription that found the campaign off may yet switch the updates off.
AboutToAlign ==
  \E q \in Askers : ~ask[q].should /\ ask[q].at \in {"updates", "createUpdates", "updatesAgain", "align"}

CommitOptIn(r) ==
  /\ ask[r].op = "optIn" /\ In(r, "commit")
  /\ prefs' = Committed(r)
  /\ left' = [all |-> FALSE, campaign |-> left.campaign /\ KeyOf(r) = "newsletter"]
  /\ promised' = IF ask[r].overtaken \/ (KeyOf(r) = "updates" /\ AboutToAlign) THEN promised
                 ELSE promised \cup {KeyOf(r)}
  /\ Fails(r) /\ UNCHANGED asks

-----------------------------------------------------------------------------
(* update, updateCampaignGlobalPreference, deactivateGlobalUnsubscribe, deleteCascade *)

TurnOff(r) ==
  /\ In(r, "turnOff") /\ Unlocked(r, KeyOf(r))
  /\ prefs' = [prefs EXCEPT ![KeyOf(r)] = "off"]
  /\ Withdraws(r, {KeyOf(r)})
  /\ UNCHANGED <<prefLock, asks, left>>

\* Requests that go by the row's id will not find it, even if it is created anew.
Delete(r) ==
  /\ In(r, "delete") /\ Unlocked(r, KeyOf(r))
  /\ prefs' = [prefs EXCEPT ![KeyOf(r)] = "none"]
  /\ left' = [all |-> left.all /\ KeyOf(r) # "unsubscription",
              campaign |-> left.campaign /\ KeyOf(r) # "campaign"]
  /\ promised' = promised \ {KeyOf(r)}
  /\ ask' = [q \in Askers |->
               IF q = r \/ (ask[q].at \in GoesById /\ KeyOf(q) = KeyOf(r)) THEN NotAsked
               ELSE [Overtaken(q) EXCEPT !.todo = @ \ {KeyOf(r)}]]
  /\ UNCHANGED <<prefLock, asks>>

LeaveCampaign(r) ==
  /\ In(r, "leave") /\ Writes(r, "campaign", "off", "scan")
  /\ UNCHANGED <<prefs, asks, left, promised>>

Unsubscribe(r) ==
  /\ In(r, "unsubscribe") /\ Writes(r, "unsubscription", "off", "scan")
  /\ UNCHANGED <<prefs, asks, left, promised>>

\* The second statement: the active rows it sees ...
FindOthers(r) ==
  /\ In(r, "scan")
  /\ ask' = [ask EXCEPT ![r].at = "others",
                        ![r].todo = {k \in Subscribable : prefs[k] = "on" /\ ask[r].writes[k] = Nothing
                                       /\ (ask[r].op = "leave" => k = "updates")}]
  /\ UNCHANGED <<prefs, prefLock, asks, left, promised>>

\* ... which it locks one by one, and looks at again.
SwitchOther(r, k) ==
  /\ In(r, "others") /\ k \in ask[r].todo /\ Unlocked(r, k)
  /\ prefLock' = [prefLock EXCEPT ![k] = r]
  /\ ask' = [ask EXCEPT ![r].todo = @ \ {k}, ![r].writes[k] = IF prefs[k] = "on" THEN "off" ELSE Nothing]
  /\ UNCHANGED <<prefs, asks, left, promised>>

CommitLeaving(r) ==
  /\ In(r, "others") /\ ask[r].todo = {}
  /\ prefs' = Committed(r)
  /\ left' = IF ask[r].op = "leave" THEN [left EXCEPT !.campaign = TRUE] ELSE [left EXCEPT !.all = TRUE]
  /\ Withdraws(r, IF ask[r].op = "leave" THEN {"campaign", "updates"} ELSE Subscribable)
  /\ Unlock(r) /\ UNCHANGED asks

-----------------------------------------------------------------------------
(* ensurePublicDebateAutoSubscriptions: each query is committed by itself *)

Found(r, k) == prefs[k] = "on"
CreateOrReload(r, k, created, again) ==
  /\ Unlocked(r, k)
  /\ IF prefs[k] = "none"
     THEN prefs' = [prefs EXCEPT ![k] = "on"] /\ created
     ELSE ToStep(r, again) /\ UNCHANGED prefs
  /\ UNCHANGED <<prefLock, asks, left, promised>>

ReadCampaign(r) ==
  /\ ask[r].at \in {"campaign", "campaignAgain"}
  /\ IF prefs["campaign"] # "none"
     THEN ask' = [ask EXCEPT ![r].at = "updates", ![r].should = Found(r, "campaign")]
     ELSE IF In(r, "campaign") THEN ToStep(r, "createCampaign") ELSE Leaves(r)
  /\ UNCHANGED <<prefs, prefLock, asks, left, promised>>

CreateCampaign(r) ==
  /\ In(r, "createCampaign")
  /\ CreateOrReload(r, "campaign",
       ask' = [ask EXCEPT ![r].at = "updates", ![r].should = TRUE], "campaignAgain")

ReadUpdates(r) ==
  /\ ask[r].at \in {"updates", "updatesAgain"}
  /\ IF prefs["updates"] = "none"
     THEN IF In(r, "updates") THEN ToStep(r, "createUpdates") ELSE Leaves(r)
     ELSE IF Found(r, "updates") = ask[r].should THEN Leaves(r) ELSE ToStep(r, "align")
  /\ UNCHANGED <<prefs, prefLock, asks, left, promised>>

CreateUpdates(r) ==
  /\ In(r, "createUpdates")
  /\ CreateOrReload(r, "updates", IF ask[r].should THEN Leaves(r) ELSE ToStep(r, "align"), "updatesAgain")

AlignUpdates(r) ==
  /\ In(r, "align") /\ Unlocked(r, "updates")
  /\ prefs' = [prefs EXCEPT !["updates"] = IF ask[r].should THEN "on" ELSE "off"]
  /\ IF ask[r].should THEN Leaves(r) ELSE Overtakes(r)
  /\ UNCHANGED <<prefLock, asks, left, promised>>

-----------------------------------------------------------------------------
\* The row a request writes next.
NextRows(r) ==
  CASE ask[r].at \in {"own", "create", "turnOff", "delete", "align", "createUpdates"} -> {KeyOf(r)}
    [] ask[r].at \in {"join", "leave", "createCampaign"} -> {"campaign"}
    [] ask[r].at = "unsubscribe" \/ (In(r, "lift") /\ prefs["unsubscription"] # "none") -> {"unsubscription"}
    [] OTHER -> ask[r].todo

\* Two transactions that wait for each other: the database ends one of them.
\* (Any other that fails leaves no trace.)
RollBack(r) ==
  /\ \E q \in Askers \ {r} :
       /\ \E k \in NextRows(r) : prefLock[k] = q
       /\ \E k \in NextRows(q) : prefLock[k] = r
  /\ Fails(r) /\ UNCHANGED <<prefs, asks, left, promised>>

PrefNext ==
  \E r \in Askers :
    \/ \E k \in Subscribable : Subscribe(r, k) \/ SwitchOn(r, k) \/ SwitchOff(r, k) \/ SwitchOther(r, k)
    \/ \E k \in Kinds : DeletePref(r, k)
    \/ UnsubscribeViaToken(r) \/ EnsureAutoSubscriptions(r)
    \/ WriteOwn(r) \/ CreateOwn(r) \/ Lift(r) \/ JoinCampaign(r) \/ CommitOptIn(r)
    \/ TurnOff(r) \/ Delete(r) \/ LeaveCampaign(r) \/ Unsubscribe(r)
    \/ FindOthers(r) \/ CommitLeaving(r)
    \/ ReadCampaign(r) \/ CreateCampaign(r) \/ ReadUpdates(r) \/ CreateUpdates(r) \/ AlignUpdates(r)
    \/ RollBack(r)

PrefSpec == PrefInit /\ [][PrefNext]_prefVars

-----------------------------------------------------------------------------
(* Properties *)

\* Who has unsubscribed is eligible for nothing, and who has left the campaign
\* for nothing of it, until a request of their own takes that back, whatever
\* automatic subscriptions do.  Who was told of a subscription is eligible until
\* a request withdraws it, unless another withdrew something while it was under
\* way, or an automatic subscription still goes by a campaign that was off.
PreferencesHold ==
  /\ left.all => \A k \in Subscribable : ~Eligible(k)
  /\ left.campaign => ~Eligible("updates") /\ ~Eligible("campaign")
  /\ \A k \in promised : Eligible(k)
=============================================================================
