----------------------------- MODULE MCServices -----------------------------
(***************************************************************************)
(* Small instances of the services that share nothing but the database,    *)
(* one at a time: a behaviour is one of the component it starts with, the  *)
(* others rest in one initial state.                                       *)
(***************************************************************************)
EXTENDS NewsletterDelivery, MapLibrary, ShortLinks, CampaignPlans, ServerRecords,
        Subscriptions

\* There is a map, a page and a plan that something can be about.
ASSUME InstancesAssumption == Maps # {} /\ Urls # {} /\ Plans # {}

VARIABLE component   \* the one that works

Works(c) == component = c
servicesVars == <<component, newsVars, mapVars, linkVars, planVars, recordVars, prefVars>>

ServicesInit ==
  /\ component \in {"newsletters", "maps", "links", "plans", "records", "preferences"}
  /\ NewsInit /\ MapInit /\ LinkInit /\ PlanInit /\ RecordInit /\ PrefInit
  /\ ~Works("newsletters") => active = {}
  /\ ~Works("maps") => /\ \A m \in Maps : maps[m] = NewMap("private", {})
                       /\ \A d \in Datasets : datasets[d].visibility = "private"
  /\ ~Works("preferences") => \A k \in Kinds : prefs[k] = "none"

ServicesNext ==
  /\ UNCHANGED component
  /\ \/ Works("newsletters") /\ NewsNext
        /\ UNCHANGED <<mapVars, linkVars, planVars, recordVars, prefVars>>
     \/ Works("maps") /\ MapNext
        /\ UNCHANGED <<newsVars, linkVars, planVars, recordVars, prefVars>>
     \/ Works("links") /\ LinkNext
        /\ UNCHANGED <<newsVars, mapVars, planVars, recordVars, prefVars>>
     \/ Works("plans") /\ PlanNext
        /\ UNCHANGED <<newsVars, mapVars, linkVars, recordVars, prefVars>>
     \/ Works("records") /\ RecordNext
        /\ UNCHANGED <<newsVars, mapVars, linkVars, planVars, prefVars>>
     \/ Works("preferences") /\ PrefNext
        /\ UNCHANGED <<newsVars, mapVars, linkVars, planVars, recordVars>>

ServicesSpec == ServicesInit /\ [][ServicesNext]_servicesVars /\ NewsFairness

\* Every variable of every service has its type.
ServicesTypeOK == NewsTypeOK /\ MapTypeOK /\ LinkTypeOK /\ PlanTypeOK /\ RecordTypeOK
                  /\ PrefTypeOK
=============================================================================
