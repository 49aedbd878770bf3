------------------------ MODULE MCLearningProgress ------------------------
(* Small instances of the synchronisation and review of records for TLC. *)
EXTENDS LearningProgress

Op(op, u, k) == [op |-> op, user |-> u, key |-> k, id |-> "none", phase |-> "absent",
                 value |-> None, at |-> 0, audit |-> FALSE, verdict |-> "none"]
Put(u, k, id, phase, value, at, audit) ==
  [Op("update", u, k) EXCEPT !.id = id, !.phase = phase, !.value = value, !.at = at, !.audit = audit]
Review(u, k, verdict) == [Op("review", u, k) EXCEPT !.verdict = verdict]
Echo(u, k, id) == [Op("echo", u, k) EXCEPT !.id = id, !.audit = TRUE]
Single(op) == <<op>>

\* Two devices of u1 edit and submit two records in batches, and reset.
SyncRequests ==
  {<<Put("u1", "k1", "e1", "pending", "v", 2, TRUE)>>,
   <<Put("u1", "k1", "e2", "pending", "w", 1, TRUE)>>,
   <<Put("u1", "k1", "e3", "draft", "w", 2, FALSE)>>,
   <<Op("reset", "u1", "k1"), Put("u1", "k1", "e4", "draft", "v", 1, FALSE)>>}

\* Two records of u1, in either order.
LockRequests ==
  {<<Put("u1", "k1", "e1", "draft", "v", 1, FALSE), Put("u1", "k2", "e2", "draft", "v", 1, FALSE)>>,
   <<Put("u1", "k2", "e3", "draft", "w", 2, FALSE), Put("u1", "k1", "e4", "pending", "w", 2, TRUE)>>,
   <<Put("u1", "k1", "e5", "pending", "v", 3, TRUE)>>,
   <<Review("u1", "k1", "approved"), Review("u1", "k2", "rejected")>>,
   <<Op("reset", "u1", "k1")>>}

DeltaRequests ==
  {<<Put("u1", "k1", "e1", "draft", "v", 2, FALSE)>>,
   <<Put("u1", "k1", "e2", "pending", "v", 1, TRUE)>>,
   <<Put("u1", "k2", "e3", "draft", "v", 2, FALSE)>>,
   <<Op("reset", "u1", "k1")>>}

\* A draft, a submission and its retry against an administrator.
ReviewRequests ==
  {<<Put("u1", "k1", "e1", "pending", "v", 1, TRUE)>>,
   <<Put("u1", "k1", "e2", "draft", "w", 9, FALSE)>>,
   <<Put("u1", "k1", "e3", "pending", "w", 9, TRUE)>>,
   <<Review("u1", "k1", "approved")>>,
   <<Review("u1", "k1", "rejected")>>}

\* Submissions of several users under one key, reviews and automatic approval.
ReuseRequests ==
  {<<Put(u, "k1", "e1", "pending", "w", 9, TRUE)>> : u \in {"u1", "u2"}}
    \cup {<<Review("u2", "k1", "approved")>>, <<Review("u2", "k1", "rejected")>>,
          <<Review("u3", "k1", "rejected")>>}
    \cup {<<Echo("u2", "k1", "e2")>>, <<Op("reuse", "u1", "k1")>>,
          <<Op("reset", "u2", "k1")>>}

ThreePending == <<<<"u1", "k1">>, <<"u2", "k1">>, <<"u3", "k1">>>>

Workload(submitted, batches, pulling, most, failing) ==
  [backlog |-> submitted, requests |-> batches, devices |-> pulling,
   arrivals |-> most, failures |-> failing]
Syncs == {Workload(<<>>, SyncRequests, {}, 5, 1)}
Batches == {Workload(<<>>, LockRequests, {}, 4, 0)}
Deltas == {Workload(<<>>, DeltaRequests, Devices, 4, 0)}
Reviews == {Workload(<<>>, ReviewRequests, {}, 5, 0)}
Reuses == {Workload(ThreePending, ReuseRequests, {}, 4, 0)}
AllWorkloads == Syncs \cup Batches \cup Deltas \cup Reviews \cup Reuses

OwnerU1 == [d \in Devices |-> "u1"]
=============================================================================
