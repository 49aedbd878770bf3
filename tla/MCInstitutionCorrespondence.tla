-------------------- MODULE MCInstitutionCorrespondence --------------------
(* Small instances of the correspondence with one institution for TLC. *)
EXTENDS InstitutionCorrespondence

\* A confirmed thread or none; who requests and how often; mails to come and whether
\* they quote their key; handlers and administrators at work, whether these respond;
\* failures.
Workload(open, requesting, requests, mails, quoting, handling, judging, responding, failing) ==
  [open |-> open, requesters |-> requesting, requests |-> requests, mails |-> mails,
   quoting |-> quoting, handlers |-> handling, reviewers |-> judging, responds |-> responding,
   faults |-> failing]

\* Two requests, each failing or not, whose success is observed by several parties.
Sends == {Workload({}, {"q1", "q2"}, 2, {}, {}, {"h1"}, {}, FALSE, 1)}
\* A confirmed thread gets two replies, which are delivered, repeated and reviewed.
Answers == {Workload({1}, {}, 0, {1, 2}, {FALSE}, {"h1", "h2"}, {}, FALSE, 1)}
\* Two administrators judge two replies.
Judgements == {Workload({1}, {}, 0, {1}, {TRUE}, {"h1"}, {"v1", "v2"}, FALSE, 1)}
\* Administrators respond while a reply comes and is reviewed.
Responses == {Workload({1}, {}, 0, {1, 2}, {TRUE}, {"h1"}, {"v1"}, TRUE, 0)}
\* Two requests, one after the other, and a reply to either.
Exchange == {Workload({}, {"q1"}, 2, {1}, {TRUE}, {"h1"}, {}, FALSE, 1)}
\* The user's own mail, captured twice, and a reply to it.
OwnMail == {Workload({}, {}, 0, {1, 3, 4}, {TRUE}, {"h1", "h2"}, {}, FALSE, 1)}
AllWorkloads == Sends \cup Answers \cup Judgements \cup Responses \cup Exchange \cup OwnMail
=============================================================================
