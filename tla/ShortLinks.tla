----------------------------- MODULE ShortLinks -----------------------------
(***************************************************************************)
(* The short link of one code.  A code is a hash of a URL's path and query *)
(* (its page), so a URL belongs to one code; the model has the URLs of one *)
(* code: those of a page, which differ in order or origin, and those of a  *)
(* page whose hash collides.  code and original_url are unique, hence the  *)
(* code has at most one row.  Users ask for the code while others who hold *)
(* it are erased.                                                          *)
(***************************************************************************)
EXTENDS FiniteSets, Naturals

CONSTANTS
  Urls,
  SamePage,     \* the URLs of the first page; the others are of another page
  LinkUsers,
  MaxAsked      \* bound: requests

ASSUME UrlsAssumption == SamePage \subseteq Urls
ASSUME MaxAskedAssumption == MaxAsked \in Nat

VARIABLES
  link,         \* the row: id (0: there is none), url, user_ids
  asking,       \* each user's execution of createShortLink
  erasing,      \* each user's erasure: what its DELETE statement found
  asked,        \* requests made, rows inserted
  handed,       \* history: who got the code for which URL ...
  unlisted,     \* ... without being in user_ids
  irregular     \* history: users erased while they asked; overlapping erasures

linkVars == <<link, asking, erasing, asked, handed, unlisted, irregular>>
linkHistory == <<handed, unlisted, irregular>>

NoLink == [id |-> 0, url |-> CHOOSE url \in Urls : TRUE, users |-> {}]
NotAsking == [at |-> "idle", url |-> NoLink.url, known |-> FALSE, id |-> 0]

LinkTypeOK ==
  /\ link \in [id: 0..MaxAsked, url: Urls, users: SUBSET LinkUsers]
  /\ asking \in [LinkUsers ->
       [at: {"idle", "code", "url", "append", "codeAgain", "insert", "failed"},
        url: Urls, known: BOOLEAN, id: 0..MaxAsked]]
  /\ erasing \in [LinkUsers -> {"no", "deleting", "removing", "done"}]
  /\ asked \in [requests: 0..MaxAsked, rows: 0..MaxAsked]
  /\ handed \subseteq LinkUsers \X Urls /\ unlisted \subseteq handed
  /\ irregular \in [late: SUBSET LinkUsers, overlap: BOOLEAN]

LinkInit ==
  /\ link = NoLink /\ asked = [requests |-> 0, rows |-> 0]
  /\ asking = [u \in LinkUsers |-> NotAsking]
  /\ erasing = [u \in LinkUsers |-> "no"]
  /\ handed = {} /\ unlisted = {} /\ irregular = [late |-> {}, overlap |-> FALSE]

-----------------------------------------------------------------------------
(* createShortLink: one action per query *)

LinkExists == link.id # 0
UrlOf(u) == asking[u].url
SameUrl(u) == LinkExists /\ link.url = UrlOf(u)
SameCanonical(u) == LinkExists /\ (link.url \in SamePage) = (UrlOf(u) \in SamePage)
Asks(u, step) == asking[u].at = step
\* A DELETE has locked the row: writes of it wait for the commit.
BeingDeleted == \E u \in LinkUsers : erasing[u] = "deleting"

HandOut(u) ==
  /\ asking' = [asking EXCEPT ![u] = NotAsking]
  /\ handed' = handed \cup {<<u, UrlOf(u)>>}
  /\ unlisted' = IF u \in link'.users THEN unlisted \ {<<u, UrlOf(u)>>}
                 ELSE unlisted \cup {<<u, UrlOf(u)>>}
  /\ UNCHANGED irregular
Refuse(u) == asking' = [asking EXCEPT ![u] = NotAsking] /\ UNCHANGED linkHistory
Proceed(u, step) == asking' = [asking EXCEPT ![u].at = step] /\ UNCHANGED linkHistory

AskForLink(u, url) ==
  /\ Asks(u, "idle") /\ erasing[u] = "no" /\ asked.requests < MaxAsked
  /\ asking' = [asking EXCEPT ![u].at = "code", ![u].url = url]
  /\ asked' = [asked EXCEPT !.requests = @ + 1]
  /\ UNCHANGED <<link, erasing, linkHistory>>

\* getByCode: the same URL, the same page in another form, or another page.
LookUpCode(u) ==
  /\ Asks(u, "code")
  /\ UNCHANGED <<link, erasing, asked>>
  /\ \/ ~LinkExists /\ Proceed(u, "url")
     \/ /\ SameUrl(u)
        /\ asking' = [asking EXCEPT ![u].at = "url", ![u].known = TRUE] /\ UNCHANGED linkHistory
     \/ ~SameUrl(u) /\ SameCanonical(u) /\ HandOut(u)
     \/ LinkExists /\ ~SameCanonical(u) /\ Refuse(u)

\* createOrAssociateUser: getByOriginalUrl ...
LookUpUrl(u) ==
  /\ Asks(u, "url")
  /\ UNCHANGED <<link, erasing, asked>>
  /\ \/ SameUrl(u) /\ u \in link.users /\ HandOut(u)
     \/ /\ SameUrl(u) /\ u \notin link.users
        /\ asking' = [asking EXCEPT ![u].at = "append", ![u].id = link.id] /\ UNCHANGED linkHistory
     \/ ~SameUrl(u) /\ Proceed(u, "codeAgain")

\* ... array_append to the row that was found ...
AppendUser(u) ==
  /\ Asks(u, "append") /\ ~BeingDeleted
  /\ IF link.id = asking[u].id
     THEN link' = [link EXCEPT !.users = @ \cup {u}] /\ HandOut(u)
     ELSE Proceed(u, "failed") /\ UNCHANGED link
  /\ UNCHANGED <<erasing, asked>>

\* ... or getByCode again and the insert, which the unique code may refuse, or
\* of which the answer may be lost.
LookUpCodeAgain(u) ==
  /\ Asks(u, "codeAgain")
  /\ Proceed(u, IF LinkExists THEN "failed" ELSE "insert")
  /\ UNCHANGED <<link, erasing, asked>>

InsertLink(u) ==
  /\ Asks(u, "insert") /\ ~BeingDeleted
  /\ \/ LinkExists /\ Proceed(u, "failed") /\ UNCHANGED <<link, asked>>
     \/ /\ ~LinkExists
        /\ link' = [id |-> asked.rows + 1, url |-> UrlOf(u), users |-> {u}]
        /\ asked' = [asked EXCEPT !.rows = @ + 1]
        /\ HandOut(u) \/ Proceed(u, "failed")
  /\ UNCHANGED erasing

QueryFails(u) ==
  /\ ~Asks(u, "idle")
  /\ IF asking[u].at \in {"code", "failed"} THEN Refuse(u) ELSE Proceed(u, "failed")
  /\ UNCHANGED <<link, erasing, asked>>

\* When the repository refuses a code that was free, somebody may have made it.
CheckForRace(u) ==
  /\ Asks(u, "failed")
  /\ UNCHANGED <<link, erasing, asked>>
  /\ IF ~asking[u].known /\ SameCanonical(u) THEN HandOut(u) ELSE Refuse(u)

-----------------------------------------------------------------------------
(* anonymizeUserData: two statements of one transaction *)

HeldBy(u) == LinkExists /\ u \in link.users

\* The DELETE's condition: nobody else holds the link.
OwnedAlone(u) == LinkExists /\ link.users = {u}

DeleteOwnLink(u) ==
  /\ erasing[u] = "no"
  /\ erasing' = [erasing EXCEPT ![u] = IF OwnedAlone(u) THEN "deleting" ELSE "removing"]
  /\ irregular' = [late |-> irregular.late \cup (IF Asks(u, "idle") THEN {} ELSE {u}),
                   overlap |-> irregular.overlap \/ \E v \in LinkUsers : erasing[v] = "removing"]
  /\ UNCHANGED <<link, asking, asked, handed, unlisted>>

LeaveLinks(u) ==
  /\ erasing[u] \in {"deleting", "removing"}
  /\ link' = IF erasing[u] = "deleting" THEN NoLink ELSE [link EXCEPT !.users = @ \ {u}]
  /\ erasing' = [erasing EXCEPT ![u] = "done"]
  /\ UNCHANGED <<asking, asked, linkHistory>>

LinkNext ==
  \E u \in LinkUsers :
    \/ \E url \in Urls : AskForLink(u, url)
    \/ LookUpCode(u) \/ LookUpUrl(u) \/ AppendUser(u) \/ LookUpCodeAgain(u)
    \/ InsertLink(u) \/ QueryFails(u) \/ CheckForRace(u)
    \/ DeleteOwnLink(u) \/ LeaveLinks(u)

LinkSpec == LinkInit /\ [][LinkNext]_linkVars

-----------------------------------------------------------------------------
(* Properties *)

\* Whoever was handed the code for a URL keeps a link to its page, whatever
\* other users' requests and erasures do, unless they were not put on it: a code
\* that was made for another form of the URL, or by somebody else meanwhile.
\* An erased user stays on no link and no link stays without users, unless a
\* request was under way at the user's erasure or two erasures overlapped.
LinksFollowTheirUsers ==
  /\ \A u \in LinkUsers, url \in Urls :
       <<u, url>> \in handed \ unlisted /\ erasing[u] = "no" =>
         LinkExists /\ (link.url \in SamePage) = (url \in SamePage)
  /\ {u \in link.users : erasing[u] = "done"} \subseteq irregular.late
  /\ LinkExists /\ link.users = {} => irregular.overlap \/ irregular.late # {}
=============================================================================
