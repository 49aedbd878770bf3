SPECIFICATION ServicesSpec
CONSTANTS
  Sources = {entity, alert}
  Newsletters = {entity}
  Digest = digest
  MaxRuns = 2
  MaxUserChanges = 1
  MaxFailures = 1
  Maps = {m1, m2}
  Datasets = {1, 2}
  SavedMaps = {m1}
  Requests = {r1, r2}
  SnapshotCap = 2
  MaxWrites = 2
  Urls = {page, pageReordered, other}
  SamePage = {page, pageReordered}
  LinkUsers = {ann, bob}
  MaxAsked = 3
  Recipients = {ann, bob}
  Plans = {plan1, plan2}
  Senders = {s1, s2}
  MaxSends = 3
  MaxTrouble = 1
  Digests = {1, 2}
  Reconcilers = {worker, webhook}
  Editors = {ed1, ed2}
  Instants = {1, 2}
  MaxWork = 3
  Askers = {tab1, tab2}
  MaxAsks = 3
INVARIANTS
  ServicesTypeOK
  NewsletterOnce
  ErasedRowsRest
  LibraryAgrees
  OnlyDeletionsDeadlock
  LinksFollowTheirUsers
  PlansAreSentOnce
  PreferencesHold
PROPERTIES
  MailsAreWanted
  NewsletterArrives
  RecordsMoveForward
CHECK_DEADLOCK FALSE
