SPECIFICATION FairSpec
CONSTANTS
  None = None
  Requesters = {"q1", "q2"}
  Handlers = {"h1", "h2"}
  Recovery = recovery
  Reviewers = {"v1", "v2"}
  Replies = {1, 2}
  Captures = {3, 4}
  MaxThreads = 2
  Verdicts = {"other", "auto_reply"}
  Workloads <- AllWorkloads
INVARIANTS
  TypeOK
  OneRequestOut
  EntriesOnce
  NoPhantomRequest
PROPERTIES
  ReplayNeverReopens
  ResolvedIsFinal
  ThreadsFollowLifecycle
  NewsMaterializes
  SendsRecover
  RepliesAreKeptOrExcluded
CHECK_DEADLOCK FALSE
