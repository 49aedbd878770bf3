CONSTANTS
  Deliveries = {d1}
  Digests = {}
  Refreshables = {d1}
  Weeklies = {}
  Senders = {s1, s2}
  Composers = {c1}
  None = None
  MaxAttempts = 2
  Threshold = 1
  Window = 2
  Outcomes = {{}}
  TimelyWorkers = TRUE
  MaxFaults = 1
  MaxChanges = 1
SPECIFICATION FairSpec
INVARIANT ExclusiveUntilAccepted
PROPERTY RowsSettleOrStrand
CHECK_DEADLOCK FALSE
