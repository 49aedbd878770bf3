CONSTANTS
  Deliveries = {d1}
  Digests = {}
  Refreshables = {}
  Weeklies = {}
  Senders = {s1}
  Composers = {c1}
  None = None
  MaxAttempts = 2
  Threshold = 1
  Window = 2
  Outcomes = {{}}
  TimelyWorkers = TRUE
  MaxFaults = 1
  MaxChanges = 0
SPECIFICATION FairSpec
PROPERTY RowsSettle
CHECK_DEADLOCK FALSE
