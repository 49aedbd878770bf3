CONSTANTS
  Deliveries = {d1}
  Digests = {}
  Refreshables = {}
  Weeklies = {d1}
  Senders = {s1}
  Composers = {c1}
  None = None
  MaxAttempts = 2
  Threshold = 1
  Window = 2
  Outcomes = {{"delivered", "complained"}, {"bounced_transient"}, {"failed"}}
  TimelyWorkers = FALSE
  MaxFaults = 1
  MaxChanges = 1
SPECIFICATION Spec
INVARIANT CallsBounded
PROPERTY ImplementsLifecycle
CHECK_DEADLOCK FALSE
