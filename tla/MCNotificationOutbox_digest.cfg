CONSTANTS
  Deliveries = {d1}
  Digests = {d1}
  Refreshables = {}
  Weeklies = {}
  Senders = {s1, s2}
  Composers = {c1}
  None = None
  MaxAttempts = 2
  Threshold = 1
  Window = 2
  Outcomes = {{}}
  TimelyWorkers = FALSE
  MaxFaults = 1
  MaxChanges = 1
SPECIFICATION Spec
INVARIANT TypeOK
INVARIANT SendsWhatItChecked
INVARIANT RenderedIsCurrent
INVARIANT SendableHasContent
INVARIANT NoPhantomSend
CHECK_DEADLOCK FALSE
SYMMETRY SenderSymmetry
