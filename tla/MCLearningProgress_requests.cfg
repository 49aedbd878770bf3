CONSTANTS
  Users = {"u1", "u2", "u3"}
  Keys = {"k1", "k2"}
  ReuseKeys = {"k1"}
  Values = {"v", "w"}
  FirstValue = "v"
  Transactions = {t1, t2}
  Workloads <- AllWorkloads
  Ids = {"e1", "e2", "e3", "e4", "e5"}
  Devices = {d1}
  Owner <- OwnerU1
  None = None
  DistinctStamps = TRUE
SPECIFICATION FairSpec
INVARIANT TypeOK
INVARIANT SubmittedOnce
INVARIANT ReviewsWhatWasLoaded
INVARIANT NoDecisionOvertakesReuse
INVARIANT ReuseNeedsHumanApproval
INVARIANT DeltasMissOnlyUncommitted
PROPERTY AuditsKept
PROPERTY FreshestWins
PROPERTY ReviewDroppedOnlyBlindly
PROPERTY TransactionsEnd
CHECK_DEADLOCK FALSE
