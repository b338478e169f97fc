SPECIFICATION FairSpec
CONSTANTS
  Account = {"a1", "a2"}
  Worker = {"w1"}
  MaxTime = 2
  MaxChanges = 2
  MaxFaults = 1
PROPERTY StatusCatchesUp
