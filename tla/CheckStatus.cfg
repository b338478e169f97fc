SPECIFICATION Spec
CONSTANTS
  Account = {"a1"}
  Worker = {"w1"}
  MaxTime = 2
  MaxChanges = 1
  MaxFaults = 0
PROPERTY CheckUpdatesStatus
