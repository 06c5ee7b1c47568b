SPECIFICATION Spec
CONSTANTS
  MAX_RECEIPT_AGE = 2
  MAX_RECEIPT_FUTURE_SKEW = 1
  MaxClock = 5
  MaxMeddling = 2
\* The command ends, the clock stops and the others have done their steps.
CHECK_DEADLOCK FALSE
INVARIANTS
  RecordsFreshCreation
  SendsOnRecentBackup
