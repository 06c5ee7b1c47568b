\* The exit reason when Ctrl-C is pressed twice.
SPECIFICATION Spec
CONSTANTS
  Answers <- MCAnswers
  POSTFLIGHT_ATTEMPTS = 2
  MaxCancels = 2
  MaxDrift = 0
  MAX_RECEIPT_AGE = 1
  MAX_RECEIPT_FUTURE_SKEW = 1
  MaxClock = 1
  MaxReplaced = 0
CHECK_DEADLOCK FALSE
INVARIANTS
  ReportedTruth
