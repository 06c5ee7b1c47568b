\* Evidence, freshness, the contract and termination, two Ctrl-C at most.
SPECIFICATION FairSpec
CONSTANTS
  Answers <- MCAnswers
  POSTFLIGHT_ATTEMPTS = 2
  MaxCancels = 2
  MaxDrift = 1
  MAX_RECEIPT_AGE = 1
  MAX_RECEIPT_FUTURE_SKEW = 1
  MaxClock = 2
  MaxReplaced = 1
CHECK_DEADLOCK FALSE
INVARIANTS
  SentEvidenceSurvives
  RecordedTruth
  EarlyInterruptPreventsSend
PROPERTIES
  SendsOnReviewedBackup
  ImplementsContract
  Terminates
