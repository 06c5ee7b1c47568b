\* A raising cleanup after a send that returned.
SPECIFICATION Spec
CONSTANTS
  Answers <- MCAnswers
  POSTFLIGHT_ATTEMPTS = 3
  MaxCancels = 0
  MaxDrift = 0
CHECK_DEADLOCK FALSE
PROPERTIES
  CleanupKeepsOutcome
