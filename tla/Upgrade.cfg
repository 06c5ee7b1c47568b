\* Safety, the contract and termination: two cancellations, two changes of the app.
SPECIFICATION TimedSpec
CONSTANTS
  Answers <- MCAnswers
  POSTFLIGHT_ATTEMPTS = 3
  MaxCancels = 2
  MaxDrift = 2
CHECK_DEADLOCK FALSE
INVARIANTS
  TypeOK
  TruthfulRefusal
  TruthfulCompletion
  NoSilentLeftover
  Inv
PROPERTIES
  SendsWhatWasChecked
  ImplementsContract
  TimedAwaitsEnd
  Terminates
