SPECIFICATION ReconciliationSpec
CONSTANTS
  Events = {1, 2}
  Processes = {w1}
  BatchLimit = 2
  MaxAttempts = 2
  MaxCrashes = 2
  MaxRetries = 1
INVARIANTS
  OutboxTypeOK
  ConfirmedIsNotSentAgain
  RetriesAreBounded
  DuplicatesAreLostAnswers
  ReportIsTrue
PROPERTIES
  EventuallySettled
CHECK_DEADLOCK FALSE
