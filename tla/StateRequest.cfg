SPECIFICATION Spec
CONSTANTS
  MaxRetryCount = 2
  MaxChanges = 4
INVARIANTS TypeOK WaitingHasAttempt
PROPERTIES EventuallySynchronised
