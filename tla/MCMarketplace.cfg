SPECIFICATION Spec
CONSTANTS
  StartTime = 1
  ExecutionTimeout = 1
  VerificationTimeout = 1
  MaxEscrows = 2
  MaxTime = 8
  MaxCalls = 2
  Tasks = {t1, t2}
  MaxConcurrent = 2
  MaxEnqueues = 5
INVARIANTS
  ClaimedOnce
  ClaimIsBacked
  UndisputedPaidOnce
  RunningCountIsExact
  NoIdleSlot
  OutcomeMatchesState
PROPERTY QueuedIsServed
CHECK_DEADLOCK FALSE
