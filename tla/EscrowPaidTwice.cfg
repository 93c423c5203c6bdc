SPECIFICATION EscrowSpec
CONSTANTS
  StartTime = 1
  ExecutionTimeout = 1
  VerificationTimeout = 1
  MaxEscrows = 1
  MaxTime = 8
  MaxCalls = 2
INVARIANT NoRefundAfterClaim
CHECK_DEADLOCK FALSE
