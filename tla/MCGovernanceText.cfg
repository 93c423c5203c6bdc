SPECIFICATION GovernanceSpec
CONSTANTS
  ag1 = ag1
  heard = heard
  mixed = mixed
  own = own
  k1 = k1
  k2 = k2
  k3 = k3
  k4 = k4
  k5 = k5
  KeyholderKeys = {k1, k2, k3, k4, k5}
  Genesis = {k1, k2, k3, k4, k5}
  Threshold = 3
  Decree <- MCDecree
  LocalDecrees = {own}
  Author = k1
  Subjects = {ag1}
  GovernanceCalls = {1, 2}
  GovernanceMaxTime = 2
  MaxActionLog = 2
INVARIANT SignedAsOrdered
CHECK_DEADLOCK FALSE
