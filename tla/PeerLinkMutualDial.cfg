SPECIFICATION LinkFairSpec
CONSTANTS
  PeerNodes = {n1, n2}
  MaxDials = 2
  MaxWrites = 1
INVARIANT MutualDialKeepsLink
CHECK_DEADLOCK FALSE
