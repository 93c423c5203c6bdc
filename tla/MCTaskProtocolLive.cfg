SPECIFICATION FairSpec
CONSTANTS
  p = p
  w1 = w1
  w2 = w2
  t1 = t1
  t2 = t2
  NoAgent = NoAgent
  Agents = {p, w1}
  Tasks = {t1, t2}
  Poster <- TwoPosters
  Willing <- AllWillingTwo
  Verifiers = {}
  MaxConcurrentTasks = 3
  MayStop = {}
  Faults = {}
PROPERTY EventuallySettled
CHECK_DEADLOCK FALSE
