SPECIFICATION Spec
CONSTANTS
  p = p
  w1 = w1
  w2 = w2
  t1 = t1
  t2 = t2
  NoAgent = NoAgent
  Agents = {p, w1, w2}
  Tasks = {t1}
  Poster <- OnePoster
  Willing <- AllWilling
  Verifiers = {w2}
  MaxConcurrentTasks = 3
  MayStop = {}
  Faults = {}
INVARIANT PaymentFollowsWork
PROPERTY ImplementsLifecycle
CHECK_DEADLOCK FALSE
