SPECIFICATION Spec
CONSTANTS
  p = p
  w1 = w1
  w2 = w2
  t1 = t1
  t2 = t2
  NoAgent = NoAgent
  Agents = {p, w1}
  Tasks = {t1}
  Poster <- OnePoster
  Willing <- AllWilling
  Verifiers = {}
  MaxConcurrentTasks = 3
  MayStop = {p, w1}
  Faults = {"cut", "late"}
INVARIANT WorkIsEscrowed
