CONSTANTS
  Process = {p1}
  Request = {q1, q2}
  User = {alice}
  Thread = {t1, t2}
  Seeded <- MCFreshDatabase
  PoolSize = 2
  MaxTurns = 2
  MaxFailures = 0
SPECIFICATION Spec
INVARIANT
  LoopNeverWaitsOnItself
