CONSTANTS
  Process = {p1, p2}
  Request = {q1, q2}
  User = {alice, bob}
  Thread = {t1, t2}
  Seeded <- MCAnyDatabase
  PoolSize = 1
  MaxTurns = 3
  MaxFailures = 1
SPECIFICATION Spec
SYMMETRY MCSymmetry
INVARIANTS
  TypeOK
  HistoryOwned
  NoResurrection
  SerialTurnsKept
