CONSTANTS
  Process = {p1}
  Request = {q1, q2, q3}
  User = {alice}
  Thread = {t1, t2}
  Seeded <- MCAnyDatabase
  PoolSize = 2
  MaxTurns = 2
  MaxFailures = 1
SPECIFICATION FairSpec
PROPERTIES
  RequestsEnd
  ExpiredPurged
