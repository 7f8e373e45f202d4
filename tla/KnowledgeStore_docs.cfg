CONSTANTS
  Serving = {{p1}, {p1, p2}}
  Request = {q1, q2, q3}
  Docs = {d1}
  Contents = {c1, c2}
  MaxBatches = 4
  MaxFaults = 2
SPECIFICATION FairSpec
CHECK_DEADLOCK FALSE
INVARIANTS
  ObjectsAgree
  OneGeneration
  SearchExact
PROPERTY
  DeletedPurged
