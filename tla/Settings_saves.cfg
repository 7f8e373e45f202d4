CONSTANTS
  Process = {p1, p2}
  Request = {q1, q2}
  Envs <- MCEnvs
  Payloads <- MCPayloads
  BuiltIns = {b1}
  Customs = {c1}
  None = None
  MaxWrites = 3
SPECIFICATION Spec
SYMMETRY MCSymmetry
INVARIANTS
  TypeOK
  ConfigsUsable
  TrailMatchesRow
  BoundsFromPairs
  PatternTrail
