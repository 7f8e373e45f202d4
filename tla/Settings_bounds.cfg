CONSTANTS
  Process = {p1}
  Request = {q1}
  Envs <- MCOneEnv
  Payloads <- MCPayloads
  BuiltIns = {b1}
  Customs = {c1}
  None = None
  MaxWrites = 2
SPECIFICATION Spec
INVARIANT
  ChunkBoundsOrdered
