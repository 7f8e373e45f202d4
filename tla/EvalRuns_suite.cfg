CONSTANTS
  Deployments <- MCDeployments
  q1 = q1
  q2 = q2
  Request = {q1, q2}
  CaseRuns <- MCCaseRuns
  MinPasses <- MCMinPasses
  Grace = 0
  MaxEvalRuns = 2
SPECIFICATION FairSpec
INVARIANTS
  TypeOK
  SlotHeld
  DoneCounts
  VerdictSound
PROPERTIES
  LiveRunKept
  EndedStands
  SlotFreed
