CONSTANTS
  Step <- MCStep
  Definitions <- MCDefinitions
  MaxRounds = 2
  WorkerRounds = 1
  Ceiling = 2
  StepLimit = 8
  MaxTurns = 3
SPECIFICATION Spec
INVARIANTS TypeOK DeliveredReviewed OneDraftVisible CallsAnswered TurnBounded
CHECK_DEADLOCK FALSE
