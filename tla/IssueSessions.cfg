CONSTANTS
  MaxGenerations = 2
  MaxTurns = 2
  MaxEvents = 2
  MaxRemediations = 1
  AutoMerge = TRUE
  MaxOutcomes = 3
  Actors = {ann, bob}
  NoActor = NoActor
SPECIFICATION Spec
CONSTRAINT OutcomeBound
INVARIANTS
  QueuedHasTurn
  StatusIsKept
  OneActiveTurn
  StartsAreDeliberate
  SessionFollowsAGeneration
PROPERTIES
  TurnsStartInNewestGeneration
CHECK_DEADLOCK FALSE
