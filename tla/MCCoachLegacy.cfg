SPECIFICATION Spec
CONSTANTS
  c1 = c1
  c2 = c2
  c3 = c3
  other = other
  Core <- MCSmallCore
  Foreign <- MCForeign
  Asked <- MCAsked
  Shapes <- MCSmallShapes
  Findings <- MCFindings
  Messages <- MCMessages
  EntryLayer = TRUE
  StrictConceptCoverage = TRUE
  RequireApplyExercise = TRUE
  LLMCompletionCheck = FALSE
  MaxCrashes = 1
  NoExercise = NoExercise
INVARIANTS
  DeepenedWasAsked
  RecentAreRecorded
