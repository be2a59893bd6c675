SPECIFICATION Spec
CONSTANTS
  c1 = c1
  c2 = c2
  c3 = c3
  other = other
  Core <- MCSmallCore
  Foreign <- MCForeign
  Asked = {}
  Shapes <- MCSmallShapes
  Findings <- MCSmallFindings
  Messages <- MCMessages
  EntryLayer = FALSE
  StrictConceptCoverage = TRUE
  RequireApplyExercise = TRUE
  LLMCompletionCheck = TRUE
  MaxCrashes = 1
  NoExercise = NoExercise
PROPERTIES
  NoReopen
