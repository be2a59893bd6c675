SPECIFICATION CoursesSpec
CONSTANTS
  Keys = {1, 2, 3, 4, 5, 6, 7, 8, 9}
  Fields = {"exercise_ideas"}
  BuildOutputs <- MCBuildOutputs
  ExtendOutputs <- MCExtendOutputs
  Selections <- MCSelections
  Pack <- MCPack
  MaxOffers = 2
  Courses = {1, 2, 3}
  Tasks = {1, 2}
  Threads = {2}
  NodeOf <- MCNodeOf
  Outlines = {{1, 2}, {1, 3}}
  FirstNodes = {1, 2}
  ExtraNode = 3
  Topics = {"go", "root"}
  FirstTopic = "go"
  RootTopic = "root"
  Pupils = {"u1"}
  Slots = {m1, m2}
  OwnerOf <- MCOwnerOf
  FirstCourses = {1}
  ReplacementOf <- MCReplacementOf
  LastNode <- MCLastNode
  Callers = {"r1", "r2"}
  Catalog = {7}
  Outputs <- MCOutputs
  MaxPlanningSessions = 2
  MaxPlans = 1
  Shelf = {11, 12, 13}
  SizeOf <- MCSizeOf
  Planned = {0, 11}
  MaxMoments = 2
  MaxTaken = 1
SYMMETRY Alike
CHECK_DEADLOCK FALSE
INVARIANTS
  GeneratedWellFormed
  ProgressInTree
  CourseSurvives
  LearningSurvives
  ActiveHasSession
  NothingSkipped
  PlanWellFormed
  PinSurvives
  FreshStartHolds
  ShortcutsSound
PROPERTIES
  MigrationFaithful
  ExtendOnlyAppends
  
  UpdatesOnlyAdd
  TicksKeepTheirItems
