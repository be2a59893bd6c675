SPECIFICATION ServicesSpec
CONSTANTS
  Requests = {"build", "audit", "regenerate", "skill"}
  Users = {"u1", "u2"}
  UserOf <- MCUserOf
  KindOf <- MCKindOf
  ByokUsers = {}
  MaxBuildJobsGlobal = 2
  QuotaDailyBuilds = 1
  MaxFaults = 1
  Tabs = {"open", "message", "stream"}
  Members = {"u1"}
  MemberOf <- MCMemberOf
  CallOf <- MCCallOf
  QuotaDailyMessages = 2
  MaxMessages = 5
  MaxLost = 1
  Accounts = {"a1", "a2"}
  Learners = {"u1", "u2"}
  Readers = {"m1", "m2"}
  AccountOf <- MCAccountOf
  Codes = {"k1"}
  CodeOwner <- MCCodeOwner
  CodeLike = {"u2"}
  Lessons = {"n1", "n2"}
  MaxSeconds = 2
  MaxForms = 2
  Lookups = {"q1", "q2"}
  Sides = {"here", "there"}
  Local = "here"
  Server = "there"
  MaxTicks = 4
  Openers = {"server", "cli"}
  Migrations <- MCMigrations
  MaxStops = 2
CHECK_DEADLOCK FALSE
INVARIANTS
  SlotsConserved
  RunningHasWorker
  FreeUseBounded
  CodeBindsOnce
  SummaryAccumulates
  SentenceKept
  CountsAreTrue
  SyncConverges
  OpenedIsWhole
PROPERTIES
  PromiseKept
