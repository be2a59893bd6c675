SPECIFICATION Spec
CONSTANTS
  r1 = r1
  r2 = r2
  web = web
  im = im
  LastNode = 1
  Requests = {r1, r2}
  Services = {web, im}
  ServiceOf <- TwoServices
  MaxSessions = 2
  MaxTurns = 2
INVARIANTS
  OneEntryAtATime
