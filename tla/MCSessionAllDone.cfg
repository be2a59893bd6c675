SPECIFICATION Spec
CONSTANTS
  r1 = r1
  r2 = r2
  web = web
  im = im
  LastNode = 2
  Requests = {r1}
  Services = {web}
  ServiceOf <- OneService
  MaxSessions = 2
  MaxTurns = 2
INVARIANTS
  AllDoneIsTrue
