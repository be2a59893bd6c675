SPECIFICATION Spec
CONSTANTS
  r1 = r1
  r2 = r2
  web = web
  im = im
  LastNode = 2
  Requests = {r1, r2}
  Services = {web}
  ServiceOf <- OneService
  MaxSessions = 4
  MaxTurns = 1
SYMMETRY Tabs
PROPERTIES
  RebuiltStaysLit
