CONSTANTS
  e1 = e1
  r1 = r1
  r2 = r2
  Own = Own
  NoRouter = NoRouter
  NoPacket = NoPacket
  Endpoint = {e1}
  Router = {r1}
  RouterInfo <- OneRouter
  MaxEs = 2
  MaxTasks = 1
  Traffic <- OneRouterTraffic
SPECIFICATION FairSpec
PROPERTIES
  TableDrains
