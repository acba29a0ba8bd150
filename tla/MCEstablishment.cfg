CONSTANTS
  e1 = e1
  r1 = r1
  r2 = r2
  Own = Own
  NoRouter = NoRouter
  NoPacket = NoPacket
  Endpoint = {e1}
  Router = {r1, r2}
  RouterInfo <- TwoRouters
  MaxEs = 3
  MaxTasks = 2
  Traffic <- TwoRoutersTraffic
SPECIFICATION Spec
INVARIANTS
  NoOrphan
  PeerAuthenticated
  PeerAnnounced
PROPERTIES
  AnnouncedOnce
  NeverRefused
VIEW View
