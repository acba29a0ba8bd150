SPECIFICATION FairSpec
CONSTANTS
  ra = ra
  rb = rb
  rc = rc
  rd = rd
  Routers = {ra, rb, rc, rd}
  Stoppable = {ra}
  Builds <- MCBuilds
  Payloads <- MCPayloads
  Unparsable = {8}
  MaxAborted = 1
INVARIANTS  HopsAsBuilt DeliveredWhole StoppedMeansDrained
PROPERTIES Drains
CHECK_DEADLOCK FALSE
