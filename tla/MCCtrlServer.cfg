SPECIFICATION Spec
CONSTANTS
  web = web
  set = set
  rec = rec
  Clients = {web, set, rec}
  Kind <- AllKinds
  MAX_LIST_FD = 4
  AVI_LISTEN = 2
  Failures = TRUE
  MaxConns = 5
INVARIANTS TablesHonest ReadNeverBlocks RefusedMeansKept
CHECK_DEADLOCK FALSE
