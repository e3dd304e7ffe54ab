SPECIFICATION FairSpec
CONSTANTS
  web = web
  set = set
  rec = rec
  Clients = {web, set, rec}
  Kind <- AllKinds
  MAX_LIST_FD = 3
  AVI_LISTEN = 2
  Failures = FALSE
  MaxConns = 4
PROPERTIES Answered Reclaimed ServesCalls
CHECK_DEADLOCK FALSE
