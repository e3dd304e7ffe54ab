SPECIFICATION FairSpec
CONSTANTS
  Sids = {0, 1}
  Avs = {0, 1}
  MaxSessions = 2
  MaxCmds = 2
  Uses <- VideoOrList
CHECK_DEADLOCK FALSE
INVARIANTS CountersHonest WantedOnly VideoKept ListComplete
PROPERTY SessionEnds
