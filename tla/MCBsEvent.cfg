SPECIFICATION FairSpec
CONSTANTS
  CHANNEL_NUM = 2
  DVR_ENC_REPD_BT_NUM = 2
  Streaming <- MainAndSub
  Calls = {"START", "UPDATE", "STOP"}
  MaxCalls = 2
  MaxOut = 1
INVARIANTS StreamsConsistent FlagCoversEvents
PROPERTIES StopReleases StreamsLive EventServed
\* the model stops where the process would be killed
CHECK_DEADLOCK FALSE
