SPECIFICATION FairSpec
CONSTANTS
  CHANNEL_NUM = 2
  DVR_ENC_REPD_BT_NUM = 1
  Streaming <- MainStreams
  Calls = {"START"}
  MaxCalls = 1
  MaxOut = 1
PROPERTY EventIsConfigured
\* enq_thread never stops here, but the callers do
CHECK_DEADLOCK FALSE
