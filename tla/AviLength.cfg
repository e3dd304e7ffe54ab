SPECIFICATION Spec
CONSTANTS
  Recorders = {r1, r2}
  AVI_TO_CHECK = 2
  MaxLag = 1
  MIN_REC_TIME_LEN = 1
  MAX_REC_TIME_LEN = 2
  Gop = 2
  Failures = FALSE
  MaxSerial = 4
  MaxFiles = 3
  MaxMsgs = 2
PROPERTY FileHasRecordLength
\* the clients, the frames and the files are bounded
CHECK_DEADLOCK FALSE
