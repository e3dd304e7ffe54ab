SPECIFICATION Spec
CONSTANTS
  Recorders = {r1, r2}
  AVI_TO_CHECK = 2
  MaxLag = 1
  MIN_REC_TIME_LEN = 1
  MAX_REC_TIME_LEN = 3
  Gop = 2
  Failures = TRUE
  MaxSerial = 5
  MaxFiles = 2
  MaxMsgs = 4
SYMMETRY RecorderSymmetry
INVARIANTS TypeOK StatusHonest LocksAccounted
PROPERTY Decodable
\* the clients, the frames and the files are bounded
CHECK_DEADLOCK FALSE
