SPECIFICATION FairSpec
CONSTANTS
  NoBuf = NoBuf
  Bufs = {k1, k2, k3}
  HeapKeys = {NoBuf, k1, k2, k3}
  VQ_LEN = 1
  HeldWhileSent = TRUE
  ControlEvents = {"START", "UPDATE", "STOP"}
INVARIANTS SlotsConserved FramesRecorded CrashCauses
PROPERTIES FreedWhenDrained LendsInOrder PoolLives EventServed BufferReturns
\* the model stops where the process would be killed
CHECK_DEADLOCK FALSE
