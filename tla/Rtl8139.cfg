SPECIFICATION FairSpec
CONSTANTS
  TX_SLOTS = 2
  TxTimeout = 2
  Lengths = {42, 1792, 1793}
  MaxSends = 3
  MaxFrames = 1
CHECK_DEADLOCK FALSE
INVARIANTS
  OkMeansSent
  WireIsClean
  NoFrameLostSilently
PROPERTIES
  SendReturns
