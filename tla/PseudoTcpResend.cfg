CONSTANTS
  SeqMod = 24
  SBufLen = 8
  RBufLen = 8
  DefRBufLen = 7
  MaxWire = 4
  MinMss = 7
  AdviseMss = 9
  Levels <- MCLevels
  PathMss = 7
  MaxXmit = 2
  MaxXmitOther = 3
  Setups <- MCReliable
  WndScale <- MCWndScale
  Nagle = FALSE
  AckDelay = TRUE
  Idles <- MCNoIdle
  ChunkLen = 8
  ReadLens = {8}
  MaxBytes <- MCMaxBytes
  MaxNet = 2
  MaxFaults = 1
  MaxTimeouts = 1
  MaxFins = 2
  CwndCap = 14
SPECIFICATION Spec
INVARIANTS AckedNotResent
CHECK_DEADLOCK FALSE
