CONSTANTS
  Sockets = {s1, s2, s3}
  SendBuffer = 2
  Refill = 2
  Buffer = 1
  MaxFrames = 4
  KaTries = 2
  Setups <- MCSetups
  None = none
SPECIFICATION Spec
INVARIANTS DeliveredOnce NothingStranded WriterWoken 
PROPERTIES FailsOnlyWhenSilent
CHECK_DEADLOCK FALSE
