SPECIFICATION Spec
CONSTANTS
    Setups <- MCSetups
    PacketMax = 4
    Alignment = 2
    StunHeader = 1
    RingInitial = 9
CHECK_DEADLOCK FALSE
INVARIANTS
    FramesWhole
    QueueWatched
    FramesReassembled
    FailsWithCause
