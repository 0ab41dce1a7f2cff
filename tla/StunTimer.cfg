SPECIFICATION FairSpec
CONSTANTS
    InitialTimeouts <- MCInitialTimeouts
    ClockSteps <- MCClockSteps
    MaxRetransmissions = 3
    MaxTime = 4000000
INVARIANTS
    DeadlineSchedule
    RemainderAccurate
    NoEarlyTimeout
PROPERTY OverdueTimesOut
CHECK_DEADLOCK FALSE
