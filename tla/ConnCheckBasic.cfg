SPECIFICATION FairSpec
CONSTANTS
    NStreams = 1
    StreamOf <- OneStream
    LocalCands <- OneLocal
    RemoteBatches <- TwoRemotes
    PrflxLocalPrio = 5
    PrflxRemotePrio = 4
    PrioBase = 100
    MaxConnChecks = 8
    MaxPending = 2
    MaxRetransmissions = 1
    InitialControlling <- BothRoles
    Setups <- BasicSetups
INVARIANTS
    OutstandingChecks
PROPERTIES
    ReadyConcludes
    SelectedMonotone
    ChecksConclude
