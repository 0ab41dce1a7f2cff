SPECIFICATION Spec
CONSTANTS
    NStreams = 1
    StreamOf <- OneStream
    LocalCands <- OneLocal
    RemoteBatches <- OneRemote
    PrflxLocalPrio = 5
    PrflxRemotePrio = 4
    PrioBase = 100
    MaxConnChecks = 8
    MaxPending = 2
    MaxRetransmissions = 0
    InitialControlling <- Controlled
    Setups <- PathSetups
INVARIANTS
    TypeOK
PROPERTIES
    ConcludeDecides
    SelectedRemoteAnswered
