SPECIFICATION FairSpec
CONSTANTS
    p1 = p1
    p2 = p2
    Pairs <- MCPairs
    tie_breaker <- MCTies
    MaxSends = 1
PROPERTIES
    RolesStable
    WinnerKeepsRole
    ConflictReplyResolves
    ConflictEnds
