CONSTANTS
  Streams = {1, 2}
  Servers = {turn2}
  Unusable = {dead}
  Lifetimes = {60}
  Word = 1048576
  MaxRetrans = 1
  Setups <- MCSetups
  None = none
  turn1 = turn1
  turn2 = turn2
  dead = dead
SPECIFICATION Spec
INVARIANTS ItemsScheduled RefreshesKept FoundationsMatch
PROPERTIES DoneAfterItems GatheringEnds
CHECK_DEADLOCK FALSE
