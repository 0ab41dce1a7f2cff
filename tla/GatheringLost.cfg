CONSTANTS
  Streams = {1, 2}
  Servers = {turn2}
  Unusable = {dead}
  Lifetimes = {60}
  Word = 1048576
  MaxRetrans = 1
  Setups <- MCLost
  None = none
  turn1 = turn1
  turn2 = turn2
  dead = dead
SPECIFICATION Spec

PROPERTY GatheringEnds
CHECK_DEADLOCK FALSE
