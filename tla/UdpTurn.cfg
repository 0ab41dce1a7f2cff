CONSTANTS
  Peers = {p, q}
  Setups <- MCSetups
  Key = key
  NoKey = nokey
  None = none
  MaxRetrans = 1
  MaxIds = 9
  MaxSavedIds = 3
  p = p
  q = q
SPECIFICATION Spec
INVARIANTS DataInOrder WorkTimed TransactionsOwned Attribution
PROPERTY DataLeaves
CHECK_DEADLOCK FALSE
