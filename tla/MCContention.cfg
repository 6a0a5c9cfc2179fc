\* Blocks of up to 4 transactions over 2 accounts.
CONSTANTS
  a1 = a1
  a2 = a2
  Accounts = {a1, a2}
  MaxTxs = 4
  Blocks <- MCBlocks
SPECIFICATION Spec
INVARIANTS
  AccountStateExact
  OrderPreserving
  NoIdleWait
  DepthIsLongestChain
  WriteConflictsReported
PROPERTIES
  RefinesSchedule
\* build_schedule returns: a block whose result is computed has no next step.
CHECK_DEADLOCK FALSE
