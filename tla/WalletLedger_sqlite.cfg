SPECIFICATION Spec
CONSTANTS
  Users = {u1}
  Procs = {p1, p2}
  Amounts <- MCAmounts
  ImmediateTx = TRUE
  MaxLines = 3
INVARIANT Explained
PROPERTY ImplementsAtomicWallet
CHECK_DEADLOCK FALSE
