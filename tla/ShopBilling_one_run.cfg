SPECIFICATION Spec
CONSTANTS
  Users = {u1}
  Configs = {c1, c2}
  OwnerOf <- MCOwner
  Billers = {b1}
  Owners = {o1}
  Callers = {b1, o1}
  Calls = {"topup", "create", "delete", "pause", "resume", "reset"}
  Faults = {"debit", "client", "insert"}
  GB = 2
  PricePerGB = 2
  PricePerDay = 1
  TopUpAmount = 2
  MaxMoved = 3
  MaxAge = 1
  MaxCalls = 4
INVARIANTS BooksMatchLedger EveryClientBilled
PROPERTY ImplementsPayAsYouGo
CHECK_DEADLOCK FALSE
