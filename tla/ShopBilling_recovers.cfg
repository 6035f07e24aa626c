SPECIFICATION Spec
CONSTANTS
  Users = {u1}
  Configs = {c1}
  OwnerOf <- MCOwner
  Billers = {b1, b2}
  Owners = {o1}
  Callers = {b1, b2, o1}
  Calls = {"topup", "create", "delete"}
  Faults = {"crash", "debit", "book", "client", "insert"}
  GB = 2
  PricePerGB = 2
  PricePerDay = 0
  TopUpAmount = 2
  MaxMoved = 3
  MaxAge = 0
  MaxCalls = 4
PROPERTY EverythingBilled
CHECK_DEADLOCK FALSE
