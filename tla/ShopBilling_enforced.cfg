SPECIFICATION Spec
CONSTANTS
  Users = {u1}
  Configs = {c1}
  OwnerOf <- MCOwner
  Billers = {b1}
  Owners = {o1}
  Callers = {b1, o1}
  Calls = {"topup", "create", "block", "unblock"}
  Faults = {}
  GB = 2
  PricePerGB = 3
  PricePerDay = 0
  TopUpAmount = 2
  MaxMoved = 3
  MaxAge = 0
  MaxCalls = 5
PROPERTIES CutOff ComesBack
CHECK_DEADLOCK FALSE
