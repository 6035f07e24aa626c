SPECIFICATION Spec
CONSTANTS
  Users = {u1}
  TopUps = {t1, t2}
  Codes = {c1}
  NoCode = NoCode
  Handlers = {h1}
  Calls = {"request", "code", "receipt", "approve", "reject", "create", "enable", "disable", "delete"}
  MinTopUp = 5
  MaxTopUp = 50
  Amounts <- MCAmounts
  Percent = 50
  MaxBonus = 3
  MaxUses = 2
  MaxCalls = 9
PROPERTY ImplementsTopUpRequest
CHECK_DEADLOCK FALSE
