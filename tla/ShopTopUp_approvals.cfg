SPECIFICATION FairSpec
CONSTANTS
  Users = {u1, u2}
  TopUps = {t1, t2}
  Codes = {c1}
  NoCode = NoCode
  Handlers = {h1, h2}
  Calls = {"request", "code", "approve", "create"}
  MinTopUp = 5
  MaxTopUp = 50
  Amounts <- MCInRange
  Percent = 50
  MaxBonus = 3
  MaxUses = 1
  MaxCalls = 8
INVARIANTS PaidOnce UseLimit BonusExplained
PROPERTY ApprovedIsPaid
CHECK_DEADLOCK FALSE
