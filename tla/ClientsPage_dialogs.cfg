\* Two clients, one inbound each, and room for a third.
SPECIFICATION Spec
CONSTANTS
  Ids = {ann, bob, row3}
  Names = {ann, bob, eve}
  Fresh = fresh
  Inbounds = {i1, i2}
  Keyed = {i2}
  None = none
  MaxEdits = 1
  MaxMishaps = 1
INVARIANT SavedAsShown
PROPERTIES CredentialsStay NoTwins
CHECK_DEADLOCK FALSE
