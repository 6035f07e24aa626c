\* A session whose socket comes and goes, with changes by everybody.
SPECIFICATION FairSpec
CONSTANTS
  Sockets = {s1, s2}
  None = none
  Sent = sent
  MaxVer = 2
  MaxChan = 2
INVARIANTS OneLiveSocket OwnChangesShown
PROPERTIES NeverGivesUp ClientsConverge
CHECK_DEADLOCK FALSE
