SPECIFICATION Spec
CONSTANTS
  Clients = {c1}
  RestartOnDisable = TRUE
  MaxActs = 2
  MaxFaults = 1
INVARIANTS CoreMatchesSnapshot ManualStopHolds OnlyCrashesAlarm
PROPERTIES NeverGoesBack CrashedComesBack DisabledAreCutOff
CHECK_DEADLOCK FALSE
