SPECIFICATION Spec
CONSTANTS
  Submitters = {s1, s2, s3}
  Controllers = {main, deferred}
  QueueSize = 1
  MaxWrites = 1
  MaxStarts = 2
INVARIANTS OneWriter AnswerIsTrue NeverAbandoned SerialisedUntilStopped
PROPERTY EveryCallReturns
CHECK_DEADLOCK FALSE
