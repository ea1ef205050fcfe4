\* Every operation on the service and on the fake, two attempts, every
\* combination of what can be wrong while the configuration is in place.
SPECIFICATION Spec
CONSTANTS
  Called <- MCCalled
  Target = {"server", "fake"}
  Troubles = {"credential", "body", "value", "player", "opponent", "taken", "limit", "moot", "uid"}
  Callback <- MCCallback
  MaxAttempts = 2
INVARIANTS
  VerdictIsTrue
  SentinelNamesTheCause
  RetriesCountOnce
  FakeDefaultSucceeds
CHECK_DEADLOCK FALSE
