\* Three callers, two of them with one firebase_uid.  Liveness: no symmetry.
SPECIFICATION CallerSpec
CONSTANTS
  None = None
  w1 = w1
  w2 = w2
  w3 = w3
  u1 = u1
  u2 = u2
  Worker = {w1, w2, w3}
  Uid = {u1, u2}
  Id = {i1, i2, i3, i4}
  UidOf <- MCUidOf
INVARIANTS
  TypeOK
  WholePlayers
PROPERTIES
  AccountsSpec
  EveryCallerGetsItsPlayer
CHECK_DEADLOCK FALSE
