\* Two requests in flight, two reversals in opposite order, two days.
\* Liveness: no symmetry.
SPECIFICATION LiveSpec
CONSTANTS
  p1 = p1
  p2 = p2
  g1 = g1
  g2 = g2
  Worker = {w1, w2}
  Player = {p1, p2}
  Subscriber = {p2}
  Game = {g1, g2}
  Side <- MCSide
  DayOf <- MCDayOf
  LastDay = 2
  MaxFights <- MCMaxFights
  FreeLimit = 1
INVARIANTS
  TypeOK
  Conservation
  BoundedOvershoot
PROPERTIES
  EveryRequestEnds
