\* Two requests in flight, retries of every game, the coefficient tuned.
SPECIFICATION TuningSpec
CONSTANTS
  p1 = p1
  p2 = p2
  ghost = ghost
  versus = versus
  haunted = haunted
  solo = solo
  Worker = {w1, w2}
  Player = {p1, p2, ghost}
  Registered = {p1, p2}
  Game = {versus, haunted}
  Side <- MCSide
  Outcome <- MCOutcome
  Npc = {}
  ExpWin = 9
  ExpLoss = 1
  ExpDraw = 2
  Gain = {0, 3}
  Coefficient = {1, 2}
  MaxExp = 1
  MaxCalls = 2
SYMMETRY WorkerSymmetry
INVARIANTS
  TypeOK
  ExpIsSum
  AnswersAreAwards
  ReadableUntilTuned
PROPERTIES
  AwardsAreAtomic
