\* Two requests in flight at a time, every kind of task.
SPECIFICATION SerialSpec
CONSTANTS
  None = None
  p1 = p1
  n1 = n1
  n2 = n2
  she = she
  sugar = sugar
  neutral = neutral
  nameSet = nameSet
  setShe = setShe
  setSugar = setSugar
  setNeutral = setNeutral
  completed = completed
  acquired = acquired
  selectSugar = selectSugar
  Worker = {w1, w2}
  Player = {p1}
  Name = {n1, n2}
  Faction = {she, sugar, neutral}
  Selectable = {she, sugar}
  Task = {nameSet, setShe, setSugar, setNeutral, completed, acquired, selectSugar}
  Kind <- MCKind
  PlayerOf <- MCPlayerOf
  NameOf <- MCNameOf
  FactionOf <- MCFactionOf
SYMMETRY WorkerSymmetry
INVARIANTS
  TypeOK
  AckedIsProcessed
  StatusFloor
  StatusBacked
  OneInitialFaction
PROPERTIES
  InitialIsFinal
  EffectsSpec
  SerialOneWay
