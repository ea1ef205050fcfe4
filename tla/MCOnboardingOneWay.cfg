\* The comment of the column against the unlocked read.
SPECIFICATION SerialSpec
CONSTANTS
  None = None
  p1 = p1
  n1 = n1
  n2 = n2
  she = she
  sugar = sugar
  neutral = neutral
  nameSet = nameSet
  setShe = setShe
  setSugar = setSugar
  setNeutral = setNeutral
  completed = completed
  acquired = acquired
  selectSugar = selectSugar
  Worker = {w1, w2}
  Player = {p1}
  Name = {n1, n2}
  Faction = {she, sugar, neutral}
  Selectable = {she, sugar}
  Task = {nameSet, setShe, completed}
  Kind <- MCKind
  PlayerOf <- MCPlayerOf
  NameOf <- MCNameOf
  FactionOf <- MCFactionOf
SYMMETRY WorkerSymmetry
PROPERTIES
  OneWayStatus
