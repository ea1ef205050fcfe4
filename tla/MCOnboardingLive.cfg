\* Liveness: no symmetry, one name, the tasks that wait for each other.
SPECIFICATION LiveSpec
CONSTANTS
  None = None
  p1 = p1
  n1 = n1
  n2 = n2
  she = she
  sugar = sugar
  neutral = neutral
  nameSet = nameSet
  setShe = setShe
  setSugar = setSugar
  setNeutral = setNeutral
  completed = completed
  acquired = acquired
  selectSugar = selectSugar
  Worker = {w1, w2}
  Player = {p1}
  Name = {n1}
  Faction = {she, sugar}
  Selectable = {she, sugar}
  Task = {nameSet, setShe, completed, selectSugar}
  Kind <- MCKind
  PlayerOf <- MCPlayerOf
  NameOf <- MCNameOf
  FactionOf <- MCFactionOf
PROPERTIES
  EventuallyAcked
