\* Three events and requests of nine, two at a time.  Liveness: no symmetry.
SPECIFICATION LiveSpec
CONSTANTS
  Initial = Initial
  nameSet = nameSet
  putName = putName
  premium1 = premium1
  premium2 = premium2
  putPremium = putPremium
  putLanguage = putLanguage
  putBoth = putBoth
  putNothing = putNothing
  getSettings = getSettings
  Names <- MCNames
  Worker = {w1, w2}
  Event = {nameSet, premium1, premium2}
  Put = {putName, putPremium, putLanguage, putBoth, putNothing}
  Get = {getSettings}
  MaxMade = 3
INVARIANTS
  LastWriterPerColumn
  AnswersAreTrue
PROPERTIES
  RedeliveryNeverUndoes
  EventuallyNewest
CHECK_DEADLOCK FALSE
