\* Two messages, two deliveries at a time and each message twice.
\* Liveness: no symmetry.
SPECIFICATION LiveSpec
CONSTANTS
  m1 = m1
  m2 = m2
  Message = {m1, m2}
  Worker = {w1, w2}
  TopicsOf <- MCTopicsOf
  MaxDeliveries = 2
INVARIANTS
  LedgerIsTheEffects
PROPERTIES
  EventuallyEffective
CHECK_DEADLOCK FALSE
