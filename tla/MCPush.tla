------------------------------- MODULE MCPush -------------------------------
(* A message of any topic, and another beside it.                          *)
EXTENDS Push

CONSTANTS m1, m2

MCTopicsOf == [m \in Message |-> IF m = m1 THEN Topic ELSE {"premium-updated"}]
=============================================================================
