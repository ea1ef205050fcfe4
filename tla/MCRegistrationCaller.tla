------------------------ MODULE MCRegistrationCaller ------------------------
(* Two callers share a firebase_uid, the third has its own.                *)
EXTENDS RegistrationCaller

CONSTANTS w1, w2, w3, u1, u2

MCUidOf == [w \in Worker |-> IF w = w3 THEN u2 ELSE u1]
=============================================================================
