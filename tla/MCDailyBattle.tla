--------------------------- MODULE MCDailyBattle ----------------------------
(* Two games between the same players, whose reversals name them in        *)
(* opposite order.                                                         *)
EXTENDS DailyBattle

CONSTANTS p1, p2, g1, g2

MCSide == [g \in Game |-> IF g = g1 THEN <<p1, p2>> ELSE <<p2, p1>>]

(* The free player comes back after having reached the limit.              *)
MCMaxFights == [p \in Player |-> IF p = p1 THEN <<2, 0>> ELSE <<1, 1>>]

MCDayOf == [g \in Game |-> 1]
=============================================================================
