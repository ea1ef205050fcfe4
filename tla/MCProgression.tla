---------------------------- MODULE MCProgression ----------------------------
(* Two games: one between two players, one against a player without a row. *)
(* The third, against a computer, is for the run in which the coefficient  *)
(* is tuned.                                                               *)
EXTENDS Progression, TLC

CONSTANTS p1, p2, ghost, versus, haunted, solo

MCSide ==
  [g \in Game |-> CASE g = versus  -> <<p1, p2>>
                    [] g = haunted -> <<p2, ghost>>
                    [] g = solo    -> <<p1, ghost>>]

MCOutcome ==
  [g \in Game |-> CASE g = versus  -> "first"
                    [] g = haunted -> "draw"
                    [] g = solo    -> "second"]

WorkerSymmetry == Permutations(Worker)
=============================================================================
