------------------------------- MODULE Level --------------------------------
(***************************************************************************)
(* Levels and experience.  Experience is cumulative and never spent: level *)
(* 1 starts at 0, level n > 1 at coeff * n^2.                              *)
(***************************************************************************)
EXTENDS Integers

(* The experience at which a level ends and the next one starts.           *)
NextLevelExp(level, coeff) == coeff * (level + 1) * (level + 1)

CurrentLevelExp(level, coeff) == IF level > 1 THEN coeff * level * level ELSE 0

(* l is where a climb from currentLevel stops: newExp passes the end of    *)
(* every level below l, and not that of l.                                 *)
Stops(newExp, currentLevel, coeff, l) ==
  /\ newExp < NextLevelExp(l, coeff)
  /\ \A k \in currentLevel .. l - 1 : NextLevelExp(k, coeff) <= newExp

(* What ComputeLevel returns.  The search is bounded: the end of level l   *)
(* is above l itself.                                                      *)
ComputeLevel(newExp, currentLevel, coeff) ==
  CHOOSE l \in currentLevel .. currentLevel + newExp :
    Stops(newExp, currentLevel, coeff, l)

(* ComputeExpProgress: what it refuses, and what it returns otherwise.     *)
Consistent(level, exp, coeff) == level >= 1 /\ CurrentLevelExp(level, coeff) <= exp

ComputeExpProgress(level, exp, coeff) ==
  [levelExpCurrent  |-> exp - CurrentLevelExp(level, coeff),
   levelExpRequired |-> NextLevelExp(level, coeff) - CurrentLevelExp(level, coeff)]
=============================================================================
