------------------------------ MODULE LevelLoop ------------------------------
(***************************************************************************)
(* ComputeLevel as the code runs it: one iteration of the loop per step,   *)
(* in signed machine words that wrap around.                               *)
(***************************************************************************)
EXTENDS Level

CONSTANTS
  Bound,        \* words are -Bound .. Bound - 1 (2^63 for int64)
  StartLevels   \* the levels stored in player_progression

Word == - Bound .. Bound - 1

ASSUME LoopAssumption ==
  /\ Bound \in Nat \ {0}
  /\ StartLevels \subseteq Word \cap (Nat \ {0})

VARIABLES
  newExp,        \* the arguments of the call
  currentLevel,
  coeff,
  reached,       \* level, the variable of the loop
  done           \* the loop is left

loopVars == <<newExp, currentLevel, coeff, reached, done>>

(* Two's complement.                                                       *)
Wrap(x) == IF x \in Word THEN x ELSE ((x + Bound) % (2 * Bound)) - Bound

(* coeff * (level + 1) * (level + 1), each operation wrapped.              *)
MachineNextLevelExp(l, c) == Wrap(Wrap(c * Wrap(l + 1)) * Wrap(l + 1))

(* The call: experience is not negative, and the coefficient is positive   *)
(* (ValidateGameConfig).                                                   *)
LoopInit ==
  /\ newExp \in Word \cap Nat
  /\ currentLevel \in StartLevels
  /\ coeff \in Word \cap (Nat \ {0})
  /\ reached = currentLevel
  /\ done = FALSE

(* A bug: a player who has just reached the next level stays below it.     *)
IterateStrict ==
  /\ ~ done
  /\ IF newExp <= MachineNextLevelExp(reached, coeff)
     THEN done' = TRUE /\ UNCHANGED reached
     ELSE reached' = Wrap(reached + 1) /\ UNCHANGED done
  /\ UNCHANGED <<newExp, currentLevel, coeff>>

(* A bug: the loop variable is wider than the column.                      *)
IterateUnwrapped ==
  /\ ~ done
  /\ IF newExp < MachineNextLevelExp(reached, coeff)
     THEN done' = TRUE /\ UNCHANGED reached
     ELSE reached' = reached + 1 /\ UNCHANGED done
  /\ UNCHANGED <<newExp, currentLevel, coeff>>

(* A bug: the loop is not left.                                           *)
IterateForever ==
  /\ ~ done
  /\ reached' = IF newExp < MachineNextLevelExp(reached, coeff) THEN reached ELSE Wrap(reached + 1)
  /\ UNCHANGED <<newExp, currentLevel, coeff, done>>

(* One iteration: compare, then leave or climb.                            *)
Iterate ==
  /\ ~ done
  /\ IF newExp < MachineNextLevelExp(reached, coeff)
     THEN done' = TRUE /\ UNCHANGED reached
     ELSE reached' = Wrap(reached + 1) /\ UNCHANGED done
  /\ UNCHANGED <<newExp, currentLevel, coeff>>

LoopSpec == LoopInit /\ [][Iterate]_loopVars

LoopLiveSpec == LoopSpec /\ WF_loopVars(Iterate)

----------------------------------------------------------------------------
(* Every variable has its type: all the arithmetic stays in words.         *)
LoopTypeOK ==
  /\ newExp \in Word \cap Nat
  /\ currentLevel \in StartLevels
  /\ coeff \in Word \cap (Nat \ {0})
  /\ reached \in Word
  /\ done \in BOOLEAN

(* The level the call should return.                                       *)
Result == ComputeLevel(newExp, currentLevel, coeff)

(* The call is in the range the comment of ComputeLevel asks for: the end  *)
(* of every level up to that one fits in a word.                           *)
InRange == \A k \in currentLevel .. Result : NextLevelExp(k, coeff) \in Word

(* In that range the loop returns the level the experience implies, and no *)
(* product of any of its iterations wraps: the terms compared are exact.   *)
LoopComputesLevel ==
  InRange =>
    /\ done => reached = Result
    /\ MachineNextLevelExp(reached, coeff) = NextLevelExp(reached, coeff)

(* In that range the loop ends.                                            *)
LoopEnds == InRange ~> done
=============================================================================
