------------------------ MODULE ProgressionInvariant ------------------------
(***************************************************************************)
(* The inductive invariant of Progression.                                 *)
(***************************************************************************)
EXTENDS Progression, FiniteSets

(* Inside the transaction of an award, with the row lock.                  *)
Holding(w) == pc[w] \in {"update", "commit"}

(* What a worker knows at each statement: the row has not changed since it *)
(* was read, and the uncommitted write is what the row and the award imply.*)
Stage(w) ==
  LET p == PlayerAt(w) IN
  /\ pc[w] # "idle" => job[w] \in Singles \cup Pairs
  /\ pc[w] \in {"select", "update", "commit"} =>
       GainAt(w) > 0 /\ read[w].coeff \in Coefficient
  /\ pc[w] = "update" => read[w].exp = exp[p] /\ read[w].level = level[p]
  /\ pc[w] = "commit" =>
       /\ read[w].exp = exp[p] + GainAt(w)
       /\ read[w].level = ComputeLevel(read[w].exp, level[p], read[w].coeff)

(* Two transactions do not hold the same row.                              *)
Apart(v, w) == v # w /\ Holding(v) /\ Holding(w) => PlayerAt(v) # PlayerAt(w)

----------------------------------------------------------------------------
(* The calls of a game that are in flight.                                 *)

Serving(g) == {w \in Worker : IsGame(w) /\ job[w].game = g}

(* The call has the award of a side behind it.                             *)
Passed(w, s) == job[w].side > s \/ pc[w] = "respond"

Behind(g, s) == {w \in Serving(g) : Passed(w, s)}

Ahead(g, s) == {w \in Serving(g) : ~ Passed(w, s)}

Between(g) == Behind(g, 1) \cap Ahead(g, 2)

(* A side that is due an award has one for each answer and for each call   *)
(* that has passed it, and none for a call that has not.                   *)
Accounted(g, s) ==
  Due(g, s) > 0 =>
    /\ answers[g] + Cardinality(Behind(g, s)) <= awards[g][s]
    /\ awards[g][s] + Cardinality(Ahead(g, s)) <= calls[g]
    /\ s = 2 /\ Due(g, 1) > 0 =>
         awards[g][2] + Cardinality(Between(g)) <= awards[g][1]

CallsInv ==
  /\ \A g \in Game : IsFiniteSet(Serving(g))
  /\ \A g \in Game, s \in {1, 2} : Accounted(g, s)

----------------------------------------------------------------------------
IInv ==
  /\ TypeOK
  /\ \A w \in Worker : Stage(w)
  /\ \A v, w \in Worker : Apart(v, w)
  /\ ExpIsSum

(* The experience of a player is that of the player's level, under the     *)
(* coefficient c.                                                          *)
Settled(c) ==
  \A p \in Player :
    /\ CurrentLevelExp(level[p], c) <= exp[p]
    /\ exp[p] < NextLevelExp(level[p], c)

(* Until the coefficient is tuned, every award was made with the present   *)
(* one.                                                                    *)
SettledUntilTuned ==
  ~ tuned =>
    /\ Settled(coefficient)
    /\ \A w \in Worker :
         pc[w] \in {"select", "update", "commit"} => read[w].coeff = coefficient
=============================================================================
