------------------------ MODULE DailyBattleInvariant ------------------------
(***************************************************************************)
(* The inductive invariant behind Conservation and BoundedOvershoot.       *)
(*                                                                         *)
(* Balance is Conservation for the writes a reversal has not committed:    *)
(* what its locked rows will hold, and the decrements it has executed,     *)
(* against what these rows hold now.  It holds because nobody else writes  *)
(* a locked row.  Overshoot counts, with the battles already there, the    *)
(* increments that have passed the check and not yet been written.         *)
(***************************************************************************)
EXTENDS DailyBattle

One(condition) == IF condition THEN 1 ELSE 0

GameAt(w) == job[w].game

DayAt(w) == DayOf[GameAt(w)]

(* Decrements the reversal has executed for a player.                      *)
Executed(w, p) ==
  One(pc[w] \in {"decrement2", "commit"} /\ Side[GameAt(w)][1] = p)
    + One(pc[w] = "commit" /\ Side[GameAt(w)][2] = p)

(* Which request stands at which statement, with which writes.             *)
Stage(w) ==
  /\ pc[w] = "idle" => job[w] = Idle
  /\ pc[w] \in {"readClock", "getDailyBattle", "increment"} => job[w] \in Increments
  /\ pc[w] \in {"mark", "decrement1", "decrement2", "commit"} => job[w] \in Reversals
  /\ pc[w] \in {"decrement1", "decrement2"} => pending[w].marked
  /\ pc[w] = "decrement1" => pending[w] = [Clean EXCEPT !.marked = TRUE]
  /\ pc[w] \notin {"decrement1", "decrement2", "commit"} => pending[w] = Clean
  /\ ~ pending[w].marked => pending[w] = Clean

(* A game being reverted is not reverted yet, and the writes balance.      *)
Balance(w) ==
  pending[w].marked =>
    /\ GameAt(w) \notin reverted
    /\ \A p \in Player :
         /\ pending[w].misses[p] <= Executed(w, p)
         /\ IF p \in pending[w].locked
            THEN pending[w].lowered[p] + Executed(w, p)
                   = count[p][DayAt(w)] + pending[w].misses[p]
            ELSE Executed(w, p) = pending[w].misses[p]

(* Two reversals are of different games and hold different rows.           *)
Apart(v, w) ==
  v # w /\ pending[v].marked /\ pending[w].marked =>
    /\ GameAt(v) # GameAt(w)
    /\ DayAt(v) = DayAt(w) => pending[v].locked \cap pending[w].locked = {}

(* Only a subscriber is ever taken for a premium player.                   *)
OnlySubscribers ==
  /\ \A p \in Player : premium[p] => p \in Subscriber
  /\ \A w \in Worker :
       job[w].kind = "increment" /\ job[w].premium => job[w].player \in Subscriber

(* The increments that have passed the check.                              *)
Passed(p, d) ==
  {w \in Worker : pc[w] = "increment" /\ job[w].player = p /\ job[w].day = d}

Overshoot ==
  \A p \in Player \ Subscriber, d \in Day :
    count[p][d] + Cardinality(Passed(p, d)) <= FreeLimit + Cardinality(Worker) - 1

IInv ==
  /\ TypeOK
  /\ \A w \in Worker : Stage(w) /\ Balance(w)
  /\ \A v, w \in Worker : Apart(v, w)
  /\ Conservation
  /\ OnlySubscribers
  /\ Overshoot
=============================================================================
