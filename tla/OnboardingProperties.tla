------------------------ MODULE OnboardingProperties ------------------------
(***************************************************************************)
(* What must hold of the onboarding path.                                  *)
(***************************************************************************)
EXTENDS Onboarding

(* Every variable has its type.                                            *)
TypeOK ==
  /\ registered \in SUBSET Player
  /\ name \in [Player -> Name \cup {None}]
  /\ status \in [Player -> Status]
  /\ owned \in [Player -> SUBSET Faction]
  /\ initial \in [Player -> SUBSET Faction]
  /\ processed \in SUBSET Event
  /\ acked \in SUBSET Event
  /\ pc \in [Worker -> Statement \cup {"idle", "respond"}]
  /\ task \in [Worker -> Task \cup {None}]
  /\ pending \in [Worker -> Pending]

(* No event is lost: a delivery is acknowledged only when the ledger holds *)
(* the event, however the delivery that acknowledges met the one that      *)
(* applied it (a duplicate that overtakes it, a rollback, a lost answer).  *)
AckedIsProcessed == acked \subseteq processed

(* What an applied event did stays done: after a name-set the status is    *)
(* name_set at least, after a faction-set it is faction_set at least, and  *)
(* no stale read of another transaction takes it back.                     *)
StatusFloor ==
  \A e \in processed :
    Kind[e] \in {"name_set", "faction_set"} => Rank(status[PlayerOf[e]]) >= Rank(Kind[e])

(* The status is backed by the data it announces: a player in name_set     *)
(* has a name, a player in faction_set has an initial faction.             *)
StatusBacked ==
  \A p \in Player :
    /\ status[p] = "name_set" => name[p] # None
    /\ status[p] = "faction_set" => initial[p] # {}

(* A player has one initial faction at most, and it was selectable,        *)
(* whichever of the event and the REST call set it.                        *)
OneInitialFaction ==
  \A p \in Player :
    /\ initial[p] \subseteq owned[p] \cap Selectable
    /\ \A f, g \in initial[p] : f = g

(* The choice is final: no step changes or removes an initial faction.     *)
InitialIsFinal ==
  [][\A p \in Player : initial[p] # {} => initial'[p] = initial[p]]_vars

(* The onboarding status only moves forward, as the comment of the column  *)
(* says (db/schema.sql:40).                                                *)
OneWayStatus ==
  [][\A p \in Player : Rank(status'[p]) >= Rank(status[p])]_vars

(* Each event takes effect in the one step that enters it in the ledger.   *)
Effects == INSTANCE OnboardingEffects

EffectsSpec == Effects!Spec
============================================================================
