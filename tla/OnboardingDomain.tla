------------------------- MODULE OnboardingDomain --------------------------
(***************************************************************************)
(* The values the onboarding path works on: players, events and REST       *)
(* selections (both are Tasks, each with its kind and its payload), and    *)
(* the four onboarding statuses in their order.                            *)
(***************************************************************************)
EXTENDS Integers

CONSTANTS
  Player,      \* player ids
  Name,        \* display names that pass domain.ValidateName
  Faction,     \* factions the table accepts
  Selectable,  \* factions a player may start with
  Task,        \* Pub/Sub events (by event_id) and initial-faction requests
  Kind,        \* what each task asks for
  PlayerOf,    \* the player a task is about
  NameOf,      \* the name a name_set event carries
  FactionOf,   \* the faction a task carries
  None         \* SQL NULL

EventKind == {"name_set", "faction_set", "completed", "faction_acquired"}

Status == {"not_started", "name_set", "faction_set", "completed"}

ASSUME DomainAssumption ==
  /\ Kind \in [Task -> EventKind \cup {"select"}]
  /\ PlayerOf \in [Task -> Player]
  /\ NameOf \in [Task -> Name]
  /\ FactionOf \in [Task -> Faction]
  /\ Selectable \subseteq Faction
  /\ None \notin Name \cup Status \cup Task

Event == {t \in Task : Kind[t] # "select"}

(* domain/onboarding_status.go: onboardingStatusOrder.                     *)
Rank(s) ==
  CASE s = "not_started" -> 0
    [] s = "name_set"    -> 1
    [] s = "faction_set" -> 2
    [] s = "completed"   -> 3

CanTransition(current, next) == Rank(current) <= Rank(next)

(* The status an event advances to.                                        *)
Target(t) == Kind[t]

(* usecase.validateInitialFaction, before any transaction is opened.       *)
Valid(t) == Kind[t] \in {"faction_set", "select"} => FactionOf[t] \in Selectable
============================================================================
