------------------------- MODULE OnboardingScenario -------------------------
(***************************************************************************)
(* One player; one event of each kind, a second faction-set that disagrees *)
(* with the first, a third for a faction nobody may start with, and a REST *)
(* selection.                                                              *)
(***************************************************************************)
EXTENDS OnboardingDomain

CONSTANTS p1, n1, n2, she, sugar, neutral,
          nameSet, setShe, setSugar, setNeutral, completed, acquired, selectSugar

MCKind ==
  [t \in Task |-> CASE t = nameSet -> "name_set"
                    [] t \in {setShe, setSugar, setNeutral} -> "faction_set"
                    [] t = completed -> "completed"
                    [] t = acquired -> "faction_acquired"
                    [] t = selectSugar -> "select"]

MCPlayerOf == [t \in Task |-> p1]

MCNameOf == [t \in Task |-> n1]

MCFactionOf ==
  [t \in Task |-> CASE t \in {setSugar, selectSugar} -> sugar
                    [] t = setNeutral -> neutral
                    [] OTHER -> she]
============================================================================
