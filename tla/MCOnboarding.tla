---------------------------- MODULE MCOnboarding ----------------------------
(* Safety of the onboarding path on the scenario's tasks.                  *)
EXTENDS OnboardingSerial, OnboardingScenario, TLC

WorkerSymmetry == Permutations(Worker)
============================================================================
