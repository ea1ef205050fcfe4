-------------------------- MODULE MCOnboardingLive --------------------------
(* Liveness of the onboarding path on the scenario's tasks.                *)
EXTENDS OnboardingLiveness, OnboardingScenario
============================================================================
