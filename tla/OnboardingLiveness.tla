------------------------- MODULE OnboardingLiveness -------------------------
(***************************************************************************)
(* Redelivery.  Pub/Sub pushes an event again until it is answered with    *)
(* 200, so an event is applied in the end provided that requests stop      *)
(* being cut off: stable is set once, after which no worker aborts.        *)
(***************************************************************************)
EXTENDS OnboardingProperties

VARIABLE stable

liveVars == <<vars, stable>>

LiveInit == Init /\ stable = FALSE

Stabilise ==
  /\ ~ stable
  /\ stable' = TRUE
  /\ UNCHANGED vars

LiveNext ==
  \/ Work /\ UNCHANGED stable
  \/ ~ stable /\ Fault /\ UNCHANGED stable
  \/ Stabilise

(* Pub/Sub pushes e again: it is not acknowledged and a request is free.   *)
Redeliver(e) ==
  /\ e \notin acked
  /\ \E w \in Worker : Begin(w, e)
  /\ UNCHANGED stable

(* A request being served runs on, the network settles, and redelivery is  *)
(* not starved by the other traffic.                                       *)
Fairness ==
  /\ WF_liveVars(Stabilise)
  /\ \A w \in Worker : WF_liveVars(Serve(w) /\ UNCHANGED stable)
  /\ \A e \in Event : SF_liveVars(Redeliver(e))

LiveSpec == LiveInit /\ [][LiveNext]_liveVars /\ Fairness

(* The event contradicts the initial faction the player has: it can never  *)
(* be applied, and is left to the dead-letter queue.                       *)
Conflicting(e) ==
  /\ Kind[e] = "faction_set"
  /\ ~ initial[PlayerOf[e]] \subseteq {FactionOf[e]}

(* Every event of a registered player that passes validation is            *)
(* acknowledged in the end, unless it contradicts the faction already      *)
(* chosen: rollbacks, duplicates and the waits for rows and index entries  *)
(* delay it and never block it for good.                                   *)
EventuallyAcked ==
  \A e \in Event :
    Valid(e) => (PlayerOf[e] \in registered ~> e \in acked \/ Conflicting(e))
============================================================================
