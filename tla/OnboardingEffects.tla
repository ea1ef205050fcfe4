------------------------- MODULE OnboardingEffects -------------------------
(***************************************************************************)
(* What the onboarding path promises to the rest of the system, with the   *)
(* transactions, the locks and the redeliveries hidden: an event changes   *)
(* the player in ONE step, that step is the one that enters the event in   *)
(* the ledger, and an event that is in the ledger changes nothing again.   *)
(* A handler answers success for an event only when the ledger holds it.   *)
(*                                                                         *)
(* Module Onboarding implements this specification.                        *)
(***************************************************************************)
EXTENDS OnboardingDomain

VARIABLES registered, name, status, owned, initial, processed, acked

effects == <<registered, name, status, owned, initial, processed, acked>>

Init ==
  /\ registered = {}
  /\ name = [p \in Player |-> None]
  /\ status = [p \in Player |-> "not_started"]
  /\ owned = [p \in Player |-> {}]
  /\ initial = [p \in Player |-> {}]
  /\ processed = {}
  /\ acked = {}

(***************************************************************************)
(* One event, one step.  Enter(e) is the part every event shares: the      *)
(* ledger gains e, which it did not hold, and the player exists.           *)
(***************************************************************************)
Enter(e) ==
  /\ e \in Event \ processed
  /\ PlayerOf[e] \in registered
  /\ processed' = processed \cup {e}
  /\ UNCHANGED <<registered, acked>>

(* name-set writes its name, and raises the status only from not_started.  *)
ApplyNameSet(e) ==
  LET p == PlayerOf[e] IN
  /\ Kind[e] = "name_set"
  /\ Enter(e)
  /\ name' = [name EXCEPT ![p] = NameOf[e]]
  /\ status' = [status EXCEPT ![p] = IF @ = "not_started" THEN "name_set" ELSE @]
  /\ UNCHANGED <<owned, initial>>

(* faction-set leaves exactly its faction as the initial one, and a status *)
(* of faction_set at least.                                                *)
ApplyFactionSet(e) ==
  LET p == PlayerOf[e] IN
  /\ Kind[e] = "faction_set"
  /\ Enter(e)
  /\ initial[p] \subseteq {FactionOf[e]}
  /\ initial' = [initial EXCEPT ![p] = {FactionOf[e]}]
  /\ owned' = [owned EXCEPT ![p] = @ \cup {FactionOf[e]}]
  /\ \/ status' = [status EXCEPT ![p] = "faction_set"]
     \/ Rank(status[p]) >= 2 /\ status' = status
  /\ UNCHANGED name

(* player-onboarded: the status is completed, or another event's write     *)
(* came between the handler's read and its commit.                         *)
ApplyCompleted(e) ==
  LET p == PlayerOf[e] IN
  /\ Kind[e] = "completed"
  /\ Enter(e)
  /\ \/ status' = [status EXCEPT ![p] = "completed"]
     \/ Rank(status[p]) >= 2 /\ status' = status
  /\ UNCHANGED <<name, owned, initial>>

(* faction-acquired adds its faction and never an initial one.             *)
ApplyFactionAcquired(e) ==
  /\ Kind[e] = "faction_acquired"
  /\ Enter(e)
  /\ owned' = [owned EXCEPT ![PlayerOf[e]] = @ \cup {FactionOf[e]}]
  /\ UNCHANGED <<name, status, initial>>

Ack(e) ==
  /\ e \in processed
  /\ acked' = acked \cup {e}
  /\ UNCHANGED <<registered, name, status, owned, initial, processed>>

----------------------------------------------------------------------------
(* The REST operations that share the rows.                                *)
Register(p) ==
  /\ p \notin registered
  /\ registered' = registered \cup {p}
  /\ UNCHANGED <<name, status, owned, initial, processed, acked>>

PutName(p, n) ==
  /\ p \in registered
  /\ name' = [name EXCEPT ![p] = n]
  /\ UNCHANGED <<registered, status, owned, initial, processed, acked>>

Grant(p, f) ==
  /\ p \in registered
  /\ owned' = [owned EXCEPT ![p] = @ \cup {f}]
  /\ UNCHANGED <<registered, name, status, initial, processed, acked>>

(* A selection succeeds once: it meets a player without another initial    *)
(* faction, and touches no status.                                         *)
Select(p, f) ==
  /\ p \in registered
  /\ initial[p] \subseteq {f}
  /\ initial' = [initial EXCEPT ![p] = {f}]
  /\ owned' = [owned EXCEPT ![p] = @ \cup {f}]
  /\ UNCHANGED <<registered, name, status, processed, acked>>

Next ==
  \/ \E e \in Event : \/ ApplyNameSet(e)
                      \/ ApplyFactionSet(e)
                      \/ ApplyCompleted(e)
                      \/ ApplyFactionAcquired(e)
                      \/ Ack(e)
  \/ \E p \in Player : \/ Register(p)
                       \/ \E n \in Name : PutName(p, n)
                       \/ \E f \in Faction : Grant(p, f) \/ Select(p, f)

Spec == Init /\ [][Next]_effects
============================================================================
