-------------------------- MODULE OnboardingSerial ---------------------------
(***************************************************************************)
(* The onboarding path with a history of overlap: what can be said of one  *)
(* request at a time.                                                      *)
(***************************************************************************)
EXTENDS OnboardingInvariant

VARIABLE overlapped  \* history: two requests have been in flight at once

SerialInit == Init /\ overlapped = FALSE

SerialNext ==
  /\ Next
  /\ overlapped' = (overlapped \/ \E v, w \in Worker : v # w /\ Busy(v)' /\ Busy(w)')

SerialSpec == SerialInit /\ [][SerialNext]_<<vars, overlapped>>

(* Against reordering alone, without overlap, CanTransition is enough: the *)
(* status only moves forward, as the comment of advanceOnboardingStatus    *)
(* says, whatever the order of the events, crashes and redeliveries.       *)
SerialOneWay ==
  [][~ overlapped' =>
       \A p \in Player : Rank(status'[p]) >= Rank(status[p])]_<<vars, overlapped>>

(* Until requests overlap, the status that was read is still the one in    *)
(* the row when it is written, and when the write is committed.            *)
Fresh(w) ==
  /\ pc[w] = "setStatus" => CanTransition(status[PlayerAt(w)], Target(task[w]))
  /\ pending[w].status # None => CanTransition(status[PlayerAt(w)], pending[w].status)

SerialInv ==
  ~ overlapped =>
    /\ \A v, w \in Worker : Busy(v) /\ Busy(w) => v = w
    /\ \A w \in Worker : Fresh(w)
==============================================================================
