------------------------- MODULE RegistrationCaller -------------------------
(***************************************************************************)
(* Callers that keep to the contract in the comment of Register: it is not *)
(* idempotent, so after a conflict or an error they call Login, and only   *)
(* when that finds nobody do they register again.                          *)
(***************************************************************************)
EXTENDS Registration

CONSTANT UidOf  \* the firebase_uid of each caller

ASSUME CallerAssumption == UidOf \in [Worker -> Uid]

Satisfied(w) == answer[w].code \in {"created", "ok"}

(* The request that follows the last answer.  A 404 for want of the        *)
(* configuration document may be taken for a failure or for notFound.      *)
NextCalls(w) ==
  CASE answer[w].code \in {"none", "notFound"}  -> {"register"}
    [] answer[w].code \in {"conflict", "error"} -> {"login"}
    [] answer[w].code = "noConfig"              -> Operation

Retry(w) == ~ Satisfied(w) /\ \E op \in NextCalls(w) : Call(w, op, UidOf[w])

CallerNext == \E w \in Worker : Retry(w) \/ Serve(w) \/ NoDocument(w) \/ Abort(w)

(* A failure that the statement itself does not explain.                   *)
Fault == \E w \in Worker : (Abort(w) \/ NoDocument(w)) /\ ~ Serve(w)

(* The process and the database run on, callers try again, and the faults  *)
(* end at some time.                                                       *)
CallerSpec ==
  /\ Init
  /\ [][CallerNext]_vars
  /\ \A w \in Worker : WF_vars(Serve(w)) /\ WF_vars(Retry(w))
  /\ <>[][~ Fault]_vars

(* Every caller ends up with its player, also when callers register the    *)
(* same firebase_uid at the same time, when a registration was answered    *)
(* with an error after its commit, or failed before it.                    *)
EveryCallerGetsItsPlayer == \A w \in Worker : <>[] Satisfied(w)
=============================================================================
