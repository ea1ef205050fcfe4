-------------------------- MODULE RestCallInvariant --------------------------
(***************************************************************************)
(* The inductive invariant of RestCall.                                    *)
(***************************************************************************)
EXTENDS RestCall

Trouble == {"credential", "body", "value", "player", "opponent", "taken", "limit",
            "config", "moot", "uid"}

StepName == {"authenticate", "bind", "value", "player", "update", "first", "second",
             "grant", "taken", "claim", "limit", "config", "write", "once", "moot?"}

(* Every variable has its type.                                            *)
TypeOK ==
  /\ op \in Called
  /\ target \in Target
  /\ trouble \subseteq Trouble
  /\ phase \in {"ready", "waiting", "told"}
  /\ attempts \in 0 .. MaxAttempts
  /\ run \in [Attempt -> [at : {"unsent", "wire", "running", "over", "default"},
                          left : Seq(StepName)]]
  /\ effect \in [Attempt -> {"none", "part", "all", "moot"}]
  /\ reply \in [Attempt -> [status : Nat, json : BOOLEAN, whole : BOOLEAN]]
  /\ verdict \in [Attempt -> Verdicts \cup {"none"}]

CallerInv ==
  /\ phase = "ready" <=> attempts = 0
  /\ "config" \in trouble => "config" \in Troubles

----------------------------------------------------------------------------
(* The order of the steps.                                                 *)

(* The writes that an operation may make.                                  *)
MayWrite(o, step) ==
  /\ step \in ToSet(Usecase[o])
  /\ o \in {"RegisterPlayer", "SelectInitialFaction"} => step = "claim"
  /\ o = "RevertBattleCount" => step = "once"
  /\ step = "first" => o = "AwardGameExp"

(* After a write other than the first player's award there is no other     *)
(* write, and no check that could refuse what the write has not refused,   *)
(* but for the configuration's.                                            *)
MayFollow(step, next) ==
  step \in Writes \ {"first"} =>
    /\ next \notin Writes
    /\ StepTrouble(next) \subseteq (StepTrouble(step) \cup {"config"}) \ {"taken", "moot"}

(* Steps that a handler of the operation may have left.                    *)
Fit(o, steps) ==
  /\ steps \in Seq(StepName)
  /\ \A i \in 1 .. Len(steps) :
       /\ steps[i] \in Writes => MayWrite(o, steps[i])
       /\ steps[i] = "first" => Len(steps) = i + 1 /\ steps[i + 1] = "second"
       /\ steps[i] = "once" => Len(steps) = i
       /\ \A j \in 1 .. Len(steps) : i < j => MayFollow(steps[i], steps[j])

Harmless(step) ==
  /\ step \notin Writes
  /\ StepTrouble(step) \cap (trouble \cup {"taken", "moot"}) \subseteq {"config"}

----------------------------------------------------------------------------
(* An attempt.                                                             *)

(* A handler that has done nothing has a promised write before it; one     *)
(* that has done its write has only steps before it that will not refuse.  *)
HandlerInv(n) ==
  LET left == run[n].left
  IN  /\ Wire = Request[op]
      /\ Fit(op, left)
      /\ effect[n] = "none" =>
           Promise = "none" \/ \E i \in 1 .. Len(left) : left[i] \in Writes
      /\ effect[n] = "part" => op = "AwardGameExp" /\ left = <<"second">>
      /\ effect[n] = "all" => Promise = "all" /\ \A i \in 1 .. Len(left) : Harmless(left[i])
      /\ effect[n] = "moot" => left = <<>>

Whole(r) == [r EXCEPT !.whole = TRUE]

(* What the client makes of a reply that arrives whole.                    *)
Meaning(n) == Verdict(op, Whole(reply[n]))

(* What a refusal is about, while the configuration is in place.           *)
Named(v) ==
  /\ v = "ErrUnauthorized" => "credential" \in trouble
  /\ v = "ErrBadRequest" => {"body", "value"} \cap trouble # {}
  /\ v = "ErrNotFound" => {"player", "opponent", "uid"} \cap trouble # {}
  /\ v = "ErrConflict" => "taken" \in trouble
  /\ v = "unexpected status" => "limit" \in trouble

(* What a verdict tells is true of the attempt.                            *)
Tells(n, v) ==
  /\ v \in Verdicts \ {"error"}
  /\ v = "success" => effect[n] \in {Promise, "moot"}
  /\ "config" \notin Troubles /\ v \in Refusals =>
       /\ effect[n] = "none" \/ (op = "AwardGameExp" /\ effect[n] = "part")
       /\ Named(v)

(* What is told is what the reply means, unless it was an error or came    *)
(* from a proxy.                                                           *)
VerdictInv(n) ==
  \/ verdict[n] \in {"none", "error"}
  \/ verdict[n] = "ErrInternalServer" /\ target = "server"
  \/ verdict[n] = Meaning(n) /\ run[n].at \in {"over", "default"}

AttemptInv(n) ==
  /\ n > attempts => run[n] = Unsent
  /\ run[n].at \in {"unsent", "wire"} => effect[n] = "none"
  /\ run[n].at \in {"unsent", "wire", "running"} => reply[n] = NoReply
  /\ target = "fake" => run[n].at # "running" /\ effect[n] = "none"
  /\ target = "server" => run[n].at # "default"
  /\ run[n].at = "running" => HandlerInv(n)
  /\ run[n].at = "over" /\ target = "server" => Tells(n, Meaning(n))
  /\ run[n].at = "default" /\ op # "GetHealth" /\ "uid" \notin trouble =>
       Meaning(n) = "success"
  /\ VerdictInv(n)

(* What can be there once, and is, is in the way of a second attempt.      *)
OnceInv ==
  op \in {"RegisterPlayer", "SelectInitialFaction", "RevertBattleCount"} =>
    /\ \A n \in Attempt : effect[n] = "all" =>
         (IF op = "RevertBattleCount" THEN "moot" ELSE "taken") \in trouble
    /\ \A m, n \in Attempt : effect[m] = "all" /\ effect[n] = "all" => m = n

IInv ==
  /\ TypeOK
  /\ CallerInv
  /\ \A n \in Attempt : AttemptInv(n)
  /\ OnceInv
==============================================================================
