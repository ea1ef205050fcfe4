------------------------------ MODULE RestCall ------------------------------
(***************************************************************************)
(* One call of apiaccountclient and its retries, against the service or    *)
(* against the fake server, over a network that may lose or cut a reply.   *)
(*                                                                         *)
(* A caller that stops waiting leaves its request behind: the server may   *)
(* still serve it while it serves the retry.  Any step of a handler may    *)
(* fail with a database error or a panic, which is answered 500; a write   *)
(* whose commit is not acknowledged fails although it took effect.         *)
(***************************************************************************)
EXTENDS RestClient, RestServer, RestFake

CONSTANTS
  Called,      \* the operations that are called
  Target,      \* what is called: "server", "fake"
  Troubles,    \* what may be wrong with a call
  Callback,    \* answers of the fake's callbacks: <<status, body>>; <<>> for none
  MaxAttempts  \* bound: attempts of the call

ASSUME RestCallAssumption ==
  /\ Called \subseteq Operation
  /\ Target \subseteq {"server", "fake"}
  /\ Callback \subseteq {<<>>} \cup (Nat \X BOOLEAN)
  /\ MaxAttempts \in Nat \ {0}

Attempt == 1 .. MaxAttempts

VARIABLES
  op,        \* the operation called
  target,    \* what it is called on
  trouble,   \* what is wrong with it
  phase,     \* the caller: "ready", "waiting", "told"
  attempts,  \* the attempts so far
  run,       \* the handler of each attempt: where it is, the steps it has left
  effect,    \* what each attempt has done: "none", "part", "all", "moot"
  reply,     \* the replies on their way
  verdict    \* what the client returned for each attempt

vars == <<op, target, trouble, phase, attempts, run, effect, reply, verdict>>

call == <<op, target>>

Unsent == [at |-> "unsent", left |-> <<>>]

NoReply == [status |-> 0, json |-> FALSE, whole |-> TRUE]

(* The troubles that bear on an operation.  The fake's handlers look at    *)
(* none of them, only its routes miss an empty firebase_uid.               *)
Concern(o) ==
  LET steps == ToSet(Program(Request[o]))
  IN  (UNION {StepTrouble(s) : s \in steps})
        \cup (IF "moot?" \in steps \/ "once" \in steps THEN {"moot"} ELSE {})
        \cup (IF o = "GetPlayerByFirebaseUID" THEN {"uid"} ELSE {})

Init ==
  /\ op \in Called
  /\ target \in Target
  /\ trouble \in SUBSET (Concern(op) \cap Troubles)
  /\ target = "fake" => trouble \subseteq {"uid"}
  /\ phase = "ready"
  /\ attempts = 0
  /\ run = [n \in Attempt |-> Unsent]
  /\ effect = [n \in Attempt |-> "none"]
  /\ reply = [n \in Attempt |-> NoReply]
  /\ verdict = [n \in Attempt |-> "none"]

----------------------------------------------------------------------------
(* The caller.                                                             *)

(* An empty firebase_uid leaves the path without its last segment.         *)
Wire ==
  IF op = "GetPlayerByFirebaseUID" /\ "uid" \in trouble
    THEN <<"GET", "/internal/v1/auth/by-firebase-uid/">>
    ELSE Request[op]

(* A retry follows an answer that leaves the outcome open.                 *)
MayCall ==
  \/ phase = "ready"
  \/ /\ phase = "told"
     /\ verdict[attempts] \in {"error", "ErrInternalServer"}
     /\ attempts < MaxAttempts

Send ==
  /\ MayCall
  /\ attempts' = attempts + 1
  /\ phase' = "waiting"
  /\ run' = [run EXCEPT ![attempts + 1].at = "wire"]
  /\ UNCHANGED <<call, trouble, effect, reply, verdict>>

Tell(v) ==
  /\ phase' = "told"
  /\ verdict' = [verdict EXCEPT ![attempts'] = v]

(* A request editor fails (no token to be had): nothing is sent.           *)
FailToSend ==
  /\ MayCall
  /\ attempts' = attempts + 1
  /\ Tell("error")
  /\ UNCHANGED <<call, trouble, run, effect, reply>>

(* Do returns an error: the context ends or the connection breaks.         *)
GiveUp ==
  /\ phase = "waiting"
  /\ UNCHANGED attempts
  /\ Tell("error")
  /\ UNCHANGED <<call, trouble, run, effect, reply>>

Receive ==
  /\ phase = "waiting"
  /\ reply[attempts] # NoReply
  /\ UNCHANGED attempts
  /\ Tell(Verdict(op, reply[attempts]))
  /\ UNCHANGED <<call, trouble, run, effect, reply>>

(* The network: the body of a reply is cut short.                          *)
Cut(n) ==
  /\ reply[n] # NoReply
  /\ reply[n].json
  /\ reply' = [reply EXCEPT ![n].whole = FALSE]
  /\ UNCHANGED <<call, trouble, phase, attempts, run, effect, verdict>>

(* A proxy in front of the service answers for it.                         *)
BadGateway ==
  /\ target = "server"
  /\ phase = "waiting"
  /\ UNCHANGED attempts
  /\ Tell(Verdict(op, [status |-> 502, json |-> FALSE, whole |-> TRUE]))
  /\ UNCHANGED <<call, trouble, run, effect, reply>>
----------------------------------------------------------------------------
(* The server.                                                             *)

Reply(n, status, json) ==
  /\ run' = [run EXCEPT ![n] = [at |-> "over", left |-> <<>>]]
  /\ reply' = [reply EXCEPT ![n] = [status |-> status, json |-> json, whole |-> TRUE]]

(* The router finds the handler, or answers 404 itself.                    *)
Route(n) ==
  /\ target = "server"
  /\ run[n].at = "wire"
  /\ \/ /\ Matches(Wire) = {}
        /\ Reply(n, 404, FALSE)
     \/ /\ Matches(Wire) # {}
        /\ run' = [run EXCEPT ![n] = [at |-> "running", left |-> Program(Wire)]]
        /\ UNCHANGED reply
  /\ UNCHANGED <<call, trouble, phase, attempts, effect, verdict>>

Running(n) == run[n].at = "running" /\ run[n].left # <<>>

Step(n) == Head(run[n].left)

(* The effect of a step that succeeds.  What was claimed stays taken; what *)
(* was done once is moot from then on.                                     *)
Take(n) ==
  /\ effect' = [effect EXCEPT ![n] =
       IF Step(n) \notin Writes THEN @
       ELSE IF Step(n) = "once" /\ "moot" \in trouble THEN "moot"
       ELSE IF Step(n) = "first" THEN "part"
       ELSE "all"]
  /\ trouble' = trouble \cup (IF Step(n) = "claim" THEN {"taken"} ELSE {})
                        \cup (IF Step(n) = "once" THEN {"moot"} ELSE {})

(* A bug: no unique index stops the second claim.                          *)
PassUnclaimed(n) ==
  /\ Running(n)
  /\ Step(n) = "claim" \/ StepTrouble(Step(n)) \cap trouble = {}
  /\ ~ (Step(n) = "moot?" /\ "moot" \in trouble)
  /\ Take(n)
  /\ run' = [run EXCEPT ![n].left = Tail(@)]
  /\ UNCHANGED <<call, phase, attempts, reply, verdict>>

(* The step goes through, and the next one follows.                        *)
Pass(n) ==
  /\ Running(n)
  /\ StepTrouble(Step(n)) \cap trouble = {}
  /\ ~ (Step(n) = "moot?" /\ "moot" \in trouble)
  /\ Take(n)
  /\ run' = [run EXCEPT ![n].left = Tail(@)]
  /\ UNCHANGED <<call, phase, attempts, reply, verdict>>

(* There is nothing to do: success.                                        *)
ReturnEarly(n) ==
  /\ Running(n)
  /\ Step(n) = "moot?"
  /\ "moot" \in trouble
  /\ run' = [run EXCEPT ![n].left = <<>>]
  /\ effect' = [effect EXCEPT ![n] = "moot"]
  /\ UNCHANGED <<call, trouble, phase, attempts, reply, verdict>>

(* The step fails, and respondError answers.                               *)
Refuse(n) ==
  /\ Running(n)
  /\ StepTrouble(Step(n)) \cap trouble # {}
  /\ Reply(n, toHTTPStatus(StepError(Step(n))), TRUE)
  /\ UNCHANGED <<call, trouble, phase, attempts, effect, verdict>>

(* The database fails or the handler panics; a failed commit may have      *)
(* taken effect.                                                           *)
Break(n) ==
  /\ Running(n)
  /\ Reply(n, 500, FALSE)
  /\ \/ UNCHANGED <<effect, trouble>>
     \/ /\ StepTrouble(Step(n)) \cap trouble = {}
        /\ Take(n)
  /\ UNCHANGED <<call, phase, attempts, verdict>>

Succeed(n) ==
  /\ run[n] = [at |-> "running", left |-> <<>>]
  /\ LET handler == Handler[Routed(Wire)]
     IN  Reply(n, handler.status, handler.json)
  /\ UNCHANGED <<call, trouble, phase, attempts, effect, verdict>>

(* The fake answers with its default or with a callback of the test.       *)
FakeServe(n) ==
  /\ target = "fake"
  /\ run[n].at = "wire"
  /\ \E fn \in Callback :
       /\ run' = [run EXCEPT ![n] = [at |-> IF fn = <<>> THEN "default" ELSE "over",
                                  left |-> <<>>]]
       /\ reply' = [reply EXCEPT ![n] = FakeReply(Wire, fn)]
  /\ UNCHANGED <<call, trouble, phase, attempts, effect, verdict>>

Serve(n) ==
  \/ Route(n) \/ Pass(n) \/ ReturnEarly(n) \/ Refuse(n) \/ Break(n) \/ Succeed(n)
  \/ FakeServe(n)
  \/ Cut(n)

Next ==
  \/ Send \/ FailToSend \/ GiveUp \/ Receive \/ BadGateway
  \/ \E n \in Attempt : Serve(n)

Spec == Init /\ [][Next]_vars

----------------------------------------------------------------------------
(* Properties.                                                             *)

Refusals ==
  {"unexpected status", "ErrUnauthorized", "ErrNotFound", "ErrBadRequest",
   "ErrConflict"}

Promise == IF ToSet(Usecase[op]) \cap Writes = {} THEN "none" ELSE "all"

(* What the client tells is true of the attempt: after a success the       *)
(* operation has taken effect (or there was nothing to do), after a        *)
(* refusal it has not and never will, though a refused award may have paid *)
(* the first player.  Only the other errors leave it open.                 *)
VerdictIsTrue ==
  target = "server" =>
    \A n \in Attempt :
      /\ verdict[n] = "success" => effect[n] \in {Promise, "moot"}
      /\ verdict[n] \in Refusals =>
           effect[n] = "none" \/ (op = "AwardGameExp" /\ effect[n] = "part")

(* A sentinel error names what was wrong, whatever else was: the client,   *)
(* the routes, the order of the checks and the statuses agree end to end.  *)
(* Only the battle limit has no sentinel.                                  *)
SentinelNamesTheCause ==
  target = "server" =>
    \A n \in Attempt :
      /\ verdict[n] = "ErrUnauthorized" => "credential" \in trouble
      /\ verdict[n] = "ErrBadRequest" => {"body", "value"} \cap trouble # {}
      /\ verdict[n] = "ErrNotFound" => {"player", "opponent", "uid"} \cap trouble # {}
      /\ verdict[n] = "ErrConflict" => "taken" \in trouble
      /\ verdict[n] = "unexpected status" => "limit" \in trouble

(* A retry of a registration, of the choice of the first faction or of a   *)
(* reversal does not repeat it, even while the earlier attempt is still    *)
(* being served or has failed after its commit.                            *)
RetriesCountOnce ==
  op \in {"RegisterPlayer", "SelectInitialFaction", "RevertBattleCount"} =>
    \A m, n \in Attempt : effect[m] = "all" /\ effect[n] = "all" => m = n

(* The fake server without callbacks answers every call with success: a    *)
(* consumer's test that sets none sees the happy path (server.go:10-11).   *)
(* It has no route for the health check, nor for a path that lacks its     *)
(* last segment.                                                           *)
FakeDefaultSucceeds ==
  target = "fake" /\ op # "GetHealth" /\ "uid" \notin trouble =>
    \A n \in Attempt :
      run[n].at = "default" =>
        verdict[n] \in {"none", "success", "error"}
=============================================================================
