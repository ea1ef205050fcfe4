------------------------- MODULE LifecycleInvariant --------------------------
(***************************************************************************)
(* The inductive invariant of Lifecycle.                                   *)
(***************************************************************************)
EXTENDS Lifecycle

Place == {"configure", "dialer", "pool", "firestore", "validate", "key", "serving",
          "closing", "closing pool", "exited"}

Resource == {"signals", "dialer", "pool", "firestore"}

Ended == {"none", "answered", "dropped"}

Spoiled == {"failed", "cut"}

Progress == Ended \cup Spoiled \cup Handling \cup {"connected", "cut in a statement"}

(* The closes that are deferred below the pool's, from it on, and in all.  *)
BelowPool == IF iam THEN <<"dialer", "signals">> ELSE <<"signals">>

FromPool == IF iam THEN <<"pool", "dialer", "signals">> ELSE <<"pool", "signals">>

All == IF iam THEN <<"firestore", "pool", "dialer", "signals">>
       ELSE <<"firestore", "pool", "signals">>

(* Every variable has its type.                                            *)
TypeOK ==
  /\ documents \in [PositiveKeys \cup RequiredKeys -> Document]
  /\ iam \in BOOLEAN
  /\ main \in Place
  /\ open \subseteq Resource
  /\ deferred \in {<<>>, <<"signals">>, BelowPool, FromPool, All}
  /\ signalled \in BOOLEAN
  /\ listen \in {"start", "accepting", "failed", "closed"}
  /\ shutdown \in {"waiting", "draining", "timed out", "done"}
  /\ request \in [Request -> Progress]
  /\ exit \in {"none", "success", "failure"}

(* What a stack of deferred closes closes.                                 *)
Closes(stack) ==
  CASE stack = <<>>          -> {}
    [] stack = <<"signals">> -> {"signals"}
    [] stack = <<"dialer", "signals">> -> {"dialer", "signals"}
    [] stack \in {<<"pool", "signals">>, <<"pool", "dialer", "signals">>} ->
         {"pool", "signals"} \cup (IF iam THEN {"dialer"} ELSE {})
    [] OTHER -> {"firestore", "pool", "signals"} \cup (IF iam THEN {"dialer"} ELSE {})

(* What is open at each place of run() is what its return closes, but for  *)
(* a dialer without a pool.                                                *)
OpenInv ==
  /\ main = "configure" => deferred = <<>>
  /\ main \in {"dialer", "pool"} => deferred = <<"signals">>
  /\ main = "dialer" => iam
  /\ main \in {"firestore", "closing pool"} => deferred = FromPool
  /\ main \in {"validate", "key", "serving"} => deferred = All
  /\ main = "exited" => deferred = <<>>
  /\ open = Closes(deferred) \cup (IF main = "pool" /\ iam THEN {"dialer"} ELSE {})

ValidConfig ==
  /\ \A k \in PositiveKeys : documents[k] = "positive"
  /\ \A k \in RequiredKeys : documents[k] # "absent"

(* The service listens with a valid configuration, and run() returns from  *)
(* serving when both goroutines have.                                      *)
ServeInv ==
  /\ main \in {"key", "serving"} \/ listen # "start" => ValidConfig
  /\ listen # "start" => main \in {"serving", "closing", "closing pool", "exited"}
  /\ listen # "start" /\ main # "serving" =>
       listen \in {"closed", "failed"} /\ shutdown \in {"timed out", "done"}
  /\ shutdown # "waiting" => listen # "accepting"
  /\ exit # "none" <=> main = "exited"
  /\ exit = "success" => shutdown = "done"

(* Requests are handled while the service listens; what they need is taken *)
(* from them only after the shutdown has given up on them.                 *)
RequestInv ==
  \A r \in Request :
    /\ listen = "start" => request[r] = "none"
    /\ shutdown = "done" => request[r] \in Ended
    /\ request[r] \in Spoiled => shutdown = "timed out"
    /\ request[r] = "querying" => "pool" \in open
    /\ request[r] # "cut in a statement"

IInv == TypeOK /\ OpenInv /\ ServeInv /\ RequestInv
==============================================================================
