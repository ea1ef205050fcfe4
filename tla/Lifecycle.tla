----------------------------- MODULE Lifecycle -----------------------------
(***************************************************************************)
(* One process from its start to its exit.                                 *)
(*                                                                         *)
(* run() opens what the service needs, deferring the close of each, checks *)
(* the game configuration and serves.  Two goroutines serve: one listens,  *)
(* the other waits for a signal, or for the first to fail, and calls       *)
(* Shutdown, which waits at most ten seconds for the requests.  Every      *)
(* return of run() closes what was opened, last opened first; the pool's   *)
(* Close waits for the connections in use.                                 *)
(***************************************************************************)
EXTENDS Naturals, Sequences

CONSTANTS
  Request,       \* connections, each with one request
  PositiveKeys,  \* game_config keys whose value must be above 0
  RequiredKeys   \* game_config keys that must exist

Document == {"absent", "not positive", "positive"}

VARIABLES
  documents,  \* the game_config documents
  iam,        \* DATABASE_IAM_AUTH_ENABLED: the pool dials through a dialer
  main,       \* where run() is
  open,       \* what is open: "signals", "dialer", "pool", "firestore"
  deferred,   \* the closes run() has deferred, the next one first
  signalled,  \* SIGINT or SIGTERM has cancelled ctx
  listen,     \* the goroutine of ListenAndServe
  shutdown,   \* the goroutine of Shutdown
  request,    \* how far each request is
  exit        \* how the process ended

vars == <<documents, iam, main, open, deferred, signalled, listen, shutdown,
          request, exit>>

env == <<documents, iam>>

Init ==
  /\ documents \in [PositiveKeys \cup RequiredKeys -> Document]
  /\ iam \in BOOLEAN
  /\ main = "configure"
  /\ open = {}
  /\ deferred = <<>>
  /\ signalled = FALSE
  /\ listen = "start"
  /\ shutdown = "waiting"
  /\ request = [r \in Request |-> "none"]
  /\ exit = "none"

Alive == exit = "none"

----------------------------------------------------------------------------
(* Start-up: the statements of run().                                      *)

Goto(place) == main' = place

(* An error is returned: the deferred closes run.                          *)
Return == Goto("closing")

Opened(resource) ==
  /\ open' = open \cup {resource}
  /\ deferred' = <<resource>> \o deferred

(* FromEnv and setupLogger, then NotifyContext.                            *)
Configure ==
  /\ main = "configure"
  /\ \/ Return /\ UNCHANGED <<open, deferred>>
     \/ Goto(IF iam THEN "dialer" ELSE "pool") /\ Opened("signals")
  /\ UNCHANGED <<env, signalled, listen, shutdown, request, exit>>

(* The dialer's close is deferred by run(), once there is a pool.          *)
OpenDialer ==
  /\ main = "dialer"
  /\ \/ Return /\ UNCHANGED open
     \/ Goto("pool") /\ open' = open \cup {"dialer"}
  /\ UNCHANGED <<env, deferred, signalled, listen, shutdown, request, exit>>

(* A bug: the dialer is left open when the pool cannot be made.            *)
OpenPoolLeaks ==
  /\ main = "pool"
  /\ \/ Return /\ UNCHANGED <<open, deferred>>
     \/ /\ Goto("firestore")
        /\ open' = open \cup {"pool"}
        /\ deferred' = (IF iam THEN <<"pool", "dialer">> ELSE <<"pool">>) \o deferred
  /\ UNCHANGED <<env, signalled, listen, shutdown, request, exit>>

(* A bug: the two closes are deferred in the order of opening.             *)
OpenPoolSwapped ==
  /\ main = "pool"
  /\ \/ Return /\ open' = open \ {"dialer"} /\ UNCHANGED deferred
     \/ /\ Goto("firestore")
        /\ open' = open \cup {"pool"}
        /\ deferred' = (IF iam THEN <<"dialer", "pool">> ELSE <<"pool">>) \o deferred
  /\ UNCHANGED <<env, signalled, listen, shutdown, request, exit>>

OpenPool ==
  /\ main = "pool"
  /\ \/ Return /\ open' = open \ {"dialer"} /\ UNCHANGED deferred
     \/ /\ Goto("firestore")
        /\ open' = open \cup {"pool"}
        /\ deferred' = (IF iam THEN <<"pool", "dialer">> ELSE <<"pool">>) \o deferred
  /\ UNCHANGED <<env, signalled, listen, shutdown, request, exit>>

OpenFirestore ==
  /\ main = "firestore"
  /\ \/ Return /\ UNCHANGED <<open, deferred>>
     \/ Goto("validate") /\ Opened("firestore")
  /\ UNCHANGED <<env, signalled, listen, shutdown, request, exit>>

GameConfigExists ==
  \A k \in PositiveKeys \cup RequiredKeys : documents[k] # "absent"

(* A bug: zero is let through where a positive value is needed.            *)
ValidateExistence ==
  /\ main = "validate"
  /\ \/ Return
     \/ ~ signalled /\ GameConfigExists /\ Goto("key")
  /\ UNCHANGED <<env, open, deferred, signalled, listen, shutdown, request, exit>>

(* The reads use ctx: none succeeds after the signal.  They may also fail. *)
ValidateGameConfig ==
  /\ main = "validate"
  /\ \/ Return
     \/ /\ ~ signalled
        /\ GameConfigExists
        /\ \A k \in PositiveKeys : documents[k] = "positive"
        /\ Goto("key")
  /\ UNCHANGED <<env, open, deferred, signalled, listen, shutdown, request, exit>>

(* The verifier's key is parsed, the router built, the goroutines started. *)
ParseKey ==
  /\ main = "key"
  /\ \/ Return
     \/ Goto("serving")
  /\ UNCHANGED <<env, open, deferred, signalled, listen, shutdown, request, exit>>

(* Before NotifyContext, and after its cancel, a signal kills the process; *)
(* in between the first cancels ctx and the others do nothing.             *)
Signal ==
  /\ Alive
  /\ ~ signalled
  /\ "signals" \in open
  /\ signalled' = TRUE
  /\ UNCHANGED <<env, main, open, deferred, listen, shutdown, request, exit>>

----------------------------------------------------------------------------
(* runHTTP.                                                                *)

Serving == main = "serving"

(* The port may be taken; a Shutdown that came first wins.                 *)
Listen ==
  /\ Serving
  /\ listen = "start"
  /\ \/ shutdown = "waiting" /\ listen' = "accepting"
     \/ listen' = "failed"
     \/ shutdown # "waiting" /\ listen' = "closed"
  /\ UNCHANGED <<env, main, open, deferred, signalled, shutdown, request, exit>>

(* ListenAndServe also fails when it can accept no more; the connections   *)
(* it has accepted stay.                                                   *)
AcceptError ==
  /\ Serving
  /\ listen = "accepting"
  /\ listen' = "failed"
  /\ UNCHANGED <<env, main, open, deferred, signalled, shutdown, request, exit>>

(* The errgroup's context: done with ctx, or when a goroutine fails.       *)
GroupDone == signalled \/ listen = "failed"

(* A bug: the goroutine waits for ctx and not for the group's context.     *)
BeginShutdownOnSignal ==
  /\ Serving
  /\ shutdown = "waiting"
  /\ signalled
  /\ shutdown' = "draining"
  /\ listen' = IF listen = "accepting" THEN "closed" ELSE listen
  /\ UNCHANGED <<env, main, open, deferred, signalled, request, exit>>

(* Shutdown closes the listener, and ListenAndServe returns.               *)
BeginShutdown ==
  /\ Serving
  /\ shutdown = "waiting"
  /\ GroupDone
  /\ shutdown' = "draining"
  /\ listen' = IF listen = "accepting" THEN "closed" ELSE listen
  /\ UNCHANGED <<env, main, open, deferred, signalled, request, exit>>

Handling == {"handling", "querying"}

Busy == \E r \in Request : request[r] \in Handling \cup {"connected"}

(* Shutdown returns once no connection is busy, or after ten seconds.      *)
EndShutdown ==
  /\ Serving
  /\ shutdown = "draining"
  /\ shutdown' = IF Busy THEN "timed out" ELSE "done"
  /\ UNCHANGED <<env, main, open, deferred, signalled, listen, request, exit>>

(* A bug: run() returns as soon as ListenAndServe has.                     *)
WaitForListener ==
  /\ Serving
  /\ listen \in {"closed", "failed"}
  /\ Return
  /\ UNCHANGED <<env, open, deferred, signalled, listen, shutdown, request, exit>>

(* g.Wait returns when both goroutines have.                               *)
Wait ==
  /\ Serving
  /\ listen \in {"closed", "failed"}
  /\ shutdown \in {"done", "timed out"}
  /\ Return
  /\ UNCHANGED <<env, open, deferred, signalled, listen, shutdown, request, exit>>

----------------------------------------------------------------------------
(* The requests.  Their context is not ctx: a signal does not cancel them. *)

Becomes(r, progress) ==
  /\ Alive
  /\ request' = [request EXCEPT ![r] = progress]
  /\ UNCHANGED <<env, main, open, deferred, signalled, listen, shutdown, exit>>

Connect(r) ==
  /\ request[r] = "none"
  /\ listen = "accepting"
  /\ Becomes(r, "connected")

(* The request's header has been read.                                     *)
Begin(r) ==
  /\ request[r] = "connected"
  /\ Becomes(r, "handling")

(* ReadHeaderTimeout, or Shutdown, closes a connection that sends nothing. *)
Drop(r) ==
  /\ request[r] = "connected"
  /\ Becomes(r, "dropped")

(* A handler takes a connection of the pool; a closing pool gives none.    *)
Acquire(r) ==
  /\ request[r] = "handling"
  /\ IF "pool" \in open /\ main # "closing pool"
     THEN Becomes(r, "querying")
     ELSE Becomes(r, "failed")

Release(r) ==
  /\ request[r] = "querying"
  /\ Becomes(r, "handling")

(* A handler reads the configuration: only a closed client is told here.   *)
ReadConfig(r) ==
  /\ request[r] = "handling"
  /\ "firestore" \notin open
  /\ Becomes(r, "failed")

Answer(r) ==
  /\ request[r] = "handling"
  /\ Becomes(r, "answered")

----------------------------------------------------------------------------
(* The return of run().                                                    *)

(* Each deferred close but the pool's is one step.                         *)
CloseNext ==
  /\ main = "closing"
  /\ deferred # <<>>
  /\ Head(deferred) # "pool"
  /\ open' = open \ {Head(deferred)}
  /\ deferred' = Tail(deferred)
  /\ UNCHANGED <<env, main, signalled, listen, shutdown, request, exit>>

BeginPoolClose ==
  /\ main = "closing"
  /\ deferred # <<>>
  /\ Head(deferred) = "pool"
  /\ Goto("closing pool")
  /\ UNCHANGED <<env, open, deferred, signalled, listen, shutdown, request, exit>>

EndPoolClose ==
  /\ main = "closing pool"
  /\ \A r \in Request : request[r] # "querying"
  /\ Goto("closing")
  /\ open' = open \ {"pool"}
  /\ deferred' = Tail(deferred)
  /\ UNCHANGED <<env, signalled, listen, shutdown, request, exit>>

(* What main() reports: run() succeeds when the server was shut down in    *)
(* time.                                                                   *)
Outcome ==
  IF listen = "closed" /\ shutdown # "timed out" THEN "success" ELSE "failure"

Cut == [handling |-> "cut", querying |-> "cut in a statement"]

(* The exit cuts off the handlers that still run.                          *)
Exit ==
  /\ main = "closing"
  /\ deferred = <<>>
  /\ Goto("exited")
  /\ exit' = Outcome
  /\ request' = [r \in Request |->
                   IF request[r] \in Handling THEN Cut[request[r]] ELSE request[r]]
  /\ UNCHANGED <<env, open, deferred, signalled, listen, shutdown>>

----------------------------------------------------------------------------
Run ==
  \/ Configure \/ OpenDialer \/ OpenPool \/ OpenFirestore
  \/ ValidateGameConfig \/ ParseKey
  \/ Wait \/ CloseNext \/ BeginPoolClose \/ EndPoolClose \/ Exit

Next ==
  \/ Run \/ Signal \/ Listen \/ AcceptError \/ BeginShutdown \/ EndShutdown
  \/ \E r \in Request :
       Connect(r) \/ Begin(r) \/ Drop(r) \/ Acquire(r) \/ Release(r)
         \/ ReadConfig(r) \/ Answer(r)

Spec == Init /\ [][Next]_vars

(* run() and its goroutines go on, and a statement in flight ends and      *)
(* gives its connection back: the code sets no deadline on either.         *)
LiveSpec ==
  /\ Spec
  /\ WF_vars(Run)
  /\ WF_vars(Listen)
  /\ WF_vars(BeginShutdown)
  /\ WF_vars(EndShutdown)
  /\ \A r \in Request : WF_vars(Release(r))

----------------------------------------------------------------------------
(* A process that reports success has answered every request it began to   *)
(* handle, none of them with an error of a pool or a client closed early.  *)
SuccessAnswersAll ==
  exit = "success" =>
    \A r \in Request : request[r] \in {"none", "answered", "dropped"}

(* No request is handled unless the game configuration was found valid:    *)
(* ExpFormulaCoefficient = 0 would loop the computation of a level for     *)
(* ever, and the requests do not check it again.                           *)
HandledUnderValidConfig ==
  (\E r \in Request : request[r] # "none") =>
    /\ \A k \in PositiveKeys : documents[k] = "positive"
    /\ \A k \in RequiredKeys : documents[k] # "absent"

(* A statement in flight keeps the pool and, with IAM, the pool's dialer;  *)
(* no exit, not even one after the ten seconds, cuts a statement off.      *)
StatementsKeepTheirConnection ==
  \A r \in Request :
    /\ request[r] = "querying" => "pool" \in open /\ (iam => "dialer" \in open)
    /\ request[r] # "cut in a statement"

(* Whatever step failed, everything that was opened is closed at the exit. *)
ExitClosesAll ==
  exit # "none" => open = {}

(* A signal, or a listener that fails, at its start or while it serves,    *)
(* ends the process.                                                       *)
StopsWhenAsked ==
  (signalled \/ listen = "failed") ~> (exit # "none")
=============================================================================
