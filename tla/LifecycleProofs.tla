--------------------------- MODULE LifecycleProofs ---------------------------
(***************************************************************************)
(* Proofs about module Lifecycle, for every set of requests and of         *)
(* configuration keys, with the dialer and without.                        *)
(***************************************************************************)
EXTENDS LifecycleInvariant, SequenceTheorems, TLAPS

----------------------------------------------------------------------------
(* The stack of deferred closes.                                           *)

(* What the dialer adds to a stack that closes the pool.                   *)
Dialer == IF iam THEN {"dialer"} ELSE {}

(* A stack whose first entries are those of one and whose others are those *)
(* of another is the first on top of the second.                           *)
LEMMA OnTop ==
  ASSUME NEW s \in Seq(Resource), NEW t \in Seq(Resource), NEW u \in Seq(Resource),
         Len(u) = Len(s) + Len(t),
         \A i \in 1 .. Len(s) : u[i] = s[i],
         \A i \in 1 .. Len(t) : u[i + Len(s)] = t[i]
  PROVE  s \o t = u
<1>1. s \o t \in Seq(Resource) /\ Len(s \o t) = Len(u)
  BY ConcatProperties
<1>2. ASSUME NEW i \in 1 .. Len(u) PROVE (s \o t)[i] = u[i]
  <2>1. CASE i <= Len(s)
    BY <2>1, ConcatProperties
  <2>2. CASE i > Len(s)
    <3>1. i - Len(s) \in 1 .. Len(t) /\ (s \o t)[i] = t[i - Len(s)]
      BY <2>2, ConcatProperties
    <3>. QED
      BY <3>1
  <2>. QED
    BY <2>1, <2>2
<1>. QED
  BY <1>1, <1>2, SeqEqual

(* The closes of a pool and its dialer go on top of the signals'.          *)
LEMMA DeferPool ==
  (IF iam THEN <<"pool", "dialer">> ELSE <<"pool">>) \o <<"signals">> = FromPool
<1>1. <<"pool", "dialer">> \o <<"signals">> = <<"pool", "dialer", "signals">>
  <2>. DEFINE s == <<"pool", "dialer">>
              t == <<"signals">>
              u == <<"pool", "dialer", "signals">>
  <2>1. s \in Seq(Resource) /\ t \in Seq(Resource) /\ u \in Seq(Resource)
    BY DEF Resource
  <2>2. Len(s) = 2 /\ Len(t) = 1 /\ Len(u) = 3 /\ s[1] = u[1] /\ s[2] = u[2] /\ t[1] = u[3]
    OBVIOUS
  <2>. HIDE DEF s, t, u
  <2>3. /\ Len(u) = Len(s) + Len(t)
        /\ \A i \in 1 .. Len(s) : u[i] = s[i]
        /\ \A i \in 1 .. Len(t) : u[i + Len(s)] = t[i]
    BY <2>2
  <2>4. s \o t = u
    BY <2>1, <2>3, OnTop, Zenon
  <2>. QED
    BY <2>4 DEF s, t, u
<1>2. <<"pool">> \o <<"signals">> = <<"pool", "signals">>
  <2>. DEFINE s == <<"pool">>
              t == <<"signals">>
              u == <<"pool", "signals">>
  <2>1. s \in Seq(Resource) /\ t \in Seq(Resource) /\ u \in Seq(Resource)
    BY DEF Resource
  <2>2. Len(s) = 1 /\ Len(t) = 1 /\ Len(u) = 2 /\ s[1] = u[1] /\ t[1] = u[2]
    OBVIOUS
  <2>. HIDE DEF s, t, u
  <2>3. /\ Len(u) = Len(s) + Len(t)
        /\ \A i \in 1 .. Len(s) : u[i] = s[i]
        /\ \A i \in 1 .. Len(t) : u[i + Len(s)] = t[i]
    BY <2>2
  <2>4. s \o t = u
    BY <2>1, <2>3, OnTop, Zenon
  <2>. QED
    BY <2>4 DEF s, t, u
<1>. QED
  BY <1>1, <1>2 DEF FromPool

(* The close of the client goes on top of them.                            *)
LEMMA DeferFirestore == <<"firestore">> \o FromPool = All
<1>. DEFINE s == <<"firestore">>
<1>1. CASE iam
  <2>. DEFINE t == <<"pool", "dialer", "signals">>
              u == <<"firestore", "pool", "dialer", "signals">>
  <2>1. s \in Seq(Resource) /\ t \in Seq(Resource) /\ u \in Seq(Resource)
    BY DEF Resource
  <2>2. /\ Len(s) = 1 /\ Len(t) = 3 /\ Len(u) = 4
        /\ s[1] = u[1] /\ t[1] = u[2] /\ t[2] = u[3] /\ t[3] = u[4]
    OBVIOUS
  <2>3. t = FromPool /\ u = All
    BY <1>1 DEF FromPool, All
  <2>. HIDE DEF s, t, u
  <2>4. /\ Len(u) = Len(s) + Len(t)
        /\ \A i \in 1 .. Len(s) : u[i] = s[i]
        /\ \A i \in 1 .. Len(t) : u[i + Len(s)] = t[i]
    BY <2>2
  <2>5. s \o t = u
    BY <2>1, <2>4, OnTop, Zenon
  <2>. QED
    BY <2>3, <2>5 DEF s
<1>2. CASE ~ iam
  <2>. DEFINE t == <<"pool", "signals">>
              u == <<"firestore", "pool", "signals">>
  <2>1. s \in Seq(Resource) /\ t \in Seq(Resource) /\ u \in Seq(Resource)
    BY DEF Resource
  <2>2. /\ Len(s) = 1 /\ Len(t) = 2 /\ Len(u) = 3
        /\ s[1] = u[1] /\ t[1] = u[2] /\ t[2] = u[3]
    OBVIOUS
  <2>3. t = FromPool /\ u = All
    BY <1>2 DEF FromPool, All
  <2>. HIDE DEF s, t, u
  <2>4. /\ Len(u) = Len(s) + Len(t)
        /\ \A i \in 1 .. Len(s) : u[i] = s[i]
        /\ \A i \in 1 .. Len(t) : u[i + Len(s)] = t[i]
    BY <2>2
  <2>5. s \o t = u
    BY <2>1, <2>4, OnTop, Zenon
  <2>. QED
    BY <2>3, <2>5 DEF s
<1>. QED
  BY <1>1, <1>2

(* The first close of each stack, and the stack it leaves.                 *)
LEMMA Stacks ==
  /\ Head(All) = "firestore" /\ Tail(All) = FromPool
  /\ Head(FromPool) = "pool" /\ Tail(FromPool) = BelowPool
  /\ iam => Head(BelowPool) = "dialer" /\ Tail(BelowPool) = <<"signals">>
  /\ ~ iam => BelowPool = <<"signals">>
  /\ Head(<<"signals">>) = "signals" /\ Tail(<<"signals">>) = <<>>
  BY DEF All, FromPool, BelowPool

(* What each stack closes.                                                 *)
LEMMA ClosesOf ==
  /\ Closes(<<>>) = {}
  /\ Closes(<<"signals">>) = {"signals"}
  /\ Closes(BelowPool) = {"signals"} \cup Dialer
  /\ Closes(FromPool) = {"pool", "signals"} \cup Dialer
  /\ Closes(All) = {"firestore", "pool", "signals"} \cup Dialer
  BY DEF Closes, All, FromPool, BelowPool, Dialer

(* The stacks depend on the dialer alone, which no step takes away.        *)
LEMMA SameStacks ==
  ASSUME UNCHANGED iam
  PROVE  /\ BelowPool' = BelowPool /\ FromPool' = FromPool /\ All' = All
         /\ Dialer' = Dialer
         /\ Closes(deferred)' = Closes(deferred')
  BY DEF BelowPool, FromPool, All, Dialer, Closes

----------------------------------------------------------------------------
(* The shape of a step.                                                    *)

(* A statement of run() before the goroutines start: no request is there.  *)
LEMMA StartStep ==
  ASSUME IInv, listen = "start", main # "exited", main' # "exited",
         UNCHANGED <<env, signalled, listen, shutdown, request, exit>>,
         main' \in Place, open' \subseteq Resource, OpenInv',
         deferred' \in {<<>>, <<"signals">>, FromPool, All},
         main' \in {"key", "serving"} => ValidConfig
  PROVE  IInv'
<1>. USE DEF IInv
<1>1. TypeOK'
  BY SameStacks DEF TypeOK, env
<1>2. ServeInv'
  BY DEF ServeInv, ValidConfig, env
<1>3. RequestInv'
  BY DEF RequestInv, Spoiled, Ended
<1>. QED
  BY <1>1, <1>2, <1>3

(* A step that leaves run() where it is, with what it has opened.          *)
LEMMA GoroutineStep ==
  ASSUME IInv, TypeOK', ServeInv', RequestInv', UNCHANGED <<iam, main, open, deferred>>
  PROVE  IInv'
<1>1. OpenInv'
  BY SameStacks DEF IInv, OpenInv
<1>. QED
  BY <1>1 DEF IInv

(* A request goes on.                                                      *)
LEMMA RequestStep ==
  ASSUME IInv, NEW r \in Request, NEW progress \in Progress, Becomes(r, progress),
         listen # "start",
         request[r] \notin Ended \/ progress \in Ended \/ shutdown # "done",
         progress \in Spoiled => shutdown = "timed out",
         progress = "querying" => "pool" \in open,
         progress # "cut in a statement"
  PROVE  IInv'
<1>. USE DEF IInv
<1>1. TypeOK'
  BY SameStacks DEF TypeOK, Becomes, env
<1>2. ServeInv'
  BY DEF ServeInv, ValidConfig, Becomes, env
<1>3. RequestInv'
  BY DEF RequestInv, TypeOK, Becomes, env
<1>. QED
  BY <1>1, <1>2, <1>3, GoroutineStep DEF Becomes, env

(* While requests are served, none is taken what it needs; afterwards none *)
(* is handled unless the shutdown timed out.                               *)
LEMMA HandlingMeans ==
  ASSUME IInv, NEW r \in Request, request[r] \in Handling \cup {"connected"}
  PROVE  /\ listen # "start"
         /\ shutdown # "done"
         /\ main # "serving" => shutdown = "timed out"
         /\ main = "serving" => open = {"firestore", "pool", "signals"} \cup Dialer
<1>1. listen # "start" /\ shutdown # "done"
  BY DEF IInv, RequestInv, Handling, Ended
<1>2. main # "serving" => shutdown = "timed out"
  BY <1>1 DEF IInv, ServeInv
<1>3. main = "serving" => open = {"firestore", "pool", "signals"} \cup Dialer
  BY ClosesOf DEF IInv, OpenInv
<1>. QED
  BY <1>1, <1>2, <1>3

----------------------------------------------------------------------------
(* Start-up.                                                               *)

(* Nothing is open and nothing is served at first.                         *)
LEMMA InitIInv == Init => IInv
<1>. SUFFICES ASSUME Init PROVE IInv
  OBVIOUS
<1>1. TypeOK
  BY DEF Init, TypeOK, Place, Progress, Ended
<1>2. OpenInv
  BY ClosesOf DEF Init, OpenInv
<1>3. ServeInv /\ RequestInv
  BY DEF Init, ServeInv, RequestInv, Ended, Spoiled
<1>. QED
  BY <1>1, <1>2, <1>3 DEF IInv

(* Before the goroutines start, nothing listens.                           *)
LEMMA NotYetServing ==
  ASSUME IInv, main \in {"configure", "dialer", "pool", "firestore", "validate", "key"}
  PROVE  listen = "start"
  BY DEF IInv, ServeInv

(* The configuration is read and the signals are caught.                   *)
LEMMA ConfigureStep ==
  ASSUME IInv, Configure
  PROVE  IInv'
<1>. USE DEF IInv
<1>1. deferred = <<>> /\ open = {} /\ listen = "start"
  BY ClosesOf, NotYetServing DEF OpenInv, Configure
<1>2. CASE Return /\ UNCHANGED <<open, deferred>>
  <2>1. OpenInv'
    BY <1>1, <1>2, ClosesOf, SameStacks DEF OpenInv, Return, Goto, Configure, env
  <2>. QED
    BY <1>1, <1>2, <2>1, StartStep DEF Return, Goto, Configure, Place
<1>3. CASE Goto(IF iam THEN "dialer" ELSE "pool") /\ Opened("signals")
  <2>1. deferred' = <<"signals">> /\ open' = {"signals"}
    BY <1>1, <1>3 DEF Opened
  <2>2. OpenInv'
    BY <1>3, <2>1, ClosesOf, SameStacks DEF OpenInv, Goto, Configure, TypeOK, env
  <2>. QED
    BY <1>1, <1>3, <2>1, <2>2, StartStep DEF Goto, Configure, Place, Resource, TypeOK
<1>. QED
  BY <1>2, <1>3 DEF Configure

(* The dialer is made; its close is not yet deferred.                      *)
LEMMA OpenDialerStep ==
  ASSUME IInv, OpenDialer
  PROVE  IInv'
<1>. USE DEF IInv
<1>1. deferred = <<"signals">> /\ open = {"signals"} /\ listen = "start" /\ iam
  BY ClosesOf, NotYetServing DEF OpenInv, OpenDialer
<1>2. OpenInv'
  BY <1>1, ClosesOf, SameStacks DEF OpenInv, Return, Goto, OpenDialer, env
<1>3. /\ main' \in {"closing", "pool"} /\ deferred' = <<"signals">>
      /\ open' \subseteq {"signals", "dialer"}
  BY <1>1 DEF OpenDialer, Return, Goto
<1>. QED
  BY <1>1, <1>2, <1>3, StartStep DEF OpenDialer, Place, Resource

(* The pool is made, and both closes are deferred; or the dialer is closed *)
(* at once.                                                                *)
LEMMA OpenPoolStep ==
  ASSUME IInv, OpenPool
  PROVE  IInv'
<1>. USE DEF IInv
<1>1. deferred = <<"signals">> /\ open = {"signals"} \cup Dialer /\ listen = "start"
  BY ClosesOf, NotYetServing DEF OpenInv, OpenPool, Dialer
<1>2. CASE Return /\ open' = open \ {"dialer"} /\ UNCHANGED deferred
  <2>1. open' = {"signals"}
    BY <1>1, <1>2 DEF Dialer
  <2>2. OpenInv'
    BY <1>1, <1>2, <2>1, ClosesOf, SameStacks DEF OpenInv, Return, Goto, OpenPool, env
  <2>. QED
    BY <1>1, <1>2, <2>1, <2>2, StartStep DEF Return, Goto, OpenPool, Place, Resource
<1>3. CASE /\ Goto("firestore")
           /\ open' = open \cup {"pool"}
           /\ deferred' = (IF iam THEN <<"pool", "dialer">> ELSE <<"pool">>) \o deferred
  <2>1. deferred' = FromPool
    BY <1>1, <1>3, DeferPool
  <2>2. OpenInv'
    BY <1>1, <1>3, <2>1, ClosesOf, SameStacks DEF OpenInv, Goto, OpenPool, env
  <2>3. open' \subseteq Resource
    BY <1>1, <1>3 DEF Dialer, Resource
  <2>. QED
    BY <1>1, <1>3, <2>1, <2>2, <2>3, StartStep DEF Goto, OpenPool, Place
<1>. QED
  BY <1>2, <1>3 DEF OpenPool

(* The client is made and its close deferred.                              *)
LEMMA OpenFirestoreStep ==
  ASSUME IInv, OpenFirestore
  PROVE  IInv'
<1>. USE DEF IInv
<1>1. deferred = FromPool /\ open = {"pool", "signals"} \cup Dialer /\ listen = "start"
  BY ClosesOf, NotYetServing DEF OpenInv, OpenFirestore
<1>2. CASE Return /\ UNCHANGED <<open, deferred>>
  <2>1. OpenInv'
    BY <1>1, <1>2, ClosesOf, SameStacks DEF OpenInv, Return, Goto, OpenFirestore, env
  <2>. QED
    BY <1>1, <1>2, <2>1, StartStep DEF Return, Goto, OpenFirestore, Place, TypeOK
<1>3. CASE Goto("validate") /\ Opened("firestore")
  <2>1. deferred' = All /\ open' = {"firestore", "pool", "signals"} \cup Dialer
    BY <1>1, <1>3, DeferFirestore DEF Opened
  <2>2. OpenInv'
    BY <1>3, <2>1, ClosesOf, SameStacks DEF OpenInv, Goto, OpenFirestore, env
  <2>3. open' \subseteq Resource
    BY <2>1 DEF Dialer, Resource
  <2>. QED
    BY <1>1, <1>3, <2>1, <2>2, <2>3, StartStep DEF Goto, OpenFirestore, Place
<1>. QED
  BY <1>2, <1>3 DEF OpenFirestore

(* The checks pass when the configuration is valid.                        *)
LEMMA ValidateStep ==
  ASSUME IInv, ValidateGameConfig
  PROVE  IInv'
<1>. USE DEF IInv
<1>1. deferred = All /\ listen = "start"
  BY NotYetServing DEF OpenInv, ValidateGameConfig
<1>2. main' \in {"closing", "key"} /\ (main' = "key" => ValidConfig)
  BY DEF ValidateGameConfig, Return, Goto, GameConfigExists, ValidConfig
<1>3. OpenInv'
  BY <1>1, <1>2, SameStacks DEF OpenInv, ValidateGameConfig, env
<1>. QED
  BY <1>1, <1>2, <1>3, StartStep DEF ValidateGameConfig, Place, TypeOK

(* With the key the goroutines start.                                      *)
LEMMA ParseKeyStep ==
  ASSUME IInv, ParseKey
  PROVE  IInv'
<1>. USE DEF IInv
<1>1. deferred = All /\ listen = "start" /\ ValidConfig
  BY NotYetServing DEF OpenInv, ServeInv, ParseKey
<1>2. main' \in {"closing", "serving"}
  BY DEF ParseKey, Return, Goto
<1>3. OpenInv'
  BY <1>1, <1>2, SameStacks DEF OpenInv, ParseKey, env
<1>. QED
  BY <1>1, <1>2, <1>3, StartStep DEF ParseKey, Place, TypeOK

----------------------------------------------------------------------------
(* Serving.                                                                *)

(* A signal cancels ctx, whatever run() is doing.                          *)
LEMMA SignalStep ==
  ASSUME IInv, Signal
  PROVE  IInv'
<1>. USE DEF IInv
<1>1. TypeOK'
  BY SameStacks DEF TypeOK, Signal, env
<1>2. ServeInv'
  BY DEF ServeInv, ValidConfig, Signal, env
<1>3. RequestInv'
  BY DEF RequestInv, Signal
<1>. QED
  BY <1>1, <1>2, <1>3, GoroutineStep DEF Signal, env

(* The service listens, or its listener ends.                              *)
LEMMA ListenStep ==
  ASSUME IInv, Listen
  PROVE  IInv'
<1>. USE DEF IInv
<1>1. TypeOK'
  BY SameStacks DEF TypeOK, Listen, env
<1>2. ServeInv'
  BY DEF ServeInv, ValidConfig, Listen, Serving, env
<1>3. RequestInv'
  BY DEF RequestInv, Listen, Spoiled, Ended
<1>. QED
  BY <1>1, <1>2, <1>3, GoroutineStep DEF Listen, env

(* The listener fails while it serves; the requests go on.                 *)
LEMMA AcceptErrorStep ==
  ASSUME IInv, AcceptError
  PROVE  IInv'
<1>. USE DEF IInv
<1>1. TypeOK'
  BY SameStacks DEF TypeOK, AcceptError, env
<1>2. ServeInv'
  BY DEF ServeInv, ValidConfig, AcceptError, Serving, env
<1>3. RequestInv'
  BY DEF RequestInv, AcceptError, Spoiled, Ended
<1>. QED
  BY <1>1, <1>2, <1>3, GoroutineStep DEF AcceptError, env

(* The listener is closed before the requests are waited for.              *)
LEMMA BeginShutdownStep ==
  ASSUME IInv, BeginShutdown
  PROVE  IInv'
<1>. USE DEF IInv
<1>1. TypeOK'
  BY SameStacks DEF TypeOK, BeginShutdown, env
<1>2. ServeInv'
  BY DEF ServeInv, ValidConfig, BeginShutdown, Serving, env
<1>3. RequestInv'
  BY DEF RequestInv, BeginShutdown, Spoiled, TypeOK
<1>. QED
  BY <1>1, <1>2, <1>3, GoroutineStep DEF BeginShutdown, env

(* The shutdown is done when no connection is busy.                        *)
LEMMA EndShutdownStep ==
  ASSUME IInv, EndShutdown
  PROVE  IInv'
<1>. USE DEF IInv
<1>1. TypeOK'
  BY SameStacks DEF TypeOK, EndShutdown, env
<1>2. ServeInv'
  BY DEF ServeInv, ValidConfig, EndShutdown, Serving, env
<1>3. ASSUME shutdown' = "done", NEW r \in Request PROVE request[r] \in Ended
  <2>1. request[r] \notin Handling \cup {"connected"}
    BY <1>3 DEF EndShutdown, Busy
  <2>2. request[r] \notin Spoiled /\ request[r] # "cut in a statement"
    BY DEF RequestInv, EndShutdown
  <2>. QED
    BY <2>1, <2>2 DEF TypeOK, Progress
<1>4. RequestInv'
  BY <1>3 DEF RequestInv, EndShutdown
<1>. QED
  BY <1>1, <1>2, <1>4, GoroutineStep DEF EndShutdown, env

(* The steps of one request.                                               *)
LEMMA RequestSteps ==
  ASSUME IInv, NEW r \in Request,
         Connect(r) \/ Begin(r) \/ Drop(r) \/ Acquire(r) \/ Release(r)
           \/ ReadConfig(r) \/ Answer(r)
  PROVE  IInv'
<1>1. CASE Connect(r)
  <2>1. listen = "accepting" /\ shutdown = "waiting"
    BY <1>1 DEF Connect, IInv, ServeInv
  <2>. QED
    BY <1>1, <2>1, RequestStep DEF Connect, Progress, Spoiled, Ended
<1>2. CASE Begin(r)
  <2>1. listen # "start" /\ shutdown # "done"
    BY <1>2, HandlingMeans DEF Begin
  <2>. QED
    BY <1>2, <2>1, RequestStep DEF Begin, Progress, Handling, Spoiled
<1>3. CASE Drop(r)
  <2>1. listen # "start"
    BY <1>3, HandlingMeans DEF Drop
  <2>. QED
    BY <1>3, <2>1, RequestStep DEF Drop, Progress, Spoiled, Ended
<1>4. CASE Acquire(r)
  <2>1. /\ listen # "start" /\ shutdown # "done"
        /\ main # "serving" => shutdown = "timed out"
        /\ main = "serving" => open = {"firestore", "pool", "signals"} \cup Dialer
    BY <1>4, HandlingMeans DEF Acquire, Handling
  <2>2. CASE "pool" \in open /\ main # "closing pool"
    BY <1>4, <2>1, <2>2, RequestStep DEF Acquire, Progress, Handling, Spoiled
  <2>3. CASE ~ ("pool" \in open /\ main # "closing pool")
    BY <1>4, <2>1, <2>3, RequestStep DEF Acquire, Progress, Spoiled
  <2>. QED
    BY <2>2, <2>3
<1>5. CASE Release(r)
  <2>1. listen # "start" /\ shutdown # "done"
    BY <1>5, HandlingMeans DEF Release, Handling
  <2>. QED
    BY <1>5, <2>1, RequestStep DEF Release, Progress, Handling, Spoiled
<1>6. CASE ReadConfig(r)
  <2>1. /\ listen # "start" /\ shutdown # "done"
        /\ main # "serving" => shutdown = "timed out"
        /\ main = "serving" => open = {"firestore", "pool", "signals"} \cup Dialer
    BY <1>6, HandlingMeans DEF ReadConfig, Handling
  <2>. QED
    BY <1>6, <2>1, RequestStep DEF ReadConfig, Progress, Spoiled
<1>7. CASE Answer(r)
  <2>1. listen # "start"
    BY <1>7, HandlingMeans DEF Answer, Handling
  <2>. QED
    BY <1>7, <2>1, RequestStep DEF Answer, Progress, Spoiled, Ended
<1>. QED
  BY <1>1, <1>2, <1>3, <1>4, <1>5, <1>6, <1>7

----------------------------------------------------------------------------
(* The return of run().                                                    *)

(* A step of the return, which leaves the server and the requests alone,   *)
(* and takes the pool from no statement.                                   *)
LEMMA ReturnStep ==
  ASSUME IInv, UNCHANGED <<env, signalled, listen, shutdown, request, exit>>,
         main \notin {"key", "exited"}, main' \in {"closing", "closing pool"},
         main = "serving" => listen \in {"closed", "failed"} /\ shutdown \in {"timed out", "done"},
         open' \subseteq open, OpenInv',
         deferred' \in {<<>>, <<"signals">>, BelowPool, FromPool, All},
         "pool" \in open \ open' => \A r \in Request : request[r] # "querying"
  PROVE  IInv'
<1>. USE DEF IInv
<1>1. TypeOK'
  BY SameStacks DEF TypeOK, Place, env
<1>2. ServeInv'
  BY DEF ServeInv, ValidConfig, env
<1>3. RequestInv'
  BY DEF RequestInv
<1>. QED
  BY <1>1, <1>2, <1>3

(* Both goroutines have ended.                                             *)
LEMMA WaitStep ==
  ASSUME IInv, Wait
  PROVE  IInv'
<1>. USE DEF IInv
<1>1. main = "serving" /\ main' = "closing" /\ UNCHANGED <<open, deferred, env>>
  BY DEF Wait, Serving, Return, Goto
<1>2. OpenInv'
  BY <1>1, SameStacks DEF OpenInv, env
<1>. QED
  BY <1>1, <1>2, ReturnStep DEF Wait, TypeOK

(* A close that is not the pool's takes the pool from no one.              *)
LEMMA CloseNextStep ==
  ASSUME IInv, CloseNext
  PROVE  IInv'
<1>. USE DEF IInv
<1>1. main = "closing" /\ main' = "closing" /\ UNCHANGED env
  BY DEF CloseNext
<1>2. \/ deferred = All /\ deferred' = FromPool /\ open' = open \ {"firestore"}
      \/ iam /\ deferred = BelowPool /\ deferred' = <<"signals">> /\ open' = open \ {"dialer"}
      \/ deferred = <<"signals">> /\ deferred' = <<>> /\ open' = open \ {"signals"}
  BY Stacks DEF CloseNext, TypeOK
<1>3. open = Closes(deferred)
  BY <1>1 DEF OpenInv
<1>4. OpenInv'
  <2>1. open' = Closes(deferred')
    BY <1>2, <1>3, ClosesOf DEF Dialer
  <2>. QED
    BY <1>1, <2>1, SameStacks DEF OpenInv, env
<1>. QED
  BY <1>1, <1>2, <1>4, ReturnStep DEF CloseNext

(* The pool gives no connection any more.                                  *)
LEMMA BeginPoolCloseStep ==
  ASSUME IInv, BeginPoolClose
  PROVE  IInv'
<1>. USE DEF IInv
<1>1. /\ main = "closing" /\ main' = "closing pool" /\ UNCHANGED <<open, deferred, env>>
  BY DEF BeginPoolClose, Goto
<1>2. deferred = FromPool
  BY Stacks DEF BeginPoolClose, TypeOK
<1>3. OpenInv'
  BY <1>1, <1>2, SameStacks DEF OpenInv, env
<1>. QED
  BY <1>1, <1>3, ReturnStep DEF BeginPoolClose, TypeOK

(* The pool has got every connection back.                                 *)
LEMMA EndPoolCloseStep ==
  ASSUME IInv, EndPoolClose
  PROVE  IInv'
<1>. USE DEF IInv
<1>1. main = "closing pool" /\ main' = "closing" /\ UNCHANGED env
  BY DEF EndPoolClose, Goto
<1>2. deferred = FromPool /\ deferred' = BelowPool
  BY Stacks DEF EndPoolClose, OpenInv
<1>3. OpenInv'
  <2>1. open' = Closes(deferred')
    BY <1>1, <1>2, ClosesOf DEF OpenInv, EndPoolClose, Dialer
  <2>. QED
    BY <1>1, <2>1, SameStacks DEF OpenInv, env
<1>. QED
  BY <1>1, <1>2, <1>3, ReturnStep DEF EndPoolClose

(* The exit finds nothing open and no statement in flight; it cuts off a   *)
(* handler only when the shutdown timed out.                               *)
LEMMA ExitStep ==
  ASSUME IInv, Exit
  PROVE  IInv'
<1>. USE DEF IInv
<1>1. open = {} /\ main' = "exited" /\ UNCHANGED <<env, open, deferred, listen, shutdown>>
  BY ClosesOf DEF OpenInv, Exit, Goto
<1>2. OpenInv'
  BY <1>1, SameStacks DEF OpenInv, Exit, env
<1>3. ASSUME NEW r \in Request
      PROVE  \/ request'[r] = request[r] /\ request[r] \notin Handling
             \/ request[r] = "handling" /\ request'[r] = "cut" /\ shutdown = "timed out"
  <2>1. request[r] # "querying"
    BY <1>1 DEF RequestInv
  <2>2. CASE request[r] \in Handling
    <3>1. request[r] = "handling" /\ shutdown = "timed out"
      BY <2>1, <2>2, HandlingMeans DEF Handling, Exit
    <3>2. Cut["handling"] = "cut"
      BY DEF Cut
    <3>3. request'[r] = Cut[request[r]]
      BY <2>2 DEF Exit
    <3>. QED
      BY <3>1, <3>2, <3>3
  <2>3. CASE request[r] \notin Handling
    BY <2>3 DEF Exit
  <2>. QED
    BY <2>2, <2>3
<1>4. TypeOK'
  <2>1. request' \in [Request -> Progress]
    BY <1>3 DEF Exit, TypeOK, Progress, Spoiled
  <2>2. exit' \in {"none", "success", "failure"}
    BY DEF Exit, Outcome
  <2>. QED
    BY <1>1, <2>1, <2>2, SameStacks DEF TypeOK, Exit, Place, env
<1>5. exit' # "none" /\ (exit' = "success" => shutdown = "done")
  <2>1. listen = "closed" => shutdown \in {"timed out", "done"}
    BY DEF ServeInv, Exit
  <2>. QED
    BY <2>1 DEF Exit, Outcome
<1>6. ServeInv'
  BY <1>1, <1>5 DEF ServeInv, ValidConfig, Exit, env
<1>7. RequestInv'
  BY <1>1, <1>3 DEF RequestInv, Spoiled, Ended, Handling
<1>. QED
  BY <1>2, <1>4, <1>6, <1>7

----------------------------------------------------------------------------
(* Every step keeps the invariant.                                         *)
LEMMA NextIInv == IInv /\ [Next]_vars => IInv'
<1>. SUFFICES ASSUME IInv, [Next]_vars PROVE IInv'
  OBVIOUS
<1>1. CASE Run
  BY <1>1, ConfigureStep, OpenDialerStep, OpenPoolStep, OpenFirestoreStep, ValidateStep,
     ParseKeyStep, WaitStep, CloseNextStep, BeginPoolCloseStep, EndPoolCloseStep, ExitStep
  DEF Run
<1>2. CASE Signal \/ Listen \/ AcceptError \/ BeginShutdown \/ EndShutdown
  BY <1>2, SignalStep, ListenStep, AcceptErrorStep, BeginShutdownStep, EndShutdownStep
<1>3. CASE \E r \in Request :
             Connect(r) \/ Begin(r) \/ Drop(r) \/ Acquire(r) \/ Release(r)
               \/ ReadConfig(r) \/ Answer(r)
  BY <1>3, RequestSteps
<1>4. CASE UNCHANGED vars
  <2>1. TypeOK' /\ ServeInv' /\ RequestInv'
    BY <1>4, SameStacks DEF IInv, TypeOK, ServeInv, ValidConfig, RequestInv, vars
  <2>. QED
    BY <1>4, <2>1, GoroutineStep DEF vars
<1>. QED
  BY <1>1, <1>2, <1>3, <1>4 DEF Next

(* IInv holds in every reachable state.                                    *)
THEOREM Invariance == Spec => []IInv
  BY InitIInv, NextIInv, PTL DEF Spec

(* The type invariant.                                                     *)
THEOREM TypeCorrect == Spec => []TypeOK
<1>1. IInv => TypeOK
  BY DEF IInv
<1>. QED
  BY Invariance, <1>1, PTL

(* A process that reports success has answered every request it began.     *)
THEOREM SuccessIsComplete == Spec => []SuccessAnswersAll
<1>1. IInv => SuccessAnswersAll
  BY DEF IInv, ServeInv, RequestInv, SuccessAnswersAll, Ended
<1>. QED
  BY Invariance, <1>1, PTL

(* No request is handled under a configuration that was not found valid.   *)
THEOREM ConfigIsChecked == Spec => []HandledUnderValidConfig
<1>1. IInv => HandledUnderValidConfig
  BY DEF IInv, ServeInv, RequestInv, HandledUnderValidConfig, ValidConfig
<1>. QED
  BY Invariance, <1>1, PTL

(* A statement in flight keeps the pool and its dialer to its end.         *)
THEOREM StatementsAreKept == Spec => []StatementsKeepTheirConnection
<1>1. IInv => StatementsKeepTheirConnection
  <2>. SUFFICES ASSUME IInv, NEW r \in Request, request[r] = "querying"
               PROVE  "pool" \in open /\ (iam => "dialer" \in open)
    BY DEF IInv, RequestInv, StatementsKeepTheirConnection
  <2>1. "pool" \in open
    BY DEF IInv, RequestInv
  <2>2. "pool" \in Closes(deferred)
    BY <2>1 DEF IInv, OpenInv
  <2>3. deferred \in {FromPool, All}
    BY <2>2, ClosesOf DEF IInv, TypeOK, Dialer
  <2>4. iam => "dialer" \in open
    BY <2>3, ClosesOf DEF IInv, OpenInv, Dialer
  <2>. QED
    BY <2>1, <2>4
<1>. QED
  BY Invariance, <1>1, PTL

(* Whatever failed, the exit finds everything closed.                      *)
THEOREM NothingIsLeft == Spec => []ExitClosesAll
<1>1. IInv => ExitClosesAll
  BY ClosesOf DEF IInv, ServeInv, OpenInv, ExitClosesAll
<1>. QED
  BY Invariance, <1>1, PTL

=============================================================================
