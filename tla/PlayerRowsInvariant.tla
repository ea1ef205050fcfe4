------------------------- MODULE PlayerRowsInvariant -------------------------
(***************************************************************************)
(* The inductive invariant of PlayerRows.                                  *)
(***************************************************************************)
EXTENDS PlayerRows

Updated(w) == version[w] # NoVersion

(* What a worker knows at each statement.                                  *)
Stage(w) ==
  /\ pc[w] = "idle" => task[w] = Initial
  /\ pc[w] = "ledger" => task[w] \in Event
  /\ pc[w] = "update" => task[w] \in Event \cup Put
  /\ pc[w] = "commit" => task[w] \in Event \/ (task[w] \in Put /\ Updated(w))
  /\ pc[w] = "view" => task[w] \in Request
  /\ task[w] \in Put => (Committed(task[w]) <=> pc[w] = "view")
  /\ marked[w] <=> task[w] \in Event /\ (pc[w] = "update" \/ Updated(w))
  /\ marked[w] => task[w] \notin processed
  /\ Updated(w) =>
       pc[w] = "commit" /\ registered /\ version[w] = Written(task[w])

(* Two workers do not enter one event, hold one row or serve one request.  *)
Apart(v, w) ==
  v # w =>
    /\ marked[v] /\ marked[w] => task[v] # task[w]
    /\ Updated(v) /\ Updated(w) => TableOf(task[v]) # TableOf(task[w])
    /\ task[v] \in Request => task[v] # task[w]

(* A request is sent, served, answered, in that order and once.            *)
SentOnce ==
  /\ \A w \in Worker :
       task[w] \in Request => Made(task[w]) /\ answer[task[w]] = Unanswered
  /\ \A x \in Request : ~ Made(x) => answer[x] = Unanswered /\ ~ Committed(x)
  /\ committed # <<>> => registered

IInv ==
  /\ TypeOK
  /\ \A w \in Worker : Stage(w)
  /\ \A v, w \in Worker : Apart(v, w)
  /\ SentOnce
  /\ LastWriterPerColumn
  /\ AnswersAreTrue
=============================================================================
