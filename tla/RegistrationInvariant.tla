------------------------ MODULE RegistrationInvariant ------------------------
(***************************************************************************)
(* The inductive invariant of Registration.                                *)
(***************************************************************************)
EXTENDS Registration

(* A registration that has its player id and has not committed.            *)
Minting(w) ==
  pc[w] \in {"insertPlayer", "insertProgression", "insertSettings", "commit"}

(* A transaction that holds its firebase_uid in the unique index.          *)
Holding(w) == pc[w] \in {"insertProgression", "insertSettings", "commit"}

(* The rows that the transaction of w has inserted so far.                 *)
Written(w) ==
  [players     |-> IF Holding(w) THEN {<<job[w].uid, job[w].id>>} ELSE {},
   progression |-> IF pc[w] \in {"insertSettings", "commit"} THEN {job[w].id} ELSE {},
   settings    |-> IF pc[w] = "commit" THEN {job[w].id} ELSE {}]

(* What a worker knows at each statement.                                  *)
Stage(w) ==
  /\ pc[w] = "idle" => job[w] = Idle
  /\ pc[w] # "idle" => job[w] \in Jobs
  /\ pending[w] = Written(w)
  /\ Minting(w) \/ pc[w] = "exists" => job[w].op = "register"
  /\ Minting(w) => job[w].id \in Id /\ \A r \in players : r[2] # job[w].id
  /\ Holding(w) => ~ Taken(job[w].uid)
  /\ pc[w] = "view" => job[w].op = "login" /\ (job[w].known => Taken(job[w].uid))
  /\ pc[w] = "readConfig" => job[w].id \in Id /\ <<job[w].uid, job[w].id>> \in players

(* No two registrations in flight have one id; no two transactions hold    *)
(* one firebase_uid.                                                       *)
Apart(v, w) ==
  v # w =>
    /\ Minting(v) /\ Minting(w) => job[v].id # job[w].id
    /\ Holding(v) /\ Holding(w) => job[v].uid # job[w].uid

IInv ==
  /\ TypeOK
  /\ \A w \in Worker : Stage(w)
  /\ \A v, w \in Worker : Apart(v, w)
  /\ WholePlayers
  /\ AnswersHold
=============================================================================
