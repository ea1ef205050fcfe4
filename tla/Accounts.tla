------------------------------ MODULE Accounts ------------------------------
(***************************************************************************)
(* What registration and login promise their callers.                      *)
(*                                                                         *)
(* A firebase_uid gets one account, once and for ever.  A request is       *)
(* decided at one moment between its start and its answer: a registration  *)
(* by creating the account or finding it there, a lookup by finding it or  *)
(* not.  The answer may still be an error, after the account was created   *)
(* as well as before.                                                      *)
(***************************************************************************)
CONSTANTS
  Caller,  \* requests in flight
  Uid,     \* firebase_uids
  Id,      \* player ids
  None     \* no player id

VARIABLES
  account,  \* the player id of each firebase_uid
  request,  \* what each caller asks, and the player found or created for it
  answer    \* the last answer to each caller

abstract == <<account, request, answer>>

Operation == {"register", "login"}

Quiet == [op |-> "none"]

Silence == [code |-> "none"]

Init ==
  /\ account = [u \in Uid |-> None]
  /\ request = [c \in Caller |-> Quiet]
  /\ answer = [c \in Caller |-> Silence]

Asks(c, op) == request[c].op = op /\ request[c].found = None

Call(c, op, u) ==
  /\ request[c] = Quiet
  /\ request' = [request EXCEPT ![c] = [op |-> op, uid |-> u, found |-> None]]
  /\ UNCHANGED <<account, answer>>

(* The account comes into being, with an id no account has.                *)
Create(c, i) ==
  LET u == request[c].uid IN
  /\ Asks(c, "register")
  /\ account[u] = None
  /\ \A v \in Uid : account[v] # i
  /\ account' = [account EXCEPT ![u] = i]
  /\ request' = [request EXCEPT ![c].found = i]
  /\ UNCHANGED answer

Find(c) ==
  LET u == request[c].uid IN
  /\ Asks(c, "login")
  /\ account[u] # None
  /\ request' = [request EXCEPT ![c].found = account[u]]
  /\ UNCHANGED <<account, answer>>

Answer(c, a) ==
  /\ answer' = [answer EXCEPT ![c] = a]
  /\ request' = [request EXCEPT ![c] = Quiet]
  /\ UNCHANGED account

(* The player asked for.                                                   *)
Tell(c) ==
  /\ request[c] # Quiet
  /\ request[c].found # None
  /\ Answer(c, [code |-> IF request[c].op = "register" THEN "created" ELSE "ok",
                uid |-> request[c].uid, id |-> request[c].found])

(* 409: somebody has registered this firebase_uid.                         *)
Refuse(c) ==
  /\ Asks(c, "register")
  /\ account[request[c].uid] # None
  /\ Answer(c, [code |-> "conflict", uid |-> request[c].uid])

(* 404: nobody has.                                                        *)
Miss(c) ==
  /\ Asks(c, "login")
  /\ account[request[c].uid] = None
  /\ Answer(c, [code |-> "notFound", uid |-> request[c].uid])

(* 404 too: the player is there, the configuration to show it is not.      *)
Unready(c) ==
  /\ request[c] # Quiet
  /\ request[c].found # None
  /\ Answer(c, [code |-> "noConfig", uid |-> request[c].uid])

Error(c) ==
  /\ request[c] # Quiet
  /\ Answer(c, [code |-> "error", uid |-> request[c].uid])

Next ==
  \E c \in Caller :
    \/ \E op \in Operation, u \in Uid : Call(c, op, u)
    \/ \E i \in Id : Create(c, i)
    \/ Find(c) \/ Tell(c) \/ Refuse(c) \/ Miss(c) \/ Unready(c) \/ Error(c)

Spec == Init /\ [][Next]_abstract
=============================================================================
