---------------------------- MODULE Registration ----------------------------
(***************************************************************************)
(* Registration and login, statement by statement.                         *)
(*                                                                         *)
(* A registration looks for the firebase_uid outside any transaction, then *)
(* inserts the player, its progression and its settings in one READ        *)
(* COMMITTED transaction, and reads the configuration to answer after the  *)
(* commit.  The unique index on firebase_uid makes an insert wait for the  *)
(* transaction that holds the same uid.  Any statement may fail: a failed  *)
(* transaction is rolled back and the caller is answered 500.  (A commit   *)
(* whose reply is lost looks the same to the caller as a failure to read   *)
(* the configuration.)                                                     *)
(***************************************************************************)
EXTENDS FiniteSets

CONSTANTS
  Worker,  \* requests in flight
  Uid,     \* firebase_uids
  Id,      \* player ids
  None     \* no player id

ASSUME RegistrationAssumption == None \notin Id

VARIABLES
  players,      \* the rows of account.players: firebase_uid and player_id
  progression,  \* the player_ids of account.player_progression
  settings,     \* the player_ids of account.player_settings
  pc,           \* the statement each worker executes next
  job,          \* the request it serves and what it has read
  pending,      \* the uncommitted rows of its transaction
  answer        \* its last answer

vars == <<players, progression, settings, pc, job, pending, answer>>

tables == <<players, progression, settings>>

Operation == {"register", "login"}

Idle == [op |-> "none"]

Silence == [code |-> "none"]

NoRows == [players |-> {}, progression |-> {}, settings |-> {}]

Init ==
  /\ players = {}
  /\ progression = {}
  /\ settings = {}
  /\ pc = [w \in Worker |-> "idle"]
  /\ job = [w \in Worker |-> Idle]
  /\ pending = [w \in Worker |-> NoRows]
  /\ answer = [w \in Worker |-> Silence]

----------------------------------------------------------------------------
(* What the statements see.                                                *)

At(w, statement) == pc[w] = statement

Goto(w, statement) == pc' = [pc EXCEPT ![w] = statement]

(* The player ids of the Read Model: players JOIN player_progression.      *)
PlayerView(u) == {i \in progression : <<u, i>> \in players}

(* uuid.New: an id of no row and of no registration in flight.             *)
Fresh(i) ==
  /\ \A r \in players : r[2] # i
  /\ \A w \in Worker : job[w] # Idle => job[w].id # i

(* The workers whose transaction has inserted this firebase_uid.           *)
Inserting(u) == {w \in Worker : \E r \in pending[w].players : r[1] = u}

Taken(u) == \E r \in players : r[1] = u

Respond(w, a) ==
  /\ Goto(w, "idle")
  /\ job' = [job EXCEPT ![w] = Idle]
  /\ pending' = [pending EXCEPT ![w] = NoRows]
  /\ answer' = [answer EXCEPT ![w] = a]

(* The error path of every statement: rollback and 500.                    *)
Fail(w) ==
  /\ Respond(w, [code |-> "error", uid |-> job[w].uid])
  /\ UNCHANGED tables

----------------------------------------------------------------------------
(* Register.                                                               *)

(* known (history): the uid had a player when the call began.              *)
Call(w, op, u) ==
  /\ At(w, "idle")
  /\ Goto(w, IF op = "register" THEN "exists" ELSE "view")
  /\ job' = [job EXCEPT ![w] = [op |-> op, uid |-> u, id |-> None,
                                known |-> Taken(u)]]
  /\ UNCHANGED <<tables, pending, answer>>

(* A bug: the player is created without the new id.                        *)
ExistsWithoutId(w) ==
  /\ At(w, "exists")
  /\ \/ /\ Taken(job[w].uid)
        /\ Respond(w, [code |-> "conflict", uid |-> job[w].uid])
     \/ /\ ~ Taken(job[w].uid)
        /\ Goto(w, "insertPlayer")
        /\ UNCHANGED <<job, pending, answer>>
  /\ UNCHANGED tables

(* ExistsByFirebaseUID on what is committed: 409, or a new player id.      *)
ExistsByFirebaseUID(w) ==
  /\ At(w, "exists")
  /\ \/ /\ Taken(job[w].uid)
        /\ Respond(w, [code |-> "conflict", uid |-> job[w].uid])
     \/ /\ ~ Taken(job[w].uid)
        /\ \E i \in Id : Fresh(i) /\ job' = [job EXCEPT ![w].id = i]
        /\ Goto(w, "insertPlayer")
        /\ UNCHANGED <<pending, answer>>
  /\ UNCHANGED tables

(* A bug: no unique index on firebase_uid.                                 *)
InsertPlayerNoIndex(w) ==
  /\ At(w, "insertPlayer")
  /\ Goto(w, "insertProgression")
  /\ pending' = [pending EXCEPT ![w].players = {<<job[w].uid, job[w].id>>}]
  /\ UNCHANGED <<tables, job, answer>>

(* INSERT INTO players: waits for a transaction that inserts the same      *)
(* firebase_uid; if the uid is there the unique violation is an error.     *)
InsertPlayer(w) ==
  LET u == job[w].uid IN
  /\ At(w, "insertPlayer")
  /\ Inserting(u) = {}
  /\ \/ Taken(u) /\ Fail(w)
     \/ /\ ~ Taken(u)
        /\ Goto(w, "insertProgression")
        /\ pending' = [pending EXCEPT ![w].players = {<<u, job[w].id>>}]
        /\ UNCHANGED <<tables, job, answer>>

InsertProgression(w) ==
  /\ At(w, "insertProgression")
  /\ Goto(w, "insertSettings")
  /\ pending' = [pending EXCEPT ![w].progression = {job[w].id}]
  /\ UNCHANGED <<tables, job, answer>>

(* A bug: RunInTx forgets to commit.                                       *)
InsertSettingsUncommitted(w) ==
  /\ At(w, "insertSettings")
  /\ Goto(w, "readConfig")
  /\ UNCHANGED <<tables, pending, job, answer>>

InsertSettings(w) ==
  /\ At(w, "insertSettings")
  /\ Goto(w, "commit")
  /\ pending' = [pending EXCEPT ![w].settings = {job[w].id}]
  /\ UNCHANGED <<tables, job, answer>>

(* A bug: each repository method commits for itself.                       *)
CommitPlayerOnly(w) ==
  /\ At(w, "commit")
  /\ Goto(w, "readConfig")
  /\ players' = players \cup pending[w].players
  /\ pending' = [pending EXCEPT ![w] = NoRows]
  /\ UNCHANGED <<progression, settings, job, answer>>

(* The three rows become visible together.                                 *)
Commit(w) ==
  /\ At(w, "commit")
  /\ Goto(w, "readConfig")
  /\ players' = players \cup pending[w].players
  /\ progression' = progression \cup pending[w].progression
  /\ settings' = settings \cup pending[w].settings
  /\ pending' = [pending EXCEPT ![w] = NoRows]
  /\ UNCHANGED <<job, answer>>

----------------------------------------------------------------------------
(* Login; FindByFirebaseUID differs from it only in how it words the 404.   *)

FindView(w) ==
  LET u == job[w].uid IN
  /\ At(w, "view")
  /\ \/ /\ PlayerView(u) = {}
        /\ Respond(w, [code |-> "notFound", uid |-> u])
     \/ /\ \E i \in PlayerView(u) : job' = [job EXCEPT ![w].id = i]
        /\ Goto(w, "readConfig")
        /\ UNCHANGED <<pending, answer>>
  /\ UNCHANGED tables

(* toResponse: the coefficient is read and the response built.             *)
ToResponse(w) ==
  /\ At(w, "readConfig")
  /\ Respond(w, [code |-> IF job[w].op = "register" THEN "created" ELSE "ok",
                 uid |-> job[w].uid, id |-> job[w].id])
  /\ UNCHANGED tables

(* The configuration document has been deleted since the start-up: 404 as  *)
(* for an unknown player, here told apart as "noConfig".                   *)
NoDocument(w) ==
  /\ At(w, "readConfig")
  /\ Respond(w, [code |-> "noConfig", uid |-> job[w].uid])
  /\ UNCHANGED tables

Abort(w) == ~ At(w, "idle") /\ Fail(w)

Serve(w) ==
  \/ ExistsByFirebaseUID(w)
  \/ InsertPlayer(w)
  \/ InsertProgression(w)
  \/ InsertSettings(w)
  \/ Commit(w)
  \/ FindView(w)
  \/ ToResponse(w)

Next ==
  \E w \in Worker :
    \/ \E op \in Operation, u \in Uid : Call(w, op, u)
    \/ Serve(w)
    \/ NoDocument(w)
    \/ Abort(w)

Spec == Init /\ [][Next]_vars

----------------------------------------------------------------------------
(* Properties.                                                             *)

Statement == {"exists", "insertPlayer", "insertProgression", "insertSettings",
              "commit", "view", "readConfig"}

Jobs == [op : Operation, uid : Uid, id : Id \cup {None}, known : BOOLEAN]

Answers ==
  [code : {"created", "ok"}, uid : Uid, id : Id]
    \cup [code : {"conflict", "notFound", "noConfig", "error"}, uid : Uid]

(* Every variable has its type.                                            *)
TypeOK ==
  /\ players \in SUBSET (Uid \X Id)
  /\ progression \in SUBSET Id
  /\ settings \in SUBSET Id
  /\ pc \in [Worker -> Statement \cup {"idle"}]
  /\ job \in [Worker -> {Idle} \cup Jobs]
  /\ pending \in [Worker -> [players : SUBSET (Uid \X Id), progression : SUBSET Id,
                             settings : SUBSET Id]]
  /\ answer \in [Worker -> {Silence} \cup Answers]

(* However many registrations of a firebase_uid run at once and wherever   *)
(* they fail, it gets at most one player, and a player never exists        *)
(* without its progression and its settings.                               *)
WholePlayers ==
  /\ \A r, s \in players : r[1] = s[1] <=> r[2] = s[2]
  /\ progression = {r[2] : r \in players}
  /\ settings = {r[2] : r \in players}

(* An answer can be relied on: the player of a success is stored whole,    *)
(* and after a conflict, or without a configuration, there is a player for *)
(* Login to find.                                                          *)
AnswersHold ==
  \A w \in Worker :
    /\ answer[w].code \in {"created", "ok"} =>
         /\ <<answer[w].uid, answer[w].id>> \in players
         /\ answer[w].id \in progression \cap settings
    /\ answer[w].code \in {"conflict", "noConfig"} => Taken(answer[w].uid)

(* A caller is not told that a player does not exist by a request that     *)
(* began when it did: what a registration answered, even with an error     *)
(* after its commit, a later Login finds.  (A 404 for want of the          *)
(* configuration document is not that answer, though it has its status.)   *)
KnownPlayerIsFound ==
  [][\A w \in Worker :
       ~ At(w, "idle") /\ job[w].known /\ pc'[w] = "idle" => answer'[w].code # "notFound"]_vars

(* The accounts an observer sees: of each firebase_uid the player that is  *)
(* committed, of each request the player it will be answered.              *)
PlayerOf(u) == IF Taken(u) THEN CHOOSE i \in Id : <<u, i>> \in players ELSE None

Seen(w) ==
  IF At(w, "idle") THEN [op |-> "none"]
  ELSE [op |-> job[w].op, uid |-> job[w].uid,
        found |-> IF At(w, "readConfig") THEN job[w].id ELSE None]

Accounts ==
  INSTANCE Accounts WITH
    Caller <- Worker,
    account <- [u \in Uid |-> PlayerOf(u)],
    request <- [w \in Worker |-> Seen(w)]

(* The three statements of the transaction, the unlocked check before it   *)
(* and the read after it are to the callers one step that creates the      *)
(* account or finds it there.                                              *)
AccountsSpec == Accounts!Spec
=============================================================================
