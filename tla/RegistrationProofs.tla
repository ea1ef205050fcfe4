------------------------- MODULE RegistrationProofs -------------------------
(***************************************************************************)
(* Proofs about module Registration, for every set of workers,             *)
(* firebase_uids and player ids; and that it implements module Accounts.   *)
(***************************************************************************)
EXTENDS RegistrationInvariant, TLAPS

----------------------------------------------------------------------------
(* The shape of a step.                                                    *)

(* The other workers keep what they are doing.                             *)
Others(w) ==
  \A v \in Worker \ {w} :
    pc'[v] = pc[v] /\ job'[v] = job[v] /\ pending'[v] = pending[v] /\ answer'[v] = answer[v]

(* A worker's stage survives what leaves it and the players alone.         *)
LEMMA StageKept ==
  ASSUME NEW v \in Worker, Stage(v), players' = players,
         pc'[v] = pc[v], job'[v] = job[v], pending'[v] = pending[v]
  PROVE  Stage(v)'
  BY DEF Stage, Written, Minting, Holding, Taken

(* The step of one worker, no commit, keeps the invariant when it takes no *)
(* player id and no firebase_uid of another.                               *)
LEMMA WorkerStep ==
  ASSUME IInv, TypeOK', AnswersHold', NEW w \in Worker, Others(w), UNCHANGED tables,
         Stage(w)',
         Minting(w)' => \A v \in Worker \ {w} : Minting(v) => job[v].id # job'[w].id,
         Holding(w)' => \A v \in Worker \ {w} : Holding(v) => job[v].uid # job'[w].uid
  PROVE  IInv'
<1>1. ASSUME NEW v \in Worker PROVE Stage(v)'
  <2>1. CASE v = w
    BY <2>1
  <2>2. CASE v # w
    BY <2>2, StageKept DEF IInv, Others, tables
  <2>. QED
    BY <2>1, <2>2
<1>2. ASSUME NEW v \in Worker \ {w}
      PROVE  Minting(v)' = Minting(v) /\ Holding(v)' = Holding(v) /\ job'[v] = job[v]
  BY DEF Others, Minting, Holding
<1>3. ASSUME NEW u \in Worker, NEW v \in Worker PROVE Apart(u, v)'
  <2>1. CASE u = v
    BY <2>1 DEF Apart
  <2>2. CASE u # v /\ u # w /\ v # w
    BY <1>2, <2>2 DEF IInv, Apart
  <2>3. CASE u # v /\ (u = w \/ v = w)
    BY <1>2, <2>3 DEF Apart
  <2>. QED
    BY <2>1, <2>2, <2>3
<1>4. WholePlayers'
  BY DEF IInv, WholePlayers, tables
<1>. QED
  BY <1>1, <1>3, <1>4 DEF IInv

(* What was answered stays true while nothing is removed.                  *)
LEMMA AnswersKept ==
  ASSUME IInv, UNCHANGED <<tables, answer>>
  PROVE  AnswersHold'
  BY DEF IInv, AnswersHold, Taken, tables

(* An answer that holds ends a request and frees its worker.               *)
LEMMA RespondStep ==
  ASSUME IInv, NEW w \in Worker, NEW a \in Answers, Respond(w, a), UNCHANGED tables,
         a.code \in {"created", "ok"} => <<a.uid, a.id>> \in players,
         a.code \in {"conflict", "noConfig"} => Taken(a.uid)
  PROVE  IInv'
<1>. USE DEF IInv
<1>1. pc'[w] = "idle" /\ job'[w] = Idle /\ pending'[w] = NoRows /\ answer'[w] = a /\ Others(w)
  BY DEF Respond, Goto, TypeOK, Others
<1>2. TypeOK'
  BY DEF TypeOK, Respond, Goto, NoRows, tables
<1>3. Stage(w)' /\ ~ Minting(w)' /\ ~ Holding(w)'
  BY <1>1 DEF Stage, Minting, Holding, Written, NoRows
<1>4. ASSUME a.code \in {"created", "ok"} PROVE a.id \in progression \cap settings
  <2>1. <<a.uid, a.id>> \in players /\ <<a.uid, a.id>>[2] = a.id
    BY <1>4
  <2>. QED
    BY <2>1 DEF WholePlayers
<1>5. AnswersHold'
  BY <1>1, <1>4 DEF AnswersHold, Others, Taken, tables
<1>. QED
  BY <1>1, <1>2, <1>3, <1>5, WorkerStep

(* A request that fails was one, and is answered with an error.            *)
LEMMA FailStep ==
  ASSUME IInv, NEW w \in Worker, pc[w] # "idle", Fail(w)
  PROVE  IInv'
<1>. DEFINE a == [code |-> "error", uid |-> job[w].uid]
<1>1. job[w].uid \in Uid
  BY DEF IInv, Stage, Jobs
<1>2. a \in Answers /\ a.code = "error"
  BY <1>1 DEF Answers
<1>3. Respond(w, a) /\ UNCHANGED tables
  BY DEF Fail
<1>. HIDE DEF a
<1>. QED
  BY <1>2, <1>3, RespondStep

(* A transaction that inserts its next row while it alone has its          *)
(* firebase_uid.                                                           *)
LEMMA InsertStep ==
  ASSUME IInv, NEW w \in Worker, Minting(w),
         NEW q \in {"insertProgression", "insertSettings", "commit"}, Goto(w, q),
         pending' \in [Worker -> [players : SUBSET (Uid \X Id), progression : SUBSET Id,
                                  settings : SUBSET Id]],
         pending'[w] = Written(w)',
         \A v \in Worker \ {w} : pending'[v] = pending[v],
         UNCHANGED <<tables, job, answer>>,
         ~ Taken(job[w].uid),
         \A v \in Worker \ {w} : Holding(v) => job[v].uid # job[w].uid
  PROVE  IInv'
<1>. USE DEF IInv
<1>1. pc'[w] = q /\ Others(w)
  BY DEF Goto, TypeOK, Others
<1>2. TypeOK'
  BY DEF TypeOK, Goto, Statement, tables
<1>3. pc[w] # "idle" /\ Stage(w)
  BY DEF Minting
<1>4. Stage(w)'
  BY <1>1, <1>3 DEF Stage, Minting, Holding, Taken, tables
<1>5. \A v \in Worker \ {w} : Minting(v) => job[v].id # job'[w].id
  BY DEF Apart
<1>. QED
  BY <1>1, <1>2, <1>4, <1>5, AnswersKept, WorkerStep

----------------------------------------------------------------------------
(* One lemma for each action.                                              *)

(* Nothing is stored and nobody asks when the service starts.              *)
LEMMA InitIInv == Init => IInv
<1>. SUFFICES ASSUME Init PROVE IInv
  OBVIOUS
<1>1. TypeOK
  BY DEF Init, TypeOK, Statement, NoRows
<1>2. \A w \in Worker : Stage(w) /\ ~ Minting(w) /\ ~ Holding(w)
  BY DEF Init, Stage, Written, Minting, Holding, NoRows
<1>3. WholePlayers /\ AnswersHold
  BY DEF Init, WholePlayers, AnswersHold, Silence
<1>. QED
  BY <1>1, <1>2, <1>3 DEF IInv, Apart

(* A request starts without an id and without a row.                       *)
LEMMA CallStep ==
  ASSUME IInv, NEW w \in Worker, NEW op \in Operation, NEW u \in Uid, Call(w, op, u)
  PROVE  IInv'
<1>. USE DEF IInv
<1>. DEFINE j == [op |-> op, uid |-> u, id |-> None, known |-> Taken(u)]
            q == IF op = "register" THEN "exists" ELSE "view"
<1>1. Taken(u) \in BOOLEAN
  BY DEF Taken
<1>2. j \in Jobs /\ j.op = op /\ j.uid = u /\ j.known = Taken(u)
  BY <1>1 DEF Jobs
<1>3. /\ pc[w] = "idle" /\ Goto(w, q) /\ job' = [job EXCEPT ![w] = j]
      /\ UNCHANGED <<tables, pending, answer>>
  BY DEF Call, At
<1>. HIDE DEF j
<1>4. pc'[w] = q /\ job'[w] = j /\ Others(w)
  BY <1>3 DEF Goto, TypeOK, Others
<1>5. TypeOK'
  BY <1>2, <1>3 DEF TypeOK, Goto, Statement, tables
<1>6. ~ Minting(w)' /\ ~ Holding(w)'
  BY <1>4 DEF Minting, Holding
<1>7. Stage(w)'
  BY <1>2, <1>3, <1>4, <1>6 DEF Stage, Written, Minting, Holding, Taken, Operation, tables
<1>. QED
  BY <1>3, <1>4, <1>5, <1>6, <1>7, AnswersKept, WorkerStep

(* A registration that finds nobody takes an id that nobody has.           *)
LEMMA ExistsStep ==
  ASSUME IInv, NEW w \in Worker, ExistsByFirebaseUID(w)
  PROVE  IInv'
<1>. USE DEF IInv
<1>1. pc[w] = "exists" /\ UNCHANGED tables
  BY DEF ExistsByFirebaseUID, At
<1>2. job[w] \in Jobs /\ job[w].uid \in Uid /\ job[w].op = "register"
  BY <1>1 DEF Stage, Jobs
<1>3. CASE Taken(job[w].uid) /\ Respond(w, [code |-> "conflict", uid |-> job[w].uid])
  <2>. DEFINE a == [code |-> "conflict", uid |-> job[w].uid]
  <2>1. a \in Answers /\ a.code = "conflict" /\ a.uid = job[w].uid /\ Respond(w, a)
    BY <1>2, <1>3 DEF Answers
  <2>. HIDE DEF a
  <2>. QED
    BY <1>1, <1>3, <2>1, RespondStep
<1>4. CASE /\ \E i \in Id : Fresh(i) /\ job' = [job EXCEPT ![w].id = i]
           /\ Goto(w, "insertPlayer")
           /\ UNCHANGED <<pending, answer>>
  <2>1. PICK i \in Id : Fresh(i) /\ job' = [job EXCEPT ![w].id = i]
    BY <1>4
  <2>. DEFINE j == [job[w] EXCEPT !.id = i]
  <2>2. j \in Jobs /\ j.id = i /\ j.op = "register" /\ j.uid = job[w].uid
    BY <1>2 DEF Jobs
  <2>3. job' = [job EXCEPT ![w] = j]
    BY <2>1
  <2>. HIDE DEF j
  <2>4. pc'[w] = "insertPlayer" /\ job'[w] = j /\ Others(w)
    BY <1>4, <2>3 DEF Goto, TypeOK, Others
  <2>5. TypeOK'
    BY <1>1, <1>4, <2>2, <2>3 DEF TypeOK, Goto, Statement, tables
  <2>6. ~ Holding(w)'
    BY <2>4 DEF Holding
  <2>7. \A r \in players : r[2] # i
    BY <2>1 DEF Fresh
  <2>8. Stage(w)'
    BY <1>1, <1>4, <2>2, <2>4, <2>6, <2>7 DEF Stage, Written, Minting, Holding, tables
  <2>9. \A v \in Worker \ {w} : Minting(v) => job[v].id # job'[w].id
    <3>. SUFFICES ASSUME NEW v \in Worker \ {w}, Minting(v) PROVE job[v].id # i
      BY <2>2, <2>4
    <3>1. job[v] \in Jobs
      BY DEF Stage, Minting
    <3>2. job[v] # Idle
      BY <3>1 DEF Jobs, Idle, Operation
    <3>. QED
      BY <2>1, <3>2 DEF Fresh
  <2>. QED
    BY <1>1, <1>4, <2>4, <2>5, <2>6, <2>8, <2>9, AnswersKept, WorkerStep
<1>. QED
  BY <1>3, <1>4 DEF ExistsByFirebaseUID

(* INSERT INTO players takes a firebase_uid that nobody has or inserts.    *)
LEMMA InsertPlayerStep ==
  ASSUME IInv, NEW w \in Worker, InsertPlayer(w)
  PROVE  IInv'
<1>. USE DEF IInv
<1>. DEFINE u == job[w].uid
<1>1. pc[w] = "insertPlayer" /\ Inserting(u) = {}
  BY DEF InsertPlayer, At
<1>2. CASE Fail(w)
  BY <1>1, <1>2, FailStep
<1>3. CASE /\ ~ Taken(u)
           /\ Goto(w, "insertProgression")
           /\ pending' = [pending EXCEPT ![w].players = {<<u, job[w].id>>}]
           /\ UNCHANGED <<tables, job, answer>>
  <2>1. job[w] \in Jobs /\ u \in Uid /\ job[w].id \in Id /\ Minting(w) /\ ~ Holding(w)
    BY <1>1 DEF Stage, Jobs, Minting, Holding
  <2>2. pending[w] = [players |-> {}, progression |-> {}, settings |-> {}]
    BY <1>1, <2>1 DEF Stage, Written
  <2>. DEFINE x == [players |-> {<<u, job[w].id>>}, progression |-> {}, settings |-> {}]
  <2>3. pending' = [pending EXCEPT ![w] = x]
    <3>1. [pending[w] EXCEPT !.players = {<<u, job[w].id>>}] = x
      BY <2>2
    <3>. QED
      BY <1>3, <3>1
  <2>4. pc'[w] = "insertProgression" /\ job' = job
    BY <1>3 DEF Goto, TypeOK
  <2>5. pending'[w] = Written(w)' /\ \A v \in Worker \ {w} : pending'[v] = pending[v]
    BY <2>3, <2>4 DEF Written, Holding, TypeOK
  <2>6. pending' \in [Worker -> [players : SUBSET (Uid \X Id), progression : SUBSET Id,
                                 settings : SUBSET Id]]
    BY <2>1, <2>3 DEF TypeOK
  <2>7. ASSUME NEW v \in Worker \ {w}, Holding(v) PROVE job[v].uid # u
    <3>1. pending[v] = Written(v)
      BY DEF Stage
    <3>2. pending[v].players = {<<job[v].uid, job[v].id>>}
      BY <2>7, <3>1 DEF Written
    <3>3. ~ \E r \in pending[v].players : r[1] = u
      BY <1>1 DEF Inserting
    <3>. QED
      BY <3>2, <3>3
  <2>. QED
    BY <1>3, <2>1, <2>5, <2>6, <2>7, InsertStep
<1>. QED
  BY <1>2, <1>3 DEF InsertPlayer

(* The row of player_progression follows in the same transaction.          *)
LEMMA InsertProgressionStep ==
  ASSUME IInv, NEW w \in Worker, InsertProgression(w)
  PROVE  IInv'
<1>. USE DEF IInv
<1>1. /\ pc[w] = "insertProgression" /\ Goto(w, "insertSettings")
      /\ pending' = [pending EXCEPT ![w].progression = {job[w].id}]
      /\ UNCHANGED <<tables, job, answer>>
  BY DEF InsertProgression, At
<1>2. /\ job[w].uid \in Uid /\ job[w].id \in Id /\ Minting(w) /\ Holding(w)
      /\ ~ Taken(job[w].uid)
  BY <1>1 DEF Stage, Jobs, Minting, Holding
<1>3. pending[w] = [players |-> {<<job[w].uid, job[w].id>>}, progression |-> {}, settings |-> {}]
  BY <1>1, <1>2 DEF Stage, Written
<1>. DEFINE x == [players |-> {<<job[w].uid, job[w].id>>}, progression |-> {job[w].id},
                  settings |-> {}]
<1>4. pending' = [pending EXCEPT ![w] = x]
  <2>1. [pending[w] EXCEPT !.progression = {job[w].id}] = x
    BY <1>3
  <2>. QED
    BY <1>1, <2>1
<1>5. pc'[w] = "insertSettings" /\ job' = job
  BY <1>1 DEF Goto, TypeOK
<1>6. pending'[w] = Written(w)' /\ \A v \in Worker \ {w} : pending'[v] = pending[v]
  BY <1>4, <1>5 DEF Written, Holding, TypeOK
<1>7. pending' \in [Worker -> [players : SUBSET (Uid \X Id), progression : SUBSET Id,
                               settings : SUBSET Id]]
  BY <1>2, <1>4 DEF TypeOK
<1>8. \A v \in Worker \ {w} : Holding(v) => job[v].uid # job[w].uid
  BY <1>2 DEF Apart
<1>. QED
  BY <1>1, <1>2, <1>6, <1>7, <1>8, InsertStep

(* So does the row of player_settings.                                     *)
LEMMA InsertSettingsStep ==
  ASSUME IInv, NEW w \in Worker, InsertSettings(w)
  PROVE  IInv'
<1>. USE DEF IInv
<1>1. /\ pc[w] = "insertSettings" /\ Goto(w, "commit")
      /\ pending' = [pending EXCEPT ![w].settings = {job[w].id}]
      /\ UNCHANGED <<tables, job, answer>>
  BY DEF InsertSettings, At
<1>2. /\ job[w].uid \in Uid /\ job[w].id \in Id /\ Minting(w) /\ Holding(w)
      /\ ~ Taken(job[w].uid)
  BY <1>1 DEF Stage, Jobs, Minting, Holding
<1>3. pending[w] = [players |-> {<<job[w].uid, job[w].id>>}, progression |-> {job[w].id},
                    settings |-> {}]
  BY <1>1, <1>2 DEF Stage, Written
<1>. DEFINE x == [players |-> {<<job[w].uid, job[w].id>>}, progression |-> {job[w].id},
                  settings |-> {job[w].id}]
<1>4. pending' = [pending EXCEPT ![w] = x]
  <2>1. \A p, q, r, t : [[players |-> p, progression |-> q, settings |-> r] EXCEPT !.settings = t]
                        = [players |-> p, progression |-> q, settings |-> t]
    OBVIOUS
  <2>2. [pending[w] EXCEPT !.settings = {job[w].id}] = x
    BY <1>3, <2>1
  <2>. QED
    BY <1>1, <2>2
<1>5. pc'[w] = "commit" /\ job' = job
  BY <1>1 DEF Goto, TypeOK
<1>6. pending'[w] = Written(w)' /\ \A v \in Worker \ {w} : pending'[v] = pending[v]
  BY <1>4, <1>5 DEF Written, Holding, TypeOK
<1>7. pending' \in [Worker -> [players : SUBSET (Uid \X Id), progression : SUBSET Id,
                               settings : SUBSET Id]]
  BY <1>2, <1>4 DEF TypeOK
<1>8. \A v \in Worker \ {w} : Holding(v) => job[v].uid # job[w].uid
  BY <1>2 DEF Apart
<1>. QED
  BY <1>1, <1>2, <1>6, <1>7, <1>8, InsertStep

(* What a commit makes visible: the three rows of one new player.          *)
LEMMA CommitShape ==
  ASSUME IInv, NEW w \in Worker, Commit(w)
  PROVE  /\ job[w].uid \in Uid /\ job[w].id \in Id /\ job[w].op = "register"
         /\ ~ Taken(job[w].uid) /\ \A r \in players : r[2] # job[w].id
         /\ players' = players \cup {<<job[w].uid, job[w].id>>}
         /\ progression' = progression \cup {job[w].id}
         /\ settings' = settings \cup {job[w].id}
         /\ pc[w] = "commit" /\ pc'[w] = "readConfig" /\ job' = job /\ answer' = answer
         /\ pending'[w] = NoRows /\ Others(w)
<1>. USE DEF IInv
<1>1. pc[w] = "commit" /\ Minting(w) /\ Holding(w) /\ Stage(w)
  BY DEF Commit, At, Minting, Holding
<1>2. pending[w] = [players |-> {<<job[w].uid, job[w].id>>}, progression |-> {job[w].id},
                    settings |-> {job[w].id}]
  BY <1>1 DEF Stage, Written
<1>. QED
  BY <1>1, <1>2 DEF Stage, Jobs, Commit, Goto, TypeOK, Others

(* The commit adds a player of a new firebase_uid with a new id, whole.    *)
LEMMA CommitStep ==
  ASSUME IInv, NEW w \in Worker, Commit(w)
  PROVE  IInv'
<1>. USE DEF IInv
<1>. DEFINE u == job[w].uid
            i == job[w].id
<1>1. u \in Uid /\ i \in Id /\ ~ Taken(u) /\ \A r \in players : r[2] # i
  BY CommitShape
<1>2. /\ players' = players \cup {<<u, i>>}
      /\ progression' = progression \cup {i} /\ settings' = settings \cup {i}
      /\ job' = job /\ answer' = answer /\ Others(w)
      /\ pc[w] = "commit" /\ pc'[w] = "readConfig" /\ pending'[w] = NoRows
  BY CommitShape
<1>3. job[w] \in Jobs
  BY <1>2 DEF Stage
<1>. HIDE DEF u, i
<1>4. TypeOK'
  <2>1. pc' \in [Worker -> Statement \cup {"idle"}]
    BY DEF TypeOK, Commit, Goto, Statement
  <2>2. pending' \in [Worker -> [players : SUBSET (Uid \X Id), progression : SUBSET Id,
                                 settings : SUBSET Id]]
    BY DEF TypeOK, Commit, NoRows
  <2>. QED
    BY <1>1, <1>2, <2>1, <2>2 DEF TypeOK
<1>5. WholePlayers'
  <2>1. ASSUME NEW r \in players, NEW s \in {<<u, i>>} PROVE r[1] # s[1] /\ r[2] # s[2]
    BY <1>1 DEF Taken
  <2>2. \A r, s \in players' : r[1] = s[1] <=> r[2] = s[2]
    BY <1>2, <2>1 DEF WholePlayers
  <2>3. {r[2] : r \in players'} = {r[2] : r \in players} \cup {i}
    <3>1. <<u, i>>[2] = i
      OBVIOUS
    <3>2. <<u, i>> \in players' /\ \A r \in players' : r \in players \/ r = <<u, i>>
      BY <1>2
    <3>3. players \subseteq players'
      BY <1>2
    <3>. QED
      BY <3>1, <3>2, <3>3, Zenon
  <2>. QED
    BY <1>2, <2>2, <2>3 DEF WholePlayers
<1>6. AnswersHold'
  BY <1>2 DEF AnswersHold, Taken
<1>7. ASSUME NEW v \in Worker \ {w}, Minting(v)
      PROVE  job[v].id # i /\ (Holding(v) => job[v].uid # u)
  BY <1>2, <1>7 DEF Apart, Minting, Holding, u, i
<1>8. ASSUME NEW v \in Worker PROVE Stage(v)'
  <2>1. CASE v = w
    BY <1>2, <1>3, <1>1, <2>1 DEF Stage, Written, Minting, Holding, NoRows, u, i
  <2>2. CASE v # w
    <3>1. pc'[v] = pc[v] /\ job'[v] = job[v] /\ pending'[v] = pending[v]
      BY <1>2, <2>2 DEF Others
    <3>2. Holding(v) => Minting(v)
      BY DEF Holding, Minting
    <3>3. \A r \in players' : r \in players \/ (r[1] = u /\ r[2] = i)
      BY <1>2
    <3>4. \A r \in players : r \in players'
      BY <1>2
    <3>. QED
      BY <1>7, <2>2, <3>1, <3>2, <3>3, <3>4 DEF Stage, Written, Minting, Holding, Taken
  <2>. QED
    BY <2>1, <2>2
<1>9. ASSUME NEW v \in Worker
      PROVE  (Minting(v)' => Minting(v)) /\ (Holding(v)' => Holding(v)) /\ job'[v] = job[v]
  BY <1>2 DEF Others, Minting, Holding
<1>10. \A u1, v \in Worker : Apart(u1, v)'
  BY <1>9 DEF Apart
<1>. QED
  BY <1>4, <1>5, <1>6, <1>8, <1>10

(* The view finds a whole player or none.                                  *)
LEMMA FindViewStep ==
  ASSUME IInv, NEW w \in Worker, FindView(w)
  PROVE  IInv'
<1>. USE DEF IInv
<1>1. pc[w] = "view" /\ UNCHANGED tables
  BY DEF FindView, At
<1>2. job[w] \in Jobs /\ job[w].uid \in Uid /\ job[w].op = "login"
  BY <1>1 DEF Stage, Jobs
<1>3. CASE Respond(w, [code |-> "notFound", uid |-> job[w].uid])
  <2>. DEFINE a == [code |-> "notFound", uid |-> job[w].uid]
  <2>1. a \in Answers /\ a.code = "notFound" /\ Respond(w, a)
    BY <1>2, <1>3 DEF Answers
  <2>. HIDE DEF a
  <2>. QED
    BY <1>1, <2>1, RespondStep
<1>4. CASE /\ \E i \in PlayerView(job[w].uid) : job' = [job EXCEPT ![w].id = i]
           /\ Goto(w, "readConfig")
           /\ UNCHANGED <<pending, answer>>
  <2>1. PICK i \in PlayerView(job[w].uid) : job' = [job EXCEPT ![w].id = i]
    BY <1>4
  <2>2. i \in Id /\ <<job[w].uid, i>> \in players
    BY DEF PlayerView, TypeOK
  <2>. DEFINE j == [job[w] EXCEPT !.id = i]
  <2>3. j \in Jobs /\ j.id = i /\ j.uid = job[w].uid
    BY <1>2, <2>2 DEF Jobs
  <2>4. job' = [job EXCEPT ![w] = j]
    BY <2>1
  <2>. HIDE DEF j
  <2>5. pc'[w] = "readConfig" /\ job'[w] = j /\ Others(w)
    BY <1>4, <2>4 DEF Goto, TypeOK, Others
  <2>6. TypeOK'
    BY <1>1, <1>4, <2>3, <2>4 DEF TypeOK, Goto, Statement, tables
  <2>7. ~ Minting(w)' /\ ~ Holding(w)'
    BY <2>5 DEF Minting, Holding
  <2>8. Stage(w)'
    BY <1>1, <1>4, <2>2, <2>3, <2>5, <2>7 DEF Stage, Written, Minting, Holding, tables
  <2>. QED
    BY <1>1, <1>4, <2>5, <2>6, <2>7, <2>8, AnswersKept, WorkerStep
<1>. QED
  BY <1>3, <1>4 DEF FindView

(* The player of a success is stored.                                      *)
LEMMA ToResponseStep ==
  ASSUME IInv, NEW w \in Worker, ToResponse(w)
  PROVE  IInv'
<1>. USE DEF IInv
<1>. DEFINE c == IF job[w].op = "register" THEN "created" ELSE "ok"
            a == [code |-> c, uid |-> job[w].uid, id |-> job[w].id]
<1>1. pc[w] = "readConfig" /\ Respond(w, a) /\ UNCHANGED tables
  BY DEF ToResponse, At
<1>2. /\ job[w].uid \in Uid /\ job[w].id \in Id
      /\ <<job[w].uid, job[w].id>> \in players
  BY <1>1 DEF Stage, Jobs
<1>3. c \in {"created", "ok"}
  OBVIOUS
<1>. HIDE DEF c
<1>4. a \in Answers /\ a.code = c /\ a.uid = job[w].uid /\ a.id = job[w].id
  BY <1>2, <1>3 DEF Answers
<1>. HIDE DEF a
<1>. QED
  BY <1>1, <1>2, <1>3, <1>4, RespondStep

(* Without a configuration the player is there, but not shown.             *)
LEMMA NoDocumentStep ==
  ASSUME IInv, NEW w \in Worker, NoDocument(w)
  PROVE  IInv'
<1>. DEFINE a == [code |-> "noConfig", uid |-> job[w].uid]
<1>1. pc[w] = "readConfig" /\ Respond(w, a) /\ UNCHANGED tables
  BY DEF NoDocument, At
<1>2. job[w].uid \in Uid /\ <<job[w].uid, job[w].id>> \in players
  BY <1>1 DEF IInv, Stage, Jobs
<1>3. Taken(job[w].uid)
  <2>1. <<job[w].uid, job[w].id>>[1] = job[w].uid
    OBVIOUS
  <2>. QED
    BY <1>2, <2>1 DEF Taken
<1>4. a \in Answers /\ a.code = "noConfig" /\ a.uid = job[w].uid
  BY <1>2 DEF Answers
<1>. HIDE DEF a
<1>. QED
  BY <1>1, <1>3, <1>4, RespondStep

(* Every step keeps the invariant.                                         *)
LEMMA NextStep == IInv /\ [Next]_vars => IInv'
<1>. SUFFICES ASSUME IInv, [Next]_vars PROVE IInv'
  OBVIOUS
<1>1. CASE UNCHANGED vars
  <2>1. TypeOK' /\ WholePlayers' /\ AnswersHold'
    BY <1>1 DEF IInv, TypeOK, WholePlayers, AnswersHold, Taken, vars
  <2>2. \A w \in Worker : Stage(w)'
    BY <1>1, StageKept DEF IInv, vars
  <2>3. \A v, w \in Worker : Apart(v, w)'
    BY <1>1 DEF IInv, Apart, Minting, Holding, vars
  <2>. QED
    BY <2>1, <2>2, <2>3 DEF IInv
<1>2. ASSUME NEW w \in Worker, Serve(w) PROVE IInv'
  BY <1>2, ExistsStep, InsertPlayerStep, InsertProgressionStep, InsertSettingsStep, CommitStep,
     FindViewStep, ToResponseStep DEF Serve
<1>3. ASSUME NEW w \in Worker, Abort(w) PROVE IInv'
  BY <1>3, FailStep DEF Abort, At
<1>. QED
  BY <1>1, <1>2, <1>3, CallStep, NoDocumentStep DEF Next

----------------------------------------------------------------------------
(* The theorems.                                                           *)

(* The invariant of the statements of a registration holds in every        *)
(* reachable state.                                                        *)
THEOREM Invariance == Spec => []IInv
  BY InitIInv, NextStep, PTL DEF Spec

(* Every variable keeps its type.                                          *)
THEOREM TypeCorrect == Spec => []TypeOK
<1>1. IInv => TypeOK
  BY DEF IInv
<1>. QED
  BY <1>1, Invariance, PTL

(* However many registrations of a firebase_uid run at once (Register), it *)
(* gets at most one player, with its progression and its settings.         *)
THEOREM PlayersAreWhole == Spec => []WholePlayers
<1>1. IInv => WholePlayers
  BY DEF IInv
<1>. QED
  BY <1>1, Invariance, PTL

(* The player of a 200 or 201 is stored whole; after a 409, or a 404 for   *)
(* want of the configuration, there is one.                                *)
THEOREM AnswersAreTrue == Spec => []AnswersHold
<1>1. IInv => AnswersHold
  BY DEF IInv
<1>. QED
  BY <1>1, Invariance, PTL

(* What a worker does by itself.                                           *)
Acts(w) ==
  \/ \E op \in Operation, u \in Uid : Call(w, op, u)
  \/ Serve(w)
  \/ NoDocument(w)
  \/ Abort(w)

(* A step of one worker leaves the others alone.                           *)
LEMMA OneActs ==
  ASSUME IInv, NEW w \in Worker, Acts(w)
  PROVE  Others(w)
<1>. USE DEF IInv
<1>1. ASSUME NEW a, Respond(w, a) PROVE Others(w)
  BY <1>1 DEF Respond, Goto, TypeOK, Others
<1>2. ASSUME NEW op \in Operation, NEW u \in Uid, Call(w, op, u) PROVE Others(w)
  BY <1>2 DEF Call, Goto, TypeOK, Others
<1>3. CASE Serve(w)
  BY <1>1, <1>3 DEF Serve, ExistsByFirebaseUID, InsertPlayer, InsertProgression, InsertSettings,
                    Commit, FindView, ToResponse, Fail, Goto, TypeOK, Others
<1>4. CASE Abort(w)
  BY <1>1, <1>4 DEF Abort, Fail
<1>5. CASE NoDocument(w)
  BY <1>1, <1>5 DEF NoDocument
<1>. QED
  BY <1>2, <1>3, <1>4, <1>5 DEF Acts

(* A registered player is in the view.                                     *)
LEMMA TakenIsViewed ==
  ASSUME IInv, NEW u \in Uid
  PROVE  Taken(u) <=> PlayerView(u) # {}
<1>1. ASSUME NEW r \in players, r[1] = u PROVE r[2] \in PlayerView(u)
  <2>1. r = <<u, r[2]>>
    BY <1>1 DEF IInv, TypeOK
  <2>2. r[2] \in progression
    BY DEF IInv, WholePlayers
  <2>. QED
    BY <2>1, <2>2 DEF PlayerView
<1>2. ASSUME NEW i \in PlayerView(u) PROVE Taken(u)
  BY DEF PlayerView, Taken
<1>. QED
  BY <1>1, <1>2 DEF Taken

(* A request that began when its player was there is not told that there   *)
(* is none (Login, FindByFirebaseUID).                                     *)
THEOREM KnownIsFound == Spec => KnownPlayerIsFound
<1>1. ASSUME IInv, Next, NEW w \in Worker, ~ At(w, "idle"), job[w].known, pc'[w] = "idle"
      PROVE  answer'[w].code # "notFound"
  <2>. USE DEF IInv
  <2>1. Acts(w)
    BY <1>1, OneActs DEF Next, Acts, Others, At
  <2>2. ASSUME NEW a, Respond(w, a) PROVE answer'[w] = a
    BY <1>1, <2>2 DEF Respond, TypeOK
  <2>3. CASE ExistsByFirebaseUID(w)
    BY <1>1, <2>2, <2>3 DEF ExistsByFirebaseUID, Goto, TypeOK
  <2>4. CASE Fail(w)
    BY <2>2, <2>4 DEF Fail
  <2>5. CASE FindView(w)
    <3>1. job[w].uid \in Uid /\ Taken(job[w].uid)
      BY <1>1, <2>5 DEF FindView, At, Stage, Jobs
    <3>2. PlayerView(job[w].uid) # {}
      BY <1>1, <3>1, TakenIsViewed
    <3>. QED
      BY <1>1, <2>5, <3>2 DEF FindView, Goto, TypeOK
  <2>6. CASE ToResponse(w)
    BY <2>2, <2>6 DEF ToResponse
  <2>7. CASE NoDocument(w)
    BY <2>2, <2>7 DEF NoDocument
  <2>. QED
    BY <1>1, <2>1, <2>3, <2>4, <2>5, <2>6, <2>7
       DEF Acts, Serve, Abort, Call, InsertPlayer, InsertProgression, InsertSettings, Commit,
           Goto, At, TypeOK
<1>2. IInv /\ [Next]_vars =>
        [\A w \in Worker : ~ At(w, "idle") /\ job[w].known /\ pc'[w] = "idle"
           => answer'[w].code # "notFound"]_vars
  BY <1>1
<1>. QED
  BY <1>2, Invariance, PTL DEF Spec, KnownPlayerIsFound

----------------------------------------------------------------------------
(* Registration implements Accounts.  The commit creates the account, the  *)
(* view finds it, and every other statement inside a request stutters.     *)

(* A relation in which a firebase_uid has one id finds that id.            *)
LEMMA OneId ==
  ASSUME NEW P, \A r, s \in P : r[1] = s[1] <=> r[2] = s[2],
         NEW u, NEW i \in Id, <<u, i>> \in P
  PROVE  (CHOOSE j \in Id : <<u, j>> \in P) = i
<1>1. \A j \in Id : <<u, j>> \in P => j = i
  <2>. SUFFICES ASSUME NEW j \in Id, <<u, j>> \in P PROVE j = i
    OBVIOUS
  <2>1. <<u, j>>[1] = u /\ <<u, i>>[1] = u /\ <<u, j>>[2] = j /\ <<u, i>>[2] = i
    OBVIOUS
  <2>. QED
    BY <2>1
<1>. QED
  BY <1>1

(* The account of a firebase_uid is its player.                            *)
LEMMA AccountIs ==
  ASSUME IInv, NEW u \in Uid
  PROVE  /\ \A i \in Id : <<u, i>> \in players => PlayerOf(u) = i
         /\ Taken(u) => PlayerOf(u) \in Id /\ <<u, PlayerOf(u)>> \in players
         /\ ~ Taken(u) => PlayerOf(u) = None
<1>. USE DEF IInv
<1>1. ASSUME NEW i \in Id, <<u, i>> \in players PROVE PlayerOf(u) = i
  <2>1. Taken(u)
    BY <1>1 DEF Taken
  <2>2. (CHOOSE j \in Id : <<u, j>> \in players) = i
    BY <1>1, OneId DEF WholePlayers
  <2>. QED
    BY <2>1, <2>2 DEF PlayerOf
<1>2. ASSUME Taken(u) PROVE \E i \in Id : <<u, i>> \in players
  BY <1>2 DEF Taken, TypeOK
<1>. QED
  BY <1>1, <1>2 DEF PlayerOf

(* What is not stored anew keeps its account.                              *)
LEMMA AccountsKept ==
  ASSUME UNCHANGED players
  PROVE  [u \in Uid |-> PlayerOf(u)]' = [u \in Uid |-> PlayerOf(u)]
  BY DEF PlayerOf, Taken

(* The step of one worker is seen as the step of one request.              *)
LEMMA SeenShape ==
  ASSUME NEW w \in Worker, Others(w)
  PROVE  [v \in Worker |-> Seen(v)]' = [[v \in Worker |-> Seen(v)] EXCEPT ![w] = Seen(w)']
<1>1. \A v \in Worker \ {w} : Seen(v)' = Seen(v)
  BY DEF Others, Seen, At
<1>. QED
  BY <1>1

(* A request in flight asks for what its worker does.                      *)
LEMMA SeenIs ==
  ASSUME IInv, NEW w \in Worker, pc[w] # "idle"
  PROVE  /\ Seen(w) # Accounts!Quiet
         /\ Seen(w).op = job[w].op
         /\ Seen(w).uid = job[w].uid
         /\ pc[w] = "readConfig" => Seen(w).found = job[w].id
         /\ pc[w] # "readConfig" => Seen(w).found = None
<1>1. job[w].op \in Operation
  BY DEF IInv, Stage, Jobs
<1>2. Seen(w) = [op |-> job[w].op, uid |-> job[w].uid,
                 found |-> IF pc[w] = "readConfig" THEN job[w].id ELSE None]
  BY DEF Seen, At
<1>. QED
  BY <1>1, <1>2 DEF Accounts!Quiet, Operation

(* An answer is an answer.                                                 *)
LEMMA RespondImplements ==
  ASSUME IInv, NEW w \in Worker, NEW a, Respond(w, a), UNCHANGED tables
  PROVE  Accounts!Answer(w, a)
<1>1. pc'[w] = "idle" /\ answer' = [answer EXCEPT ![w] = a] /\ Others(w)
  BY DEF Respond, Goto, IInv, TypeOK, Others
<1>2. Seen(w)' = Accounts!Quiet
  BY <1>1 DEF Seen, At, Accounts!Quiet
<1>. QED
  BY <1>1, <1>2, SeenShape, AccountsKept DEF Accounts!Answer, tables

(* An error may end any request.                                           *)
LEMMA FailImplements ==
  ASSUME IInv, NEW w \in Worker, pc[w] # "idle", Fail(w)
  PROVE  Accounts!Next
<1>1. Seen(w) # Accounts!Quiet /\ Seen(w).uid = job[w].uid
  BY SeenIs
<1>2. Accounts!Answer(w, [code |-> "error", uid |-> job[w].uid])
  BY RespondImplements DEF Fail
<1>3. Accounts!Error(w)
  BY <1>1, <1>2 DEF Accounts!Error
<1>. QED
  BY <1>3 DEF Accounts!Next

(* A statement after which the worker has the same to answer stutters.     *)
LEMMA Stutters ==
  ASSUME NEW w \in Worker, Others(w), UNCHANGED <<players, answer>>, Seen(w)' = Seen(w)
  PROVE  UNCHANGED Accounts!abstract
<1>1. [v \in Worker |-> Seen(v)]' = [v \in Worker |-> Seen(v)]
  BY SeenShape
<1>. QED
  BY <1>1, AccountsKept DEF Accounts!abstract

(* A request begins.                                                       *)
LEMMA CallImplements ==
  ASSUME IInv, NEW w \in Worker, NEW op \in Operation, NEW u \in Uid, Call(w, op, u)
  PROVE  Accounts!Next
<1>1. Others(w)
  BY OneActs DEF Acts
<1>2. Seen(w) = Accounts!Quiet
  BY DEF Call, At, Seen, Accounts!Quiet
<1>3. Seen(w)' = [op |-> op, uid |-> u, found |-> None]
  <2>1. pc'[w] \in {"exists", "view"}
    BY DEF Call, Goto, IInv, TypeOK
  <2>2. job'[w] = [op |-> op, uid |-> u, id |-> None, known |-> Taken(u)]
    BY DEF Call, IInv, TypeOK
  <2>. QED
    BY <2>1, <2>2 DEF Seen, At
<1>4. players' = players /\ answer' = answer
  BY DEF Call, tables
<1>5. Accounts!Call(w, op, u)
  BY <1>1, <1>2, <1>3, <1>4, SeenShape, AccountsKept DEF Accounts!Call
<1>. QED
  BY <1>5 DEF Accounts!Next, Accounts!Operation, Operation

(* The check of a registration refuses who has an account.                 *)
LEMMA ExistsImplements ==
  ASSUME IInv, NEW w \in Worker, ExistsByFirebaseUID(w)
  PROVE  Accounts!Next \/ UNCHANGED Accounts!abstract
<1>. DEFINE u == job[w].uid
<1>1. pc[w] = "exists" /\ UNCHANGED tables
  BY DEF ExistsByFirebaseUID, At
<1>2. job[w] \in Jobs /\ u \in Uid /\ job[w].op = "register"
  BY <1>1 DEF IInv, Stage, Jobs
<1>3. Seen(w) # Accounts!Quiet /\ Seen(w).op = "register" /\ Seen(w).uid = u /\ Seen(w).found = None
  BY <1>1, <1>2, SeenIs
<1>4. CASE Taken(u) /\ Respond(w, [code |-> "conflict", uid |-> u])
  <2>1. PlayerOf(u) # None
    BY <1>2, <1>4, AccountIs, RegistrationAssumption
  <2>2. Accounts!Answer(w, [code |-> "conflict", uid |-> u])
    BY <1>1, <1>4, RespondImplements
  <2>3. Accounts!Refuse(w)
    BY <1>2, <1>3, <2>1, <2>2 DEF Accounts!Refuse, Accounts!Asks
  <2>. QED
    BY <2>3 DEF Accounts!Next
<1>5. CASE /\ \E i \in Id : Fresh(i) /\ job' = [job EXCEPT ![w].id = i]
           /\ Goto(w, "insertPlayer")
           /\ UNCHANGED <<pending, answer>>
  <2>1. Others(w)
    BY OneActs DEF Acts, Serve
  <2>2. PICK i \in Id : job' = [job EXCEPT ![w].id = i]
    BY <1>5
  <2>3. job'[w].op = job[w].op /\ job'[w].uid = job[w].uid
    BY <1>2, <2>2 DEF IInv, TypeOK, Jobs
  <2>4. pc'[w] = "insertPlayer"
    BY <1>5 DEF Goto, IInv, TypeOK
  <2>5. Seen(w)' = Seen(w)
    BY <1>1, <2>3, <2>4 DEF Seen, At
  <2>. QED
    BY <1>1, <1>5, <2>1, <2>5, Stutters DEF tables
<1>. QED
  BY <1>4, <1>5 DEF ExistsByFirebaseUID

(* The inserts are not seen; only a unique violation is.                   *)
LEMMA InsertsImplement ==
  ASSUME IInv, NEW w \in Worker,
         InsertPlayer(w) \/ InsertProgression(w) \/ InsertSettings(w)
  PROVE  Accounts!Next \/ UNCHANGED Accounts!abstract
<1>1. CASE Fail(w) /\ pc[w] # "idle"
  BY <1>1, FailImplements
<1>2. CASE /\ pc[w] \in {"insertPlayer", "insertProgression", "insertSettings"}
           /\ \E q \in {"insertProgression", "insertSettings", "commit"} : Goto(w, q)
           /\ UNCHANGED <<tables, job, answer>>
  <2>1. Others(w)
    BY OneActs DEF Acts, Serve
  <2>2. pc'[w] \in {"insertProgression", "insertSettings", "commit"}
    BY <1>2 DEF Goto, IInv, TypeOK
  <2>3. Seen(w)' = Seen(w)
    BY <1>2, <2>2 DEF Seen, At
  <2>. QED
    BY <1>2, <2>1, <2>3, Stutters DEF tables
<1>. QED
  BY <1>1, <1>2 DEF InsertPlayer, InsertProgression, InsertSettings, At

(* The commit creates the account.                                         *)
LEMMA CommitImplements ==
  ASSUME IInv, NEW w \in Worker, Commit(w)
  PROVE  Accounts!Next
<1>1. PICK u \in Uid, i \in Id :
      /\ u = job[w].uid /\ i = job[w].id /\ job[w].op = "register"
      /\ ~ Taken(u) /\ \A r \in players : r[2] # i
      /\ players' = players \cup {<<u, i>>}
      /\ pc[w] = "commit" /\ pc'[w] = "readConfig" /\ job' = job /\ answer' = answer
      /\ Others(w)
  BY CommitShape
<1>2. WholePlayers'
  BY CommitStep DEF IInv
<1>3. Seen(w).op = "register" /\ Seen(w).uid = u /\ Seen(w).found = None
  BY <1>1, SeenIs
<1>4. Seen(w) = [op |-> "register", uid |-> u, found |-> None]
      /\ Seen(w)' = [op |-> "register", uid |-> u, found |-> i]
  BY <1>1 DEF Seen, At
<1>5. PlayerOf(u) = None /\ \A v \in Uid : PlayerOf(v) # i
  <2>1. PlayerOf(u) = None
    BY <1>1, AccountIs
  <2>2. ASSUME NEW v \in Uid, PlayerOf(v) = i PROVE FALSE
    <3>1. Taken(v) /\ <<v, i>> \in players
      BY <1>1, <2>2, AccountIs, RegistrationAssumption
    <3>2. <<v, i>>[2] = i
      OBVIOUS
    <3>. QED
      BY <1>1, <3>1, <3>2
  <2>. QED
    BY <2>1, <2>2
<1>6. PlayerOf(u)' = i
  <2>1. (CHOOSE j \in Id : <<u, j>> \in players') = i
    BY <1>1, <1>2, OneId DEF WholePlayers
  <2>2. Taken(u)'
    <3>1. <<u, i>> \in players' /\ <<u, i>>[1] = u
      BY <1>1
    <3>. QED
      BY <3>1 DEF Taken
  <2>. QED
    BY <2>1, <2>2 DEF PlayerOf
<1>7. ASSUME NEW v \in Uid, v # u PROVE PlayerOf(v)' = PlayerOf(v)
  <2>1. \A j \in Id : <<v, j>> \in players' <=> <<v, j>> \in players
    BY <1>1, <1>7
  <2>2. Taken(v)' <=> Taken(v)
    BY <1>1, <1>7 DEF Taken
  <2>3. CASE Taken(v)
    <3>1. PlayerOf(v) \in Id /\ <<v, PlayerOf(v)>> \in players'
      BY <2>1, <2>3, AccountIs
    <3>2. (CHOOSE j \in Id : <<v, j>> \in players') = PlayerOf(v)
      BY <1>2, <3>1, OneId DEF WholePlayers
    <3>. QED
      BY <2>2, <2>3, <3>2 DEF PlayerOf
  <2>. QED
    BY <2>2, <2>3 DEF PlayerOf
<1>8. [v \in Uid |-> PlayerOf(v)]' = [[v \in Uid |-> PlayerOf(v)] EXCEPT ![u] = i]
  BY <1>1, <1>6, <1>7
<1>9. Accounts!Create(w, i)
  <2>1. [Seen(w) EXCEPT !.found = i] = [op |-> "register", uid |-> u, found |-> i]
    BY <1>4
  <2>2. [v \in Worker |-> Seen(v)]'
          = [[v \in Worker |-> Seen(v)] EXCEPT ![w] = [Seen(w) EXCEPT !.found = i]]
    BY <1>1, <1>4, <2>1, SeenShape
  <2>. QED
    BY <1>1, <1>3, <1>5, <1>8, <2>2 DEF Accounts!Create, Accounts!Asks
<1>. QED
  BY <1>1, <1>9 DEF Accounts!Next

(* The view finds the account, or there is none.                           *)
LEMMA FindViewImplements ==
  ASSUME IInv, NEW w \in Worker, FindView(w)
  PROVE  Accounts!Next
<1>1. pc[w] = "view" /\ UNCHANGED tables
  BY DEF FindView, At
<1>2. job[w] \in Jobs /\ job[w].uid \in Uid /\ job[w].op = "login"
  BY <1>1 DEF IInv, Stage, Jobs
<1>3. Seen(w).op = "login" /\ Seen(w).uid = job[w].uid /\ Seen(w).found = None
  BY <1>1, <1>2, SeenIs
<1>4. CASE /\ PlayerView(job[w].uid) = {}
           /\ Respond(w, [code |-> "notFound", uid |-> job[w].uid])
  <2>1. PlayerOf(job[w].uid) = None
    BY <1>2, <1>4, TakenIsViewed, AccountIs
  <2>2. Accounts!Answer(w, [code |-> "notFound", uid |-> job[w].uid])
    BY <1>1, <1>4, RespondImplements
  <2>3. Accounts!Miss(w)
    BY <1>2, <1>3, <2>1, <2>2 DEF Accounts!Miss, Accounts!Asks
  <2>. QED
    BY <2>3 DEF Accounts!Next
<1>5. CASE /\ \E i \in PlayerView(job[w].uid) : job' = [job EXCEPT ![w].id = i]
           /\ Goto(w, "readConfig")
           /\ UNCHANGED <<pending, answer>>
  <2>1. PICK u \in Uid, i \in Id :
          /\ u = job[w].uid /\ <<u, i>> \in players
          /\ job' = [job EXCEPT ![w].id = i]
    BY <1>2, <1>5 DEF PlayerView, IInv, TypeOK
  <2>2. PlayerOf(u) = i /\ i # None
    BY <2>1, AccountIs, RegistrationAssumption
  <2>3. job'[w].id = i /\ job'[w].uid = u /\ job'[w].op = "login"
    BY <1>2, <2>1 DEF IInv, TypeOK, Jobs
  <2>4. pc'[w] = "readConfig"
    BY <1>5 DEF Goto, IInv, TypeOK
  <2>5. Seen(w) = [op |-> "login", uid |-> u, found |-> None]
    BY <1>1, <1>2, <2>1 DEF Seen, At
  <2>6. Seen(w)' = [op |-> "login", uid |-> u, found |-> i]
    BY <2>3, <2>4 DEF Seen, At
  <2>7. [Seen(w) EXCEPT !.found = i] = [op |-> "login", uid |-> u, found |-> i]
    BY <2>5
  <2>8. [v \in Worker |-> Seen(v)]'
          = [[v \in Worker |-> Seen(v)] EXCEPT ![w] = [Seen(w) EXCEPT !.found = i]]
    <3>1. Others(w)
      BY OneActs DEF Acts, Serve
    <3>. QED
      BY <2>6, <2>7, <3>1, SeenShape
  <2>9. Accounts!Find(w)
    BY <1>1, <1>3, <1>5, <2>1, <2>2, <2>8, AccountsKept
       DEF Accounts!Find, Accounts!Asks, tables
  <2>. QED
    BY <2>9 DEF Accounts!Next
<1>. QED
  BY <1>4, <1>5 DEF FindView

(* The answer is the player created or found.                              *)
LEMMA ToResponseImplements ==
  ASSUME IInv, NEW w \in Worker, ToResponse(w)
  PROVE  Accounts!Next
<1>1. pc[w] = "readConfig" /\ UNCHANGED tables
  BY DEF ToResponse, At
<1>2. job[w].id \in Id
  BY <1>1 DEF IInv, Stage
<1>3. /\ Seen(w) # Accounts!Quiet /\ Seen(w).op = job[w].op
      /\ Seen(w).uid = job[w].uid /\ Seen(w).found = job[w].id
  BY <1>1, SeenIs
<1>4. Accounts!Answer(w, [code |-> IF Seen(w).op = "register" THEN "created" ELSE "ok",
                          uid |-> Seen(w).uid, id |-> Seen(w).found])
  BY <1>1, <1>3, RespondImplements DEF ToResponse
<1>5. Accounts!Tell(w)
  BY <1>2, <1>3, <1>4, RegistrationAssumption DEF Accounts!Tell
<1>. QED
  BY <1>5 DEF Accounts!Next

(* The player was found, and cannot be shown.                              *)
LEMMA NoDocumentImplements ==
  ASSUME IInv, NEW w \in Worker, NoDocument(w)
  PROVE  Accounts!Next
<1>1. pc[w] = "readConfig" /\ UNCHANGED tables
  BY DEF NoDocument, At
<1>2. job[w].id \in Id
  BY <1>1 DEF IInv, Stage
<1>3. Seen(w) # Accounts!Quiet /\ Seen(w).uid = job[w].uid /\ Seen(w).found = job[w].id
  BY <1>1, SeenIs
<1>4. Accounts!Answer(w, [code |-> "noConfig", uid |-> Seen(w).uid])
  BY <1>1, <1>3, RespondImplements DEF NoDocument
<1>5. Accounts!Unready(w)
  BY <1>2, <1>3, <1>4, RegistrationAssumption DEF Accounts!Unready
<1>. QED
  BY <1>5 DEF Accounts!Next

(* Register and Login, for all their statements, races and failures, keep  *)
(* the promise of module Accounts: a firebase_uid gets one account, once   *)
(* and for ever, and every answer but an error is decided by one moment of *)
(* the request.                                                            *)
THEOREM ImplementsAccounts == Spec => AccountsSpec
<1>1. Init => Accounts!Init
  <2>. SUFFICES ASSUME Init PROVE Accounts!Init
    OBVIOUS
  <2>1. \A u \in Uid : PlayerOf(u) = None
    BY DEF Init, PlayerOf, Taken
  <2>2. \A w \in Worker : Seen(w) = Accounts!Quiet
    BY DEF Init, Seen, At, Accounts!Quiet
  <2>3. answer = [c \in Worker |-> Accounts!Silence]
    BY DEF Init, Silence, Accounts!Silence
  <2>. QED
    BY <2>1, <2>2, <2>3 DEF Accounts!Init
<1>2. IInv /\ [Next]_vars => [Accounts!Next]_(Accounts!abstract)
  <2>. SUFFICES ASSUME IInv, [Next]_vars PROVE Accounts!Next \/ UNCHANGED Accounts!abstract
    OBVIOUS
  <2>1. CASE UNCHANGED vars
    BY <2>1 DEF vars, Accounts!abstract, PlayerOf, Taken, Seen, At
  <2>2. ASSUME NEW w \in Worker, Serve(w)
        PROVE  Accounts!Next \/ UNCHANGED Accounts!abstract
    BY <2>2, ExistsImplements, InsertsImplement, CommitImplements, FindViewImplements,
       ToResponseImplements DEF Serve
  <2>3. ASSUME NEW w \in Worker, Abort(w) PROVE Accounts!Next
    BY <2>3, FailImplements DEF Abort, At
  <2>. QED
    BY <2>1, <2>2, <2>3, CallImplements, NoDocumentImplements DEF Next
<1>. QED
  BY <1>1, <1>2, Invariance, PTL DEF Spec, AccountsSpec, Accounts!Spec
=============================================================================
