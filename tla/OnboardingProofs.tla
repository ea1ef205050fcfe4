-------------------------- MODULE OnboardingProofs --------------------------
(***************************************************************************)
(* Proofs about module Onboarding, for every set of workers, players,      *)
(* names, factions and tasks: its invariant, that its transactions         *)
(* implement the one-step events of OnboardingEffects, and what can be     *)
(* said of one request at a time.                                          *)
(***************************************************************************)
EXTENDS OnboardingSerial, TLAPS

----------------------------------------------------------------------------
(* Types.                                                                  *)

(* A worker that is not idle serves a task.                                *)
TypeInv == TypeOK /\ \A w \in Worker : Busy(w) <=> task[w] \in Task

(* What follows the ledger entry is one of the statements.                 *)
LEMMA AfterInsertStatement ==
  ASSUME NEW t \in Event
  PROVE  AfterInsert(t) \in {"updateName", "getInitial", "getStatus", "addFaction"}
  BY DomainAssumption DEF AfterInsert, Event, EventKind

(* A statement that only decides keeps the types.                          *)
LEMMA DecideType ==
  ASSUME TypeInv, NEW w \in Worker, Busy(w), NEW s \in Statement, Decide(w, s)
  PROVE  TypeInv'
  BY DEF Decide, Goto, TypeInv, TypeOK, Statement, Busy, db

(* So does one that leaves a well-typed write.                             *)
LEMMA ExecuteType ==
  ASSUME TypeInv, NEW w \in Worker, Busy(w),
         NEW s \in Statement, NEW x \in Pending, Execute(w, x, s)
  PROVE  TypeInv'
  BY DEF Execute, Goto, Write, TypeInv, TypeOK, Statement, Busy, db

(* So does a rollback.                                                     *)
LEMMA FailType ==
  ASSUME TypeInv, NEW w \in Worker, Fail(w)
  PROVE  TypeInv'
  BY DomainAssumption
     DEF Fail, Finish, Goto, Write, TypeInv, TypeOK, Pending, Clean, Statement, Busy, db

(* Each field of a transaction's writes can be set to a value of its type. *)
LEMMA WriteTyped ==
  ASSUME NEW x \in Pending
  PROVE  /\ [x EXCEPT !.ledger = TRUE] \in Pending
         /\ \A n \in Name : [x EXCEPT !.name = n] \in Pending
         /\ \A s \in Status : [x EXCEPT !.status = s] \in Pending
         /\ \A o, i \in SUBSET Faction : [x EXCEPT !.owned = o, !.initial = i] \in Pending
         /\ \A o \in SUBSET Faction : [x EXCEPT !.owned = o] \in Pending
<1>1. [x EXCEPT !.ledger = TRUE] \in Pending
  BY DEF Pending
<1>2. ASSUME NEW n \in Name PROVE [x EXCEPT !.name = n] \in Pending
  BY DEF Pending
<1>3. ASSUME NEW s \in Status PROVE [x EXCEPT !.status = s] \in Pending
  BY DEF Pending
<1>4. ASSUME NEW o \in SUBSET Faction PROVE [x EXCEPT !.owned = o] \in Pending
  BY DEF Pending
<1>5. ASSUME NEW o \in SUBSET Faction, NEW i \in SUBSET Faction
      PROVE  [x EXCEPT !.owned = o, !.initial = i] \in Pending
  BY DEF Pending
<1> QED
  BY <1>1, <1>2, <1>3, <1>4, <1>5

(* What a busy worker serves is typed, and so are the writes it has made.  *)
LEMMA TaskTyped ==
  ASSUME TypeInv, NEW w \in Worker, Busy(w)
  PROVE  /\ task[w] \in Task
         /\ FactionOf[task[w]] \in Faction
         /\ NameOf[task[w]] \in Name
         /\ PlayerOf[task[w]] \in Player
         /\ pending[w] \in Pending
  BY DomainAssumption DEF TypeInv, TypeOK

(* Every step keeps the types.                                             *)
LEMMA TypeStep ==
  ASSUME TypeInv, \A w \in Worker : Stage(w), [Next]_vars
  PROVE  TypeInv'
<1> USE DomainAssumption
<1>1. ASSUME NEW w \in Worker, NEW t \in Task, Begin(w, t)
      PROVE  TypeInv'
  BY <1>1 DEF Begin, At, Goto, TypeInv, TypeOK, Busy, Statement, db
<1>2. ASSUME NEW w \in Worker, Serve(w)
      PROVE  TypeInv'
  <2>0. Busy(w)
    BY <1>2 DEF Serve, InsertEvent, UpdateName, Exists, GetInitialFaction, SetInitialFaction,
                AddPlayerFaction, GetOnboardingStatus, UpdateOnboardingStatus, Commit,
                Respond, At, Busy
  <2>a. /\ task[w] \in Task
        /\ FactionOf[task[w]] \in Faction
        /\ NameOf[task[w]] \in Name
        /\ PlayerOf[task[w]] \in Player
        /\ pending[w] \in Pending
    BY <2>0, TaskTyped
  <2>1. CASE InsertEvent(w)
    <3>1. task[w] \in Event
      BY <2>a, <2>1 DEF InsertEvent, At, Stage, StageEnds, KindAt, Event
    <3>2. CASE task[w] \in processed
      BY <2>0, <2>1, <3>2, DecideType DEF InsertEvent, Statement
    <3>3. CASE task[w] \notin processed
      <4>1. Execute(w, [pending[w] EXCEPT !.ledger = TRUE], AfterInsert(task[w]))
        BY <2>1, <3>3 DEF InsertEvent
      <4>2. /\ AfterInsert(task[w]) \in Statement
            /\ [pending[w] EXCEPT !.ledger = TRUE] \in Pending
        BY <2>a, <3>1, AfterInsertStatement, WriteTyped DEF Statement
      <4> QED
        BY <2>0, <4>1, <4>2, ExecuteType
    <3> QED
      BY <3>2, <3>3
  <2>2. CASE UpdateName(w)
    BY <2>0, <2>a, WriteTyped, <2>2, ExecuteType, FailType DEF UpdateName, Statement
  <2>3. CASE Exists(w)
    BY <2>0, <2>3, DecideType, FailType DEF Exists, Statement
  <2>4. CASE GetInitialFaction(w)
    BY <2>0, <2>4, DecideType, FailType DEF GetInitialFaction, Statement
  <2>5. CASE SetInitialFaction(w)
    <3>1. {FactionOf[task[w]]} \in SUBSET Faction
      BY <2>a
    <3> QED
      BY <2>0, <2>a, <2>5, <3>1, WriteTyped, ExecuteType, FailType DEF SetInitialFaction, Statement
  <2>6. CASE AddPlayerFaction(w)
    <3>1. {FactionOf[task[w]]} \ owned[PlayerOf[task[w]]] \in SUBSET Faction
      BY <2>a
    <3> QED
      BY <2>0, <2>a, <2>6, <3>1, WriteTyped, ExecuteType, FailType DEF AddPlayerFaction, Statement
  <2>7. CASE GetOnboardingStatus(w)
    BY <2>0, <2>7, DecideType, FailType DEF GetOnboardingStatus, Statement
  <2>8. CASE UpdateOnboardingStatus(w)
    <3>1. Target(task[w]) \in Status
      BY <2>a, <2>8 DEF UpdateOnboardingStatus, At, Stage, StageMiddle, Middle, KindsOf, KindAt,
                  Target, Status
    <3> QED
      BY <2>0, <2>a, <2>8, <3>1, WriteTyped, ExecuteType DEF UpdateOnboardingStatus, Statement
  <2>9. CASE Commit(w)
    <3>1. pending[w].ledger => task[w] \in Event
      BY <2>a, <2>9 DEF Commit, At, Stage, StageCommit, Duplicate, Effective, KindAt, Event, Clean
    <3>2. /\ processed' \in SUBSET Event
          /\ name' \in [Player -> Name \cup {None}]
          /\ status' \in [Player -> Status]
      BY <2>a, <2>9, <3>1 DEF Commit, TypeInv, TypeOK, Pending
    <3>3. /\ owned' \in [Player -> SUBSET Faction]
          /\ initial' \in [Player -> SUBSET Faction]
      BY <2>a, <2>9 DEF Commit, TypeInv, TypeOK, Pending
    <3>4. Clean \in Pending
      BY DEF Clean, Pending
    <3>5. /\ registered' \in SUBSET Player
          /\ acked' \in SUBSET Event
          /\ pc' \in [Worker -> Statement \cup {"idle", "respond"}]
          /\ task' \in [Worker -> Task \cup {None}]
          /\ pending' \in [Worker -> Pending]
      BY <2>9, <3>4 DEF Commit, Goto, Write, TypeInv, TypeOK
    <3>6. \A v \in Worker : (Busy(v) <=> task[v] \in Task)'
      BY <2>a, <2>9 DEF Commit, At, Goto, TypeInv, TypeOK, Busy
    <3> QED
      BY <3>2, <3>3, <3>5, <3>6 DEF TypeInv, TypeOK
  <2>10. CASE Respond(w)
    BY <2>a, <2>10 DEF Respond, Finish, At, Goto, Write, TypeInv, TypeOK, Pending, Clean, Statement,
                 Busy, db
  <2> QED
    BY <1>2, <2>1, <2>2, <2>3, <2>4, <2>5, <2>6, <2>7, <2>8, <2>9, <2>10 DEF Serve
<1>3. ASSUME NEW w \in Worker, Abort(w)
      PROVE  TypeInv'
  BY <1>3, FailType DEF Abort
<1>4. ASSUME NEW p \in Player, Register(p)
      PROVE  TypeInv'
  BY <1>4 DEF Register, TypeInv, TypeOK, Busy
<1>5. ASSUME NEW p \in Player, NEW n \in Name, PutName(p, n)
      PROVE  TypeInv'
  BY <1>5 DEF PutName, TypeInv, TypeOK, Busy
<1>6. ASSUME NEW p \in Player, NEW f \in Faction, Grant(p, f)
      PROVE  TypeInv'
  BY <1>6 DEF Grant, TypeInv, TypeOK, Busy
<1>7. CASE UNCHANGED vars
  BY <1>7 DEF vars, TypeInv, TypeOK, Busy
<1> QED
  BY <1>1, <1>2, <1>3, <1>4, <1>5, <1>6, <1>7 DEF Next, Work, Fault

----------------------------------------------------------------------------
(* The inductive invariant, one worker at a time.                          *)

(* The invariant fixes the types, and the task of every busy worker.       *)
LEMMA IInvTypes ==
  ASSUME IInv
  PROVE  TypeInv
  BY DomainAssumption DEF IInv, TypeInv, TypeOK, Stage, StageEnds, Busy

(* A name-set transaction past its UPDATE holds the players row.           *)
LEMMA NameSetHoldsRow ==
  ASSUME TypeInv, NEW v \in Worker, Stage(v), KindAt(v) = "name_set",
         pc[v] \in {"getStatus", "setStatus", "commit"}
  PROVE  HoldsRow(v) \/ (pc[v] = "commit" /\ Duplicate(v))
<1>1. NameOf[task[v]] # None
  BY TaskTyped, DomainAssumption DEF Busy
<1>2. CASE pc[v] = "commit"
  BY <1>1, <1>2 DEF Stage, StageCommit, Effective, HoldsRow
<1>3. CASE pc[v] \in {"getStatus", "setStatus"}
  BY <1>1, <1>3 DEF Stage, StageMiddle, Middle, HoldsRow
<1> QED
  BY <1>2, <1>3

(* A worker's stage survives every step of others that keeps what its      *)
(* reads established.                                                      *)
LEMMA StageKept ==
  ASSUME TypeInv, NEW v \in Worker, Stage(v),
         pc'[v] = pc[v], task'[v] = task[v], pending'[v] = pending[v],
         registered \subseteq registered',
         processed \subseteq processed',
         pending[v].ledger => task[v] \notin processed',
         Busy(v) =>
           /\ owned[PlayerAt(v)] \subseteq owned'[PlayerAt(v)]
           /\ initial[PlayerAt(v)] # {} => initial'[PlayerAt(v)] = initial[PlayerAt(v)]
           /\ pending[v].initial # {} => initial'[PlayerAt(v)] \subseteq pending[v].initial
           /\ HoldsRow(v) => status'[PlayerAt(v)] = status[PlayerAt(v)]
           /\ Rank(status[PlayerAt(v)]) >= 2 => Rank(status'[PlayerAt(v)]) >= 2
  PROVE  Stage(v)'
<1> USE DEF KindAt, PlayerAt, FactionAt
<1>0. KindAt(v) = "name_set" /\ pc[v] \in {"setStatus", "commit"}
        => HoldsRow(v) \/ (pc[v] = "commit" /\ Duplicate(v))
  BY NameSetHoldsRow
<1>1. StageEnds(v)'
  BY DEF Stage, StageEnds, Valid
<1>2. StageMiddle(v)'
  BY DEF Stage, StageMiddle, KindsOf
<1>3. StageRead(v)'
  <2>1. CASE pc[v] \in {"getStatus", "setStatus"}
    <3>1. StageRead(v)
      BY DEF Stage
    <3>3. Busy(v)
      BY <2>1 DEF Busy
    <3>4. pc[v] = "setStatus" /\ KindAt(v) = "name_set" => HoldsRow(v)
      BY <1>0
    <3> HIDE DEF KindAt, PlayerAt, FactionAt
    <3>5. KindAt(v)' = KindAt(v) /\ PlayerAt(v)' = PlayerAt(v) /\ FactionAt(v)' = FactionAt(v)
      BY DEF KindAt, PlayerAt, FactionAt
    <3> QED
      BY <2>1, <3>1, <3>3, <3>4, <3>5 DEF StageRead
  <2>2. CASE pc[v] \notin {"getStatus", "setStatus"}
    BY <2>2 DEF StageRead
  <2> QED
    BY <2>1, <2>2
<1>4. StageCommit(v)'
  <2> SUFFICES ASSUME pc[v] = "commit"
               PROVE  Duplicate(v)' \/ Effective(v)'
    BY DEF StageCommit
  <2>1. Busy(v)
    BY DEF Busy
  <2>2. CASE Duplicate(v)
    BY <2>2 DEF Duplicate
  <2>3. CASE Effective(v) /\ ~ Duplicate(v)
    <3> HIDE DEF KindAt, PlayerAt, FactionAt
    <3>1. KindAt(v)' = KindAt(v) /\ PlayerAt(v)' = PlayerAt(v) /\ FactionAt(v)' = FactionAt(v)
      BY DEF KindAt, PlayerAt, FactionAt
    <3>2. StatusEffect(v)'
      BY <1>0, <2>1, <2>3, <3>1 DEF Effective, StatusEffect
    <3>3. FactionEffect(v)'
      BY <2>1, <2>3, <3>1 DEF Effective, FactionEffect
    <3> QED
      BY <2>3, <3>1, <3>2, <3>3 DEF Effective
  <2> QED
    BY <2>2, <2>3 DEF Stage, StageCommit
<1>5. StageHeld(v)'
  <2>1. ~ Busy(v) => pending[v].initial = {}
    BY DEF Stage, StageEnds, Busy, Clean
  <2> HIDE DEF PlayerAt
  <2>2. PlayerAt(v)' = PlayerAt(v)
    BY DEF PlayerAt
  <2> QED
    BY <2>1, <2>2 DEF Stage, StageHeld
<1> QED
  BY <1>1, <1>2, <1>3, <1>4, <1>5 DEF Stage

(* A step of one worker that leaves the tables alone.                      *)
LEMMA QuietStep ==
  ASSUME IInv, TypeInv', NEW w \in Worker, UNCHANGED <<db, acked>>,
         \A v \in Worker \ {w} :
           pc'[v] = pc[v] /\ task'[v] = task[v] /\ pending'[v] = pending[v],
         Stage(w)',
         \A v \in Worker \ {w} : Apart(v, w)' /\ Apart(w, v)'
  PROVE  IInv'
<1>1. TypeOK' /\ Committed'
  BY DEF TypeInv, IInv, Committed, AckedIsProcessed, StatusFloor, StatusBacked,
         OneInitialFaction, FactionsHavePlayers, db
<1>2. ASSUME NEW v \in Worker \ {w} PROVE Stage(v)'
  <2>1. Stage(v) /\ TypeInv
    BY IInvTypes DEF IInv
  <2>2. pending[v].ledger => task[v] \notin processed
    BY <2>1 DEF Stage, StageHeld
  <2>3. pending[v].initial # {} => initial[PlayerAt(v)] \subseteq pending[v].initial
    BY <2>1 DEF Stage, StageHeld
  <2> QED
    BY <2>1, <2>2, <2>3, StageKept DEF db
<1>3. ASSUME NEW u \in Worker \ {w}, NEW v \in Worker \ {w} PROVE Apart(u, v)'
  BY DEF IInv, Apart, HoldsRow, PlayerAt
<1>4. Apart(w, w)'
  BY DEF Apart
<1> QED
  BY <1>1, <1>2, <1>3, <1>4 DEF IInv

(* A worker with nothing pending is apart from every other.                *)
LEMMA CleanApart ==
  ASSUME NEW v \in Worker, NEW w \in Worker, pending'[w] = Clean
  PROVE  Apart(v, w)' /\ Apart(w, v)'
  BY DEF Apart, HoldsRow, Clean

(* A rollback (dbtx.go, the deferred Rollback) preserves the invariant.    *)
LEMMA FailStep ==
  ASSUME IInv, TypeInv', NEW w \in Worker, Fail(w)
  PROVE  IInv'
<1>1. pc'[w] = "idle" /\ task'[w] = None /\ pending'[w] = Clean
  BY DEF Fail, Finish, Goto, Write, IInv, TypeOK
<1>2. Stage(w)'
  BY <1>1 DEF Stage, StageEnds, StageMiddle, StageRead, StageCommit, StageHeld, Middle, Clean
<1>3. \A v \in Worker \ {w} :
        pc'[v] = pc[v] /\ task'[v] = task[v] /\ pending'[v] = pending[v]
  BY DEF Fail, Finish, Goto, Write, IInv, TypeOK
<1> QED
  BY <1>1, <1>2, <1>3, CleanApart, QuietStep DEF Fail

(* A statement that only decides preserves it, if the stage it reaches     *)
(* holds.                                                                  *)
LEMMA DecideStep ==
  ASSUME IInv, TypeInv', NEW w \in Worker, NEW s, Decide(w, s), Stage(w)'
  PROVE  IInv'
<1>1. \A v \in Worker \ {w} :
        pc'[v] = pc[v] /\ task'[v] = task[v] /\ pending'[v] = pending[v]
  BY DEF Decide, Goto, IInv, TypeOK
<1>2. \A v \in Worker \ {w} : Apart(v, w)' /\ Apart(w, v)'
  BY DEF Decide, IInv, Apart, HoldsRow, PlayerAt
<1> QED
  BY <1>1, <1>2, QuietStep DEF Decide

(* A write that waited for the entries and rows it takes.                  *)
LEMMA ExecuteStep ==
  ASSUME IInv, TypeInv', NEW w \in Worker, NEW x, NEW s, Busy(w),
         Execute(w, x, s), Stage(w)',
         x.ledger => pending[w].ledger \/ LedgerWriters(task[w]) = {},
         x.name # None \/ x.status # None => RowHolders(PlayerAt(w)) \subseteq {w},
         x.initial # {} => x.initial = pending[w].initial \/ InitialWriters(PlayerAt(w)) = {}
  PROVE  IInv'
<1>1. \A v \in Worker \ {w} :
        pc'[v] = pc[v] /\ task'[v] = task[v] /\ pending'[v] = pending[v]
  BY DEF Execute, Goto, Write, IInv, TypeOK
<1>2. task'[w] = task[w] /\ pending'[w] = x
  BY DEF Execute, Write, IInv, TypeOK
<1>3. ASSUME NEW v \in Worker \ {w} PROVE Apart(v, w)' /\ Apart(w, v)'
  <2>1. Apart(v, w) /\ Apart(w, v) /\ Stage(v)
    BY DEF IInv
  <2>2. CASE pending[v] = Clean
    BY <1>1, <2>2, CleanApart
  <2>3. CASE Busy(v)
    <3>1. x.ledger /\ pending[v].ledger => task[v] # task[w]
      BY <2>1, <2>3 DEF Apart, LedgerWriters
    <3>2. (x.name # None \/ x.status # None) /\ HoldsRow(v) => PlayerAt(v) # PlayerAt(w)
      BY <2>3 DEF RowHolders, Serving, HoldsRow, PlayerAt
    <3>3. x.initial # {} /\ pending[v].initial # {} => PlayerAt(v) # PlayerAt(w)
      BY <2>1, <2>3 DEF Apart, InitialWriters, Serving, PlayerAt
    <3> QED
      BY <1>1, <1>2, <3>1, <3>2, <3>3 DEF Apart, HoldsRow, PlayerAt
  <2> QED
    BY <2>1, <2>2, <2>3 DEF Stage, StageEnds, Busy
<1> QED
  BY <1>1, <1>3, QuietStep DEF Execute

(* The initial state satisfies the invariant.                              *)
LEMMA InitIInv ==
  ASSUME Init
  PROVE  IInv
<1>1. TypeOK
  BY DEF Init, TypeOK, Statement, Status, Pending, Clean
<1>2. Committed
  BY DEF Init, Committed, AckedIsProcessed, StatusFloor, StatusBacked, OneInitialFaction,
         FactionsHavePlayers
<1>3. \A w \in Worker : Stage(w)
  BY DEF Init, Stage, StageEnds, StageMiddle, StageRead, StageCommit, StageHeld, Middle, Clean
<1>4. \A v, w \in Worker : Apart(v, w)
  BY DEF Init, Apart, HoldsRow, Clean
<1> QED
  BY <1>1, <1>2, <1>3, <1>4 DEF IInv

(* The arrival of a valid request preserves it.                            *)
LEMMA BeginStep ==
  ASSUME IInv, TypeInv', NEW w \in Worker, NEW t \in Task, Begin(w, t)
  PROVE  IInv'
<1>1. pc'[w] = (IF Kind[t] = "select" THEN "exists" ELSE "insert") /\ task'[w] = t
  BY DEF Begin, Goto, IInv, TypeOK
<1>2. pending'[w] = Clean
  BY DEF Begin, At, IInv, Stage, StageEnds
<1>3. Stage(w)'
  <2>1. StageEnds(w)'
    BY <1>1, <1>2, DomainAssumption DEF Begin, StageEnds, KindAt, Valid
  <2>2. StageMiddle(w)' /\ StageRead(w)' /\ StageCommit(w)'
    BY <1>1 DEF StageMiddle, StageRead, StageCommit, Middle
  <2>3. StageHeld(w)'
    BY <1>2 DEF StageHeld, Clean
  <2> QED
    BY <2>1, <2>2, <2>3 DEF Stage
<1>4. \A v \in Worker \ {w} :
        pc'[v] = pc[v] /\ task'[v] = task[v] /\ pending'[v] = pending[v]
  BY DEF Begin, Goto, IInv, TypeOK
<1> QED
  BY <1>2, <1>3, <1>4, CleanApart, QuietStep DEF Begin

(* A statement whose successor stage is Middle or commit: what remains to  *)
(* be shown of the worker's stage.                                         *)
LEMMA NextStage ==
  ASSUME NEW w \in Worker,
         pc'[w] \in Middle \cup {"commit"},
         task'[w] = task[w], task[w] \in Task, Valid(task[w]),
         StageMiddle(w)', StageRead(w)', StageCommit(w)', StageHeld(w)'
  PROVE  Stage(w)'
  BY DomainAssumption DEF Stage, StageEnds, Middle, Valid

(* The insert into the ledger preserves it.                                *)
LEMMA InsertEventStep ==
  ASSUME IInv, TypeInv', NEW w \in Worker, InsertEvent(w)
  PROVE  IInv'
<1>1. /\ Busy(w) /\ task[w] \in Task /\ Valid(task[w])
      /\ KindAt(w) # "select" /\ pending[w] = Clean
  BY IInvTypes, TaskTyped, DomainAssumption
     DEF InsertEvent, At, Busy, IInv, Stage, StageEnds
<1>2. CASE task[w] \in processed
  <2>1. pc'[w] = "commit" /\ task'[w] = task[w] /\ pending'[w] = Clean
    BY <1>1, <1>2 DEF InsertEvent, Decide, Goto, IInv, TypeOK
  <2>2. StageCommit(w)'
    BY <1>1, <1>2, <2>1 DEF InsertEvent, Decide, StageCommit, Duplicate, KindAt, db
  <2>3. StageMiddle(w)' /\ StageRead(w)' /\ StageHeld(w)'
    BY <2>1 DEF StageMiddle, StageRead, StageHeld, Middle, Clean
  <2>4. Stage(w)'
    BY <1>1, <2>1, <2>2, <2>3, NextStage
  <2> QED
    BY <1>2, <2>4, DecideStep DEF InsertEvent
<1>3. CASE task[w] \notin processed
  <2> DEFINE x == [pending[w] EXCEPT !.ledger = TRUE]
  <2>1. Execute(w, x, AfterInsert(task[w]))
    BY <1>3 DEF InsertEvent
  <2>2. pc'[w] = AfterInsert(task[w]) /\ task'[w] = task[w] /\ pending'[w] = x
    BY <2>1 DEF Execute, Goto, Write, IInv, TypeOK
  <2>3. /\ x.ledger = TRUE /\ x.name = None /\ x.status = None
        /\ x.owned = {} /\ x.initial = {}
    BY <1>1 DEF Clean
  <2>4. /\ pc'[w] \in Middle
        /\ KindAt(w) \in KindsOf(pc'[w])
        /\ pc'[w] = "getStatus" => KindAt(w) = "completed"
        /\ pc'[w] # "setStatus"
        /\ KindAt(w) = "name_set" => pc'[w] = "updateName"
    BY <1>1, <2>2, DomainAssumption DEF AfterInsert, Middle, KindsOf, KindAt, EventKind
  <2> HIDE DEF x
  <2>5. StageMiddle(w)'
    BY <1>1, <2>2, <2>3, <2>4 DEF StageMiddle, KindAt
  <2>6. StageRead(w)' /\ StageCommit(w)'
    BY <2>2, <2>4 DEF StageRead, StageCommit, KindAt, Middle
  <2>7. StageHeld(w)'
    BY <1>3, <2>1, <2>2, <2>3 DEF StageHeld, Execute, db
  <2>8. Stage(w)'
    BY <1>1, <2>2, <2>4, <2>5, <2>6, <2>7, NextStage
  <2> QED
    BY <1>1, <2>1, <2>3, <2>8, ExecuteStep DEF InsertEvent
<1> QED
  BY <1>2, <1>3

(* What is known of a worker in the middle of its transaction.             *)
LEMMA MiddleFacts ==
  ASSUME IInv, NEW w \in Worker, pc[w] \in Middle
  PROVE  /\ Busy(w) /\ task[w] \in Task /\ Valid(task[w])
         /\ PlayerAt(w) \in Player /\ NameOf[task[w]] \in Name
         /\ pending[w] \in Pending
         /\ StageMiddle(w) /\ StageRead(w) /\ StageHeld(w)
<1>1. Busy(w)
  BY DEF Busy, Middle
<1> QED
  BY <1>1, IInvTypes, TaskTyped DEF IInv, Stage, StageEnds, Busy, PlayerAt, TypeInv

(* The update of the name preserves it.                                    *)
LEMMA UpdateNameStep ==
  ASSUME IInv, TypeInv', NEW w \in Worker, UpdateName(w)
  PROVE  IInv'
<1>1. pc[w] \in Middle
  BY DEF UpdateName, At, Middle
<1>2. CASE PlayerAt(w) \notin registered
  BY <1>2, FailStep DEF UpdateName, PlayerAt
<1>3. CASE PlayerAt(w) \in registered
  <2> DEFINE x == [pending[w] EXCEPT !.name = NameOf[task[w]]]
  <2>1. Execute(w, x, "getStatus") /\ RowHolders(PlayerAt(w)) \subseteq {w}
    BY <1>3 DEF UpdateName, PlayerAt
  <2>2. pc'[w] = "getStatus" /\ task'[w] = task[w] /\ pending'[w] = x
    BY <2>1 DEF Execute, Goto, Write, IInv, TypeOK
  <2>3. KindAt(w) = "name_set"
    BY <1>1, MiddleFacts DEF UpdateName, At, StageMiddle, KindsOf
  <2>4. /\ x.ledger = TRUE /\ x.name = NameOf[task[w]] /\ x.status = None
        /\ x.owned = {} /\ x.initial = {}
    BY <1>1, <2>3, MiddleFacts DEF UpdateName, At, StageMiddle, Pending
  <2>5. pending[w].ledger
    BY <1>1, <2>3, MiddleFacts DEF StageMiddle
  <2> HIDE DEF x
  <2>6. StageMiddle(w)'
    BY <2>2, <2>3, <2>4 DEF StageMiddle, KindAt, KindsOf
  <2>7. StageRead(w)' /\ StageCommit(w)'
    BY <1>3, <2>1, <2>2, <2>3 DEF StageRead, StageCommit, KindAt, PlayerAt, Execute, db
  <2>8. StageHeld(w)'
    BY <1>1, <2>1, <2>2, <2>4, <2>5, MiddleFacts DEF StageHeld, Execute, db
  <2>9. Stage(w)'
    BY <1>1, <2>2, <2>6, <2>7, <2>8, MiddleFacts, NextStage DEF Middle
  <2> QED
    BY <1>1, <2>1, <2>4, <2>5, <2>9, MiddleFacts, ExecuteStep
<1> QED
  BY <1>2, <1>3

(* The check that the player exists preserves it.                          *)
LEMMA ExistsStep ==
  ASSUME IInv, TypeInv', NEW w \in Worker, Exists(w)
  PROVE  IInv'
<1>1. CASE PlayerAt(w) \notin registered
  BY <1>1, FailStep DEF Exists, PlayerAt
<1>2. CASE PlayerAt(w) \in registered
  <2>1. Decide(w, "getInitial")
    BY <1>2 DEF Exists, PlayerAt
  <2>2. pc'[w] = "getInitial" /\ task'[w] = task[w] /\ pending'[w] = pending[w]
    BY <2>1 DEF Decide, Goto, IInv, TypeOK
  <2>3. /\ Busy(w) /\ task[w] \in Task /\ Valid(task[w])
        /\ KindAt(w) = "select" /\ pending[w] = Clean
    BY IInvTypes, TaskTyped, DomainAssumption
       DEF Exists, At, Busy, IInv, Stage, StageEnds
  <2>4. StageMiddle(w)'
    BY <2>2, <2>3 DEF StageMiddle, KindAt, KindsOf, Clean
  <2>5. StageRead(w)' /\ StageCommit(w)' /\ StageHeld(w)'
    BY <2>2, <2>3 DEF StageRead, StageCommit, StageHeld, Clean
  <2>6. Stage(w)'
    BY <2>2, <2>3, <2>4, <2>5, NextStage DEF Middle
  <2> QED
    BY <2>1, <2>6, DecideStep
<1> QED
  BY <1>1, <1>2

(* The read of the initial faction preserves it.                           *)
LEMMA GetInitialFactionStep ==
  ASSUME IInv, TypeInv', NEW w \in Worker, GetInitialFaction(w)
  PROVE  IInv'
<1>1. pc[w] = "getInitial" /\ pc[w] \in Middle
  BY DEF GetInitialFaction, At, Middle
<1>2. /\ KindAt(w) \in {"faction_set", "select"}
      /\ pending[w].ledger <=> KindAt(w) # "select"
      /\ pending[w].name = None /\ pending[w].status = None
      /\ pending[w].owned = {} /\ pending[w].initial = {}
  BY <1>1, MiddleFacts DEF StageMiddle, KindsOf
<1>3. CASE Decide(w, "setInitial")
  <2>1. /\ pc'[w] = "setInitial" /\ task'[w] = task[w] /\ pending'[w] = pending[w]
        /\ processed' = processed
    BY <1>3 DEF Decide, Goto, IInv, TypeOK, db
  <2>2. StageMiddle(w)'
    BY <1>2, <2>1 DEF StageMiddle, KindAt, KindsOf
  <2>3. StageRead(w)' /\ StageCommit(w)' /\ StageHeld(w)'
    BY <1>1, <1>2, <2>1, MiddleFacts DEF StageRead, StageCommit, StageHeld
  <2>4. Stage(w)'
    BY <1>1, <2>1, <2>2, <2>3, MiddleFacts, NextStage DEF Middle
  <2> QED
    BY <1>3, <2>4, DecideStep
<1>4. CASE /\ Decide(w, "getStatus")
           /\ KindAt(w) = "faction_set"
           /\ initial[PlayerAt(w)] = {FactionAt(w)}
  <2>1. /\ pc'[w] = "getStatus" /\ task'[w] = task[w] /\ pending'[w] = pending[w]
        /\ processed' = processed /\ initial' = initial /\ registered' = registered
    BY <1>4 DEF Decide, Goto, IInv, TypeOK, db
  <2>2. StageMiddle(w)'
    BY <1>2, <1>4, <2>1 DEF StageMiddle, KindAt, KindsOf
  <2>3. PlayerAt(w) \in registered
    BY <1>1, <1>4, MiddleFacts DEF IInv, Committed, OneInitialFaction, FactionsHavePlayers
  <2>4. StageRead(w)'
    BY <1>4, <2>1, <2>3 DEF StageRead, KindAt, PlayerAt, FactionAt
  <2>5. StageCommit(w)' /\ StageHeld(w)'
    BY <1>1, <1>2, <2>1, MiddleFacts DEF StageCommit, StageHeld
  <2>6. Stage(w)'
    BY <1>1, <2>1, <2>2, <2>4, <2>5, MiddleFacts, NextStage DEF Middle
  <2> QED
    BY <1>4, <2>6, DecideStep
<1>5. CASE Fail(w)
  BY <1>5, FailStep
<1> QED
  BY <1>3, <1>4, <1>5 DEF GetInitialFaction, KindAt, PlayerAt, FactionAt

(* The insert of the initial faction preserves it.                         *)
LEMMA SetInitialFactionStep ==
  ASSUME IInv, TypeInv', NEW w \in Worker, SetInitialFaction(w)
  PROVE  IInv'
<1>1. pc[w] = "setInitial" /\ pc[w] \in Middle
  BY DEF SetInitialFaction, At, Middle
<1>2. /\ KindAt(w) \in {"faction_set", "select"}
      /\ pending[w].ledger <=> KindAt(w) # "select"
      /\ pending[w].name = None /\ pending[w].status = None
  BY <1>1, MiddleFacts DEF StageMiddle, KindsOf
<1>3. CASE Fail(w)
  BY <1>3, FailStep
<1>4. CASE /\ PlayerAt(w) \in registered
           /\ initial[PlayerAt(w)] \subseteq {FactionAt(w)}
           /\ ~ Fail(w)
  <2> DEFINE x == [pending[w] EXCEPT !.owned = {FactionAt(w)}, !.initial = {FactionAt(w)}]
             s == IF KindAt(w) = "select" THEN "commit" ELSE "getStatus"
  <2>1. Execute(w, x, s) /\ InitialWriters(PlayerAt(w)) = {}
    BY <1>4 DEF SetInitialFaction, KindAt, PlayerAt, FactionAt
  <2>2. /\ pc'[w] = s /\ task'[w] = task[w] /\ pending'[w] = x
        /\ processed' = processed /\ initial' = initial /\ registered' = registered
    BY <2>1 DEF Execute, Goto, Write, IInv, TypeOK, db
  <2>3. /\ x.ledger = pending[w].ledger /\ x.name = None /\ x.status = None
        /\ x.owned = {FactionAt(w)} /\ x.initial = {FactionAt(w)}
    BY <1>1, <1>2, MiddleFacts DEF Pending
  <2> HIDE DEF x
  <2>4. StageMiddle(w)'
    BY <1>2, <2>2, <2>3 DEF StageMiddle, KindAt, KindsOf, FactionAt, Middle
  <2>5. StageRead(w)'
    BY <1>2, <1>4, <2>2, <2>3 DEF StageRead, KindAt, PlayerAt, FactionAt
  <2>6. StageCommit(w)'
    <3>1. CASE KindAt(w) = "select"
      BY <1>2, <1>4, <2>2, <2>3, <3>1
         DEF StageCommit, Effective, StatusEffect, FactionEffect, KindAt, PlayerAt, FactionAt
    <3>2. CASE KindAt(w) # "select"
      BY <2>2, <3>2 DEF StageCommit
    <3> QED
      BY <3>1, <3>2
  <2>7. StageHeld(w)'
    BY <1>1, <1>4, <2>2, <2>3, MiddleFacts DEF StageHeld, PlayerAt, FactionAt
  <2>8. Stage(w)'
    BY <1>1, <2>2, <2>4, <2>5, <2>6, <2>7, MiddleFacts, NextStage DEF Middle
  <2> QED
    BY <1>1, <2>1, <2>3, <2>8, MiddleFacts, ExecuteStep
<1> QED
  BY <1>3, <1>4 DEF SetInitialFaction, PlayerAt, FactionAt

(* The insert of an acquired faction preserves it.                         *)
LEMMA AddPlayerFactionStep ==
  ASSUME IInv, TypeInv', NEW w \in Worker, AddPlayerFaction(w)
  PROVE  IInv'
<1>1. pc[w] = "addFaction" /\ pc[w] \in Middle
  BY DEF AddPlayerFaction, At, Middle
<1>2. /\ KindAt(w) = "faction_acquired" /\ pending[w].ledger
      /\ pending[w].name = None /\ pending[w].status = None
      /\ pending[w].initial = {}
  BY <1>1, MiddleFacts DEF StageMiddle, KindsOf
<1>3. CASE PlayerAt(w) \notin registered
  BY <1>3, FailStep DEF AddPlayerFaction, PlayerAt
<1>4. CASE PlayerAt(w) \in registered
  <2> DEFINE x == [pending[w] EXCEPT !.owned = {FactionAt(w)} \ owned[PlayerAt(w)]]
  <2>1. Execute(w, x, "commit")
    BY <1>4 DEF AddPlayerFaction, PlayerAt, FactionAt
  <2>2. /\ pc'[w] = "commit" /\ task'[w] = task[w] /\ pending'[w] = x
        /\ UNCHANGED db
    BY <2>1 DEF Execute, Goto, Write, IInv, TypeOK
  <2>3. /\ x.ledger = TRUE /\ x.name = None /\ x.status = None /\ x.initial = {}
        /\ \/ x.owned = {FactionAt(w)}
           \/ x.owned = {} /\ FactionAt(w) \in owned[PlayerAt(w)]
    <3>1. /\ x.ledger = pending[w].ledger /\ x.name = pending[w].name
          /\ x.status = pending[w].status /\ x.initial = pending[w].initial
          /\ x.owned = {FactionAt(w)} \ owned[PlayerAt(w)]
      BY <1>1, MiddleFacts DEF Pending
    <3>2. pending[w].ledger = TRUE
      BY <1>1, <1>2, MiddleFacts DEF Pending
    <3> HIDE DEF x
    <3> QED
      BY <1>2, <3>1, <3>2
  <2> HIDE DEF x
  <2>4. StageCommit(w)'
    BY <1>2, <1>4, <2>2, <2>3
       DEF StageCommit, Effective, StatusEffect, FactionEffect, KindAt, PlayerAt, FactionAt, db
  <2>5. StageMiddle(w)' /\ StageRead(w)'
    BY <2>2 DEF StageMiddle, StageRead, Middle
  <2>6. StageHeld(w)'
    BY <1>1, <1>2, <2>2, <2>3, MiddleFacts DEF StageHeld, db
  <2>7. Stage(w)'
    BY <1>1, <2>2, <2>4, <2>5, <2>6, MiddleFacts, NextStage
  <2> QED
    BY <1>1, <1>2, <2>1, <2>3, <2>7, MiddleFacts, ExecuteStep
<1> QED
  BY <1>3, <1>4

(* The order of the statuses.                                              *)
LEMMA Ranks ==
  /\ Rank("not_started") = 0 /\ Rank("name_set") = 1
  /\ Rank("faction_set") = 2 /\ Rank("completed") = 3
  BY DEF Rank

(* The unlocked read of the status preserves it.                           *)
LEMMA GetOnboardingStatusStep ==
  ASSUME IInv, TypeInv', NEW w \in Worker, GetOnboardingStatus(w)
  PROVE  IInv'
<1> DEFINE p == PlayerAt(w)
<1>1. pc[w] = "getStatus" /\ pc[w] \in Middle
  BY DEF GetOnboardingStatus, At, Middle
<1>2. /\ KindAt(w) \in {"name_set", "faction_set", "completed"}
      /\ pending[w].ledger
      /\ pending[w].name = IF KindAt(w) = "name_set" THEN NameOf[task[w]] ELSE None
      /\ pending[w].status = None
      /\ pending[w].owned = pending[w].initial
      /\ \/ pending[w].initial = {}
         \/ pending[w].initial = {FactionAt(w)} /\ KindAt(w) = "faction_set"
  BY <1>1, MiddleFacts DEF StageMiddle, KindsOf
<1>3. CASE p \notin registered
  BY <1>3, FailStep DEF GetOnboardingStatus, PlayerAt
<1>4. CASE p \in registered /\ Decide(w, "setStatus")
                            /\ Rank(status[p]) <= Rank(KindAt(w)) /\ status[p] # KindAt(w)
  <2>1. /\ pc'[w] = "setStatus" /\ task'[w] = task[w] /\ pending'[w] = pending[w]
        /\ UNCHANGED db
    BY <1>4 DEF Decide, Goto, IInv, TypeOK
  <2>2. StageMiddle(w)'
    BY <1>2, <2>1 DEF StageMiddle, KindAt, KindsOf, FactionAt
  <2>3. KindAt(w) = "name_set" => status[p] = "not_started"
    BY <1>1, <1>4, MiddleFacts, Ranks DEF IInv, TypeOK, Status
  <2>4. StageRead(w)
    BY <1>1, MiddleFacts
  <2>5. StageRead(w)'
    BY <1>1, <1>4, <2>1, <2>3, <2>4 DEF StageRead, KindAt, PlayerAt, FactionAt, db
  <2>6. StageCommit(w)' /\ StageHeld(w)'
    BY <1>1, <2>1, MiddleFacts DEF StageCommit, StageHeld, PlayerAt, db
  <2>7. Stage(w)'
    BY <1>1, <2>1, <2>2, <2>5, <2>6, MiddleFacts, NextStage DEF Middle
  <2> QED
    BY <1>4, <2>7, DecideStep
<1>5. CASE p \in registered /\ Decide(w, "commit")
                            /\ (Rank(status[p]) > Rank(KindAt(w)) \/ status[p] = KindAt(w))
  <2>1. /\ pc'[w] = "commit" /\ task'[w] = task[w] /\ pending'[w] = pending[w]
        /\ UNCHANGED db
    BY <1>5 DEF Decide, Goto, IInv, TypeOK
  <2>2. /\ KindAt(w) = "name_set" => status[p] # "not_started"
        /\ KindAt(w) \in {"faction_set", "completed"} => Rank(status[p]) >= 2
    BY <1>1, <1>5, MiddleFacts, Ranks DEF IInv, TypeOK, Status
  <2>3. StatusEffect(w)
    BY <1>2, <2>2 DEF StatusEffect
  <2>4. FactionEffect(w)
    BY <1>1, <1>2, MiddleFacts DEF FactionEffect, StageRead
  <2>5. Effective(w)
    BY <1>2, <1>5, <2>3, <2>4 DEF Effective
  <2>6. StageCommit(w)'
    BY <2>1, <2>5 DEF StageCommit, Effective, StatusEffect, FactionEffect,
                      KindAt, PlayerAt, FactionAt, db
  <2>7. StageMiddle(w)' /\ StageRead(w)' /\ StageHeld(w)'
    BY <1>1, <2>1, MiddleFacts DEF StageMiddle, StageRead, StageHeld, Middle, PlayerAt, db
  <2>8. Stage(w)'
    BY <1>1, <2>1, <2>6, <2>7, MiddleFacts, NextStage
  <2> QED
    BY <1>5, <2>8, DecideStep
<1>6. Rank(status[p]) \in Int /\ Rank(KindAt(w)) \in Int
  BY <1>1, <1>2, MiddleFacts, Ranks DEF IInv, TypeOK, Status
<1> QED
  BY <1>3, <1>4, <1>5, <1>6
     DEF GetOnboardingStatus, CanTransition, Target, KindAt, PlayerAt

(* The write of the status, decided on that read, preserves it.            *)
LEMMA UpdateOnboardingStatusStep ==
  ASSUME IInv, TypeInv', NEW w \in Worker, UpdateOnboardingStatus(w)
  PROVE  IInv'
<1> DEFINE x == [pending[w] EXCEPT !.status = KindAt(w)]
<1>1. pc[w] = "setStatus" /\ pc[w] \in Middle
  BY DEF UpdateOnboardingStatus, At, Middle
<1>2. /\ KindAt(w) \in {"name_set", "faction_set", "completed"}
      /\ pending[w].ledger
      /\ pending[w].name = IF KindAt(w) = "name_set" THEN NameOf[task[w]] ELSE None
      /\ pending[w].owned = pending[w].initial
      /\ \/ pending[w].initial = {}
         \/ pending[w].initial = {FactionAt(w)} /\ KindAt(w) = "faction_set"
  BY <1>1, MiddleFacts DEF StageMiddle, KindsOf
<1>3. Execute(w, x, "commit") /\ RowHolders(PlayerAt(w)) \subseteq {w}
  BY DEF UpdateOnboardingStatus, Target, KindAt, PlayerAt
<1>4. /\ pc'[w] = "commit" /\ task'[w] = task[w] /\ pending'[w] = x
      /\ UNCHANGED db
  BY <1>3 DEF Execute, Goto, Write, IInv, TypeOK
<1>5. /\ x.ledger = pending[w].ledger /\ x.name = pending[w].name /\ x.status = KindAt(w)
      /\ x.owned = pending[w].owned /\ x.initial = pending[w].initial
  BY <1>1, MiddleFacts DEF Pending
<1> HIDE DEF x
<1>6. StageRead(w) /\ StageHeld(w)
  BY <1>1, MiddleFacts
<1>7. StatusEffect(w)'
  BY <1>1, <1>2, <1>4, <1>5, <1>6 DEF StatusEffect, StageRead, KindAt, PlayerAt, db
<1>8. FactionEffect(w)'
  BY <1>1, <1>2, <1>4, <1>5, <1>6 DEF FactionEffect, StageRead, KindAt, PlayerAt, FactionAt, db
<1>9. StageCommit(w)'
  BY <1>1, <1>2, <1>4, <1>5, <1>6, <1>7, <1>8
     DEF StageCommit, Effective, StageRead, KindAt, PlayerAt, db
<1>10. StageMiddle(w)' /\ StageRead(w)' /\ StageHeld(w)'
  BY <1>4, <1>5, <1>6 DEF StageMiddle, StageRead, StageHeld, Middle, PlayerAt, db
<1>11. Stage(w)'
  BY <1>1, <1>4, <1>9, <1>10, MiddleFacts, NextStage
<1> QED
  BY <1>1, <1>2, <1>3, <1>5, <1>11, MiddleFacts, ExecuteStep

(* What the invariant says of a transaction at its commit.                 *)
LEMMA CommitFacts ==
  ASSUME IInv, NEW w \in Worker, Commit(w)
  PROVE  /\ Busy(w) /\ task[w] \in Task /\ Valid(task[w])
         /\ PlayerAt(w) \in Player /\ NameOf[task[w]] \in Name
         /\ Duplicate(w) \/ Effective(w)
         /\ StageHeld(w)
         /\ pc'[w] = "respond" /\ task' = task /\ pending'[w] = Clean
         /\ pending[w].initial \subseteq {FactionAt(w)}
         /\ pending[w].initial # {} => pending[w].owned = {FactionAt(w)}
         /\ pending[w].owned # {} => PlayerAt(w) \in registered
<1>1. pc[w] = "commit" /\ Busy(w)
  BY DEF Commit, At, Busy
<1>2. /\ task[w] \in Task /\ Valid(task[w])
      /\ PlayerAt(w) \in Player /\ NameOf[task[w]] \in Name
      /\ Duplicate(w) \/ Effective(w)
      /\ StageHeld(w)
  BY <1>1, IInvTypes, TaskTyped
     DEF IInv, Stage, StageEnds, StageCommit, Busy, PlayerAt, TypeInv
<1>3. pc'[w] = "respond" /\ task' = task /\ pending'[w] = Clean
  BY DEF Commit, Goto, Write, IInv, TypeOK
<1>4. KindAt(w) \in EventKind \cup {"select"}
  BY <1>2, DomainAssumption DEF KindAt
<1>5. CASE Duplicate(w)
  BY <1>1, <1>2, <1>3, <1>5 DEF Duplicate, Clean
<1>6. CASE Effective(w)
  BY <1>1, <1>2, <1>3, <1>4, <1>6 DEF Effective, FactionEffect, EventKind
<1> QED
  BY <1>2, <1>5, <1>6

(* The tables after a commit.                                              *)
LEMMA CommitTables ==
  ASSUME IInv, NEW w \in Worker, Commit(w)
  PROVE  LET p == PlayerAt(w)
             x == pending[w]
         IN  /\ registered' = registered /\ acked' = acked
             /\ processed' = IF x.ledger THEN processed \cup {task[w]} ELSE processed
             /\ name'[p] = IF x.name = None THEN name[p] ELSE x.name
             /\ status'[p] = IF x.status = None THEN status[p] ELSE x.status
             /\ owned'[p] = owned[p] \cup x.owned
             /\ initial'[p] = initial[p] \cup x.initial
             /\ \A q \in Player \ {p} :
                  /\ name'[q] = name[q] /\ status'[q] = status[q]
                  /\ owned'[q] = owned[q] /\ initial'[q] = initial[q]
<1>1. PlayerAt(w) \in Player
  BY CommitFacts
<1> QED
  BY <1>1 DEF Commit, PlayerAt, IInv, TypeOK

(* What a commit does to one player's status and initial faction.          *)
LEMMA CommitKeeps ==
  ASSUME IInv, NEW w \in Worker, Commit(w), NEW q \in Player
  PROVE  /\ Rank(status[q]) >= 1 => Rank(status'[q]) >= 1
         /\ Rank(status[q]) >= 2 => Rank(status'[q]) >= 2
         /\ initial[q] # {} => initial'[q] = initial[q]
<1>1. CASE q # PlayerAt(w)
  BY <1>1, CommitTables
<1>2. CASE q = PlayerAt(w) /\ Duplicate(w)
  <2>1. pending[w].status = None /\ pending[w].initial = {}
    BY <1>2 DEF Duplicate, Clean
  <2>2. status'[q] = status[q] /\ initial'[q] = initial[q] \cup pending[w].initial
    BY <1>2, <2>1, CommitTables
  <2> QED
    BY <2>1, <2>2
<1>3. CASE q = PlayerAt(w) /\ Effective(w)
  <2>1. KindAt(w) \in EventKind \cup {"select"}
    BY CommitFacts, DomainAssumption DEF KindAt
  <2>2. None \notin Status
    BY DomainAssumption
  <2>3. /\ Rank(status[q]) >= 1 => Rank(status'[q]) >= 1
        /\ Rank(status[q]) >= 2 => Rank(status'[q]) >= 2
    <3>1. /\ status[q] \in Status
          /\ status'[q] = IF pending[w].status = None THEN status[q] ELSE pending[w].status
      BY <1>3, CommitTables DEF IInv, TypeOK
    <3>2. \/ status'[q] = status[q]
          \/ status'[q] = "name_set" /\ status[q] = "not_started"
          \/ status'[q] \in {"faction_set", "completed"}
      BY <1>3, <2>1, <3>1 DEF Effective, StatusEffect, EventKind
    <3> QED
      BY <3>2, Ranks
  <2>4. initial[q] # {} => initial'[q] = initial[q]
    <3>1. initial'[q] = initial[q] \cup pending[w].initial
      BY <1>3, CommitTables
    <3>2. /\ pending[w].initial \subseteq {FactionAt(w)}
          /\ pending[w].initial # {} => initial[q] \subseteq pending[w].initial
      BY <1>3, CommitFacts DEF StageHeld
    <3> QED
      BY <3>1, <3>2
  <2> QED
    BY <2>3, <2>4
<1> QED
  BY <1>1, <1>2, <1>3, CommitFacts

(* The committed state stays correct when a transaction becomes visible.   *)
LEMMA CommitCommitted ==
  ASSUME IInv, TypeInv', NEW w \in Worker, Commit(w)
  PROVE  Committed'
<1> DEFINE p == PlayerAt(w)
           x == pending[w]
<1>0. p \in Player /\ KindAt(w) \in EventKind \cup {"select"}
  BY CommitFacts, DomainAssumption DEF KindAt
<1>1. FactionsHavePlayers'
  <2> SUFFICES ASSUME NEW q \in Player, owned'[q] # {} PROVE q \in registered'
    BY DEF FactionsHavePlayers
  <2>1. CASE q = p
    BY <2>1, CommitTables, CommitFacts DEF IInv, Committed, FactionsHavePlayers
  <2>2. CASE q # p
    BY <2>2, CommitTables DEF IInv, Committed, FactionsHavePlayers
  <2> QED
    BY <2>1, <2>2
<1>2. AckedIsProcessed'
  BY CommitTables DEF IInv, Committed, AckedIsProcessed
<1>3. StatusFloor'
  <2> SUFFICES ASSUME NEW e \in processed', Kind[e] \in {"name_set", "faction_set"}
               PROVE  Rank(status'[PlayerOf[e]]) >= Rank(Kind[e])
    BY DEF StatusFloor
  <2>1. PlayerOf[e] \in Player
    BY DomainAssumption DEF TypeInv, TypeOK, Event
  <2>2. CASE e \in processed
    <3>1. Rank(status[PlayerOf[e]]) >= Rank(Kind[e])
      BY <2>2 DEF IInv, Committed, StatusFloor
    <3> QED
      BY <2>1, <3>1, CommitKeeps, Ranks
  <2>3. CASE e \notin processed
    <3>1. x.ledger /\ e = task[w]
      BY <2>3, CommitTables
    <3>2. Effective(w)
      BY <3>1, CommitFacts DEF Duplicate, Clean
    <3>3. /\ status[p] \in Status
          /\ status'[p] = IF x.status = None THEN status[p] ELSE x.status
          /\ None \notin Status
      BY <1>0, CommitTables, DomainAssumption DEF IInv, TypeOK
    <3>4. PlayerOf[e] = p /\ Kind[e] = KindAt(w)
      BY <3>1 DEF PlayerAt, KindAt
    <3>5. CASE KindAt(w) = "name_set"
      <4>1. status'[p] \in Status /\ status'[p] # "not_started"
        BY <3>2, <3>3, <3>5 DEF Effective, StatusEffect, Status
      <4> QED
        BY <3>4, <3>5, <4>1, Ranks DEF Status
    <3>6. CASE KindAt(w) = "faction_set"
      <4>1. status'[p] = "faction_set" \/ Rank(status'[p]) >= 2
        BY <3>2, <3>3, <3>6 DEF Effective, StatusEffect, Status
      <4> QED
        BY <3>4, <3>6, <4>1, Ranks
    <3> QED
      BY <3>4, <3>5, <3>6
  <2> QED
    BY <2>2, <2>3
<1>4. StatusBacked'
  <2> SUFFICES ASSUME NEW q \in Player
               PROVE  /\ status'[q] = "name_set" => name'[q] # None
                      /\ status'[q] = "faction_set" => initial'[q] # {}
    BY DEF StatusBacked
  <2>1. /\ status[q] = "name_set" => name[q] # None
        /\ status[q] = "faction_set" => initial[q] # {}
    BY DEF IInv, Committed, StatusBacked
  <2>2. CASE q # p
    BY <2>1, <2>2, CommitTables
  <2>3. CASE q = p
    <3>1. /\ name'[q] = IF x.name = None THEN name[q] ELSE x.name
          /\ status'[q] = IF x.status = None THEN status[q] ELSE x.status
          /\ initial'[q] = initial[q] \cup x.initial
      BY <2>3, CommitTables
    <3>2. CASE Duplicate(w)
      BY <2>1, <3>1, <3>2 DEF Duplicate, Clean
    <3>3. CASE Effective(w)
      <4>1. x.status = "name_set" => x.name # None
        <5>1. NameOf[task[w]] # None
          BY CommitFacts, DomainAssumption
        <5>2. x.status = "name_set" => KindAt(w) = "name_set"
          BY <1>0, <3>3, DomainAssumption DEF Effective, StatusEffect, EventKind, Status
        <5> QED
          BY <3>3, <5>1, <5>2 DEF Effective
      <4>2. x.status = "faction_set" => initial'[q] # {}
        <5>1. x.status = "faction_set" => KindAt(w) = "faction_set"
          BY <1>0, <3>3, DomainAssumption DEF Effective, StatusEffect, EventKind, Status
        <5> QED
          BY <2>3, <3>1, <3>3, <5>1 DEF Effective, FactionEffect
      <4> QED
        BY <2>1, <3>1, <4>1, <4>2
    <3> QED
      BY <3>2, <3>3, CommitFacts
  <2> QED
    BY <2>2, <2>3
<1>5. OneInitialFaction'
  <2> SUFFICES ASSUME NEW q \in Player
               PROVE  /\ initial'[q] \subseteq owned'[q] \cap Selectable
                      /\ \A f, g \in initial'[q] : f = g
    BY DEF OneInitialFaction
  <2>1. /\ initial[q] \subseteq owned[q] \cap Selectable
        /\ \A f, g \in initial[q] : f = g
    BY DEF IInv, Committed, OneInitialFaction
  <2>2. CASE q # p
    BY <2>1, <2>2, CommitTables
  <2>3. CASE q = p
    <3>1. initial'[q] = initial[q] \cup x.initial /\ owned'[q] = owned[q] \cup x.owned
      BY <2>3, CommitTables
    <3>2. CASE x.initial = {}
      BY <2>1, <3>1, <3>2
    <3>3. CASE x.initial # {}
      <4>1. x.initial = {FactionAt(w)} /\ x.owned = {FactionAt(w)}
        BY <3>3, CommitFacts
      <4>2. initial[q] \subseteq {FactionAt(w)}
        BY <2>3, <3>3, <4>1, CommitFacts DEF StageHeld
      <4>3. FactionAt(w) \in Selectable
        <5>1. Effective(w)
          BY <3>3, CommitFacts DEF Duplicate, Clean
        <5>2. KindAt(w) \in {"faction_set", "select"}
          BY <1>0, <3>3, <5>1 DEF Effective, FactionEffect, EventKind
        <5> QED
          BY <5>2, CommitFacts DEF Valid, KindAt, FactionAt
      <4> QED
        BY <3>1, <4>1, <4>2, <4>3
    <3> QED
      BY <3>2, <3>3
  <2> QED
    BY <2>2, <2>3
<1> QED
  BY <1>1, <1>2, <1>3, <1>4, <1>5 DEF Committed

(* A commit preserves the invariant, of its worker and of the others.      *)
LEMMA CommitStep ==
  ASSUME IInv, TypeInv', NEW w \in Worker, Commit(w)
  PROVE  IInv'
<1>1. Committed'
  BY CommitCommitted
<1>2. \A v \in Worker \ {w} :
        pc'[v] = pc[v] /\ task'[v] = task[v] /\ pending'[v] = pending[v]
  BY DEF Commit, Goto, Write, IInv, TypeOK
<1>3. ASSUME NEW v \in Worker \ {w} PROVE Stage(v)'
  <2>1. Stage(v) /\ TypeInv /\ Apart(v, w)
    BY IInvTypes DEF IInv
  <2>2. pending[v].ledger => task[v] \notin processed'
    BY <2>1, CommitTables DEF Stage, StageHeld, Apart
  <2>3. CASE ~ Busy(v)
    BY <1>2, <2>1, <2>2, <2>3, CommitTables, StageKept
  <2>4. CASE Busy(v)
    <3>1. PlayerAt(v) \in Player
      BY <2>1, <2>4, TaskTyped DEF PlayerAt
    <3>2. owned[PlayerAt(v)] \subseteq owned'[PlayerAt(v)]
      BY <3>1, CommitTables
    <3>3. /\ initial[PlayerAt(v)] # {} => initial'[PlayerAt(v)] = initial[PlayerAt(v)]
          /\ Rank(status[PlayerAt(v)]) >= 2 => Rank(status'[PlayerAt(v)]) >= 2
      BY <3>1, CommitKeeps
    <3>4. pending[v].initial # {} => initial'[PlayerAt(v)] \subseteq pending[v].initial
      <4>1. CASE PlayerAt(v) # PlayerAt(w)
        BY <2>1, <3>1, <4>1, CommitTables DEF Stage, StageHeld
      <4>2. CASE PlayerAt(v) = PlayerAt(w)
        BY <2>1, <3>1, <4>2, CommitTables DEF Stage, StageHeld, Apart
      <4> QED
        BY <4>1, <4>2
    <3>5. HoldsRow(v) => status'[PlayerAt(v)] = status[PlayerAt(v)]
      <4>1. CASE PlayerAt(v) # PlayerAt(w)
        BY <3>1, <4>1, CommitTables
      <4>2. CASE PlayerAt(v) = PlayerAt(w)
        BY <2>1, <3>1, <4>2, CommitTables DEF Apart, HoldsRow
      <4> QED
        BY <4>1, <4>2
    <3>6. registered \subseteq registered' /\ processed \subseteq processed'
      BY CommitTables
    <3> QED
      BY <1>2, <2>1, <2>2, <3>2, <3>3, <3>4, <3>5, <3>6, StageKept
  <2> QED
    BY <2>3, <2>4
<1>4. Stage(w)'
  <2>1. /\ pc'[w] = "respond" /\ task'[w] = task[w] /\ pending'[w] = Clean
        /\ task[w] \in Task /\ Valid(task[w])
    BY CommitFacts
  <2>2. KindAt(w) # "select" => task[w] \in processed'
    BY CommitFacts, CommitTables DEF Duplicate, Effective
  <2>3. StageEnds(w)'
    BY <2>1, <2>2, DomainAssumption DEF StageEnds, KindAt, Valid
  <2>4. StageMiddle(w)' /\ StageRead(w)' /\ StageCommit(w)'
    BY <2>1 DEF StageMiddle, StageRead, StageCommit, Middle
  <2>5. StageHeld(w)'
    BY <2>1 DEF StageHeld, Clean
  <2> QED
    BY <2>3, <2>4, <2>5 DEF Stage
<1>5. ASSUME NEW u \in Worker, NEW v \in Worker PROVE Apart(u, v)'
  <2>1. CASE u = w \/ v = w
    BY <2>1, CommitFacts, CleanApart
  <2>2. CASE u # w /\ v # w
    BY <1>2, <2>2 DEF IInv, Apart, HoldsRow, PlayerAt
  <2> QED
    BY <2>1, <2>2
<1> QED
  BY <1>1, <1>3, <1>4, <1>5 DEF IInv, TypeInv

(* An answer of success preserves it: the ledger holds the event.          *)
LEMMA RespondStep ==
  ASSUME IInv, TypeInv', NEW w \in Worker, Respond(w)
  PROVE  IInv'
<1>1. pc'[w] = "idle" /\ task'[w] = None /\ pending'[w] = Clean
  BY DEF Respond, Finish, Goto, Write, IInv, TypeOK
<1>2. \A v \in Worker \ {w} :
        pc'[v] = pc[v] /\ task'[v] = task[v] /\ pending'[v] = pending[v]
  BY DEF Respond, Finish, Goto, Write, IInv, TypeOK
<1>3. Committed'
  <2>1. {task[w]} \cap Event \subseteq processed
    BY DEF Respond, At, IInv, Stage, StageEnds, KindAt, Event
  <2> QED
    BY <2>1 DEF Respond, IInv, Committed, AckedIsProcessed, StatusFloor, StatusBacked,
                OneInitialFaction, FactionsHavePlayers, db
<1>4. Stage(w)'
  BY <1>1 DEF Stage, StageEnds, StageMiddle, StageRead, StageCommit, StageHeld, Middle, Clean
<1>5. ASSUME NEW v \in Worker \ {w} PROVE Stage(v)'
  <2>1. Stage(v) /\ TypeInv
    BY IInvTypes DEF IInv
  <2> QED
    BY <1>2, <2>1, StageKept DEF Respond, db, Stage, StageHeld
<1>6. ASSUME NEW u \in Worker, NEW v \in Worker PROVE Apart(u, v)'
  <2>1. CASE u = w \/ v = w
    BY <1>1, <2>1, CleanApart
  <2>2. CASE u # w /\ v # w
    BY <1>2, <2>2 DEF IInv, Apart, HoldsRow, PlayerAt
  <2> QED
    BY <2>1, <2>2
<1> QED
  BY <1>3, <1>4, <1>5, <1>6 DEF IInv, TypeInv

(* The operations that run outside the workers disturb no stage.           *)
LEMMA OutsideStep ==
  ASSUME IInv, TypeInv', UNCHANGED <<pc, task, pending, status, initial, processed>>,
         registered \subseteq registered',
         \A p \in Player : owned[p] \subseteq owned'[p],
         Committed'
  PROVE  IInv'
<1>1. ASSUME NEW v \in Worker PROVE Stage(v)'
  <2>1. Stage(v) /\ TypeInv
    BY IInvTypes DEF IInv
  <2>2. Busy(v) => PlayerAt(v) \in Player
    BY <2>1, TaskTyped DEF PlayerAt
  <2> QED
    BY <2>1, <2>2, StageKept DEF Stage, StageHeld
<1>2. \A u, v \in Worker : Apart(u, v)'
  BY DEF IInv, Apart, HoldsRow, PlayerAt
<1> QED
  BY <1>1, <1>2 DEF IInv, TypeInv

(* A registration preserves it.                                            *)
LEMMA RegisterStep ==
  ASSUME IInv, TypeInv', NEW p \in Player, Register(p)
  PROVE  IInv'
<1>1. Committed'
  BY DEF Register, IInv, Committed, AckedIsProcessed, StatusFloor, StatusBacked,
         OneInitialFaction, FactionsHavePlayers
<1> QED
  BY <1>1, OutsideStep DEF Register

(* A PUT of the name preserves it.                                         *)
LEMMA PutNameStep ==
  ASSUME IInv, TypeInv', NEW p \in Player, NEW n \in Name, PutName(p, n)
  PROVE  IInv'
<1>1. StatusBacked'
  BY DomainAssumption DEF PutName, IInv, TypeOK, Committed, StatusBacked
<1>2. Committed'
  BY <1>1 DEF PutName, IInv, Committed, AckedIsProcessed, StatusFloor,
              OneInitialFaction, FactionsHavePlayers
<1> QED
  BY <1>2, OutsideStep DEF PutName

(* A granted faction preserves it.                                         *)
LEMMA GrantStep ==
  ASSUME IInv, TypeInv', NEW p \in Player, NEW f \in Faction, Grant(p, f)
  PROVE  IInv'
<1>1. \A q \in Player : /\ owned[q] \subseteq owned'[q]
                        /\ q # p => owned'[q] = owned[q]
  BY DEF Grant, IInv, TypeOK
<1>2. Committed'
  BY <1>1 DEF Grant, IInv, Committed, AckedIsProcessed, StatusFloor, StatusBacked,
              OneInitialFaction, FactionsHavePlayers
<1> QED
  BY <1>1, <1>2, OutsideStep DEF Grant

(* Every step preserves the invariant.                                     *)
LEMMA IInvStep ==
  ASSUME IInv, [Next]_vars
  PROVE  IInv'
<1>1. TypeInv'
  BY IInvTypes, TypeStep DEF IInv
<1>2. ASSUME NEW w \in Worker, Serve(w) PROVE IInv'
  BY <1>1, <1>2, InsertEventStep, UpdateNameStep, ExistsStep, GetInitialFactionStep,
     SetInitialFactionStep, AddPlayerFactionStep, GetOnboardingStatusStep,
     UpdateOnboardingStatusStep, CommitStep, RespondStep DEF Serve
<1>3. ASSUME NEW w \in Worker, NEW t \in Task, Begin(w, t) PROVE IInv'
  BY <1>1, <1>3, BeginStep
<1>4. ASSUME NEW w \in Worker, Abort(w) PROVE IInv'
  BY <1>1, <1>4, FailStep DEF Abort
<1>5. ASSUME NEW p \in Player, Register(p) PROVE IInv'
  BY <1>1, <1>5, RegisterStep
<1>6. ASSUME NEW p \in Player, NEW n \in Name, PutName(p, n) PROVE IInv'
  BY <1>1, <1>6, PutNameStep
<1>7. ASSUME NEW p \in Player, NEW f \in Faction, Grant(p, f) PROVE IInv'
  BY <1>1, <1>7, GrantStep
<1>8. CASE UNCHANGED vars
  <2>1. Committed'
    BY <1>8 DEF vars, IInv, Committed, AckedIsProcessed, StatusFloor, StatusBacked,
                OneInitialFaction, FactionsHavePlayers
  <2> QED
    BY <1>1, <1>8, <2>1, OutsideStep DEF vars
<1> QED
  BY <1>2, <1>3, <1>4, <1>5, <1>6, <1>7, <1>8 DEF Next, Work, Fault

----------------------------------------------------------------------------
(* The theorems.                                                           *)

(* The inductive invariant holds in every reachable state.                 *)
THEOREM Invariance == Spec => []IInv
<1>1. Init => IInv
  BY InitIInv
<1>2. IInv /\ [Next]_vars => IInv'
  BY IInvStep
<1> QED
  BY <1>1, <1>2, PTL DEF Spec

(* Every variable has its type.                                            *)
THEOREM TypeCorrect == Spec => []TypeOK
<1>1. IInv => TypeOK
  BY DEF IInv
<1> QED
  BY <1>1, Invariance, PTL

(* A delivery is acknowledged only when the ledger holds its event.        *)
THEOREM NoLostEvent == Spec => []AckedIsProcessed
<1>1. IInv => AckedIsProcessed
  BY DEF IInv, Committed
<1> QED
  BY <1>1, Invariance, PTL

(* No stale read lowers the status below what an applied name-set or       *)
(* faction-set event reached.                                              *)
THEOREM FloorHolds == Spec => []StatusFloor
<1>1. IInv => StatusFloor
  BY DEF IInv, Committed
<1> QED
  BY <1>1, Invariance, PTL

(* The status never announces data the tables do not hold.                 *)
THEOREM StatusIsBacked == Spec => []StatusBacked
<1>1. IInv => StatusBacked
  BY DEF IInv, Committed
<1> QED
  BY <1>1, Invariance, PTL

(* One selectable initial faction at most, in every reachable state.       *)
THEOREM AtMostOneInitial == Spec => []OneInitialFaction
<1>1. IInv => OneInitialFaction
  BY DEF IInv, Committed
<1> QED
  BY <1>1, Invariance, PTL

(* No step changes an initial faction that is committed.                   *)
THEOREM InitialChoiceIsFinal == Spec => InitialIsFinal
<1>1. ASSUME IInv, [Next]_vars, NEW p \in Player, initial[p] # {}
      PROVE  initial'[p] = initial[p]
  <2>1. ASSUME NEW w \in Worker, Commit(w) PROVE initial'[p] = initial[p]
    BY <1>1, <2>1, CommitKeeps
  <2>2. CASE UNCHANGED initial
    BY <2>2
  <2> QED
    BY <1>1, <2>1, <2>2
       DEF Next, Work, Fault, vars, db, Begin, Serve, InsertEvent, UpdateName, Exists,
           GetInitialFaction, SetInitialFaction, AddPlayerFaction, GetOnboardingStatus,
           UpdateOnboardingStatus, Respond, Abort, Register, PutName, Grant,
           Decide, Execute, Fail
<1>2. IInv /\ [Next]_vars
        => [\A p \in Player : initial[p] # {} => initial'[p] = initial[p]]_vars
  BY <1>1
<1> QED
  BY <1>2, Invariance, PTL DEF Spec, InitialIsFinal

----------------------------------------------------------------------------
(* The refinement of OnboardingEffects.  A commit maps to the event or the *)
(* selection it carries, an answer to an acknowledgement, and every other  *)
(* statement of a worker to a stutter.                                     *)

(* Both specifications speak of the same events and the same order of the  *)
(* statuses (they share OnboardingDomain).                                 *)
LEMMA SameDomain ==
  /\ Effects!Event = Event
  /\ \A s : Effects!Rank(s) = Rank(s)
  BY DEF Effects!Event, Event, Effects!Rank, Rank

(* The commit of a duplicate changes nothing an observer sees.             *)
LEMMA DuplicateStutters ==
  ASSUME IInv, NEW w \in Worker, Commit(w), Duplicate(w)
  PROVE  UNCHANGED Effects!effects
<1>1. pending[w] = Clean
  BY DEF Duplicate
<1>2. /\ owned' = owned /\ initial' = initial
      /\ name' = name /\ status' = status /\ processed' = processed
  BY <1>1 DEF Commit, Clean, IInv, TypeOK
<1> QED
  BY <1>2 DEF Commit, Effects!effects

(* The commit of a transaction that carries its effect is the step of the  *)
(* abstract specification for that task.                                   *)
LEMMA CommitImplements ==
  ASSUME IInv, NEW w \in Worker, Commit(w), Effective(w)
  PROVE  Effects!Next
<1> DEFINE e == task[w]
           p == PlayerOf[e]
           f == FactionOf[e]
           x == pending[w]
<1>1. /\ e \in Task /\ p \in Player /\ f \in Faction
      /\ p \in registered
      /\ Kind[e] \in EventKind \cup {"select"}
  BY CommitFacts, DomainAssumption DEF Effective, PlayerAt
<1>2. /\ x.ledger <=> Kind[e] # "select"
      /\ x.ledger => e \notin processed
      /\ x.initial # {} => initial[p] \subseteq x.initial
  BY CommitFacts DEF Effective, StageHeld, KindAt, PlayerAt
<1>3. /\ processed' = IF x.ledger THEN processed \cup {e} ELSE processed
      /\ name' = IF x.name = None THEN name ELSE [name EXCEPT ![p] = x.name]
      /\ status' = IF x.status = None THEN status ELSE [status EXCEPT ![p] = x.status]
      /\ owned' = [owned EXCEPT ![p] = @ \cup x.owned]
      /\ initial' = [initial EXCEPT ![p] = @ \cup x.initial]
      /\ UNCHANGED <<registered, acked>>
  BY DEF Commit
<1>4. /\ name \in [Player -> Name \cup {None}]
      /\ status \in [Player -> Status]
      /\ owned \in [Player -> SUBSET Faction]
      /\ initial \in [Player -> SUBSET Faction]
      /\ NameOf[e] # None
      /\ None \notin Status
  BY <1>1, DomainAssumption DEF IInv, TypeOK
<1>5. Kind[e] # "select" => e \in Event /\ Effects!Enter(e)
  BY <1>1, <1>2, <1>3, SameDomain DEF Effects!Enter, Event
<1>6. CASE Kind[e] = "name_set"
  <2>1. x.name = NameOf[e] /\ x.owned = {} /\ x.initial = {}
    BY <1>6 DEF Effective, FactionEffect, KindAt
  <2>2. owned' = owned /\ initial' = initial /\ name' = [name EXCEPT ![p] = NameOf[e]]
    BY <1>3, <1>4, <2>1
  <2>3. status' = [status EXCEPT ![p] = IF @ = "not_started" THEN "name_set" ELSE @]
    <3>1. \/ x.status = None /\ status[p] # "not_started"
          \/ x.status = "name_set" /\ status[p] = "not_started"
      BY <1>6 DEF Effective, StatusEffect, KindAt, PlayerAt
    <3> QED
      BY <1>3, <1>4, <3>1 DEF Status
  <2>4. Effects!ApplyNameSet(e)
    BY <1>5, <1>6, <2>2, <2>3 DEF Effects!ApplyNameSet
  <2> QED
    BY <1>5, <1>6, <2>4, SameDomain DEF Effects!Next
<1>7. CASE Kind[e] = "faction_set"
  <2>1. /\ x.name = None
        /\ x.owned = x.initial
        /\ x.initial = {f} \/ (x.initial = {} /\ initial[p] = {f})
    BY <1>7 DEF Effective, FactionEffect, KindAt, PlayerAt, FactionAt
  <2>2. /\ initial[p] \subseteq {f}
        /\ initial' = [initial EXCEPT ![p] = {f}]
    BY <1>1, <1>2, <1>3, <1>4, <2>1
  <2>3. owned' = [owned EXCEPT ![p] = @ \cup {f}]
    <3>1. initial[p] \subseteq owned[p]
      BY <1>1 DEF IInv, Committed, OneInitialFaction
    <3>2. owned[p] \cup x.owned = owned[p] \cup {f}
      BY <2>1, <3>1
    <3> QED
      BY <1>3, <1>4, <3>2
  <2>4. \/ status' = [status EXCEPT ![p] = "faction_set"]
        \/ Rank(status[p]) >= 2 /\ status' = status
    <3>1. (x.status = None /\ Rank(status[p]) >= 2) \/ x.status = "faction_set"
      BY <1>7 DEF Effective, StatusEffect, KindAt, PlayerAt
    <3> QED
      BY <1>3, <1>4, <3>1 DEF Status
  <2>5. Effects!ApplyFactionSet(e)
    BY <1>3, <1>5, <1>7, <2>1, <2>2, <2>3, <2>4, SameDomain DEF Effects!ApplyFactionSet
  <2> QED
    BY <1>5, <1>7, <2>5, SameDomain DEF Effects!Next
<1>8. CASE Kind[e] = "completed"
  <2>1. x.name = None /\ x.owned = {} /\ x.initial = {}
    BY <1>8 DEF Effective, FactionEffect, KindAt
  <2>2. owned' = owned /\ initial' = initial /\ name' = name
    BY <1>3, <1>4, <2>1
  <2>3. \/ status' = [status EXCEPT ![p] = "completed"]
        \/ Rank(status[p]) >= 2 /\ status' = status
    <3>1. (x.status = None /\ Rank(status[p]) >= 2) \/ x.status = "completed"
      BY <1>8 DEF Effective, StatusEffect, KindAt, PlayerAt
    <3> QED
      BY <1>3, <1>4, <3>1 DEF Status
  <2>4. Effects!ApplyCompleted(e)
    BY <1>5, <1>8, <2>2, <2>3, SameDomain DEF Effects!ApplyCompleted
  <2> QED
    BY <1>5, <1>8, <2>4, SameDomain DEF Effects!Next
<1>9. CASE Kind[e] = "faction_acquired"
  <2>1. /\ x.name = None /\ x.status = None /\ x.initial = {}
        /\ x.owned = {f} \/ (x.owned = {} /\ f \in owned[p])
    BY <1>9 DEF Effective, StatusEffect, FactionEffect, KindAt, PlayerAt, FactionAt
  <2>2. initial' = initial /\ name' = name /\ status' = status
    BY <1>3, <1>4, <2>1
  <2>3. owned' = [owned EXCEPT ![p] = @ \cup {f}]
    <3>1. owned[p] \cup x.owned = owned[p] \cup {f}
      BY <2>1
    <3> QED
      BY <1>3, <1>4, <3>1
  <2>4. Effects!ApplyFactionAcquired(e)
    BY <1>5, <1>9, <2>2, <2>3 DEF Effects!ApplyFactionAcquired
  <2> QED
    BY <1>5, <1>9, <2>4, SameDomain DEF Effects!Next
<1>10. CASE Kind[e] = "select"
  <2>1. /\ x.name = None /\ x.status = None /\ ~ x.ledger
        /\ x.owned = {f} /\ x.initial = {f}
    BY <1>2, <1>10 DEF Effective, StatusEffect, FactionEffect, KindAt, FactionAt
  <2>2. initial[p] \subseteq {f}
    BY <1>2, <2>1
  <2>3. initial' = [initial EXCEPT ![p] = {f}]
    BY <1>3, <1>4, <2>1, <2>2
  <2>4. Effects!Select(p, f)
    BY <1>1, <1>3, <2>1, <2>2, <2>3 DEF Effects!Select
  <2> QED
    BY <1>1, <2>4 DEF Effects!Next
<1> QED
  BY <1>1, <1>6, <1>7, <1>8, <1>9, <1>10 DEF EventKind

(* An answer of success acknowledges an event of the ledger, or answers a  *)
(* selection and changes nothing.                                          *)
LEMMA RespondImplements ==
  ASSUME IInv, NEW w \in Worker, Respond(w)
  PROVE  Effects!Next \/ UNCHANGED Effects!effects
<1>1. UNCHANGED db /\ acked' = acked \cup ({task[w]} \cap Event)
  BY DEF Respond
<1>2. CASE task[w] \in Event
  <2>1. task[w] \in processed
    BY <1>2 DEF Respond, At, IInv, Stage, StageEnds, KindAt, Event
  <2>2. Effects!Ack(task[w])
    BY <1>1, <1>2, <2>1 DEF Effects!Ack, db
  <2> QED
    BY <1>2, <2>2, SameDomain DEF Effects!Next
<1>3. CASE task[w] \notin Event
  BY <1>1, <1>3 DEF db, Effects!effects
<1> QED
  BY <1>2, <1>3

(* Every step of the service is a step of the abstract specification or    *)
(* changes nothing an observer of it sees.                                 *)
LEMMA StepImplements ==
  ASSUME IInv, [Next]_vars
  PROVE  Effects!Next \/ UNCHANGED Effects!effects
<1>1. ASSUME NEW w \in Worker, Commit(w)
      PROVE  Effects!Next \/ UNCHANGED Effects!effects
  BY <1>1, CommitFacts, DuplicateStutters, CommitImplements
<1>2. ASSUME NEW w \in Worker, Respond(w)
      PROVE  Effects!Next \/ UNCHANGED Effects!effects
  BY <1>2, RespondImplements
<1>3. ASSUME NEW p \in Player, Register(p)
      PROVE  Effects!Next
  BY <1>3 DEF Register, Effects!Register, Effects!Next
<1>4. ASSUME NEW p \in Player, NEW n \in Name, PutName(p, n)
      PROVE  Effects!Next
  BY <1>4 DEF PutName, Effects!PutName, Effects!Next
<1>5. ASSUME NEW p \in Player, NEW f \in Faction, Grant(p, f)
      PROVE  Effects!Next
  BY <1>5 DEF Grant, Effects!Grant, Effects!Next
<1>6. CASE UNCHANGED <<db, acked>>
  BY <1>6 DEF db, Effects!effects
<1> QED
  BY <1>1, <1>2, <1>3, <1>4, <1>5, <1>6
     DEF Next, Work, Fault, vars, db, Begin, Serve, InsertEvent, UpdateName, Exists,
         GetInitialFaction, SetInitialFaction, AddPlayerFaction, GetOnboardingStatus,
         UpdateOnboardingStatus, Abort, Decide, Execute, Fail

(* Each event takes effect exactly in the step that enters it in the       *)
(* ledger, and an event in the ledger changes nothing again: the           *)
(* transactions implement the abstract specification.                      *)
THEOREM ImplementsEffects == Spec => EffectsSpec
<1>1. Init => Effects!Init
  BY DEF Init, Effects!Init
<1>2. IInv /\ [Next]_vars => [Effects!Next]_Effects!effects
  BY StepImplements
<1> QED
  BY <1>1, <1>2, Invariance, PTL DEF Spec, EffectsSpec, Effects!Spec

----------------------------------------------------------------------------
(* One request at a time.                                                  *)

(* Before its status is written a transaction has no status pending.       *)
LEMMA NoStatusPending ==
  ASSUME IInv, NEW v \in Worker, Busy(v), pc[v] # "commit"
  PROVE  pending[v] \in Pending /\ pending[v].status = None
<1>1. Stage(v) /\ pc[v] \in Statement \cup {"respond"} /\ pending[v] \in Pending
  BY DEF IInv, TypeOK, Busy
<1>2. CASE pc[v] \in Middle
  BY <1>1, <1>2 DEF Stage, StageMiddle
<1>3. CASE pc[v] \in {"insert", "exists", "respond"}
  BY <1>1, <1>3 DEF Stage, StageEnds, Clean
<1>. QED
  BY <1>1, <1>2, <1>3 DEF Statement, Middle

(* A worker about which nothing is pending has nothing to be stale.        *)
LEMMA QuietIsFresh ==
  ASSUME NEW v \in Worker, pc'[v] # "setStatus", pending'[v].status = None
  PROVE  Fresh(v)'
  BY DEF Fresh

(* What a worker does keeps its own view of the status fresh.              *)
LEMMA OwnStepFresh ==
  ASSUME IInv, IInv', NEW v \in Worker, Fresh(v),
         Serve(v) \/ Abort(v) \/ \E t \in Task : Begin(v, t)
  PROVE  Fresh(v)'
<1>1. CASE pc'[v] \in {"idle", "insert", "exists", "respond"}
  <2>1. pending'[v] = Clean
    BY <1>1 DEF IInv, Stage, StageEnds
  <2>. QED
    BY <1>1, <2>1, QuietIsFresh DEF Clean
<1>2. CASE \/ InsertEvent(v) \/ UpdateName(v) \/ Exists(v) \/ GetInitialFaction(v)
           \/ SetInitialFaction(v) \/ AddPlayerFaction(v)
  <2>1. pending[v] \in Pending /\ pending[v].status = None
    BY <1>2, NoStatusPending
       DEF InsertEvent, UpdateName, Exists, GetInitialFaction, SetInitialFaction,
           AddPlayerFaction, At, Busy
  <2>2. /\ InsertEvent(v) => task[v] \in Event
        /\ pending \in [Worker -> Pending] /\ pc \in [Worker -> Statement \cup {"idle", "respond"}]
    BY <1>2, IInvTypes, TaskTyped
       DEF InsertEvent, At, Busy, IInv, TypeOK, Stage, StageEnds, KindAt, Event
  <2>3. pending'[v].status = None
    <3>1. CASE Fail(v)
      BY <2>2, <3>1 DEF Fail, Finish, Write, Clean
    <3>2. CASE UNCHANGED pending
      BY <2>1, <3>2
    <3>. DEFINE x == pending[v]
    <3>3. CASE ~ Fail(v) /\ (InsertEvent(v) \/ UpdateName(v)) /\ pending' # pending
      <4>1. \/ pending'[v] = [x EXCEPT !.ledger = TRUE]
            \/ pending'[v] = [x EXCEPT !.name = NameOf[task[v]]]
        BY <2>2, <3>3 DEF InsertEvent, UpdateName, Decide, Execute, Write
      <4>. QED
        BY <2>1, <4>1 DEF Pending
    <3>4. CASE ~ Fail(v) /\ SetInitialFaction(v)
      <4>. DEFINE f == {FactionOf[task[v]]}
      <4>1. pending'[v] = [x EXCEPT !.owned = f, !.initial = f]
        BY <2>2, <3>4 DEF SetInitialFaction, Execute, Write
      <4>. QED
        BY <2>1, <4>1 DEF Pending
    <3>5. CASE ~ Fail(v) /\ AddPlayerFaction(v)
      <4>. DEFINE f == {FactionOf[task[v]]} \ owned[PlayerOf[task[v]]]
      <4>1. pending'[v] = [x EXCEPT !.owned = f]
        BY <2>2, <3>5 DEF AddPlayerFaction, Execute, Write
      <4>. QED
        BY <2>1, <4>1 DEF Pending
    <3>. QED
      BY <1>2, <3>1, <3>2, <3>3, <3>4, <3>5 DEF Exists, GetInitialFaction, Decide
  <2>4. pc'[v] # "setStatus"
    BY <1>2, <2>2, AfterInsertStatement
       DEF InsertEvent, UpdateName, Exists, GetInitialFaction, SetInitialFaction,
           AddPlayerFaction, Decide, Execute, Fail, Finish, Goto
  <2>. QED
    BY <2>3, <2>4, QuietIsFresh
<1>3. CASE GetOnboardingStatus(v) /\ ~ Fail(v)
  <2>1. pending[v].status = None
    BY <1>3, NoStatusPending DEF GetOnboardingStatus, At, Busy
  <2>2. /\ UNCHANGED <<status, task, pending>>
        /\ pc'[v] = "setStatus" => CanTransition(status[PlayerAt(v)], Target(task[v]))
    BY <1>3 DEF GetOnboardingStatus, Decide, Goto, db, PlayerAt, IInv, TypeOK
  <2>. QED
    BY <2>1, <2>2 DEF Fresh, PlayerAt
<1>4. CASE UpdateOnboardingStatus(v)
  <2>1. CanTransition(status[PlayerAt(v)], Target(task[v]))
    BY <1>4 DEF UpdateOnboardingStatus, At, Fresh
  <2>2. pending[v] \in Pending
    BY DEF IInv, TypeOK
  <2>3. /\ UNCHANGED <<status, task>> /\ pc'[v] = "commit"
        /\ pending'[v].status = Target(task[v])
    BY <1>4, <2>2 DEF UpdateOnboardingStatus, Execute, Write, Goto, db, IInv, TypeOK, Pending
  <2>. QED
    BY <2>1, <2>3 DEF Fresh, PlayerAt
<1>5. CASE \/ Fail(v) \/ Commit(v) \/ Respond(v) \/ \E t \in Task : Begin(v, t)
  <2>1. pc'[v] \in {"idle", "insert", "exists", "respond"}
    BY <1>5 DEF Fail, Commit, Respond, Begin, Finish, Goto, IInv, TypeOK
  <2>. QED
    BY <1>1, <2>1
<1>. QED
  BY <1>2, <1>3, <1>4, <1>5 DEF Serve, Abort

(* A step leaves the other workers alone, and only a commit changes a      *)
(* status.                                                                 *)
LEMMA StepScope ==
  ASSUME IInv, [Next]_vars, NEW v \in Worker,
         ~ (Serve(v) \/ Abort(v) \/ \E t \in Task : Begin(v, t))
  PROVE  /\ pc'[v] = pc[v] /\ task'[v] = task[v] /\ pending'[v] = pending[v]
         /\ UNCHANGED status \/ \E w \in Worker \ {v} : Commit(w)
<1>. USE DEF IInv, TypeOK, Goto, Write, Finish, Decide, Execute, Fail, db
<1>1. ASSUME NEW w \in Worker \ {v}, Serve(w) /\ ~ Commit(w)
      PROVE  /\ pc'[v] = pc[v] /\ task'[v] = task[v] /\ pending'[v] = pending[v]
             /\ UNCHANGED status
  BY <1>1 DEF Serve, InsertEvent, UpdateName, Exists, GetInitialFaction, SetInitialFaction,
              AddPlayerFaction, GetOnboardingStatus, UpdateOnboardingStatus, Respond
<1>2. ASSUME NEW w \in Worker \ {v}, Commit(w)
      PROVE  pc'[v] = pc[v] /\ task'[v] = task[v] /\ pending'[v] = pending[v]
  BY <1>2 DEF Commit
<1>3. ASSUME NEW w \in Worker \ {v}, Abort(w) \/ \E t \in Task : Begin(w, t)
      PROVE  /\ pc'[v] = pc[v] /\ task'[v] = task[v] /\ pending'[v] = pending[v]
             /\ UNCHANGED status
  BY <1>3 DEF Abort, Begin
<1>4. CASE \E p \in Player : \/ Register(p)
                             \/ \E n \in Name : PutName(p, n)
                             \/ \E f \in Faction : Grant(p, f)
  BY <1>4 DEF Register, PutName, Grant
<1>5. CASE UNCHANGED vars
  BY <1>5 DEF vars
<1>. QED
  BY <1>1, <1>2, <1>3, <1>4, <1>5 DEF Next, Work, Fault

(* One request at a time: the status that was read stays the one in the    *)
(* row, and a commit moves it forward.                                     *)
LEMMA AloneStep ==
  ASSUME IInv, IInv', [Next]_vars,
         \A v, w \in Worker : Busy(v) /\ Busy(w) => v = w,
         \A w \in Worker : Fresh(w)
  PROVE  /\ \A v \in Worker : Fresh(v)'
         /\ \A p \in Player : Rank(status'[p]) >= Rank(status[p])
<1>1. ASSUME NEW v \in Worker PROVE Fresh(v)'
  <2>1. CASE Serve(v) \/ Abort(v) \/ \E t \in Task : Begin(v, t)
    BY <2>1, OwnStepFresh
  <2>2. CASE ~ (Serve(v) \/ Abort(v) \/ \E t \in Task : Begin(v, t))
    <3>1. /\ pc'[v] = pc[v] /\ task'[v] = task[v] /\ pending'[v] = pending[v]
          /\ UNCHANGED status \/ \E w \in Worker \ {v} : Commit(w)
      BY <2>2, StepScope
    <3>2. CASE UNCHANGED status
      BY <3>1, <3>2 DEF Fresh, PlayerAt
    <3>3. ASSUME NEW w \in Worker \ {v}, Commit(w) PROVE Fresh(v)'
      <4>1. ~ Busy(v)
        BY <3>3, CommitFacts
      <4>2. pc[v] = "idle" /\ pending[v] = Clean
        BY <4>1 DEF Busy, IInv, Stage, StageEnds
      <4>. QED
        BY <3>1, <4>2, QuietIsFresh DEF Clean
    <3>. QED
      BY <3>1, <3>2, <3>3
  <2>. QED
    BY <2>1, <2>2
<1>2. ASSUME NEW p \in Player PROVE Rank(status'[p]) >= Rank(status[p])
  <2>1. status[p] \in Status /\ Rank(status[p]) \in Nat
    BY Ranks DEF IInv, TypeOK, Status
  <2>2. CASE status'[p] = status[p]
    BY <2>1, <2>2
  <2>3. ASSUME NEW w \in Worker, Commit(w) PROVE Rank(status'[p]) >= Rank(status[p])
    <3>1. CASE p # PlayerAt(w) \/ pending[w].status = None
      BY <2>2, <2>3, <3>1, CommitTables
    <3>2. CASE p = PlayerAt(w) /\ pending[w].status # None
      <4>1. status'[p] = pending[w].status
        BY <2>3, <3>2, CommitTables
      <4>2. CanTransition(status[p], pending[w].status)
        BY <3>2 DEF Fresh
      <4>3. Rank(status'[p]) \in Nat
        BY Ranks DEF IInv, TypeOK, Status
      <4>. QED
        BY <2>1, <4>1, <4>2, <4>3 DEF CanTransition
    <3>. QED
      BY <3>1, <3>2
  <2>4. CASE ~ \E w \in Worker : Commit(w)
    <3>1. UNCHANGED status
      BY <2>4 DEF Next, Work, Fault, Serve, InsertEvent, UpdateName, Exists, GetInitialFaction,
                  SetInitialFaction, AddPlayerFaction, GetOnboardingStatus,
                  UpdateOnboardingStatus, Respond, Abort, Begin, Register, PutName, Grant,
                  Decide, Execute, Fail, db, vars
    <3>. QED
      BY <2>2, <3>1
  <2>. QED
    BY <2>3, <2>4
<1>. QED
  BY <1>1, <1>2

(* The history of overlap adds to a behaviour of the service.              *)
LEMMA SerialIsSpec == SerialSpec => Spec
<1>1. SerialInit => Init
  BY DEF SerialInit
<1>2. [SerialNext]_<<vars, overlapped>> => [Next]_vars
  BY DEF SerialNext
<1>. QED
  BY <1>1, <1>2, PTL DEF SerialSpec, Spec

(* What a step says of the history.                                        *)
LEMMA OverlapHistory ==
  ASSUME [SerialNext]_<<vars, overlapped>>, ~ overlapped', SerialInv
  PROVE  /\ [Next]_vars /\ ~ overlapped
         /\ \A v, w \in Worker : (Busy(v) /\ Busy(w))' => v = w
<1>1. ASSUME SerialNext
      PROVE  Next /\ ~ overlapped /\ \A v, w \in Worker : (Busy(v) /\ Busy(w))' => v = w
  BY <1>1, Zenon DEF SerialNext
<1>2. ASSUME UNCHANGED <<vars, overlapped>>
      PROVE  UNCHANGED vars /\ ~ overlapped /\ \A v \in Worker : Busy(v)' = Busy(v)
  BY <1>2 DEF vars, Busy
<1>. QED
  BY <1>1, <1>2 DEF SerialInv

(* Reordered, redelivered and interrupted, but one at a time, the requests *)
(* only move the status forward: CanTransition is enough then              *)
(* (advanceOnboardingStatus).                                              *)
THEOREM SerialMovesForward == SerialSpec => SerialOneWay
<1>1. SerialInit => SerialInv
  BY DEF SerialInit, SerialInv, Init, Busy, Fresh, Clean
<1>2. ASSUME IInv, IInv', SerialInv, [SerialNext]_<<vars, overlapped>>
      PROVE  /\ SerialInv'
             /\ ~ overlapped' => \A p \in Player : Rank(status'[p]) >= Rank(status[p])
  <2>. SUFFICES ASSUME ~ overlapped'
                PROVE  /\ \A v, w \in Worker : (Busy(v) /\ Busy(w))' => v = w
                       /\ \A v \in Worker : Fresh(v)'
                       /\ \A p \in Player : Rank(status'[p]) >= Rank(status[p])
    BY DEF SerialInv
  <2>1. /\ [Next]_vars /\ ~ overlapped
        /\ \A v, w \in Worker : (Busy(v) /\ Busy(w))' => v = w
    BY <1>2, OverlapHistory
  <2>. QED
    BY <1>2, <2>1, AloneStep DEF SerialInv
<1>3. IInv /\ IInv' /\ SerialInv /\ [SerialNext]_<<vars, overlapped>> => SerialInv'
  BY <1>2
<1>4. IInv /\ IInv' /\ SerialInv /\ [SerialNext]_<<vars, overlapped>> =>
        [~ overlapped' =>
           \A p \in Player : Rank(status'[p]) >= Rank(status[p])]_<<vars, overlapped>>
  BY <1>2
<1>. QED
  BY <1>1, <1>3, <1>4, SerialIsSpec, Invariance, PTL DEF SerialSpec, SerialOneWay
============================================================================
