-------------------------- MODULE DailyBattleProofs -------------------------
(***************************************************************************)
(* Proofs about module DailyBattle, for every set of workers, players and  *)
(* games, every limit and every number of days.                            *)
(***************************************************************************)
EXTENDS DailyBattleInvariant, FiniteSetTheorems, TLAPS

----------------------------------------------------------------------------
(* Finite sets.                                                            *)

(* The workers are finitely many and at least one.                         *)
LEMMA WorkerCount ==
  /\ Cardinality(Worker) \in Nat
  /\ Cardinality(Worker) >= 1
<1>1. Cardinality(Worker) \in Nat /\ Cardinality(Worker) # 0
  BY BattleAssumption, FS_CardinalityType, FS_EmptySet
<1> QED
  BY <1>1

(* A set of workers has a size, no greater than that of a set around it.   *)
LEMMA WorkersSize ==
  ASSUME NEW S \in SUBSET Worker, NEW T \in SUBSET S
  PROVE  /\ Cardinality(S) \in Nat /\ Cardinality(T) \in Nat
         /\ Cardinality(T) <= Cardinality(S)
         /\ Cardinality(S) <= Cardinality(Worker)
<1>1. IsFiniteSet(S)
  BY BattleAssumption, FS_Subset
<1> QED
  BY <1>1, BattleAssumption, FS_Subset, FS_CardinalityType

(* The returns of a player's day are finitely many.                        *)
LEMMA ReturnsFinite ==
  ASSUME TypeOK, NEW p, NEW d
  PROVE  IsFiniteSet(Returns(p, d)) /\ Cardinality(Returns(p, d)) \in Nat
<1>1. IsFiniteSet(reverted)
  BY BattleAssumption, FS_Subset DEF TypeOK
<1>2. IsFiniteSet({1, 2})
  <2>1. IsFiniteSet({1})
    BY FS_Singleton
  <2>2. {1, 2} = {1} \cup {2}
    OBVIOUS
  <2> QED
    BY <2>1, <2>2, FS_AddElement
<1>3. IsFiniteSet(reverted \X {1, 2})
  BY <1>1, <1>2, FS_Product
<1>4. Returns(p, d) \in SUBSET (reverted \X {1, 2})
  BY DEF Returns
<1> QED
  BY <1>3, <1>4, FS_Subset, FS_CardinalityType

(* Lowering counts and losing passed increments keeps the bound.           *)
LEMMA OvershootKept ==
  ASSUME Overshoot, TypeOK, TypeOK',
         \A p \in Player, d \in Day :
           count'[p][d] <= count[p][d] /\ Passed(p, d)' \subseteq Passed(p, d)
  PROVE  Overshoot'
<1> SUFFICES ASSUME NEW p \in Player \ Subscriber, NEW d \in Day
             PROVE  count'[p][d] + Cardinality(Passed(p, d)')
                      <= FreeLimit + Cardinality(Worker) - 1
  BY DEF Overshoot
<1>1. /\ Cardinality(Passed(p, d)) \in Nat /\ Cardinality(Passed(p, d)') \in Nat
      /\ Cardinality(Passed(p, d)') <= Cardinality(Passed(p, d))
  <2>1. Passed(p, d) \in SUBSET Worker /\ Passed(p, d)' \in SUBSET Passed(p, d)
    BY DEF Passed
  <2> QED
    BY <2>1, WorkersSize
<1>2. count[p][d] \in Nat /\ count'[p][d] \in Nat
  BY DEF TypeOK
<1> QED
  BY <1>1, <1>2, WorkerCount, BattleAssumption DEF Overshoot

----------------------------------------------------------------------------
(* The shape of a step.                                                    *)

(* The other workers keep what they are doing.                             *)
Others(w) ==
  \A v \in Worker \ {w} :
    pc'[v] = pc[v] /\ job'[v] = job[v] /\ pending'[v] = pending[v]

(* A worker's stage and balance survive what leaves its game unreverted    *)
(* and its locked rows alone.                                              *)
LEMMA StageKept ==
  ASSUME NEW v \in Worker, Stage(v), Balance(v),
         pc'[v] = pc[v], job'[v] = job[v], pending'[v] = pending[v],
         pending[v].marked =>
           /\ GameAt(v) \notin reverted'
           /\ \A p \in Player : p \in pending[v].locked =>
                count'[p][DayAt(v)] = count[p][DayAt(v)]
  PROVE  Stage(v)' /\ Balance(v)'
<1>1. Stage(v)'
  BY DEF Stage
<1>2. GameAt(v)' = GameAt(v) /\ DayAt(v)' = DayAt(v)
  BY DEF GameAt, DayAt
<1>3. \A p \in Player : Executed(v, p)' = Executed(v, p)
  BY <1>2 DEF Executed
<1>4. Balance(v)'
  BY <1>2, <1>3 DEF Balance
<1> QED
  BY <1>1, <1>4

(* Two workers that keep what they are doing stay apart.                   *)
LEMMA ApartKept ==
  ASSUME NEW u \in Worker, NEW v \in Worker, Apart(u, v),
         job'[u] = job[u], pending'[u] = pending[u],
         job'[v] = job[v], pending'[v] = pending[v]
  PROVE  Apart(u, v)'
  BY DEF Apart, GameAt, DayAt

(* A worker without a mark is apart from every other.                      *)
LEMMA UnmarkedApart ==
  ASSUME NEW v \in Worker, NEW w \in Worker, ~ pending'[w].marked
  PROVE  Apart(v, w)' /\ Apart(w, v)'
  BY DEF Apart

(* A step of one worker that leaves the tables alone.                      *)
LEMMA QuietStep ==
  ASSUME IInv, TypeOK', NEW w \in Worker,
         UNCHANGED <<tables, fought, missed>>,
         Others(w), Stage(w)', Balance(w)',
         \A v \in Worker \ {w} : Apart(v, w)' /\ Apart(w, v)',
         job'[w].kind = "increment" /\ job'[w].premium => job'[w].player \in Subscriber,
         Overshoot'
  PROVE  IInv'
<1>1. ASSUME NEW v \in Worker \ {w} PROVE Stage(v)' /\ Balance(v)'
  BY StageKept DEF IInv, Others, Balance, tables
<1>2. ASSUME NEW u \in Worker, NEW v \in Worker PROVE Apart(u, v)'
  <2>1. CASE u = w /\ v = w
    BY <2>1 DEF Apart
  <2>2. CASE u # w /\ v # w
    BY <2>2, ApartKept DEF IInv, Others
  <2> QED
    BY <2>1, <2>2
<1>3. Conservation'
  <2>1. \A p \in Player, d \in Day : Returns(p, d)' = Returns(p, d)
    BY DEF Returns, tables
  <2> QED
    BY <2>1 DEF IInv, Conservation, tables
<1>4. OnlySubscribers'
  BY DEF IInv, OnlySubscribers, Others, tables
<1> QED
  BY <1>1, <1>2, <1>3, <1>4 DEF IInv

(* A worker that ends leaves nothing behind.                               *)
LEMMA FinishFacts ==
  ASSUME TypeOK, NEW w \in Worker, Finish(w)
  PROVE  /\ pc'[w] = "idle" /\ job'[w] = Idle /\ pending'[w] = Clean
         /\ pc' \in [Worker -> Statement \cup {"idle"}]
         /\ job' \in [Worker -> {Idle} \cup Increments \cup Reversals]
         /\ pending' \in [Worker -> Writes]
         /\ Others(w)
         /\ Stage(w)' /\ Balance(w)'
         /\ \A v \in Worker : Apart(v, w)' /\ Apart(w, v)'
         /\ ~ (job'[w].kind = "increment")
         /\ \A p \in Player, d \in Day : Passed(p, d)' = Passed(p, d) \ {w}
<1>1. pc'[w] = "idle" /\ job'[w] = Idle /\ pending'[w] = Clean
  BY DEF Finish, Goto, TypeOK
<1>2. Clean \in Writes /\ ~ Clean.marked
  BY DEF Clean, Zero, Writes
<1>3. /\ pc' \in [Worker -> Statement \cup {"idle"}]
      /\ job' \in [Worker -> {Idle} \cup Increments \cup Reversals]
      /\ pending' \in [Worker -> Writes]
      /\ Others(w)
  BY <1>2 DEF Finish, Goto, TypeOK, Others
<1>4. Stage(w)' /\ Balance(w)'
  BY <1>1, <1>2 DEF Stage, Balance
<1>5. \A v \in Worker : Apart(v, w)' /\ Apart(w, v)'
  BY <1>1, <1>2, UnmarkedApart
<1>6. ASSUME NEW p \in Player, NEW d \in Day PROVE Passed(p, d)' = Passed(p, d) \ {w}
  BY <1>1, <1>3 DEF Passed, Others
<1>7. job'[w].kind # "increment"
  BY <1>1 DEF Idle
<1> QED
  BY <1>1, <1>3, <1>4, <1>5, <1>6, <1>7

----------------------------------------------------------------------------
(* The inductive invariant, one action at a time.                          *)

(* The initial state satisfies it.                                         *)
LEMMA InitIInv ==
  ASSUME Init
  PROVE  IInv
<1>1. TypeOK
  BY BattleAssumption DEF Init, TypeOK, Day, Clean, Writes, Zero, Statement
<1>2. \A w \in Worker : Stage(w) /\ Balance(w)
  BY DEF Init, Stage, Balance, Clean
<1>3. \A v, w \in Worker : Apart(v, w)
  BY DEF Init, Apart, Clean
<1>4. Conservation
  <2>1. \A p \in Player, d \in Day : Returns(p, d) = {}
    BY DEF Init, Returns
  <2> QED
    BY <2>1, FS_EmptySet DEF Init, Conservation
<1>5. OnlySubscribers
  BY DEF Init, OnlySubscribers, Idle
<1>6. Overshoot
  <2> SUFFICES ASSUME NEW p \in Player \ Subscriber, NEW d \in Day
               PROVE  count[p][d] + Cardinality(Passed(p, d))
                        <= FreeLimit + Cardinality(Worker) - 1
    BY DEF Overshoot
  <2>1. Passed(p, d) = {}
    BY DEF Init, Passed
  <2>2. count[p][d] = 0 /\ Cardinality(Passed(p, d)) = 0
    BY <2>1, FS_EmptySet DEF Init
  <2> QED
    BY <2>2, WorkerCount, BattleAssumption
<1> QED
  BY <1>1, <1>2, <1>3, <1>4, <1>5, <1>6 DEF IInv

(* A request that ends without a change preserves it.                      *)
LEMMA FailStep ==
  ASSUME IInv, NEW w \in Worker, Fail(w)
  PROVE  IInv'
<1>1. Finish(w) /\ TypeOK
  BY DEF Fail, IInv
<1>2. TypeOK'
  BY <1>1, FinishFacts DEF Fail, tables, TypeOK
<1>3. Overshoot'
  <2>1. \A p \in Player, d \in Day :
          count'[p][d] <= count[p][d] /\ Passed(p, d)' \subseteq Passed(p, d)
    BY <1>1, FinishFacts DEF Fail, tables, TypeOK
  <2> QED
    BY <1>2, <2>1, OvershootKept DEF IInv
<1> QED
  BY <1>1, <1>2, <1>3, FinishFacts, QuietStep DEF Fail

(* The read of the player preserves it.                                    *)
LEMMA FindByIDStep ==
  ASSUME IInv, NEW w \in Worker, NEW p \in Player, FindByID(w, p)
  PROVE  IInv'
<1>1. /\ pc'[w] = "readClock" /\ pending' = pending /\ pending[w] = Clean
      /\ job'[w] = [kind |-> "increment", player |-> p,
                    premium |-> premium[p], day |-> clock]
      /\ Others(w)
  BY DEF FindByID, At, Goto, IInv, TypeOK, Others, Stage
<1>2. job'[w] \in Increments
  BY <1>1 DEF Increments, IInv, TypeOK
<1>3. TypeOK'
  BY <1>2 DEF FindByID, Goto, IInv, TypeOK, Statement, tables
<1>4. Stage(w)' /\ Balance(w)'
  BY <1>1, <1>2 DEF Stage, Balance, Clean
<1>5. \A v \in Worker \ {w} : Apart(v, w)' /\ Apart(w, v)'
  BY <1>1, UnmarkedApart DEF Clean
<1>6. Overshoot'
  <2>1. \A q \in Player, d \in Day : Passed(q, d)' \subseteq Passed(q, d)
    BY <1>1 DEF Passed, Others
  <2>2. \A q \in Player, d \in Day : count'[q][d] <= count[q][d]
    BY DEF FindByID, tables, IInv, TypeOK
  <2> QED
    BY <1>3, <2>1, <2>2, OvershootKept DEF IInv
<1>7. job'[w].premium => job'[w].player \in Subscriber
  BY <1>1 DEF IInv, OnlySubscribers
<1> QED
  BY <1>1, <1>3, <1>4, <1>5, <1>6, <1>7, QuietStep DEF FindByID

(* The read of the clock preserves it: a premium player goes on without a  *)
(* check, and is a subscriber.                                             *)
LEMMA ReadClockStep ==
  ASSUME IInv, NEW w \in Worker, ReadClock(w)
  PROVE  IInv'
<1>0. job[w] \in Increments /\ pending[w] = Clean
  BY DEF ReadClock, At, IInv, Stage
<1>1. /\ pc'[w] = IF job[w].premium THEN "increment" ELSE "getDailyBattle"
      /\ pending' = pending
      /\ job'[w] = [job[w] EXCEPT !.day = clock]
      /\ Others(w)
  BY DEF ReadClock, Goto, IInv, TypeOK, Others
<1>2. /\ job'[w] \in Increments
      /\ job'[w].premium = job[w].premium /\ job'[w].player = job[w].player
  BY <1>0, <1>1 DEF Increments, IInv, TypeOK
<1>3. TypeOK'
  <2>1. job' \in [Worker -> {Idle} \cup Increments \cup Reversals]
    BY <1>1, <1>2 DEF ReadClock, IInv, TypeOK
  <2> QED
    BY <2>1 DEF ReadClock, Goto, IInv, TypeOK, Statement, tables
<1>4. Stage(w)' /\ Balance(w)'
  BY <1>0, <1>1, <1>2 DEF Stage, Balance, Clean
<1>5. \A v \in Worker \ {w} : Apart(v, w)' /\ Apart(w, v)'
  BY <1>0, <1>1, UnmarkedApart DEF Clean
<1>6. job[w].premium => job[w].player \in Subscriber
  BY <1>0 DEF IInv, OnlySubscribers, Increments
<1>7. Overshoot'
  <2> SUFFICES ASSUME NEW p \in Player \ Subscriber, NEW d \in Day
               PROVE  count'[p][d] + Cardinality(Passed(p, d)')
                        <= FreeLimit + Cardinality(Worker) - 1
    BY DEF Overshoot
  <2>1. Passed(p, d)' \in SUBSET Passed(p, d) /\ Passed(p, d) \in SUBSET Worker
    <3>1. pc'[w] = "increment" => job'[w].player \in Subscriber
      <4>1. CASE job[w].premium
        BY <1>2, <1>6, <4>1
      <4>2. CASE ~ job[w].premium
        BY <1>1, <4>2
      <4> QED
        BY <4>1, <4>2
    <3> QED
      BY <1>1, <3>1 DEF Passed, Others
  <2>2. /\ Cardinality(Passed(p, d)') <= Cardinality(Passed(p, d))
        /\ Cardinality(Passed(p, d)') \in Nat /\ Cardinality(Passed(p, d)) \in Nat
    BY <2>1, WorkersSize
  <2>3. count'[p][d] = count[p][d] /\ count[p][d] \in Nat
    BY DEF ReadClock, tables, IInv, TypeOK
  <2> QED
    BY <2>2, <2>3, WorkerCount, BattleAssumption DEF IInv, Overshoot
<1> QED
  BY <1>1, <1>2, <1>3, <1>4, <1>5, <1>6, <1>7, QuietStep DEF ReadClock

(* The unlocked check preserves it: it passes below the limit, and there   *)
(* are no more passed increments than workers.                             *)
LEMMA EnsureStep ==
  ASSUME IInv, NEW w \in Worker, EnsureWithinFreeBattleLimit(w)
  PROVE  IInv'
<1> DEFINE q == job[w].player
           e == job[w].day
<1>0. job[w] \in Increments /\ pending[w] = Clean /\ q \in Player /\ e \in Day
  BY DEF EnsureWithinFreeBattleLimit, At, IInv, Stage, Increments
<1>1. CASE count[q][e] + 1 <= FreeLimit
  <2>1. /\ pc'[w] = "increment" /\ pending' = pending /\ job' = job
        /\ UNCHANGED <<tables, fought, missed>>
        /\ Others(w)
    BY <1>1 DEF EnsureWithinFreeBattleLimit, Goto, IInv, TypeOK, Others
  <2>2. TypeOK'
    BY <1>1 DEF EnsureWithinFreeBattleLimit, Goto, IInv, TypeOK, Statement, tables
  <2>3. Stage(w)' /\ Balance(w)'
    BY <1>0, <2>1 DEF Stage, Balance, Clean
  <2>4. \A v \in Worker \ {w} : Apart(v, w)' /\ Apart(w, v)'
    BY <1>0, <2>1, UnmarkedApart DEF Clean
  <2>5. Overshoot'
    <3> SUFFICES ASSUME NEW p \in Player \ Subscriber, NEW d \in Day
                 PROVE  count'[p][d] + Cardinality(Passed(p, d)')
                          <= FreeLimit + Cardinality(Worker) - 1
      BY DEF Overshoot
    <3>1. count'[p][d] = count[p][d] /\ count[p][d] \in Nat
      BY <2>1 DEF tables, IInv, TypeOK
    <3>2. CASE p = q /\ d = e
      <4>1. Passed(p, d)' \in SUBSET Worker
        BY DEF Passed
      <4>2. Cardinality(Passed(p, d)') \in Nat
            /\ Cardinality(Passed(p, d)') <= Cardinality(Worker)
        BY <4>1, WorkersSize
      <4> QED
        BY <1>1, <3>1, <3>2, <4>2, WorkerCount, BattleAssumption
    <3>3. CASE ~ (p = q /\ d = e)
      <4>1. Passed(p, d)' = Passed(p, d)
        BY <2>1, <3>3 DEF Passed, Others, EnsureWithinFreeBattleLimit, At
      <4> QED
        BY <3>1, <4>1 DEF IInv, Overshoot
    <3> QED
      BY <3>2, <3>3
  <2>6. job'[w].premium => job'[w].player \in Subscriber
    BY <1>0, <2>1 DEF IInv, OnlySubscribers, Increments
  <2> QED
    BY <2>1, <2>2, <2>3, <2>4, <2>5, <2>6, QuietStep
<1>2. CASE ~ (count[q][e] + 1 <= FreeLimit)
  BY <1>2, FailStep DEF EnsureWithinFreeBattleLimit
<1> QED
  BY <1>1, <1>2

(* The UPSERT preserves it: the row is not held, so no balance looks at    *)
(* it, and one passed increment becomes one battle.                        *)
LEMMA IncrementStep ==
  ASSUME IInv, NEW w \in Worker, IncrementDailyBattleCount(w)
  PROVE  IInv'
<1> DEFINE q == job[w].player
           e == job[w].day
<1>0. /\ job[w] \in Increments /\ pc[w] = "increment"
      /\ q \in Player /\ e \in Day
      /\ Finish(w) /\ TypeOK
  BY DEF IncrementDailyBattleCount, At, IInv, Stage, Increments
<1>1. \A p \in Player, d \in Day :
        /\ count[p][d] \in Nat
        /\ count'[p][d] = count[p][d] + One(p = q /\ d = e)
        /\ fought'[p][d] = fought[p][d] + One(p = q /\ d = e)
        /\ fought[p][d] \in Nat /\ missed[p][d] \in Nat
  BY <1>0 DEF IncrementDailyBattleCount, TypeOK, One
<1>2. TypeOK'
  <2>1. count' \in [Player -> [Day -> Nat]] /\ fought' \in [Player -> [Day -> Nat]]
    BY <1>0 DEF IncrementDailyBattleCount, TypeOK
  <2>2. recorded' \in SUBSET (Player \X Day)
    BY <1>0 DEF IncrementDailyBattleCount, TypeOK
  <2> QED
    BY <1>0, <2>1, <2>2, FinishFacts DEF IncrementDailyBattleCount, TypeOK
<1>3. ASSUME NEW v \in Worker PROVE Stage(v)' /\ Balance(v)'
  <2>1. CASE v = w
    BY <1>0, <2>1, FinishFacts
  <2>2. CASE v # w
    <3>1. ASSUME pending[v].marked, NEW p \in Player, p \in pending[v].locked
          PROVE  count'[p][DayAt(v)] = count[p][DayAt(v)]
      <4>1. job[v] \in Reversals
        BY <3>1 DEF IInv, Stage, TypeOK, Statement, Clean
      <4>2. v \in RowHolders(p, DayAt(v)) /\ DayAt(v) \in Day
        BY <3>1, <4>1, BattleAssumption DEF RowHolders, Reverting, Reversals, DayAt, GameAt
      <4>3. ~ (p = q /\ DayAt(v) = e)
        BY <4>2 DEF IncrementDailyBattleCount
      <4> QED
        BY <1>1, <4>2, <4>3 DEF One
    <3> QED
      BY <1>0, <2>2, <3>1, FinishFacts, StageKept
         DEF IInv, Others, IncrementDailyBattleCount, Balance
  <2> QED
    BY <2>1, <2>2
<1>4. ASSUME NEW u \in Worker, NEW v \in Worker PROVE Apart(u, v)'
  <2>1. CASE u = w \/ v = w
    BY <1>0, <2>1, FinishFacts
  <2>2. CASE u # w /\ v # w
    BY <1>0, <2>2, FinishFacts, ApartKept DEF IInv, Others
  <2> QED
    BY <2>1, <2>2
<1>5. Conservation'
  <2> SUFFICES ASSUME NEW p \in Player, NEW d \in Day
               PROVE  count'[p][d] + Cardinality(Returns(p, d)')
                        = fought'[p][d] + missed'[p][d]
    BY DEF Conservation
  <2>1. Returns(p, d)' = Returns(p, d) /\ missed' = missed
    BY DEF Returns, IncrementDailyBattleCount
  <2>2. Cardinality(Returns(p, d)) \in Nat
    BY <1>0, ReturnsFinite
  <2>3. count[p][d] + Cardinality(Returns(p, d)) = fought[p][d] + missed[p][d]
    BY DEF IInv, Conservation
  <2>4. One(p = q /\ d = e) \in Nat
    BY DEF One
  <2> QED
    BY <1>1, <2>1, <2>2, <2>3, <2>4
<1>6. OnlySubscribers'
  BY <1>0, FinishFacts DEF IInv, OnlySubscribers, Others, IncrementDailyBattleCount
<1>7. Overshoot'
  <2> SUFFICES ASSUME NEW p \in Player \ Subscriber, NEW d \in Day
               PROVE  count'[p][d] + Cardinality(Passed(p, d)')
                        <= FreeLimit + Cardinality(Worker) - 1
    BY DEF Overshoot
  <2>1. Passed(p, d)' = Passed(p, d) \ {w} /\ Passed(p, d) \in SUBSET Worker
    BY <1>0, FinishFacts DEF Passed
  <2>2. IsFiniteSet(Passed(p, d)) /\ Cardinality(Passed(p, d)) \in Nat
    BY <2>1, BattleAssumption, FS_Subset, FS_CardinalityType
  <2>3. count[p][d] + Cardinality(Passed(p, d)) <= FreeLimit + Cardinality(Worker) - 1
    BY DEF IInv, Overshoot
  <2>4. CASE p = q /\ d = e
    <3>1. w \in Passed(p, d)
      BY <1>0, <2>4 DEF Passed
    <3>2. Cardinality(Passed(p, d)') = Cardinality(Passed(p, d)) - 1
      BY <2>1, <2>2, <3>1, FS_RemoveElement
    <3>3. count'[p][d] = count[p][d] + 1
      BY <1>1, <2>4 DEF One
    <3> QED
      BY <1>1, <2>2, <2>3, <3>2, <3>3, WorkerCount, BattleAssumption
  <2>5. CASE ~ (p = q /\ d = e)
    <3>1. Passed(p, d)' = Passed(p, d)
      BY <2>1, <2>5 DEF Passed
    <3>2. count'[p][d] = count[p][d]
      BY <1>1, <2>5 DEF One
    <3> QED
      BY <2>3, <3>1, <3>2
  <2> QED
    BY <2>4, <2>5
<1> QED
  BY <1>2, <1>3, <1>4, <1>5, <1>6, <1>7 DEF IInv

(* The arrival of a reversal preserves it.                                 *)
LEMMA BeginRevertStep ==
  ASSUME IInv, NEW w \in Worker, NEW g \in Game, BeginRevert(w, g)
  PROVE  IInv'
<1>1. /\ pc'[w] = "mark" /\ pending' = pending /\ pending[w] = Clean
      /\ job'[w] = [kind |-> "reversal", game |-> g]
      /\ Others(w)
  BY DEF BeginRevert, At, Goto, IInv, TypeOK, Others, Stage
<1>2. job'[w] \in Reversals /\ job'[w].kind # "increment"
  BY <1>1 DEF Reversals
<1>3. TypeOK'
  BY <1>2 DEF BeginRevert, Goto, IInv, TypeOK, Statement, tables
<1>4. Stage(w)' /\ Balance(w)'
  BY <1>1, <1>2 DEF Stage, Balance, Clean
<1>5. \A v \in Worker \ {w} : Apart(v, w)' /\ Apart(w, v)'
  BY <1>1, UnmarkedApart DEF Clean
<1>6. Overshoot'
  <2>1. \A q \in Player, d \in Day : Passed(q, d)' \subseteq Passed(q, d)
    BY <1>1 DEF Passed, Others
  <2>2. \A q \in Player, d \in Day : count'[q][d] <= count[q][d]
    BY DEF BeginRevert, tables, IInv, TypeOK
  <2> QED
    BY <1>3, <2>1, <2>2, OvershootKept DEF IInv
<1> QED
  BY <1>1, <1>2, <1>3, <1>4, <1>5, <1>6, QuietStep DEF BeginRevert

(* A reversal's statement that moves on without touching the tables.       *)
LEMMA ReversalStep ==
  ASSUME IInv, TypeOK', NEW w \in Worker,
         UNCHANGED <<tables, job, fought, missed>>, job[w] \in Reversals,
         Others(w), pc'[w] # "increment",
         Stage(w)', Balance(w)',
         \A v \in Worker \ {w} : Apart(v, w)' /\ Apart(w, v)'
  PROVE  IInv'
<1>1. job'[w].kind # "increment"
  BY DEF Reversals
<1>2. Overshoot'
  <2>1. \A q \in Player, d \in Day : Passed(q, d)' \subseteq Passed(q, d)
    BY DEF Passed, Others
  <2>2. \A q \in Player, d \in Day : count'[q][d] <= count[q][d]
    BY DEF tables, IInv, TypeOK
  <2> QED
    BY <2>1, <2>2, OvershootKept DEF IInv
<1> QED
  BY <1>1, <1>2, QuietStep

(* The mark preserves it: it waited for the other reversals of its game.   *)
LEMMA MarkRevertedStep ==
  ASSUME IInv, NEW w \in Worker, MarkReverted(w)
  PROVE  IInv'
<1>0. job[w] \in Reversals /\ pending[w] = Clean
  BY DEF MarkReverted, At, IInv, Stage
<1>1. CASE job[w].game \in reverted
  <2>1. /\ pc'[w] = "commit" /\ pending' = pending /\ job' = job
        /\ UNCHANGED <<tables, fought, missed>> /\ Others(w)
    BY <1>1 DEF MarkReverted, Goto, IInv, TypeOK, Others
  <2>2. TypeOK'
    BY <1>1 DEF MarkReverted, Goto, IInv, TypeOK, Statement, tables
  <2>3. Stage(w)' /\ Balance(w)'
    BY <1>0, <2>1 DEF Stage, Balance, Clean
  <2>4. \A v \in Worker \ {w} : Apart(v, w)' /\ Apart(w, v)'
    BY <1>0, <2>1, UnmarkedApart DEF Clean
  <2> QED
    BY <1>0, <2>1, <2>2, <2>3, <2>4, ReversalStep
<1>2. CASE job[w].game \notin reverted
  <2>0. [Clean EXCEPT !.marked = TRUE] \in Writes
    BY DEF Clean, Zero, Writes
  <2>1. /\ pc'[w] = "decrement1" /\ job' = job
        /\ pending'[w] = [Clean EXCEPT !.marked = TRUE]
        /\ pending' = [pending EXCEPT ![w] = [Clean EXCEPT !.marked = TRUE]]
        /\ UNCHANGED <<tables, fought, missed>> /\ Others(w)
    BY <1>0, <1>2 DEF MarkReverted, Goto, IInv, TypeOK, Others
  <2>2. TypeOK'
    BY <1>2, <2>0, <2>1 DEF MarkReverted, Goto, IInv, TypeOK, Statement, tables
  <2>3. Stage(w)'
    BY <1>0, <2>1 DEF Stage, Clean
  <2>4. Balance(w)'
    <3>1. GameAt(w)' \notin reverted'
      BY <1>2, <2>1 DEF GameAt, tables
    <3>2. \A p \in Player : /\ p \notin pending'[w].locked
                            /\ pending'[w].misses[p] = 0
                            /\ Executed(w, p)' = 0
      BY <2>1 DEF Clean, Zero, Executed, One
    <3> QED
      BY <3>1, <3>2 DEF Balance
  <2>5. ASSUME NEW v \in Worker \ {w} PROVE Apart(v, w)' /\ Apart(w, v)'
    <3>1. pending[v].marked => GameAt(v) # GameAt(w)
      <4> SUFFICES ASSUME pending[v].marked, GameAt(v) = GameAt(w)
                   PROVE  FALSE
        OBVIOUS
      <4>1. job[v] \in Reversals
        BY DEF IInv, Stage, TypeOK, Statement, Clean
      <4>2. v \in Markers(job[w].game)
        BY <4>1 DEF Markers, Reverting, Reversals, GameAt
      <4> QED
        BY <4>2 DEF MarkReverted
    <3>2. pending'[w].locked = {}
      BY <2>1 DEF Clean
    <3> QED
      BY <2>1, <3>1, <3>2 DEF Apart, GameAt, DayAt, Others
  <2> QED
    BY <1>0, <2>1, <2>2, <2>3, <2>4, <2>5, ReversalStep
<1> QED
  BY <1>1, <1>2

(* A decrement adds one to what the reversal has executed for its player.  *)
LEMMA ExecutedNext ==
  ASSUME TypeOK, NEW w \in Worker, Decrementing(w), job' = job,
         pc'[w] = IF pc[w] = "decrement1" THEN "decrement2" ELSE "commit",
         NEW p \in Player
  PROVE  /\ Executed(w, p)' = Executed(w, p) + One(p = Turn(w))
         /\ Executed(w, p) \in Nat
<1>1. GameAt(w)' = GameAt(w)
  BY DEF GameAt
<1>2. CASE pc[w] = "decrement1"
  BY <1>1, <1>2 DEF Executed, Turn, One, GameAt
<1>3. CASE pc[w] = "decrement2"
  BY <1>1, <1>3 DEF Executed, Turn, One, GameAt
<1> QED
  BY <1>2, <1>3 DEF Decrementing

(* What a decrement writes, in both of its cases.                          *)
LEMMA DecrementWrites ==
  ASSUME IInv, NEW w \in Worker, DecrementDailyBattleCount(w)
  PROVE  LET p == Turn(w)
             x == pending[w]
             y == pending'[w]
         IN  /\ job[w] \in Reversals /\ p \in Player
             /\ x.marked /\ x \in Writes /\ y \in Writes
             /\ pending' = [pending EXCEPT ![w] = y]
             /\ y.marked
             /\ y.locked \subseteq x.locked \cup {p}
             /\ \A q \in Player \ {p} :
                  /\ q \in y.locked <=> q \in x.locked
                  /\ y.lowered[q] = x.lowered[q] /\ y.misses[q] = x.misses[q]
             /\ y.misses[p] <= x.misses[p] + 1
             /\ \/ /\ p \in y.locked
                   /\ y.lowered[p] + 1 = Current(w, p) + (y.misses[p] - x.misses[p])
                \/ /\ p \in y.locked <=> p \in x.locked
                   /\ y.lowered[p] = x.lowered[p] /\ y.misses[p] = x.misses[p] + 1
<1> DEFINE p == Turn(w)
           d == DayOf[job[w].game]
           x == pending[w]
           c == Current(w, p)
<1>1. /\ TypeOK /\ Stage(w) /\ Decrementing(w)
  BY DEF IInv, DecrementDailyBattleCount
<1>2. /\ job[w] \in Reversals /\ x.marked /\ x \in Writes
  BY <1>1 DEF Stage, TypeOK, Decrementing
<1>3. p \in Player /\ d \in Day
  BY <1>2, BattleAssumption DEF Turn, Reversals
<1>4. c \in Nat
  BY <1>1, <1>2, <1>3 DEF Current, TypeOK, Writes
<1>5. CASE LowerRow(w)
  <2> DEFINE y == [x EXCEPT !.locked = @ \cup {p},
                            !.lowered[p] = IF c > 0 THEN c - 1 ELSE 0,
                            !.misses[p] = IF c > 0 THEN @ ELSE @ + 1]
  <2>1. pending' = [pending EXCEPT ![w] = y] /\ pending'[w] = y
    BY <1>1, <1>5 DEF LowerRow, TypeOK
  <2>2. /\ y \in Writes /\ y.marked
        /\ y.locked = x.locked \cup {p}
        /\ \A q \in Player \ {p} :
             y.lowered[q] = x.lowered[q] /\ y.misses[q] = x.misses[q]
        /\ y.lowered[p] = IF c > 0 THEN c - 1 ELSE 0
        /\ y.misses[p] = IF c > 0 THEN x.misses[p] ELSE x.misses[p] + 1
    <3> DEFINE l == IF c > 0 THEN c - 1 ELSE 0
               m == IF c > 0 THEN x.misses[p] ELSE x.misses[p] + 1
    <3>1. l \in Nat /\ m \in Nat
      BY <1>2, <1>3, <1>4 DEF Writes
    <3>2. y = [x EXCEPT !.locked = @ \cup {p}, !.lowered[p] = l, !.misses[p] = m]
      OBVIOUS
    <3> HIDE DEF l, m, y, c, d
    <3>3. /\ y \in Writes /\ y.marked
          /\ y.locked = x.locked \cup {p}
          /\ \A q \in Player \ {p} :
               y.lowered[q] = x.lowered[q] /\ y.misses[q] = x.misses[q]
          /\ y.lowered[p] = l /\ y.misses[p] = m
      BY <1>2, <1>3, <3>1, <3>2 DEF Writes
    <3> QED
      BY <3>3 DEF l, m
  <2>3. x.misses[p] \in Nat
    BY <1>2, <1>3 DEF Writes
  <2> HIDE DEF y, c
  <2>4. /\ y.lowered[p] + 1 = c + (y.misses[p] - x.misses[p])
        /\ y.misses[p] <= x.misses[p] + 1
    BY <1>4, <2>2, <2>3
  <2> QED
    BY <1>2, <1>3, <2>1, <2>2, <2>4 DEF c
<1>6. CASE TargetNotFound(w)
  <2> DEFINE y == [x EXCEPT !.misses[p] = @ + 1]
  <2>1. pending' = [pending EXCEPT ![w] = y] /\ pending'[w] = y
    BY <1>1, <1>6 DEF TargetNotFound, TypeOK
  <2>2. /\ y \in Writes /\ y.marked
        /\ y.locked = x.locked /\ y.lowered = x.lowered
        /\ \A q \in Player \ {p} : y.misses[q] = x.misses[q]
        /\ y.misses[p] = x.misses[p] + 1
    BY <1>2, <1>3 DEF Writes
  <2>3. x.misses[p] + 1 <= x.misses[p] + 1
    BY <1>2, <1>3 DEF Writes
  <2> QED
    BY <1>2, <1>3, <2>1, <2>2, <2>3
<1> QED
  BY <1>5, <1>6 DEF DecrementDailyBattleCount

(* A decrement preserves the invariant: it holds its player's row alone,   *)
(* and what it writes balances.                                            *)
LEMMA DecrementStep ==
  ASSUME IInv, NEW w \in Worker, DecrementDailyBattleCount(w)
  PROVE  IInv'
<1> DEFINE p == Turn(w)
           x == pending[w]
           y == pending'[w]
<1>0. /\ TypeOK /\ Stage(w) /\ Balance(w) /\ Decrementing(w)
      /\ UNCHANGED <<tables, job, fought, missed>>
      /\ pc'[w] = IF pc[w] = "decrement1" THEN "decrement2" ELSE "commit"
      /\ RowHolders(p, DayAt(w)) \subseteq {w}
  BY DEF IInv, DecrementDailyBattleCount, At, Goto, TypeOK, DayAt, GameAt
<1>1. /\ job[w] \in Reversals /\ p \in Player
      /\ x.marked /\ x \in Writes /\ y \in Writes
      /\ pending' = [pending EXCEPT ![w] = y]
      /\ y.marked
      /\ y.locked \subseteq x.locked \cup {p}
      /\ \A q \in Player \ {p} :
           /\ q \in y.locked <=> q \in x.locked
           /\ y.lowered[q] = x.lowered[q] /\ y.misses[q] = x.misses[q]
      /\ y.misses[p] <= x.misses[p] + 1
      /\ \/ /\ p \in y.locked
            /\ y.lowered[p] + 1 = Current(w, p) + (y.misses[p] - x.misses[p])
         \/ /\ p \in y.locked <=> p \in x.locked
            /\ y.lowered[p] = x.lowered[p] /\ y.misses[p] = x.misses[p] + 1
  BY DecrementWrites
<1>2. TypeOK'
  BY <1>0, <1>1 DEF DecrementDailyBattleCount, Goto, TypeOK, Statement, tables
<1>3. Others(w)
  BY <1>0, <1>1 DEF DecrementDailyBattleCount, Goto, TypeOK, Others
<1>4. Stage(w)'
  BY <1>0, <1>1 DEF Stage, Decrementing
<1>5. Balance(w)'
  <2>1. GameAt(w)' \notin reverted' /\ DayAt(w)' = DayAt(w) /\ DayAt(w) \in Day
    BY <1>0, <1>1, BattleAssumption DEF Balance, GameAt, DayAt, Reversals, tables
  <2> SUFFICES ASSUME NEW q \in Player
               PROVE  /\ y.misses[q] <= Executed(w, q)'
                      /\ IF q \in y.locked
                         THEN y.lowered[q] + Executed(w, q)' = count[q][DayAt(w)] + y.misses[q]
                         ELSE Executed(w, q)' = y.misses[q]
    BY <1>0, <2>1 DEF Balance, tables
  <2>2. /\ Executed(w, q)' = Executed(w, q) + One(q = p)
        /\ Executed(w, q) \in Nat
    BY <1>0, ExecutedNext
  <2>3. /\ x.misses[q] <= Executed(w, q)
        /\ IF q \in x.locked
           THEN x.lowered[q] + Executed(w, q) = count[q][DayAt(w)] + x.misses[q]
           ELSE Executed(w, q) = x.misses[q]
    BY <1>0, <1>1 DEF Balance
  <2>4. /\ count[q][DayAt(w)] \in Nat
        /\ x.lowered[q] \in Nat /\ x.misses[q] \in Nat
        /\ y.lowered[q] \in Nat /\ y.misses[q] \in Nat
    BY <1>0, <1>1, <2>1 DEF TypeOK, Writes
  <2> HIDE DEF p, x, y
  <2>5. CASE q # p
    BY <1>1, <2>2, <2>3, <2>4, <2>5 DEF One
  <2>6. CASE q = p
    <3>1. Executed(w, q)' = Executed(w, q) + 1
      BY <2>2, <2>6 DEF One
    <3>2. Current(w, q) = IF q \in x.locked THEN x.lowered[q] ELSE count[q][DayAt(w)]
      BY DEF Current, DayAt, GameAt, x
    <3>3. CASE /\ q \in y.locked
               /\ y.lowered[q] + 1 = Current(w, q) + (y.misses[q] - x.misses[q])
      BY <1>1, <2>2, <2>3, <2>4, <2>6, <3>1, <3>2, <3>3
    <3>4. CASE /\ q \in y.locked <=> q \in x.locked
               /\ y.lowered[q] = x.lowered[q] /\ y.misses[q] = x.misses[q] + 1
      BY <1>1, <2>2, <2>3, <2>4, <2>6, <3>1, <3>4
    <3> QED
      BY <1>1, <2>6, <3>3, <3>4
  <2> QED
    BY <2>5, <2>6
<1>6. ASSUME NEW v \in Worker \ {w} PROVE Apart(v, w)' /\ Apart(w, v)'
  <2>1. Apart(v, w) /\ Apart(w, v) /\ Stage(v) /\ pending[v] \in Writes
    BY DEF IInv, TypeOK
  <2>2. pending[v].marked /\ DayAt(v) = DayAt(w) => p \notin pending[v].locked
    <3> SUFFICES ASSUME pending[v].marked, DayAt(v) = DayAt(w), p \in pending[v].locked
                 PROVE  FALSE
      OBVIOUS
    <3>1. job[v] \in Reversals
      BY DEF IInv, Stage, TypeOK, Statement, Clean
    <3>2. v \in RowHolders(p, DayAt(w))
      BY <3>1 DEF RowHolders, Reverting, Reversals, DayAt, GameAt
    <3> QED
      BY <1>0, <3>2
  <2>3. pending'[v] = pending[v] /\ job' = job
    BY <1>0, <1>3 DEF Others
  <2>4. y.locked \cap pending[v].locked \subseteq
          (x.locked \cap pending[v].locked) \cup ({p} \cap pending[v].locked)
    BY <1>1
  <2> QED
    BY <1>1, <2>1, <2>2, <2>3, <2>4 DEF Apart, GameAt, DayAt
<1> QED
  BY <1>0, <1>1, <1>2, <1>3, <1>4, <1>5, <1>6, ReversalStep DEF Decrementing

(* The sides a committed game adds to the returns of a player's day are    *)
(* the decrements its reversal executed.                                   *)
LEMMA ReturnsNext ==
  ASSUME TypeOK, NEW w \in Worker, pc[w] = "commit", GameAt(w) \in Game \ reverted,
         reverted' = reverted \cup {GameAt(w)}, NEW p \in Player, NEW e \in Day
  PROVE  Cardinality(Returns(p, e)')
           = Cardinality(Returns(p, e)) + (IF e = DayAt(w) THEN Executed(w, p) ELSE 0)
<1> DEFINE g == GameAt(w)
           R == Returns(p, e)
<1>1. IsFiniteSet(R) /\ Cardinality(R) \in Nat
  BY ReturnsFinite
<1>2. \A i \in {1, 2} : <<g, i>> \notin R
  BY DEF Returns
<1>3. Executed(w, p) = One(Side[g][1] = p) + One(Side[g][2] = p)
  BY DEF Executed
<1>4. CASE e # DayAt(w)
  <2>1. Returns(p, e)' = R
    BY <1>4 DEF Returns, DayAt
  <2> QED
    BY <1>1, <1>4, <2>1
<1>5. CASE e = DayAt(w)
  <2>0. Returns(p, e)'
          = R \cup {r \in {<<g, 1>>, <<g, 2>>} : Side[g][r[2]] = p}
    BY <1>5 DEF Returns, DayAt
  <2>1. CASE Side[g][1] = p /\ Side[g][2] = p
    <3>1. Returns(p, e)' = (R \cup {<<g, 1>>}) \cup {<<g, 2>>}
      BY <2>0, <2>1
    <3>2. /\ IsFiniteSet(R \cup {<<g, 1>>})
          /\ Cardinality(R \cup {<<g, 1>>}) = Cardinality(R) + 1
      BY <1>1, <1>2, FS_AddElement
    <3>3. <<g, 2>> \notin R \cup {<<g, 1>>}
      BY <1>2
    <3> DEFINE S == R \cup {<<g, 1>>}
    <3>4. IsFiniteSet(S) /\ <<g, 2>> \notin S /\ Cardinality(S) = Cardinality(R) + 1
      BY <3>2, <3>3
    <3> HIDE DEF S
    <3>5. Cardinality(S \cup {<<g, 2>>}) = Cardinality(S) + 1
      BY <3>4, FS_AddElement
    <3>6. Cardinality(Returns(p, e)') = Cardinality(R) + 2
      BY <1>1, <3>1, <3>4, <3>5 DEF S
    <3> QED
      BY <1>1, <1>3, <1>5, <2>1, <3>6 DEF One
  <2>2. CASE Side[g][1] = p /\ Side[g][2] # p
    <3>1. Returns(p, e)' = R \cup {<<g, 1>>}
      BY <2>0, <2>2
    <3>2. Cardinality(R \cup {<<g, 1>>}) = Cardinality(R) + 1
      BY <1>1, <1>2, FS_AddElement
    <3> QED
      BY <1>3, <1>5, <2>2, <3>1, <3>2 DEF One
  <2>3. CASE Side[g][1] # p /\ Side[g][2] = p
    <3>1. Returns(p, e)' = R \cup {<<g, 2>>}
      BY <2>0, <2>3
    <3>2. Cardinality(R \cup {<<g, 2>>}) = Cardinality(R) + 1
      BY <1>1, <1>2, FS_AddElement
    <3> QED
      BY <1>3, <1>5, <2>3, <3>1, <3>2 DEF One
  <2>4. CASE Side[g][1] # p /\ Side[g][2] # p
    <3>1. Returns(p, e)' = R
      BY <2>0, <2>4
    <3> QED
      BY <1>1, <1>3, <1>5, <2>4, <3>1 DEF One
  <2> QED
    BY <2>1, <2>2, <2>3, <2>4
<1> QED
  BY <1>4, <1>5

(* What a commit does to the tables, row by row.                           *)
LEMMA CommitTables ==
  ASSUME IInv, NEW w \in Worker, Commit(w)
  PROVE  LET x == pending[w]
             d == DayAt(w)
         IN  /\ pc[w] = "commit" /\ job[w] \in Reversals /\ x \in Writes
             /\ GameAt(w) \in Game /\ d \in Day
             /\ Finish(w)
             /\ UNCHANGED <<clock, premium, recorded, fought>>
             /\ reverted' = IF x.marked THEN reverted \cup {GameAt(w)} ELSE reverted
             /\ ~ x.marked => x = Clean
             /\ count' \in [Player -> [Day -> Nat]]
             /\ missed' \in [Player -> [Day -> Nat]]
             /\ \A p \in Player, e \in Day :
                  /\ count'[p][e] = IF e = d /\ p \in x.locked
                                    THEN x.lowered[p] ELSE count[p][e]
                  /\ missed'[p][e] = IF e = d THEN missed[p][e] + x.misses[p]
                                     ELSE missed[p][e]
<1> DEFINE x == pending[w]
           d == DayAt(w)
<1>1. /\ pc[w] = "commit" /\ job[w] \in Reversals /\ x \in Writes
      /\ GameAt(w) \in Game /\ d \in Day
      /\ ~ x.marked => x = Clean
  BY BattleAssumption DEF Commit, At, IInv, Stage, TypeOK, GameAt, DayAt, Reversals
<1>2. /\ x.locked \in SUBSET Player
      /\ x.lowered \in [Player -> Nat] /\ x.misses \in [Player -> Nat]
      /\ count \in [Player -> [Day -> Nat]] /\ missed \in [Player -> [Day -> Nat]]
  BY <1>1 DEF Writes, IInv, TypeOK
<1>3. /\ count' = [p \in Player |->
           [count[p] EXCEPT ![d] = IF p \in x.locked THEN x.lowered[p] ELSE @]]
      /\ missed' = [p \in Player |-> [missed[p] EXCEPT ![d] = @ + x.misses[p]]]
  BY DEF Commit, DayAt, GameAt
<1> HIDE DEF x, d
<1>4. \A p \in Player, e \in Day :
        /\ count'[p][e] = IF e = d /\ p \in x.locked THEN x.lowered[p] ELSE count[p][e]
        /\ missed'[p][e] = IF e = d THEN missed[p][e] + x.misses[p] ELSE missed[p][e]
  BY <1>1, <1>2, <1>3
<1>5. /\ count' \in [Player -> [Day -> Nat]]
      /\ missed' \in [Player -> [Day -> Nat]]
  BY <1>1, <1>2, <1>3
<1> QED
  BY <1>1, <1>4, <1>5 DEF Commit, x, d, GameAt

(* A commit preserves the invariant: what the reversal owed becomes        *)
(* returns, and the rows it writes are its own.                            *)
LEMMA CommitStep ==
  ASSUME IInv, NEW w \in Worker, Commit(w)
  PROVE  IInv'
<1> DEFINE x == pending[w]
           d == DayAt(w)
<1>0. /\ pc[w] = "commit" /\ job[w] \in Reversals /\ x \in Writes
      /\ GameAt(w) \in Game /\ d \in Day
      /\ Finish(w)
      /\ UNCHANGED <<clock, premium, recorded, fought>>
      /\ reverted' = IF x.marked THEN reverted \cup {GameAt(w)} ELSE reverted
      /\ ~ x.marked => x = Clean
      /\ count' \in [Player -> [Day -> Nat]]
      /\ missed' \in [Player -> [Day -> Nat]]
      /\ TypeOK
  BY CommitTables DEF IInv
<1>1. \A p \in Player, e \in Day :
        /\ count'[p][e] = IF e = d /\ p \in x.locked THEN x.lowered[p] ELSE count[p][e]
        /\ missed'[p][e] = IF e = d THEN missed[p][e] + x.misses[p] ELSE missed[p][e]
  BY CommitTables
<1>2. TypeOK'
  BY <1>0, FinishFacts DEF TypeOK
<1>3. ASSUME NEW p \in Player
      PROVE  /\ x.lowered[p] \in Nat /\ x.misses[p] \in Nat /\ Executed(w, p) \in Nat
             /\ x.marked =>
                  /\ x.misses[p] <= Executed(w, p)
                  /\ IF p \in x.locked
                     THEN x.lowered[p] + Executed(w, p) = count[p][d] + x.misses[p]
                     ELSE Executed(w, p) = x.misses[p]
             /\ ~ x.marked => p \notin x.locked /\ x.misses[p] = 0
  <2>1. x.lowered[p] \in Nat /\ x.misses[p] \in Nat
    BY <1>0 DEF Writes
  <2>2. Executed(w, p) \in Nat
    BY DEF Executed, One
  <2>3. x.marked =>
          /\ x.misses[p] <= Executed(w, p)
          /\ IF p \in x.locked
             THEN x.lowered[p] + Executed(w, p) = count[p][d] + x.misses[p]
             ELSE Executed(w, p) = x.misses[p]
    BY DEF IInv, Balance
  <2>4. ~ x.marked => p \notin x.locked /\ x.misses[p] = 0
    BY <1>0 DEF Clean, Zero
  <2> QED
    BY <2>1, <2>2, <2>3, <2>4
<1>4. x.marked => GameAt(w) \in Game \ reverted
  BY <1>0 DEF IInv, Balance
<1>5. ASSUME NEW v \in Worker PROVE Stage(v)' /\ Balance(v)'
  <2>1. CASE v = w
    BY <1>0, <2>1, FinishFacts
  <2>2. CASE v # w
    <3>1. Apart(v, w) /\ Stage(v) /\ Balance(v)
      BY DEF IInv
    <3>2. pending[v].marked => GameAt(v) \notin reverted'
      BY <1>0, <2>2, <3>1 DEF Apart, Balance
    <3>3. ASSUME pending[v].marked, NEW p \in Player, p \in pending[v].locked
          PROVE  count'[p][DayAt(v)] = count[p][DayAt(v)]
      <4>1. job[v] \in Reversals
        BY <3>3 DEF IInv, Stage, TypeOK, Statement, Clean
      <4>2. DayAt(v) \in Day
        BY <4>1, BattleAssumption DEF Reversals, DayAt, GameAt
      <4>3. DayAt(v) = d => p \notin x.locked
        BY <1>3, <2>2, <3>1, <3>3 DEF Apart
      <4> QED
        BY <1>1, <4>2, <4>3
    <3> QED
      BY <1>0, <2>2, <3>1, <3>2, <3>3, FinishFacts, StageKept DEF Others
  <2> QED
    BY <2>1, <2>2
<1>6. ASSUME NEW u \in Worker, NEW v \in Worker PROVE Apart(u, v)'
  <2>1. CASE u = w \/ v = w
    BY <1>0, <2>1, FinishFacts
  <2>2. CASE u # w /\ v # w
    BY <1>0, <2>2, FinishFacts, ApartKept DEF IInv, Others
  <2> QED
    BY <2>1, <2>2
<1>7. Conservation'
  <2> SUFFICES ASSUME NEW p \in Player, NEW e \in Day
               PROVE  count'[p][e] + Cardinality(Returns(p, e)')
                        = fought[p][e] + missed'[p][e]
    BY <1>0 DEF Conservation
  <2>1. count[p][e] + Cardinality(Returns(p, e)) = fought[p][e] + missed[p][e]
    BY DEF IInv, Conservation
  <2>2. /\ Cardinality(Returns(p, e)) \in Nat
        /\ count[p][e] \in Nat /\ fought[p][e] \in Nat /\ missed[p][e] \in Nat
    BY <1>0, ReturnsFinite DEF TypeOK
  <2>3. CASE x.marked
    <3>1. Cardinality(Returns(p, e)')
            = Cardinality(Returns(p, e)) + (IF e = d THEN Executed(w, p) ELSE 0)
      BY <1>0, <1>4, <2>3, ReturnsNext
    <3> HIDE DEF x, d
    <3> QED
      BY <1>1, <1>3, <2>1, <2>2, <2>3, <3>1
  <2>4. CASE ~ x.marked
    <3>1. Returns(p, e)' = Returns(p, e)
      BY <1>0, <2>4 DEF Returns
    <3> HIDE DEF x, d
    <3> QED
      BY <1>1, <1>3, <2>1, <2>2, <2>4, <3>1
  <2> QED
    BY <2>3, <2>4
<1>8. OnlySubscribers'
  BY <1>0, FinishFacts DEF IInv, OnlySubscribers, Others
<1>9. Overshoot'
  <2>1. ASSUME NEW p \in Player, NEW e \in Day PROVE count'[p][e] <= count[p][e]
    <3>1. count[p][e] \in Nat
      BY <1>0 DEF TypeOK
    <3> HIDE DEF x, d
    <3> QED
      BY <1>1, <1>3, <3>1
  <2>2. \A p \in Player, e \in Day : Passed(p, e)' \subseteq Passed(p, e)
    BY <1>0, FinishFacts
  <2> QED
    BY <1>0, <1>2, <2>1, <2>2, OvershootKept DEF IInv
<1> QED
  BY <1>2, <1>5, <1>6, <1>7, <1>8, <1>9 DEF IInv

(* The turn of the day and a change of subscription touch no request.      *)
LEMMA AroundStep ==
  ASSUME IInv, UNCHANGED <<recorded, count, reverted, local, fought, missed>>,
         clock' \in Day, premium' \in [Player -> BOOLEAN],
         \A p \in Player \ Subscriber : premium'[p] = premium[p]
  PROVE  IInv'
<1>1. TypeOK'
  BY DEF IInv, TypeOK, local
<1>2. ASSUME NEW v \in Worker PROVE Stage(v)' /\ Balance(v)'
  BY StageKept DEF IInv, local, Balance
<1>3. ASSUME NEW u \in Worker, NEW v \in Worker PROVE Apart(u, v)'
  BY ApartKept DEF IInv, local
<1>4. Conservation'
  <2>1. \A p \in Player, d \in Day : Returns(p, d)' = Returns(p, d)
    BY DEF Returns
  <2> QED
    BY <2>1 DEF IInv, Conservation
<1>5. OnlySubscribers'
  BY DEF IInv, OnlySubscribers, local
<1>6. Overshoot'
  <2>1. \A p \in Player, d \in Day : Passed(p, d)' = Passed(p, d)
    BY DEF Passed, local
  <2> QED
    BY <2>1 DEF IInv, Overshoot
<1> QED
  BY <1>1, <1>2, <1>3, <1>4, <1>5, <1>6 DEF IInv

(* Every step preserves the invariant.                                     *)
LEMMA IInvStep ==
  ASSUME IInv, [Next]_vars
  PROVE  IInv'
<1>1. ASSUME NEW w \in Worker, Serve(w) PROVE IInv'
  BY <1>1, ReadClockStep, EnsureStep, IncrementStep, MarkRevertedStep, DecrementStep,
     CommitStep, FailStep DEF Serve, DeadlockDetected
<1>2. ASSUME NEW w \in Worker, Abort(w) PROVE IInv'
  BY <1>2, FailStep DEF Abort
<1>3. ASSUME NEW w \in Worker, NEW p \in Player, FindByID(w, p) PROVE IInv'
  BY <1>3, FindByIDStep
<1>4. ASSUME NEW w \in Worker, NEW g \in Game, BeginRevert(w, g) PROVE IInv'
  BY <1>4, BeginRevertStep
<1>5. CASE NextDay
  <2>1. clock' \in Day
    BY <1>5, BattleAssumption DEF NextDay, IInv, TypeOK, Day
  <2> QED
    BY <1>5, <2>1, AroundStep DEF NextDay, tables, IInv, TypeOK
<1>6. ASSUME NEW p \in Subscriber, UpdatePremium(p) PROVE IInv'
  BY <1>6, AroundStep DEF UpdatePremium, IInv, TypeOK
<1>7. CASE UNCHANGED vars
  BY <1>7, AroundStep DEF vars, local, IInv, TypeOK
<1> QED
  BY <1>1, <1>2, <1>3, <1>4, <1>5, <1>6, <1>7 DEF Next

----------------------------------------------------------------------------
(* The theorems.                                                           *)

(* The inductive invariant holds in every reachable state.                 *)
THEOREM Invariance == Spec => []IInv
<1>1. Init => IInv
  BY InitIInv
<1>2. IInv /\ [Next]_vars => IInv'
  BY IInvStep
<1> QED
  BY <1>1, <1>2, PTL DEF Spec

(* Every variable has its type; GREATEST keeps the counts from going below *)
(* zero.                                                                   *)
THEOREM TypeCorrect == Spec => []TypeOK
<1>1. IInv => TypeOK
  BY DEF IInv
<1> QED
  BY <1>1, Invariance, PTL

(* Battles fought, given back and counted balance in every reachable       *)
(* state: no update is lost, doubled or applied by half.                   *)
THEOREM CountsBalance == Spec => []Conservation
<1>1. IInv => Conservation
  BY DEF IInv
<1> QED
  BY <1>1, Invariance, PTL

(* A player who never subscribes exceeds the limit by fewer battles than   *)
(* there are requests in flight.                                           *)
THEOREM OvershootIsBounded == Spec => []BoundedOvershoot
<1>1. IInv => BoundedOvershoot
  <2> SUFFICES ASSUME IInv, NEW p \in Player \ Subscriber, NEW d \in Day
               PROVE  count[p][d] <= FreeLimit + Cardinality(Worker) - 1
    BY DEF BoundedOvershoot
  <2>1. Passed(p, d) \in SUBSET Worker
    BY DEF Passed
  <2>2. Cardinality(Passed(p, d)) \in Nat
    BY <2>1, WorkersSize
  <2> QED
    BY <2>2, WorkerCount, BattleAssumption DEF IInv, TypeOK, Overshoot
<1> QED
  BY <1>1, Invariance, PTL
============================================================================
