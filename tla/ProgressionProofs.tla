-------------------------- MODULE ProgressionProofs --------------------------
(***************************************************************************)
(* Proofs about modules Level, Progression and LevelLoop, for every set of *)
(* workers, players and games, every amount of experience, every set of    *)
(* coefficients, and words of any width.                                   *)
(***************************************************************************)
EXTENDS ProgressionInvariant, LevelLoop,
        WellFoundedInduction, FiniteSetTheorems, TLAPS

----------------------------------------------------------------------------
(* ComputeLevel is well defined for every experience and every positive    *)
(* coefficient.                                                            *)

(* A non-empty set of naturals has a least element.                        *)
LEMMA LeastNatural ==
  ASSUME NEW T \in SUBSET Nat, T # {}
  PROVE  \E x \in T : \A y \in T : x <= y
<1>1. PICK x \in T : \A y \in T : ~ (<<y, x>> \in OpToRel(<, Nat))
  BY NatLessThanWellFounded, WFMin
<1>2. \A y \in T : ~ (y < x)
  BY <1>1 DEF OpToRel
<1>. QED
  BY <1>2

(* The ends of the levels grow with the level, and are above it.           *)
LEMMA EndsGrow ==
  ASSUME NEW c \in Nat \ {0}, NEW k \in Nat, NEW l \in Nat, k <= l
  PROVE  /\ NextLevelExp(k, c) \in Nat
         /\ NextLevelExp(k, c) <= NextLevelExp(l, c)
         /\ k < NextLevelExp(k, c)
         /\ c * (k + 1) \in Nat
         /\ c * (k + 1) <= NextLevelExp(k, c)
         /\ k + 1 <= NextLevelExp(k, c)
<1>1. c * (k + 1) <= c * (l + 1) /\ c * (k + 1) \in Nat /\ c * (l + 1) \in Nat
  OBVIOUS
<1>2. c * (k + 1) * (k + 1) <= c * (l + 1) * (k + 1)
  BY <1>1
<1>3. c * (l + 1) * (k + 1) <= c * (l + 1) * (l + 1)
  BY <1>1
<1>4. 1 <= c * (k + 1) /\ k + 1 <= c * (k + 1)
  OBVIOUS
<1>5. c * (k + 1) <= c * (k + 1) * (k + 1)
  BY <1>1, <1>4
<1>6. c * (k + 1) * (k + 1) \in Nat /\ c * (l + 1) * (l + 1) \in Nat /\ c * (l + 1) * (k + 1) \in Nat
  BY <1>1
<1>. HIDE DEF NextLevelExp
<1>7. NextLevelExp(k, c) = c * (k + 1) * (k + 1) /\ NextLevelExp(l, c) = c * (l + 1) * (l + 1)
  BY DEF NextLevelExp
<1>. QED
  BY <1>1, <1>2, <1>3, <1>4, <1>5, <1>6, <1>7

(* The climb stops at one level only.                                      *)
LEMMA StopsOnce ==
  ASSUME NEW e \in Nat, NEW f \in Nat, NEW c \in Nat \ {0},
         NEW l \in Nat, NEW m \in Nat, f <= l, f <= m,
         Stops(e, f, c, l), Stops(e, f, c, m)
  PROVE  l = m
<1>1. ASSUME NEW k \in Nat
      PROVE  NextLevelExp(k, c) \in Nat
  <2>1. k <= k
    OBVIOUS
  <2>. QED
    BY <2>1, EndsGrow
<1>2. ~ (l < m)
  BY <1>1 DEF Stops
<1>3. ~ (m < l)
  BY <1>1 DEF Stops
<1>. QED
  BY <1>2, <1>3

(* ComputeLevel returns the level at which the climb stops.                *)
LEMMA ComputeLevelStops ==
  ASSUME NEW e \in Nat, NEW f \in Nat, NEW c \in Nat \ {0}
  PROVE  /\ ComputeLevel(e, f, c) \in f .. f + e
         /\ Stops(e, f, c, ComputeLevel(e, f, c))
<1>. DEFINE T == {l \in Nat : f <= l /\ e < NextLevelExp(l, c)}
<1>1. \A k \in Nat : NextLevelExp(k, c) \in Nat /\ k < NextLevelExp(k, c)
  BY EndsGrow
<1>2. f + e \in T
  BY <1>1
<1>3. PICK l \in T : \A m \in T : l <= m
  BY <1>2, LeastNatural
<1>4. l \in f .. f + e
  BY <1>2, <1>3
<1>5. ASSUME NEW k \in f .. l - 1
      PROVE  NextLevelExp(k, c) <= e
  BY <1>1, <1>3
<1>6. Stops(e, f, c, l)
  BY <1>3, <1>5 DEF Stops
<1>. QED
  BY <1>4, <1>6 DEF ComputeLevel

----------------------------------------------------------------------------
(* What a request asks for.                                                *)

(* A side of a game is due an integer.                                     *)
LEMMA DueTyped ==
  ASSUME NEW g \in Game, NEW s \in {1, 2}
  PROVE  Due(g, s) \in Int
<1>1. Outcome[g] \in {"draw", "first", "second", "other"}
  BY ProgressionAssumption
<1>. QED
  BY <1>1, ProgressionAssumption DEF Due

(* A request concerns a player and an amount.                              *)
LEMMA JobTyped ==
  ASSUME NEW w \in Worker, job[w] \in Singles \cup Pairs
  PROVE  /\ PlayerAt(w) \in Player
         /\ GainAt(w) \in Int
         /\ IsGame(w) => job[w] \in Pairs
         /\ ~ IsGame(w) => job[w] \in Singles
<1>1. IsGame(w) => job[w] \in Pairs
  BY DEF IsGame, Singles
<1>2. ~ IsGame(w) => job[w] \in Singles
  BY DEF IsGame, Pairs
<1>3. CASE IsGame(w)
  <2>1. job[w].game \in Game /\ job[w].side \in {1, 2}
    BY <1>1, <1>3 DEF Pairs
  <2>2. Side[job[w].game] \in [{1, 2} -> Player]
    BY <2>1, ProgressionAssumption
  <2>3. PlayerAt(w) \in Player
    BY <1>3, <2>1, <2>2 DEF PlayerAt
  <2>4. GainAt(w) \in Int
    BY <1>3, <2>1, DueTyped DEF GainAt
  <2>. QED
    BY <1>1, <1>2, <2>3, <2>4
<1>4. CASE ~ IsGame(w)
  <2>1. job[w].player \in Player /\ job[w].gain \in Int
    BY <1>2, <1>4, ProgressionAssumption DEF Singles
  <2>. QED
    BY <1>1, <1>2, <1>4, <2>1 DEF PlayerAt, GainAt
<1>. QED
  BY <1>3, <1>4

(* An award never lowers a level, whatever the coefficient.                *)
LEMMA LevelNeverFalls ==
  ASSUME NEW e \in Nat, NEW f \in Nat, NEW c \in Coefficient
  PROVE  ComputeLevel(e, f, c) \in Nat /\ f <= ComputeLevel(e, f, c)
<1>1. c \in Nat \ {0}
  BY ProgressionAssumption
<1>2. ComputeLevel(e, f, c) \in f .. f + e
  BY <1>1, ComputeLevelStops
<1>. QED
  BY <1>2

----------------------------------------------------------------------------
(* The shape of a step.                                                    *)

(* The other workers keep what they are doing.                             *)
Others(w) ==
  \A v \in Worker \ {w} : pc'[v] = pc[v] /\ job'[v] = job[v] /\ read'[v] = read[v]

(* A worker that keeps its request is about the same player and amount.    *)
LEMMA SameRequest ==
  ASSUME NEW v \in Worker, job'[v] = job[v]
  PROVE  /\ PlayerAt(v)' = PlayerAt(v)
         /\ GainAt(v)' = GainAt(v)
         /\ IsGame(v)' = IsGame(v)
  BY DEF PlayerAt, GainAt, IsGame

(* A worker's stage survives what leaves its row alone, while it holds it. *)
LEMMA StageKept ==
  ASSUME NEW v \in Worker, Stage(v),
         pc'[v] = pc[v], job'[v] = job[v], read'[v] = read[v],
         Holding(v) => exp'[PlayerAt(v)] = exp[PlayerAt(v)]
                       /\ level'[PlayerAt(v)] = level[PlayerAt(v)]
  PROVE  Stage(v)'
  BY SameRequest DEF Stage, Holding

(* The step of one worker keeps the invariant when it leaves the held rows *)
(* of the others alone and takes no row that another holds.                *)
LEMMA WorkerStep ==
  ASSUME IInv, TypeOK', ExpIsSum', NEW w \in Worker, Others(w), Stage(w)',
         \A v \in Worker \ {w} : Holding(v) =>
            /\ exp'[PlayerAt(v)] = exp[PlayerAt(v)]
            /\ level'[PlayerAt(v)] = level[PlayerAt(v)],
         Holding(w)' => \A v \in Worker \ {w} : Holding(v) => PlayerAt(v) # PlayerAt(w)'
  PROVE  IInv'
<1>1. ASSUME NEW v \in Worker PROVE Stage(v)'
  <2>1. CASE v = w
    BY <2>1
  <2>2. CASE v # w
    BY <2>2, StageKept DEF IInv, Others
  <2>. QED
    BY <2>1, <2>2
<1>2. ASSUME NEW v \in Worker \ {w}
      PROVE  PlayerAt(v)' = PlayerAt(v) /\ Holding(v)' = Holding(v)
  BY SameRequest DEF Others, Holding
<1>3. ASSUME NEW u \in Worker, NEW v \in Worker PROVE Apart(u, v)'
  <2>1. CASE u = v
    BY <2>1 DEF Apart
  <2>2. CASE u # v /\ u # w /\ v # w
    BY <1>2, <2>2 DEF IInv, Apart
  <2>3. CASE u # v /\ (u = w \/ v = w)
    BY <1>2, <2>3 DEF Apart
  <2>. QED
    BY <2>1, <2>2, <2>3
<1>. QED
  BY <1>1, <1>3 DEF IInv

(* A step that writes no row keeps the sums.                               *)
LEMMA SumKept ==
  ASSUME ExpIsSum, UNCHANGED rows
  PROVE  ExpIsSum'
  BY DEF ExpIsSum, rows

(* A request that ends leaves a worker that is free.                       *)
LEMMA FinishStep ==
  ASSUME IInv, NEW w \in Worker, Finish(w), UNCHANGED <<coefficient, rows, calls>>,
         answers' \in [Game -> Nat]
  PROVE  IInv'
<1>. USE DEF IInv
<1>1. TypeOK'
  BY DEF TypeOK, Finish, Goto, Nothing, rows
<1>2. Others(w) /\ pc'[w] = "idle"
  BY DEF TypeOK, Finish, Goto, Others
<1>3. Stage(w)' /\ ~ Holding(w)'
  BY <1>2 DEF Stage, Holding
<1>. QED
  BY <1>1, <1>2, <1>3, SumKept, WorkerStep DEF rows

(* A request that fails is one that ends.                                  *)
LEMMA FailStep ==
  ASSUME IInv, NEW w \in Worker, Fail(w)
  PROVE  IInv'
<1>1. Finish(w) /\ UNCHANGED <<coefficient, rows, calls>> /\ answers' \in [Game -> Nat]
  BY DEF Fail, history, IInv, TypeOK
<1>. QED
  BY <1>1, FinishStep

(* Going on to the next award or to the answer gives up the row.           *)
LEMMA ProceedShape ==
  ASSUME IInv, NEW w \in Worker, pc[w] \in {"award", "commit"}, Proceed(w)
  PROVE  /\ pc' \in [Worker -> Statement \cup {"idle"}]
         /\ job' \in [Worker -> {Idle} \cup Singles \cup Pairs]
         /\ read' \in [Worker -> [coeff : Nat, exp : Nat, level : Nat]]
         /\ Others(w)
         /\ Stage(w)'
         /\ ~ Holding(w)'
<1>. USE DEF IInv
<1>1. job[w] \in Singles \cup Pairs
  BY DEF Stage
<1>2. read' \in [Worker -> [coeff : Nat, exp : Nat, level : Nat]]
  BY DEF TypeOK, Proceed, Nothing
<1>3. CASE IsGame(w) /\ job[w].side = 1
  <2>1. job[w] \in Pairs
    BY <1>1, <1>3, JobTyped
  <2>2. [job[w] EXCEPT !.side = 2] \in Pairs
    BY <2>1 DEF Pairs
  <2>3. job' = [job EXCEPT ![w] = [job[w] EXCEPT !.side = 2]] /\ Goto(w, "award")
    BY <1>3 DEF Proceed
  <2>4. job' \in [Worker -> {Idle} \cup Singles \cup Pairs] /\ job'[w] \in Pairs
    BY <2>2, <2>3 DEF TypeOK
  <2>5. pc' \in [Worker -> Statement \cup {"idle"}] /\ pc'[w] = "award"
    BY <2>3 DEF TypeOK, Goto, Statement
  <2>6. Others(w)
    BY <2>3 DEF TypeOK, Goto, Others, Proceed
  <2>. QED
    BY <1>2, <2>4, <2>5, <2>6 DEF Stage, Holding
<1>4. CASE ~ (IsGame(w) /\ job[w].side = 1)
  <2>1. job' = job /\ Goto(w, "respond")
    BY <1>4 DEF Proceed
  <2>2. pc' \in [Worker -> Statement \cup {"idle"}] /\ pc'[w] = "respond"
    BY <2>1 DEF TypeOK, Goto, Statement
  <2>3. Others(w)
    BY <2>1 DEF TypeOK, Goto, Others, Proceed
  <2>. QED
    BY <1>1, <1>2, <2>1, <2>2, <2>3 DEF TypeOK, Stage, Holding
<1>. QED
  BY <1>3, <1>4

----------------------------------------------------------------------------
(* One lemma for each action.                                              *)

(* Nobody has a row when the service starts.                               *)
LEMMA InitIInv == Init => IInv
<1>. SUFFICES ASSUME Init PROVE IInv
  OBVIOUS
<1>1. TypeOK
  BY ProgressionAssumption DEF Init, TypeOK, Nothing, Statement
<1>2. \A w \in Worker : Stage(w) /\ ~ Holding(w)
  BY DEF Init, Stage, Holding
<1>3. ExpIsSum
  BY DEF Init, ExpIsSum
<1>. QED
  BY <1>1, <1>2, <1>3 DEF IInv, Apart

(* A request starts without a row.                                         *)
LEMMA AddExpStep ==
  ASSUME IInv, NEW w \in Worker, NEW p \in Player, NEW gain \in Gain, AddExp(w, p, gain)
  PROVE  IInv'
<1>. USE DEF IInv
<1>. DEFINE j == [kind |-> "exp", player |-> p, gain |-> gain]
<1>1. j \in Singles
  BY DEF Singles
<1>. HIDE DEF j
<1>2. job' = [job EXCEPT ![w] = j] /\ Goto(w, "award") /\ UNCHANGED <<coefficient, rows, read, history>>
  BY DEF AddExp, j
<1>3. TypeOK'
  BY <1>1, <1>2 DEF TypeOK, Goto, Statement, rows, history
<1>4. Others(w) /\ pc'[w] = "award" /\ job'[w] = j
  BY <1>2 DEF TypeOK, Goto, Others
<1>5. Stage(w)' /\ ~ Holding(w)'
  BY <1>1, <1>4 DEF Stage, Holding
<1>. QED
  BY <1>2, <1>3, <1>4, <1>5, SumKept, WorkerStep DEF rows

(* A request for a game starts without a row.                              *)
LEMMA AwardGameExpStep ==
  ASSUME IInv, NEW w \in Worker, NEW g \in Game, AwardGameExp(w, g)
  PROVE  IInv'
<1>. USE DEF IInv
<1>. DEFINE j == [kind |-> "game", game |-> g, side |-> 1]
<1>1. j \in Pairs
  BY DEF Pairs
<1>. HIDE DEF j
<1>2. /\ job' = [job EXCEPT ![w] = j] /\ Goto(w, "award")
      /\ calls' = [calls EXCEPT ![g] = @ + 1]
      /\ UNCHANGED <<coefficient, rows, read, answers>>
  BY DEF AwardGameExp, j
<1>3. TypeOK'
  BY <1>1, <1>2 DEF TypeOK, Goto, Statement, rows
<1>4. Others(w) /\ pc'[w] = "award" /\ job'[w] = j
  BY <1>2 DEF TypeOK, Goto, Others
<1>5. Stage(w)' /\ ~ Holding(w)'
  BY <1>1, <1>4 DEF Stage, Holding
<1>. QED
  BY <1>2, <1>3, <1>4, <1>5, SumKept, WorkerStep DEF rows

(* Nothing to award.                                                       *)
LEMMA SkipAwardStep ==
  ASSUME IInv, NEW w \in Worker, SkipAward(w)
  PROVE  IInv'
<1>. USE DEF IInv
<1>1. pc[w] = "award" /\ Proceed(w) /\ UNCHANGED <<coefficient, rows, history>>
  BY DEF SkipAward, At
<1>2. TypeOK'
  BY <1>1, ProceedShape DEF TypeOK, rows, history
<1>. QED
  BY <1>1, <1>2, ProceedShape, SumKept, WorkerStep DEF rows

(* The coefficient that is read is one that was in force.                  *)
LEMMA ReadCoefficientStep ==
  ASSUME IInv, NEW w \in Worker, ReadCoefficient(w)
  PROVE  IInv'
<1>. USE DEF IInv
<1>1. coefficient \in Coefficient /\ coefficient \in Nat
  BY ProgressionAssumption DEF TypeOK
<1>2. /\ pc[w] = "award" /\ GainAt(w) > 0 /\ Goto(w, "select")
      /\ read' = [read EXCEPT ![w] = [read[w] EXCEPT !.coeff = coefficient]]
      /\ UNCHANGED <<coefficient, rows, job, history>>
  BY DEF ReadCoefficient, At
<1>3. read[w] \in [coeff : Nat, exp : Nat, level : Nat]
  BY DEF TypeOK
<1>4. [read[w] EXCEPT !.coeff = coefficient] \in [coeff : Nat, exp : Nat, level : Nat]
  BY <1>1, <1>3
<1>5. read'[w].coeff = coefficient
  BY <1>2, <1>3 DEF TypeOK
<1>6. TypeOK'
  BY <1>2, <1>4 DEF TypeOK, Goto, Statement, rows, history
<1>7. Others(w) /\ pc'[w] = "select" /\ job'[w] = job[w]
  BY <1>2 DEF TypeOK, Goto, Others
<1>8. Stage(w)' /\ ~ Holding(w)'
  BY <1>1, <1>2, <1>5, <1>7, SameRequest DEF Stage, Holding
<1>. QED
  BY <1>2, <1>6, <1>7, <1>8, SumKept, WorkerStep DEF rows

(* The row is taken when nobody holds it, and read as it is.               *)
LEMMA GetProgressionForUpdateStep ==
  ASSUME IInv, NEW w \in Worker, GetProgressionForUpdate(w)
  PROVE  IInv'
<1>. USE DEF IInv
<1>. DEFINE p == PlayerAt(w)
            r == [read[w] EXCEPT !.exp = exp[p], !.level = level[p]]
<1>1. CASE p \notin Registered
  BY <1>1, FailStep DEF GetProgressionForUpdate
<1>2. CASE p \in Registered
  <2>1. /\ pc[w] = "select" /\ Holders(p) = {} /\ Goto(w, "update")
        /\ read' = [read EXCEPT ![w] = r]
        /\ UNCHANGED <<coefficient, rows, job, history>>
    BY <1>2 DEF GetProgressionForUpdate, At
  <2>2. exp[p] \in Nat /\ level[p] \in Nat /\ read[w] \in [coeff : Nat, exp : Nat, level : Nat]
    BY <1>2, ProgressionAssumption DEF TypeOK
  <2>3. /\ r \in [coeff : Nat, exp : Nat, level : Nat]
        /\ r.coeff = read[w].coeff /\ r.exp = exp[p] /\ r.level = level[p]
    BY <2>2
  <2>. HIDE DEF r
  <2>4. TypeOK'
    BY <2>1, <2>3 DEF TypeOK, Goto, Statement, rows, history
  <2>5. Others(w) /\ pc'[w] = "update" /\ job'[w] = job[w] /\ read'[w] = r
    BY <2>1 DEF TypeOK, Goto, Others
  <2>6. PlayerAt(w)' = p /\ GainAt(w)' = GainAt(w)
    BY <2>5, SameRequest
  <2>7. Stage(w)
    OBVIOUS
  <2>8. job[w] \in Singles \cup Pairs /\ GainAt(w) > 0 /\ read[w].coeff \in Coefficient
    BY <2>1, <2>7 DEF Stage
  <2>9. exp' = exp /\ level' = level /\ coefficient' = coefficient
    BY <2>1 DEF rows
  <2>. HIDE DEF p
  <2>10. Stage(w)'
    BY <2>3, <2>5, <2>6, <2>8, <2>9 DEF Stage
  <2>11. \A v \in Worker \ {w} : Holding(v) => PlayerAt(v) # PlayerAt(w)'
    BY <2>1, <2>6 DEF Holders, Holding
  <2>. QED
    BY <2>1, <2>4, <2>5, <2>9, <2>10, <2>11, SumKept, WorkerStep
<1>. QED
  BY <1>1, <1>2

(* The write is computed from what was read.                               *)
LEMMA UpdateProgressionStep ==
  ASSUME IInv, NEW w \in Worker, UpdateProgression(w)
  PROVE  IInv'
<1>. USE DEF IInv
<1>. DEFINE p == PlayerAt(w)
            sum == read[w].exp + GainAt(w)
            newLevel == ComputeLevel(sum, read[w].level, read[w].coeff)
            r == [read[w] EXCEPT !.exp = sum, !.level = newLevel]
<1>1. /\ pc[w] = "update" /\ Goto(w, "commit") /\ read' = [read EXCEPT ![w] = r]
      /\ UNCHANGED <<coefficient, rows, job, history>>
  BY DEF UpdateProgression, At
<1>2. /\ job[w] \in Singles \cup Pairs /\ GainAt(w) > 0 /\ read[w].coeff \in Coefficient
      /\ read[w].exp = exp[p] /\ read[w].level = level[p]
  BY <1>1 DEF Stage
<1>3. GainAt(w) \in Nat /\ read[w] \in [coeff : Nat, exp : Nat, level : Nat]
  BY <1>2, JobTyped DEF TypeOK
<1>4. sum \in Nat
  BY <1>3
<1>5. newLevel \in Nat
  BY <1>2, <1>3, <1>4, LevelNeverFalls
<1>6. r \in [coeff : Nat, exp : Nat, level : Nat]
      /\ r.coeff = read[w].coeff /\ r.exp = sum /\ r.level = newLevel
  BY <1>3, <1>4, <1>5
<1>7. sum = exp[p] + GainAt(w) /\ newLevel = ComputeLevel(sum, level[p], read[w].coeff)
  BY <1>2
<1>. HIDE DEF r, sum, newLevel
<1>8. TypeOK'
  BY <1>1, <1>6 DEF TypeOK, Goto, Statement, rows, history
<1>9. Others(w) /\ pc'[w] = "commit" /\ job'[w] = job[w] /\ read'[w] = r
  BY <1>1 DEF TypeOK, Goto, Others
<1>10. PlayerAt(w)' = p /\ GainAt(w)' = GainAt(w)
  BY <1>9, SameRequest
<1>11. exp' = exp /\ level' = level
  BY <1>1 DEF rows
<1>12. \A v \in Worker \ {w} : Holding(v) => PlayerAt(v) # PlayerAt(w)'
  BY <1>1, <1>10 DEF Holding, Apart
<1>. HIDE DEF p
<1>13. Stage(w)'
  BY <1>2, <1>6, <1>7, <1>9, <1>10, <1>11 DEF Stage
<1>. QED
  BY <1>1, <1>8, <1>9, <1>11, <1>12, <1>13, SumKept, WorkerStep

(* What a commit writes: the row of one player, to the sum and the level   *)
(* it implies, while nobody else holds it.                                 *)
LEMMA CommitShape ==
  ASSUME IInv, NEW w \in Worker, Commit(w)
  PROVE  /\ PlayerAt(w) \in Player /\ GainAt(w) \in Nat /\ GainAt(w) > 0
         /\ read[w].coeff \in Coefficient
         /\ exp' = [exp EXCEPT ![PlayerAt(w)] = @ + GainAt(w)]
         /\ gained' = [gained EXCEPT ![PlayerAt(w)] = @ + GainAt(w)]
         /\ level' = [level EXCEPT ![PlayerAt(w)] =
                        ComputeLevel(exp[PlayerAt(w)] + GainAt(w), @, read[w].coeff)]
         /\ coefficient' = coefficient
<1>. USE DEF IInv
<1>1. pc[w] = "commit" /\ Stage(w)
  BY DEF Commit, At
<1>2. job[w] \in Singles \cup Pairs /\ GainAt(w) > 0 /\ read[w].coeff \in Coefficient
      /\ read[w].exp = exp[PlayerAt(w)] + GainAt(w)
      /\ read[w].level = ComputeLevel(read[w].exp, level[PlayerAt(w)], read[w].coeff)
  BY <1>1 DEF Stage
<1>3. PlayerAt(w) \in Player /\ GainAt(w) \in Nat
  BY <1>2, JobTyped
<1>. QED
  BY <1>2, <1>3 DEF Commit, TypeOK

(* The commit writes the row that the worker holds.                        *)
LEMMA CommitStep ==
  ASSUME IInv, NEW w \in Worker, Commit(w)
  PROVE  IInv'
<1>. USE DEF IInv
<1>. DEFINE p == PlayerAt(w)
<1>1. pc[w] = "commit" /\ Proceed(w) /\ UNCHANGED history
  BY DEF Commit, At
<1>2. job[w] \in Singles \cup Pairs
  BY <1>1 DEF Stage
<1>3. ComputeLevel(exp[p] + GainAt(w), level[p], read[w].coeff) \in Nat \ {0}
  <2>1. PlayerAt(w) \in Player /\ GainAt(w) \in Nat /\ read[w].coeff \in Coefficient
    BY CommitShape
  <2>2. exp[p] + GainAt(w) \in Nat /\ level[p] \in Nat \ {0}
    BY <2>1 DEF TypeOK
  <2>. DEFINE m == ComputeLevel(exp[p] + GainAt(w), level[p], read[w].coeff)
  <2>3. m \in Nat /\ level[p] <= m
    BY <2>1, <2>2, LevelNeverFalls, Zenon
  <2>. HIDE DEF m
  <2>4. m \in Nat \ {0}
    BY <2>2, <2>3
  <2>. QED
    BY <2>4 DEF m
<1>4. exp' \in [Player -> Nat] /\ gained' \in [Player -> Nat] /\ level' \in [Player -> Nat \ {0}]
  <2>1. PlayerAt(w) \in Player /\ GainAt(w) \in Nat
    BY CommitShape
  <2>2. exp[p] + GainAt(w) \in Nat /\ gained[p] + GainAt(w) \in Nat
    BY <2>1 DEF TypeOK
  <2>3. exp' \in [Player -> Nat] /\ gained' \in [Player -> Nat]
    BY <2>1, <2>2, CommitShape DEF TypeOK
  <2>4. level' \in [Player -> Nat \ {0}]
    BY <1>3, CommitShape DEF TypeOK
  <2>. QED
    BY <2>3, <2>4
<1>5. awards' \in [Game -> [{1, 2} -> Nat]]
  <2>1. CASE IsGame(w)
    <3>1. job[w].game \in Game /\ job[w].side \in {1, 2}
      BY <1>2, <2>1, JobTyped DEF Pairs
    <3>2. awards' = [awards EXCEPT ![job[w].game][job[w].side] = @ + 1]
      BY <2>1 DEF Commit
    <3>. QED
      BY <3>1, <3>2 DEF TypeOK
  <2>2. CASE ~ IsGame(w)
    BY <2>2 DEF Commit, TypeOK
  <2>. QED
    BY <2>1, <2>2
<1>6. TypeOK'
  BY <1>1, <1>4, <1>5, CommitShape, ProceedShape DEF TypeOK, history
<1>7. ExpIsSum'
  BY CommitShape DEF ExpIsSum, TypeOK
<1>8. ASSUME NEW v \in Worker \ {w}, Holding(v)
      PROVE  exp'[PlayerAt(v)] = exp[PlayerAt(v)] /\ level'[PlayerAt(v)] = level[PlayerAt(v)]
  <2>1. PlayerAt(v) # PlayerAt(w)
    BY <1>1, <1>8 DEF Apart, Holding
  <2>2. PlayerAt(v) \in Player
    BY <1>8, JobTyped DEF Stage, Holding
  <2>. QED
    BY <2>1, <2>2, CommitShape DEF TypeOK
<1>. QED
  BY <1>1, <1>6, <1>7, <1>8, ProceedShape, WorkerStep

(* The answer.                                                             *)
LEMMA RespondStep ==
  ASSUME IInv, NEW w \in Worker, Respond(w)
  PROVE  IInv'
<1>1. job[w] \in Singles \cup Pairs
  BY DEF IInv, Stage, Respond, At
<1>2. answers' \in [Game -> Nat]
  BY <1>1, JobTyped DEF Respond, IInv, TypeOK, Pairs
<1>. QED
  BY <1>2, FinishStep DEF Respond

(* Requests do not depend on the coefficient in force.                     *)
LEMMA TuneStep ==
  ASSUME IInv, NEW c \in Coefficient, Tune(c)
  PROVE  IInv'
<1>. USE DEF IInv
<1>1. TypeOK' /\ UNCHANGED <<rows, pc, job, read>>
  BY DEF TypeOK, Tune, rows, history
<1>2. \A v \in Worker : Stage(v)' /\ PlayerAt(v)' = PlayerAt(v) /\ Holding(v)' = Holding(v)
  BY <1>1, StageKept, SameRequest DEF rows, Holding
<1>3. \A u, v \in Worker : Apart(u, v)'
  BY <1>2 DEF Apart
<1>. QED
  BY <1>1, <1>2, <1>3, SumKept

(* Every step keeps the invariant.                                         *)
LEMMA NextStep == IInv /\ [Next]_vars => IInv'
<1>. SUFFICES ASSUME IInv, [Next]_vars PROVE IInv'
  OBVIOUS
<1>1. CASE UNCHANGED vars
  BY <1>1 DEF IInv, TypeOK, Stage, Apart, Holding, ExpIsSum, vars, rows, history,
              PlayerAt, GainAt, IsGame
<1>2. ASSUME NEW w \in Worker, Serve(w) PROVE IInv'
  BY <1>2, SkipAwardStep, ReadCoefficientStep, GetProgressionForUpdateStep,
     UpdateProgressionStep, CommitStep, RespondStep DEF Serve
<1>3. ASSUME NEW w \in Worker, Abort(w) PROVE IInv'
  BY <1>3, FailStep DEF Abort
<1>. QED
  BY <1>1, <1>2, <1>3, AddExpStep, AwardGameExpStep, TuneStep DEF Next

----------------------------------------------------------------------------
(* The theorems.                                                           *)

(* The invariant of the statements of an award holds in every reachable    *)
(* state.                                                                  *)
THEOREM Invariance == Spec => []IInv
  BY InitIInv, NextStep, PTL DEF Spec

(* Every variable keeps its type; no level is below 1.                     *)
THEOREM TypeCorrect == Spec => []TypeOK
<1>1. IInv => TypeOK
  BY DEF IInv
<1>. QED
  BY <1>1, Invariance, PTL

(* No award is lost: the row lock of GetProgressionForUpdate serialises    *)
(* the awards of a player.                                                 *)
THEOREM NoAwardLost == Spec => []ExpIsSum
<1>1. IInv => ExpIsSum
  BY DEF IInv
<1>. QED
  BY <1>1, Invariance, PTL

----------------------------------------------------------------------------
(* The calls of a game.                                                    *)

(* 1 for a member, 0 for the others.                                       *)
In(x, S) == IF x \in S THEN 1 ELSE 0

(* A finite set is what it is without x, and x.                            *)
LEMMA CountWithout ==
  ASSUME NEW S, NEW x, IsFiniteSet(S \ {x})
  PROVE  /\ IsFiniteSet(S)
         /\ Cardinality(S \ {x}) \in Nat
         /\ Cardinality(S) = Cardinality(S \ {x}) + In(x, S)
<1>1. Cardinality(S \ {x}) \in Nat
  BY FS_CardinalityType
<1>2. CASE x \in S
  <2>1. S = (S \ {x}) \cup {x} /\ x \notin S \ {x}
    BY <1>2
  <2>2. /\ IsFiniteSet((S \ {x}) \cup {x})
        /\ Cardinality((S \ {x}) \cup {x}) = Cardinality(S \ {x}) + 1
    BY <2>1, FS_AddElement
  <2>. QED
    BY <1>1, <1>2, <2>1, <2>2 DEF In
<1>3. CASE x \notin S
  <2>. DEFINE D == S \ {x}
  <2>1. S = D /\ IsFiniteSet(D) /\ Cardinality(D) \in Nat
    BY <1>1, <1>3
  <2>. HIDE DEF D
  <2>2. In(x, S) = 0
    BY <1>3 DEF In
  <2>3. IsFiniteSet(S) /\ Cardinality(S) = Cardinality(D) + In(x, S)
    BY <2>1, <2>2
  <2>. QED
    BY <1>1, <2>3 DEF D
<1>. QED
  BY <1>2, <1>3

(* What a step of w alone does to the books of a side: an answer or an     *)
(* award is covered by the place that w leaves or takes.                   *)
Balanced(w, g, s) ==
  Due(g, s) > 0 =>
    /\ answers'[g] + In(w, Behind(g, s)') - awards'[g][s]
         <= answers[g] + In(w, Behind(g, s)) - awards[g][s]
    /\ awards'[g][s] + In(w, Ahead(g, s)') - calls'[g]
         <= awards[g][s] + In(w, Ahead(g, s)) - calls[g]
    /\ s = 2 /\ Due(g, 1) > 0 =>
         awards'[g][2] + In(w, Between(g)') - awards'[g][1]
           <= awards[g][2] + In(w, Between(g)) - awards[g][1]

(* The other workers stay where they are.                                  *)
LEMMA OthersStay ==
  ASSUME NEW w \in Worker, Others(w), NEW g \in Game, NEW s \in {1, 2}
  PROVE  /\ Serving(g)' \ {w} = Serving(g) \ {w}
         /\ Behind(g, s)' \ {w} = Behind(g, s) \ {w}
         /\ Ahead(g, s)' \ {w} = Ahead(g, s) \ {w}
         /\ Between(g)' \ {w} = Between(g) \ {w}
<1>1. ASSUME NEW v \in Worker \ {w}, NEW r \in {1, 2}
      PROVE  /\ (v \in Serving(g))' = (v \in Serving(g))
             /\ Passed(v, r)' = Passed(v, r)
  BY <1>1, SameRequest DEF Others, Serving, Passed
<1>2. ASSUME NEW v \in Worker \ {w}, NEW r \in {1, 2}
      PROVE  /\ (v \in Behind(g, r))' = (v \in Behind(g, r))
             /\ (v \in Ahead(g, r))' = (v \in Ahead(g, r))
  BY <1>1, <1>2 DEF Behind, Ahead
<1>3. Serving(g)' \ {w} = Serving(g) \ {w}
  BY <1>1 DEF Serving
<1>4. Behind(g, s)' \ {w} = Behind(g, s) \ {w} /\ Ahead(g, s)' \ {w} = Ahead(g, s) \ {w}
  BY <1>2 DEF Behind, Ahead, Serving
<1>5. Between(g)' \ {w} = Between(g) \ {w}
  <2>1. Between(g) \subseteq Worker /\ Between(g)' \subseteq Worker
    BY DEF Between, Behind, Serving
  <2>. QED
    BY <1>2, <2>1 DEF Between
<1>. QED
  BY <1>3, <1>4, <1>5

(* A step of one worker keeps the books when it balances them.             *)
LEMMA BooksKept ==
  ASSUME TypeOK, TypeOK', CallsInv, NEW w \in Worker, Others(w),
         \A g \in Game, s \in {1, 2} : Balanced(w, g, s)
  PROVE  CallsInv'
<1>1. ASSUME NEW g \in Game
      PROVE  IsFiniteSet(Serving(g)')
  <2>1. IsFiniteSet(Serving(g)' \ {w})
    BY OthersStay, FS_Subset DEF CallsInv
  <2>. QED
    BY <2>1, CountWithout
<1>2. ASSUME NEW S, NEW T, NEW g \in Game, T \ {w} = S \ {w}, S \subseteq Serving(g)
      PROVE  /\ Cardinality(S) \in Nat /\ Cardinality(T) \in Nat
             /\ Cardinality(T) = Cardinality(S) + In(w, T) - In(w, S)
  <2>1. IsFiniteSet(S \ {w}) /\ IsFiniteSet(T \ {w})
    BY <1>2, FS_Subset DEF CallsInv
  <2>2. /\ Cardinality(S \ {w}) \in Nat
        /\ Cardinality(S) = Cardinality(S \ {w}) + In(w, S)
        /\ Cardinality(T) = Cardinality(S \ {w}) + In(w, T)
    BY <1>2, <2>1, CountWithout
  <2>. QED
    BY <2>2 DEF In
<1>3. ASSUME NEW g \in Game, NEW s \in {1, 2}, Due(g, s) > 0
      PROVE  Accounted(g, s)'
  <2>1. /\ answers[g] \in Nat /\ answers'[g] \in Nat
        /\ awards[g][1] \in Nat /\ awards'[g][1] \in Nat
        /\ awards[g][2] \in Nat /\ awards'[g][2] \in Nat
        /\ awards[g][s] \in Nat /\ awards'[g][s] \in Nat
        /\ calls[g] \in Nat /\ calls'[g] \in Nat
    BY DEF TypeOK
  <2>. DEFINE B == Behind(g, s)
              A == Ahead(g, s)
              M == Between(g)
  <2>2. B \subseteq Serving(g) /\ A \subseteq Serving(g) /\ M \subseteq Serving(g)
    BY DEF Behind, Ahead, Between
  <2>3. B' \ {w} = B \ {w} /\ A' \ {w} = A \ {w} /\ M' \ {w} = M \ {w}
    BY OthersStay
  <2>4. /\ Cardinality(B) \in Nat /\ Cardinality(B)' = Cardinality(B) + In(w, B') - In(w, B)
        /\ Cardinality(A) \in Nat /\ Cardinality(A)' = Cardinality(A) + In(w, A') - In(w, A)
        /\ Cardinality(M) \in Nat /\ Cardinality(M)' = Cardinality(M) + In(w, M') - In(w, M)
    BY <1>2, <2>2, <2>3
  <2>5. /\ In(w, B) \in Int /\ In(w, B') \in Int /\ In(w, A) \in Int
        /\ In(w, A') \in Int /\ In(w, M) \in Int /\ In(w, M') \in Int
    BY DEF In
  <2>6. Accounted(g, s) /\ Balanced(w, g, s)
    BY DEF CallsInv
  <2>7. /\ answers[g] + Cardinality(B) <= awards[g][s]
        /\ awards[g][s] + Cardinality(A) <= calls[g]
        /\ s = 2 /\ Due(g, 1) > 0 => awards[g][2] + Cardinality(M) <= awards[g][1]
    BY <1>3, <2>6 DEF Accounted
  <2>8. /\ answers'[g] + In(w, B') - awards'[g][s] <= answers[g] + In(w, B) - awards[g][s]
        /\ awards'[g][s] + In(w, A') - calls'[g] <= awards[g][s] + In(w, A) - calls[g]
        /\ s = 2 /\ Due(g, 1) > 0 =>
             awards'[g][2] + In(w, M') - awards'[g][1]
               <= awards[g][2] + In(w, M) - awards[g][1]
    BY <1>3, <2>6 DEF Balanced
  <2>. HIDE DEF B, A, M
  <2>9. /\ answers'[g] + Cardinality(B)' <= awards'[g][s]
        /\ awards'[g][s] + Cardinality(A)' <= calls'[g]
        /\ s = 2 /\ Due(g, 1) > 0 => awards'[g][2] + Cardinality(M)' <= awards'[g][1]
    BY <2>1, <2>4, <2>5, <2>7, <2>8
  <2>. QED
    BY <2>9 DEF Accounted, B, A, M
<1>4. ASSUME NEW g \in Game, NEW s \in {1, 2}
      PROVE  Accounted(g, s)'
  BY <1>3 DEF Accounted, Due
<1>. QED
  BY <1>1, <1>4 DEF CallsInv

(* A call that ends takes its places with it; one that is answered has     *)
(* passed both sides.                                                      *)
LEMMA EndBooks ==
  ASSUME TypeOK, NEW w \in Worker, Finish(w), UNCHANGED <<awards, calls>>,
         \/ UNCHANGED answers
         \/ Respond(w) /\ job[w] \in Singles \cup Pairs,
         NEW g \in Game, NEW s \in {1, 2}
  PROVE  Balanced(w, g, s)
<1>1. ~ IsGame(w)'
  BY DEF Finish, TypeOK, IsGame, Idle
<1>2. In(w, Behind(g, s)') = 0 /\ In(w, Ahead(g, s)') = 0 /\ In(w, Between(g)') = 0
  BY <1>1 DEF In, Behind, Ahead, Between, Serving
<1>3. /\ answers[g] \in Nat /\ awards[g][s] \in Nat /\ calls[g] \in Nat
      /\ awards[g][1] \in Nat /\ awards[g][2] \in Nat
      /\ In(w, Behind(g, s)) \in {0, 1} /\ In(w, Ahead(g, s)) \in {0, 1}
      /\ In(w, Between(g)) \in {0, 1}
  BY DEF TypeOK, In
<1>4. answers'[g] <= answers[g] + In(w, Behind(g, s)) /\ answers'[g] \in Nat
  <2>1. CASE UNCHANGED answers
    BY <1>3, <2>1
  <2>2. CASE Respond(w) /\ IsGame(w) /\ job[w].game = g
    <3>1. w \in Behind(g, s)
      BY <2>2 DEF Respond, At, Behind, Serving, Passed
    <3>2. answers'[g] = answers[g] + 1
      BY <2>2 DEF Respond, TypeOK
    <3>. QED
      BY <1>3, <3>1, <3>2 DEF In
  <2>3. CASE Respond(w) /\ job[w] \in Singles \cup Pairs /\ ~ (IsGame(w) /\ job[w].game = g)
    <3>1. answers'[g] = answers[g]
      BY <2>3, JobTyped DEF Respond, TypeOK, Pairs
    <3>. QED
      BY <1>3, <3>1
  <2>. QED
    BY <2>1, <2>2, <2>3
<1>. QED
  BY <1>2, <1>3, <1>4 DEF Balanced

(* Between two statements of an award a call keeps its places.             *)
LEMMA SameBooks ==
  ASSUME TypeOK, NEW w \in Worker, job'[w] = job[w], pc[w] # "respond", pc'[w] # "respond",
         UNCHANGED <<awards, calls, answers>>,
         NEW g \in Game, NEW s \in {1, 2}
  PROVE  Balanced(w, g, s)
<1>1. /\ answers[g] \in Nat /\ awards[g][s] \in Nat /\ calls[g] \in Nat
      /\ awards[g][1] \in Nat /\ awards[g][2] \in Nat
  BY DEF TypeOK
<1>2. /\ (w \in Behind(g, s))' = (w \in Behind(g, s))
      /\ (w \in Ahead(g, s))' = (w \in Ahead(g, s))
      /\ (w \in Between(g))' = (w \in Between(g))
  BY SameRequest DEF Behind, Ahead, Between, Serving, Passed
<1>. QED
  BY <1>1, <1>2 DEF Balanced, In

(* A request that starts is ahead of both sides of a game that has one     *)
(* more call, or concerns no game.                                         *)
LEMMA StartBooks ==
  ASSUME TypeOK, NEW w \in Worker, pc'[w] = "award", UNCHANGED <<awards, answers>>,
         NEW g \in Game, NEW s \in {1, 2},
         \/ ~ IsGame(w)' /\ calls' = calls
         \/ \E h \in Game : /\ job'[w] = [kind |-> "game", game |-> h, side |-> 1]
                            /\ calls' = [calls EXCEPT ![h] = @ + 1]
  PROVE  Balanced(w, g, s)
<1>1. /\ answers[g] \in Nat /\ awards[g][s] \in Nat /\ calls[g] \in Nat
      /\ awards[g][1] \in Nat /\ awards[g][2] \in Nat
      /\ In(w, Behind(g, s)) \in {0, 1} /\ In(w, Ahead(g, s)) \in {0, 1}
      /\ In(w, Between(g)) \in {0, 1}
  BY DEF TypeOK, In
<1>2. CASE ~ IsGame(w)' /\ calls' = calls
  <2>1. In(w, Behind(g, s)') = 0 /\ In(w, Ahead(g, s)') = 0 /\ In(w, Between(g)') = 0
    BY <1>2 DEF In, Behind, Ahead, Between, Serving
  <2>. QED
    BY <1>1, <1>2, <2>1 DEF Balanced
<1>3. ASSUME NEW h \in Game, job'[w] = [kind |-> "game", game |-> h, side |-> 1],
             calls' = [calls EXCEPT ![h] = @ + 1]
      PROVE  Balanced(w, g, s)
  <2>1. job'[w].game = h /\ job'[w].side = 1
    BY <1>3
  <2>2. In(w, Behind(g, s)') = 0 /\ In(w, Between(g)') = 0
    BY <2>1 DEF In, Behind, Between, Serving, Passed
  <2>3. In(w, Ahead(g, s)') \in {0, 1} /\ (g # h => In(w, Ahead(g, s)') = 0)
    <3>1. g # h => w \notin Ahead(g, s)'
      BY <2>1 DEF Ahead, Serving
    <3>. QED
      BY <3>1 DEF In
  <2>4. calls'[g] = IF g = h THEN calls[g] + 1 ELSE calls[g]
    BY <1>3 DEF TypeOK
  <2>. DEFINE a == In(w, Ahead(g, s))
              b == In(w, Ahead(g, s)')
  <2>5. a \in {0, 1} /\ b \in {0, 1} /\ (g # h => b = 0)
    BY <1>1, <2>3
  <2>. HIDE DEF a, b
  <2>6. awards'[g][s] + b - calls'[g] <= awards[g][s] + a - calls[g]
    BY <1>1, <2>4, <2>5
  <2>. QED
    BY <1>1, <1>3, <2>2, <2>6 DEF Balanced, a, b
<1>. QED
  BY <1>2, <1>3

(* What going on leaves of the request.                                    *)
LEMMA ProceedJob ==
  ASSUME TypeOK, NEW w \in Worker, Proceed(w), job[w] \in Singles \cup Pairs
  PROVE  /\ IsGame(w)' = IsGame(w)
         /\ IsGame(w) => job'[w].game = job[w].game /\ job'[w].side = 2
         /\ pc'[w] = IF IsGame(w) /\ job[w].side = 1 THEN "award" ELSE "respond"
<1>1. CASE IsGame(w) /\ job[w].side = 1
  <2>1. job[w] \in [kind : {"game"}, game : Game, side : {1, 2}]
    BY <1>1, JobTyped DEF Pairs
  <2>. DEFINE j == [job[w] EXCEPT !.side = 2]
  <2>2. j.kind = "game" /\ j.game = job[w].game /\ j.side = 2
    BY <2>1
  <2>. HIDE DEF j
  <2>3. job'[w] = j /\ pc'[w] = "award"
    BY <1>1 DEF Proceed, Goto, TypeOK, j
  <2>. QED
    BY <1>1, <2>2, <2>3 DEF IsGame
<1>2. CASE ~ (IsGame(w) /\ job[w].side = 1)
  <2>1. job'[w] = job[w] /\ pc'[w] = "respond"
    BY <1>2 DEF Proceed, Goto, TypeOK
  <2>2. IsGame(w) => job[w].side = 2
    BY <1>2, JobTyped DEF Pairs
  <2>. QED
    BY <1>2, <2>1, <2>2 DEF IsGame
<1>. QED
  BY <1>1, <1>2

(* Going on moves the call past a side: one that is due an award gets it   *)
(* in the same step.                                                       *)
LEMMA ProceedBooks ==
  ASSUME TypeOK, NEW w \in Worker, pc[w] # "respond", job[w] \in Singles \cup Pairs, Proceed(w),
         UNCHANGED <<calls, answers>>,
         \/ GainAt(w) <= 0 /\ UNCHANGED awards
         \/ awards' = IF IsGame(w) THEN [awards EXCEPT ![job[w].game][job[w].side] = @ + 1]
                      ELSE awards,
         NEW g \in Game, NEW s \in {1, 2}
  PROVE  Balanced(w, g, s)
<1>1. /\ answers[g] \in Nat /\ calls[g] \in Nat
      /\ awards[g][1] \in Nat /\ awards[g][2] \in Nat
      /\ answers'[g] = answers[g] /\ calls'[g] = calls[g]
  BY DEF TypeOK
<1>2. CASE ~ (IsGame(w) /\ job[w].game = g)
  <2>1. ~ (IsGame(w) /\ job[w].game = g)'
    BY <1>2, ProceedJob
  <2>2. awards'[g] = awards[g]
    BY <1>2, JobTyped DEF TypeOK, Pairs
  <2>3. /\ w \notin Behind(g, s) /\ w \notin Ahead(g, s) /\ w \notin Between(g)
        /\ w \notin Behind(g, s)' /\ w \notin Ahead(g, s)' /\ w \notin Between(g)'
    BY <1>2, <2>1 DEF Behind, Ahead, Between, Serving
  <2>. QED
    BY <1>1, <2>2, <2>3 DEF Balanced, In
<1>3. CASE IsGame(w) /\ job[w].game = g
  <2>1. job[w] \in Pairs /\ job[w].side \in {1, 2}
    BY <1>3, JobTyped DEF Pairs
  <2>2. GainAt(w) = Due(g, job[w].side) /\ Due(g, 1) \in Int /\ Due(g, 2) \in Int
    BY <1>3, DueTyped DEF GainAt
  <2>3. \A r \in {1, 2} : Due(g, r) > 0 =>
          awards'[g][r] = IF r = job[w].side THEN awards[g][r] + 1 ELSE awards[g][r]
    BY <1>3, <2>1, <2>2 DEF TypeOK
  <2>4. w \in Serving(g) /\ w \in Serving(g)'
    BY <1>3, ProceedJob DEF Serving
  <2>5. CASE job[w].side = 1
    <3>1. job'[w].side = 2 /\ pc'[w] = "award"
      BY <1>3, <2>5, ProceedJob
    <3>2. /\ ~ Passed(w, 1) /\ ~ Passed(w, 2) /\ Passed(w, 1)' /\ ~ Passed(w, 2)'
      BY <2>5, <3>1 DEF Passed
    <3>3. /\ In(w, Behind(g, 1)) = 0 /\ In(w, Behind(g, 1)') = 1
          /\ In(w, Ahead(g, 1)) = 1 /\ In(w, Ahead(g, 1)') = 0
          /\ In(w, Behind(g, 2)) = 0 /\ In(w, Behind(g, 2)') = 0
          /\ In(w, Ahead(g, 2)) = 1 /\ In(w, Ahead(g, 2)') = 1
          /\ In(w, Between(g)) = 0 /\ In(w, Between(g)') = 1
      BY <2>4, <3>2 DEF In, Behind, Ahead, Between
    <3>. QED
      BY <1>1, <2>2, <2>3, <2>5, <3>3 DEF Balanced
  <2>6. CASE job[w].side = 2
    <3>1. job'[w].side = 2 /\ pc'[w] = "respond"
      BY <1>3, <2>6, ProceedJob
    <3>2. /\ Passed(w, 1) /\ ~ Passed(w, 2) /\ Passed(w, 1)' /\ Passed(w, 2)'
      BY <2>6, <3>1 DEF Passed
    <3>3. /\ In(w, Behind(g, 1)) = 1 /\ In(w, Behind(g, 1)') = 1
          /\ In(w, Ahead(g, 1)) = 0 /\ In(w, Ahead(g, 1)') = 0
          /\ In(w, Behind(g, 2)) = 0 /\ In(w, Behind(g, 2)') = 1
          /\ In(w, Ahead(g, 2)) = 1 /\ In(w, Ahead(g, 2)') = 0
          /\ In(w, Between(g)) = 1 /\ In(w, Between(g)') = 0
      BY <2>4, <3>2 DEF In, Behind, Ahead, Between
    <3>. QED
      BY <1>1, <2>2, <2>3, <2>6, <3>3 DEF Balanced
  <2>. QED
    BY <2>1, <2>5, <2>6
<1>. QED
  BY <1>2, <1>3

(* Every step keeps the books.                                             *)
LEMMA CallsStep ==
  ASSUME IInv, IInv', CallsInv, [Next]_vars
  PROVE  CallsInv'
<1>. USE DEF IInv
<1>1. CASE UNCHANGED vars
  BY <1>1 DEF CallsInv, Serving, Accounted, Behind, Ahead, Between, Passed, IsGame, vars
<1>2. CASE \E c \in Coefficient : Tune(c)
  <2>1. UNCHANGED <<pc, job, awards, calls, answers>>
    BY <1>2 DEF Tune, rows, history
  <2>. QED
    BY <2>1 DEF CallsInv, Serving, Accounted, Behind, Ahead, Between, Passed, IsGame
<1>3. ASSUME NEW w \in Worker, Fail(w) PROVE CallsInv'
  <2>1. Finish(w) /\ Others(w) /\ UNCHANGED <<awards, calls, answers>>
    BY <1>3 DEF Fail, Finish, Goto, Others, TypeOK, rows, history
  <2>. QED
    BY <2>1, EndBooks, BooksKept
<1>4. ASSUME NEW w \in Worker, Respond(w) PROVE CallsInv'
  <2>1. /\ Finish(w) /\ Others(w) /\ UNCHANGED <<awards, calls>>
        /\ job[w] \in Singles \cup Pairs
    BY <1>4 DEF Respond, Finish, Goto, Others, TypeOK, rows, At, Stage
  <2>. QED
    BY <1>4, <2>1, EndBooks, BooksKept
<1>5. ASSUME NEW w \in Worker,
             \/ ReadCoefficient(w)
             \/ GetProgressionForUpdate(w) /\ ~ Fail(w)
             \/ UpdateProgression(w)
      PROVE  CallsInv'
  <2>1. /\ Others(w) /\ job'[w] = job[w] /\ pc[w] # "respond" /\ pc'[w] # "respond"
        /\ UNCHANGED <<awards, calls, answers>>
    BY <1>5 DEF ReadCoefficient, GetProgressionForUpdate, UpdateProgression, At, Goto, Others,
                TypeOK, rows, history
  <2>. QED
    BY <2>1, SameBooks, BooksKept
<1>6. ASSUME NEW w \in Worker, SkipAward(w) \/ Commit(w) PROVE CallsInv'
  <2>1. /\ pc[w] \in {"award", "commit"} /\ Proceed(w) /\ job[w] \in Singles \cup Pairs
        /\ UNCHANGED <<calls, answers>>
    BY <1>6 DEF SkipAward, Commit, At, Stage, history
  <2>2. Others(w)
    BY <2>1, ProceedShape
  <2>3. \/ GainAt(w) <= 0 /\ UNCHANGED awards
        \/ awards' = IF IsGame(w) THEN [awards EXCEPT ![job[w].game][job[w].side] = @ + 1]
                     ELSE awards
    BY <1>6 DEF SkipAward, Commit, rows
  <2>. QED
    BY <2>1, <2>2, <2>3, ProceedBooks, BooksKept
<1>7. ASSUME NEW w \in Worker, NEW p \in Player, NEW gain \in Gain, AddExp(w, p, gain)
      PROVE  CallsInv'
  <2>1. /\ Others(w) /\ pc'[w] = "award" /\ ~ IsGame(w)'
        /\ UNCHANGED <<awards, calls, answers>>
    BY <1>7 DEF AddExp, Goto, Others, TypeOK, IsGame, rows, history
  <2>. QED
    BY <2>1, StartBooks, BooksKept
<1>8. ASSUME NEW w \in Worker, NEW g \in Game, AwardGameExp(w, g)
      PROVE  CallsInv'
  <2>1. /\ Others(w) /\ pc'[w] = "award"
        /\ job'[w] = [kind |-> "game", game |-> g, side |-> 1]
        /\ calls' = [calls EXCEPT ![g] = @ + 1]
        /\ UNCHANGED <<awards, answers>>
    BY <1>8 DEF AwardGameExp, Goto, Others, TypeOK, rows
  <2>. QED
    BY <2>1, StartBooks, BooksKept
<1>. QED
  BY <1>1, <1>2, <1>3, <1>4, <1>5, <1>6, <1>7, <1>8 DEF Next, Serve, Abort

(* No call is in flight when the service starts.                           *)
LEMMA InitCalls == Init => CallsInv
<1>. SUFFICES ASSUME Init, NEW g \in Game
              PROVE  IsFiniteSet(Serving(g)) /\ \A s \in {1, 2} : Accounted(g, s)
  BY DEF CallsInv
<1>1. Serving(g) = {}
  BY DEF Init, Serving, IsGame, Idle
<1>2. \A s \in {1, 2} : Behind(g, s) = {} /\ Ahead(g, s) = {}
  BY <1>1 DEF Behind, Ahead
<1>3. Between(g) = {}
  BY <1>2 DEF Between
<1>4. IsFiniteSet({}) /\ Cardinality({}) = 0
  BY FS_EmptySet
<1>. QED
  BY <1>1, <1>2, <1>3, <1>4 DEF Init, Accounted

(* A success answered to a caller of award-game-exp stands for an award to *)
(* every side that is due one, and every award for a call; the second side *)
(* has no more of them than the first (AwardGameExp, one transaction per   *)
(* side, without an idempotency key).                                      *)
THEOREM SuccessMeansAwarded == Spec => []AnswersAreAwards
<1>1. IInv /\ CallsInv => AnswersAreAwards
  <2>. SUFFICES ASSUME IInv, CallsInv, NEW g \in Game, NEW s \in {1, 2}, Due(g, s) > 0
                PROVE  /\ answers[g] <= awards[g][s]
                       /\ awards[g][s] <= calls[g]
                       /\ s = 2 /\ Due(g, 1) > 0 => awards[g][2] <= awards[g][1]
    BY DEF AnswersAreAwards
  <2>1. /\ answers[g] \in Nat /\ awards[g][s] \in Nat /\ calls[g] \in Nat
        /\ awards[g][1] \in Nat /\ awards[g][2] \in Nat
    BY DEF IInv, TypeOK
  <2>2. /\ Behind(g, s) \subseteq Serving(g) /\ Ahead(g, s) \subseteq Serving(g)
        /\ Between(g) \subseteq Serving(g)
    BY DEF Behind, Ahead, Between
  <2>3. /\ IsFiniteSet(Behind(g, s)) /\ IsFiniteSet(Ahead(g, s)) /\ IsFiniteSet(Between(g))
    BY <2>2, FS_Subset DEF CallsInv
  <2>4. /\ Cardinality(Behind(g, s)) \in Nat /\ Cardinality(Ahead(g, s)) \in Nat
        /\ Cardinality(Between(g)) \in Nat
    BY <2>3, FS_CardinalityType
  <2>5. Accounted(g, s)
    BY DEF CallsInv
  <2>. QED
    BY <2>1, <2>4, <2>5 DEF Accounted
<1>2. IInv /\ IInv' /\ CallsInv /\ [Next]_vars => CallsInv'
  BY CallsStep
<1>. QED
  BY <1>1, <1>2, InitCalls, Invariance, PTL DEF Spec

----------------------------------------------------------------------------
(* Rows as the awards change them.                                         *)

(* The only step that changes a row is the commit of an award to it.       *)
LEMMA RowsChangeByCommit ==
  ASSUME IInv, [Next]_vars, NEW p \in Player,
         <<exp'[p], level'[p]>> # <<exp[p], level[p]>>
  PROVE  \E w \in Worker :
           /\ pc[w] = "commit"
           /\ GainAt(w) \in Nat /\ GainAt(w) > 0 /\ read[w].coeff \in Coefficient
           /\ exp'[p] = exp[p] + GainAt(w)
           /\ level'[p] = ComputeLevel(exp'[p], level[p], read[w].coeff)
<1>1. PICK w \in Worker : Commit(w)
  BY DEF Next, Serve, SkipAward, ReadCoefficient, GetProgressionForUpdate, UpdateProgression,
         Respond, Abort, Fail, AddExp, AwardGameExp, Tune, vars, rows
<1>2. p = PlayerAt(w)
  BY <1>1, CommitShape DEF IInv, TypeOK
<1>3. exp'[p] = exp[p] + GainAt(w)
  BY <1>1, <1>2, CommitShape DEF IInv, TypeOK
<1>4. level'[p] = ComputeLevel(exp'[p], level[p], read[w].coeff)
  BY <1>1, <1>2, <1>3, CommitShape DEF IInv, TypeOK
<1>5. pc[w] = "commit" /\ read[w].coeff \in Coefficient /\ GainAt(w) \in Nat /\ GainAt(w) > 0
  BY <1>1, CommitShape DEF Commit, At
<1>. QED
  BY <1>3, <1>4, <1>5

(* An award is one step of the row (AwardExp): the level climbs from the   *)
(* one the row had just before to the one the new experience implies.      *)
THEOREM AwardsOneStep == Spec => AwardsAreAtomic
<1>1. ASSUME IInv, [Next]_vars, NEW p \in Player,
             <<exp'[p], level'[p]>> # <<exp[p], level[p]>>
      PROVE  /\ exp'[p] > exp[p]
             /\ \E c \in Coefficient : level'[p] = ComputeLevel(exp'[p], level[p], c)
  <2>1. exp[p] \in Nat
    BY <1>1 DEF IInv, TypeOK
  <2>. QED
    BY <1>1, <2>1, RowsChangeByCommit
<1>2. IInv /\ [Next]_vars =>
        [\A p \in Player :
           <<exp'[p], level'[p]>> # <<exp[p], level[p]>> =>
             /\ exp'[p] > exp[p]
             /\ \E c \in Coefficient : level'[p] = ComputeLevel(exp'[p], level[p], c)]_vars
  BY <1>1
<1>. QED
  BY <1>2, Invariance, PTL DEF Spec, AwardsAreAtomic

(* A row that an award leaves behind is in the bounds of its level.        *)
LEMMA AwardSettles ==
  ASSUME NEW c \in Nat \ {0}, NEW e \in Nat, NEW gain \in Nat, NEW l \in Nat \ {0},
         CurrentLevelExp(l, c) <= e
  PROVE  LET m == ComputeLevel(e + gain, l, c) IN
         CurrentLevelExp(m, c) <= e + gain /\ e + gain < NextLevelExp(m, c)
<1>. DEFINE m == ComputeLevel(e + gain, l, c)
<1>1. m \in l .. l + (e + gain) /\ Stops(e + gain, l, c, m)
  <2>1. e + gain \in Nat /\ l \in Nat
    OBVIOUS
  <2>. QED
    BY <2>1, ComputeLevelStops, Zenon
<1>. HIDE DEF m
<1>2. e + gain < NextLevelExp(m, c)
  BY <1>1 DEF Stops
<1>3. CASE m = l
  <2>1. CurrentLevelExp(l, c) \in Nat
    BY DEF CurrentLevelExp
  <2>. QED
    BY <1>2, <1>3, <2>1 DEF m
<1>4. CASE m # l
  <2>1. m - 1 \in l .. m - 1 /\ m > 1 /\ m \in Nat
    BY <1>1, <1>4
  <2>2. NextLevelExp(m - 1, c) <= e + gain
    BY <1>1, <2>1 DEF Stops
  <2>3. NextLevelExp(m - 1, c) = CurrentLevelExp(m, c)
    <3>1. (m - 1) + 1 = m
      BY <2>1
    <3>. QED
      BY <2>1, <3>1 DEF NextLevelExp, CurrentLevelExp
  <2>. QED
    BY <1>2, <2>2, <2>3 DEF m
<1>. QED
  BY <1>3, <1>4

(* A row that is settled can be read.                                      *)
LEMMA SettledIsReadable ==
  ASSUME TypeOK, Settled(coefficient)
  PROVE  ProgressIsReadable
<1>. SUFFICES ASSUME NEW p \in Player
              PROVE  /\ Consistent(level[p], exp[p], coefficient)
                     /\ exp[p] - CurrentLevelExp(level[p], coefficient) \in
                          0 .. NextLevelExp(level[p], coefficient)
                                 - CurrentLevelExp(level[p], coefficient) - 1
  BY DEF ProgressIsReadable, ComputeExpProgress
<1>1. coefficient \in Nat \ {0} /\ exp[p] \in Nat /\ level[p] \in Nat \ {0}
  BY ProgressionAssumption DEF TypeOK
<1>2. /\ CurrentLevelExp(level[p], coefficient) \in Int
      /\ NextLevelExp(level[p], coefficient) \in Int
  BY <1>1 DEF CurrentLevelExp, NextLevelExp
<1>3. /\ CurrentLevelExp(level[p], coefficient) <= exp[p]
      /\ exp[p] < NextLevelExp(level[p], coefficient)
  BY DEF Settled
<1>. QED
  BY <1>1, <1>2, <1>3 DEF Consistent

(* An award under the coefficient the rows are settled for leaves them so. *)
LEMMA SettledKept ==
  ASSUME IInv, [Next]_vars, Settled(coefficient), coefficient' = coefficient,
         \A w \in Worker : pc[w] = "commit" => read[w].coeff = coefficient
  PROVE  Settled(coefficient)'
<1>. SUFFICES ASSUME NEW p \in Player
              PROVE  CurrentLevelExp(level'[p], coefficient) <= exp'[p]
                     /\ exp'[p] < NextLevelExp(level'[p], coefficient)
  BY DEF Settled
<1>1. CASE <<exp'[p], level'[p]>> = <<exp[p], level[p]>>
  BY <1>1 DEF Settled
<1>2. CASE <<exp'[p], level'[p]>> # <<exp[p], level[p]>>
  <2>1. PICK w \in Worker : /\ pc[w] = "commit"
                            /\ GainAt(w) \in Nat
                            /\ exp'[p] = exp[p] + GainAt(w)
                            /\ level'[p] = ComputeLevel(exp'[p], level[p], read[w].coeff)
    BY <1>2, RowsChangeByCommit
  <2>2. level'[p] = ComputeLevel(exp[p] + GainAt(w), level[p], coefficient)
    BY <2>1
  <2>3. /\ exp[p] \in Nat /\ level[p] \in Nat \ {0} /\ coefficient \in Nat \ {0}
        /\ CurrentLevelExp(level[p], coefficient) <= exp[p]
    BY ProgressionAssumption DEF IInv, TypeOK, Settled
  <2>. QED
    BY <2>1, <2>2, <2>3, AwardSettles
<1>. QED
  BY <1>1, <1>2

(* A worker in an award has the coefficient in force, as long as it does   *)
(* not change.                                                             *)
LEMMA CoefficientInForce ==
  ASSUME IInv, [Next]_vars, coefficient' = coefficient, NEW v \in Worker,
         pc[v] \in {"select", "update", "commit"} => read[v].coeff = coefficient,
         pc'[v] \in {"select", "update", "commit"}
  PROVE  read'[v].coeff = coefficient
<1>. USE DEF IInv, TypeOK
<1>1. CASE pc'[v] = pc[v] /\ read'[v] = read[v]
  BY <1>1
<1>2. ASSUME NEW w \in Worker, w # v, Serve(w) \/ Abort(w)
      PROVE  pc'[v] = pc[v] /\ read'[v] = read[v]
  BY <1>2 DEF Serve, SkipAward, ReadCoefficient, GetProgressionForUpdate, UpdateProgression,
              Commit, Respond, Abort, Fail, Finish, Proceed, Goto
<1>3. ASSUME NEW w \in Worker, w # v,
             \/ \E p \in Player, gain \in Gain : AddExp(w, p, gain)
             \/ \E g \in Game : AwardGameExp(w, g)
      PROVE  pc'[v] = pc[v] /\ read'[v] = read[v]
  BY <1>3 DEF AddExp, AwardGameExp, Goto
<1>4. CASE UNCHANGED vars \/ \E c \in Coefficient : Tune(c)
  BY <1>1, <1>4 DEF vars, Tune
<1>5. CASE ReadCoefficient(v)
  BY <1>5 DEF ReadCoefficient
<1>6. CASE GetProgressionForUpdate(v) /\ ~ Fail(v)
  BY <1>6 DEF GetProgressionForUpdate, At
<1>7. CASE UpdateProgression(v)
  BY <1>7 DEF UpdateProgression, At
<1>8. CASE \/ SkipAward(v) \/ Commit(v) \/ Respond(v) \/ Fail(v)
           \/ \E p \in Player, gain \in Gain : AddExp(v, p, gain)
           \/ \E g \in Game : AwardGameExp(v, g)
  <2>1. pc'[v] \in {"award", "respond", "idle"}
    BY <1>8 DEF SkipAward, Commit, Respond, Fail, Finish, Proceed, AddExp, AwardGameExp, Goto
  <2>. QED
    BY <2>1
<1>. QED
  BY <1>1, <1>2, <1>3, <1>4, <1>5, <1>6, <1>7, <1>8 DEF Next, Serve, Abort

(* As long as the coefficient is never tuned, every player can be read:    *)
(* ComputeExpProgress refuses no row (GetPlayerResponse).                  *)
THEOREM SteadyIsReadable ==
  ASSUME NEW c \in Coefficient, Coefficient = {c}
  PROVE  Spec => []ProgressIsReadable
<1>1. IInv => coefficient = c
  BY DEF IInv, TypeOK
<1>2. Init => Settled(coefficient)
  <2>. SUFFICES ASSUME Init PROVE Settled(coefficient)
    OBVIOUS
  <2>1. coefficient \in Nat \ {0} /\ \A p \in Player : exp[p] = 0 /\ level[p] = 1
    BY ProgressionAssumption DEF Init
  <2>. QED
    BY <2>1 DEF Settled, CurrentLevelExp, NextLevelExp
<1>3. ASSUME IInv, IInv', Settled(coefficient), [Next]_vars
      PROVE  Settled(coefficient)'
  <2>1. \A w \in Worker : pc[w] = "commit" => read[w].coeff = coefficient
    BY <1>1, <1>3 DEF IInv, Stage
  <2>2. coefficient' = coefficient
    BY <1>3 DEF IInv, TypeOK
  <2>. QED
    BY <1>3, <2>1, <2>2, SettledKept
<1>4. IInv /\ Settled(coefficient) => ProgressIsReadable
  BY SettledIsReadable DEF IInv
<1>. QED
  BY <1>2, <1>3, <1>4, Invariance, PTL DEF Spec

(* The history of the coefficient adds to a behaviour of the service.      *)
LEMMA TuningIsSpec == TuningSpec => Spec
<1>1. TuningInit => Init
  BY DEF TuningInit
<1>2. [TuningNext]_<<vars, tuned>> => [Next]_vars
  BY DEF TuningNext
<1>. QED
  BY <1>1, <1>2, PTL DEF TuningSpec, Spec

(* Every player can be read until the coefficient is tuned: under the one  *)
(* the awards were made with, ComputeExpProgress refuses no row            *)
(* (GetPlayerResponse).                                                    *)
THEOREM TuningAloneBreaksRows == TuningSpec => []ReadableUntilTuned
<1>1. TuningInit => SettledUntilTuned
  <2>. SUFFICES ASSUME Init PROVE Settled(coefficient)
    BY DEF TuningInit, Init, SettledUntilTuned
  <2>1. coefficient \in Nat \ {0} /\ \A p \in Player : exp[p] = 0 /\ level[p] = 1
    BY ProgressionAssumption DEF Init
  <2>. QED
    BY <2>1 DEF Settled, CurrentLevelExp, NextLevelExp
<1>2. ASSUME IInv, SettledUntilTuned, [TuningNext]_<<vars, tuned>>
      PROVE  SettledUntilTuned'
  <2>. SUFFICES ASSUME ~ tuned' PROVE SettledUntilTuned'
    BY DEF SettledUntilTuned
  <2>1. [Next]_vars /\ coefficient' = coefficient /\ ~ tuned
    <3>1. TuningNext => Next /\ coefficient' = coefficient /\ ~ tuned
      BY Zenon DEF TuningNext
    <3>2. UNCHANGED <<vars, tuned>> => UNCHANGED vars /\ coefficient' = coefficient /\ ~ tuned
      BY DEF vars
    <3>. QED
      BY <1>2, <3>1, <3>2
  <2>2. /\ Settled(coefficient)
        /\ \A w \in Worker :
             pc[w] \in {"select", "update", "commit"} => read[w].coeff = coefficient
    BY <1>2, <2>1 DEF SettledUntilTuned
  <2>3. Settled(coefficient)'
    BY <1>2, <2>1, <2>2, SettledKept
  <2>4. \A v \in Worker :
          pc'[v] \in {"select", "update", "commit"} => read'[v].coeff = coefficient'
    BY <1>2, <2>1, <2>2, CoefficientInForce
  <2>. QED
    BY <2>3, <2>4 DEF SettledUntilTuned
<1>3. IInv /\ SettledUntilTuned => ReadableUntilTuned
  BY SettledIsReadable DEF IInv, SettledUntilTuned, ReadableUntilTuned
<1>. QED
  BY <1>1, <1>2, <1>3, TuningIsSpec, Invariance, PTL DEF TuningSpec

----------------------------------------------------------------------------
(* Words.                                                                  *)

(* Wrap yields a word, and leaves words alone.                             *)
LEMMA WrapWord ==
  ASSUME NEW x \in Int
  PROVE  Wrap(x) \in Word /\ (x \in Word => Wrap(x) = x)
<1>1. Bound \in Nat /\ Bound > 0
  BY LoopAssumption
<1>2. (x + Bound) % (2 * Bound) \in 0 .. (2 * Bound) - 1
  BY <1>1
<1>. QED
  BY <1>1, <1>2 DEF Wrap, Word

(* A term whose exact value is a word is computed exactly.                 *)
LEMMA TermExact ==
  ASSUME NEW c \in Word \cap (Nat \ {0}), NEW l \in Nat, NextLevelExp(l, c) \in Word
  PROVE  /\ Wrap(l + 1) = l + 1
         /\ MachineNextLevelExp(l, c) = NextLevelExp(l, c)
<1>1. Bound \in Nat
  BY LoopAssumption
<1>2. /\ NextLevelExp(l, c) \in Nat
      /\ c * (l + 1) \in Nat
      /\ c * (l + 1) <= NextLevelExp(l, c)
      /\ l + 1 <= NextLevelExp(l, c)
  <2>1. l <= l
    OBVIOUS
  <2>. QED
    BY <2>1, EndsGrow
<1>3. l + 1 \in Word /\ c * (l + 1) \in Word
  BY <1>1, <1>2 DEF Word
<1>4. Wrap(l + 1) = l + 1 /\ Wrap(c * (l + 1)) = c * (l + 1)
  BY <1>2, <1>3, WrapWord
<1>5. Wrap(c * (l + 1) * (l + 1)) = c * (l + 1) * (l + 1)
  BY <1>2, WrapWord DEF NextLevelExp
<1>. QED
  BY <1>4, <1>5 DEF MachineNextLevelExp, NextLevelExp

(* The loop invariant: a climb in range has passed the end of every level  *)
(* it left behind, and is not above the level it looks for.                *)
Climbing ==
  InRange =>
    /\ reached \in currentLevel .. Result
    /\ done => reached = Result

LoopIInv == LoopTypeOK /\ Climbing

(* The result of the call is the level at which the climb stops.           *)
LEMMA ResultStops ==
  ASSUME LoopTypeOK
  PROVE  /\ Result \in Nat /\ currentLevel <= Result
         /\ Stops(newExp, currentLevel, coeff, Result)
<1>1. newExp \in Nat /\ currentLevel \in Nat \ {0} /\ coeff \in Nat \ {0}
  BY LoopAssumption DEF LoopTypeOK
<1>. QED
  BY <1>1, ComputeLevelStops DEF Result

(* In range, the term of the level the loop stands at is exact.            *)
LEMMA TermInRange ==
  ASSUME LoopIInv, InRange
  PROVE  /\ reached \in Nat
         /\ Wrap(reached + 1) = reached + 1
         /\ MachineNextLevelExp(reached, coeff) = NextLevelExp(reached, coeff)
<1>1. Result \in Nat /\ currentLevel \in Nat
  BY ResultStops, LoopAssumption DEF LoopIInv, LoopTypeOK
<1>2. reached \in currentLevel .. Result
  BY DEF LoopIInv, Climbing
<1>3. reached \in Nat /\ NextLevelExp(reached, coeff) \in Word
  BY <1>1, <1>2 DEF InRange
<1>4. coeff \in Word \cap (Nat \ {0})
  BY DEF LoopIInv, LoopTypeOK
<1>. QED
  BY <1>3, <1>4, TermExact

(* The invariant holds when the call begins ...                            *)
LEMMA LoopInitIInv == LoopInit => LoopIInv
<1>. SUFFICES ASSUME LoopInit PROVE LoopIInv
  OBVIOUS
<1>1. LoopTypeOK
  BY LoopAssumption DEF LoopInit, LoopTypeOK
<1>2. Climbing
  BY <1>1, ResultStops, LoopAssumption DEF LoopInit, Climbing, LoopTypeOK
<1>. QED
  BY <1>1, <1>2 DEF LoopIInv

(* ... and every iteration keeps it.                                       *)
LEMMA IterateStep == LoopIInv /\ Iterate => LoopIInv'
<1>. SUFFICES ASSUME LoopIInv, Iterate PROVE LoopIInv'
  OBVIOUS
<1>1. LoopTypeOK'
  <2>1. reached + 1 \in Int
    BY DEF LoopIInv, LoopTypeOK, Word
  <2>2. Wrap(reached + 1) \in Word
    BY <2>1, WrapWord
  <2>. QED
    BY <2>2 DEF LoopIInv, LoopTypeOK, Iterate
<1>2. Result' = Result /\ InRange' = InRange
  BY DEF Iterate, Result, InRange
<1>3. ASSUME InRange
      PROVE  reached' \in currentLevel .. Result /\ (done' => reached' = Result)
  <2>1. /\ reached \in Nat
        /\ Wrap(reached + 1) = reached + 1
        /\ MachineNextLevelExp(reached, coeff) = NextLevelExp(reached, coeff)
    BY <1>3, TermInRange
  <2>2. /\ Result \in Nat /\ currentLevel <= Result /\ currentLevel \in Nat
        /\ Stops(newExp, currentLevel, coeff, Result)
    BY ResultStops, LoopAssumption DEF LoopIInv, LoopTypeOK
  <2>3. reached \in currentLevel .. Result
    BY <1>3 DEF LoopIInv, Climbing
  <2>4. reached < Result => ~ (newExp < NextLevelExp(reached, coeff))
    <3>1. SUFFICES ASSUME reached < Result PROVE NextLevelExp(reached, coeff) <= newExp
                   /\ NextLevelExp(reached, coeff) \in Nat /\ newExp \in Nat
      OBVIOUS
    <3>2. reached \in currentLevel .. Result - 1
      BY <2>1, <2>2, <2>3, <3>1
    <3>3. coeff \in Nat \ {0} /\ newExp \in Nat /\ reached <= reached
      BY <2>1 DEF LoopIInv, LoopTypeOK
    <3>. QED
      BY <2>1, <2>2, <3>2, <3>3, EndsGrow DEF Stops
  <2>5. newExp < NextLevelExp(Result, coeff)
    BY <2>2 DEF Stops
  <2>6. CASE newExp < NextLevelExp(reached, coeff)
    BY <2>1, <2>2, <2>3, <2>4, <2>6 DEF Iterate
  <2>7. CASE ~ (newExp < NextLevelExp(reached, coeff))
    <3>1. reached # Result
      BY <2>5, <2>7
    <3>2. reached' = reached + 1 /\ done' = done /\ ~ done
      BY <2>1, <2>7 DEF Iterate
    <3>. QED
      BY <2>1, <2>2, <2>3, <3>1, <3>2
  <2>. QED
    BY <2>6, <2>7
<1>4. Climbing'
  BY <1>2, <1>3 DEF Climbing, Iterate
<1>. QED
  BY <1>1, <1>4 DEF LoopIInv

(* The loop of ComputeLevel keeps its invariant, for words of any width.   *)
THEOREM LoopInvariance == LoopSpec => []LoopIInv
<1>1. LoopIInv /\ UNCHANGED loopVars => LoopIInv'
  BY DEF LoopIInv, LoopTypeOK, Climbing, InRange, Result, loopVars
<1>2. LoopIInv /\ [Iterate]_loopVars => LoopIInv'
  BY <1>1, IterateStep
<1>. QED
  BY LoopInitIInv, <1>2, PTL DEF LoopSpec

(* Every variable keeps its type.                                          *)
THEOREM LoopTypeCorrect == LoopSpec => []LoopTypeOK
<1>1. LoopIInv => LoopTypeOK
  BY DEF LoopIInv
<1>. QED
  BY <1>1, LoopInvariance, PTL

(* In range, the loop returns the level the experience implies, and none   *)
(* of its terms overflows (ComputeLevel, domain/level.go).                 *)
THEOREM LoopIsCorrect == LoopSpec => []LoopComputesLevel
<1>1. LoopIInv => LoopComputesLevel
  BY TermInRange DEF LoopIInv, Climbing, LoopComputesLevel
<1>. QED
  BY <1>1, LoopInvariance, PTL
=============================================================================
