---------------------------- MODULE Progression -----------------------------
(***************************************************************************)
(* Awards of experience, statement by statement.                           *)
(*                                                                         *)
(* A worker serves POST exp (one award) or POST award-game-exp (the awards *)
(* of a game's two sides, one after the other).  An award reads the        *)
(* coefficient from the configuration store and then runs one transaction: *)
(* SELECT FOR UPDATE, UPDATE, commit.  No call carries an idempotency key: *)
(* a caller that got no success may call again.  Meanwhile the coefficient *)
(* may be tuned.  Experience is an int64 in the code and in the table; no  *)
(* sum here comes near its end, and Level alone has words that wrap.       *)
(*                                                                         *)
(* gained, calls, awards and answers are history variables.                *)
(***************************************************************************)
EXTENDS Level

CONSTANTS
  Worker,       \* requests in flight
  Player,       \* player ids that requests name
  Registered,   \* those with a row in player_progression
  Game,         \* games that have ended
  Side,         \* the two players of a game
  Outcome,      \* how a game ended
  Npc,          \* the games against a computer, which is side 2
  ExpWin, ExpLoss, ExpDraw,  \* game_config exp_win, exp_loss, exp_draw
  Gain,         \* amounts POST exp is called with
  Coefficient,  \* values of game_config exp_formula_coefficient
  MaxExp,       \* bound: POST exp starts for a player below this
  MaxCalls      \* bound: calls of award-game-exp per game

ASSUME ProgressionAssumption ==
  /\ Registered \subseteq Player
  /\ Side \in [Game -> [{1, 2} -> Player]]
  /\ Outcome \in [Game -> {"draw", "first", "second", "other"}]
  /\ Npc \subseteq Game
  /\ ExpWin \in Int /\ ExpLoss \in Int /\ ExpDraw \in Int
  /\ Gain \subseteq Int
  /\ Coefficient \subseteq Nat \ {0}
  /\ MaxExp \in Nat /\ MaxCalls \in Nat

VARIABLES
  coefficient,  \* exp_formula_coefficient, as the store holds it
  exp,          \* player_progression
  level,
  pc,           \* the statement each worker executes next
  job,          \* the request it serves
  read,         \* the coefficient it has read, and the row
  gained,       \* history: experience committed for each player
  calls,        \* history: calls of award-game-exp for each game
  awards,       \* history: awards committed for each side of a game
  answers       \* history: successes answered for each game

vars == <<coefficient, exp, level, pc, job, read, gained, calls, awards, answers>>

rows    == <<exp, level, gained, awards>>
history == <<calls, answers>>

Idle == [kind |-> "none"]

Singles == [kind : {"exp"}, player : Player, gain : Gain]

Pairs == [kind : {"game"}, game : Game, side : {1, 2}]

Nothing == [coeff |-> 0, exp |-> 0, level |-> 0]

Init ==
  /\ coefficient \in Coefficient
  /\ exp = [p \in Player |-> 0]
  /\ level = [p \in Player |-> 1]
  /\ pc = [w \in Worker |-> "idle"]
  /\ job = [w \in Worker |-> Idle]
  /\ read = [w \in Worker |-> Nothing]
  /\ gained = [p \in Player |-> 0]
  /\ calls = [g \in Game |-> 0]
  /\ awards = [g \in Game |-> [s \in {1, 2} |-> 0]]
  /\ answers = [g \in Game |-> 0]

----------------------------------------------------------------------------
(* What a request asks for.                                                *)

(* AwardGameExp's table.  0 stands for a side that is not awarded: a       *)
(* computer, or an outcome that is neither a draw nor a win of either.     *)
Due(g, side) ==
  IF side = 2 /\ g \in Npc THEN 0
  ELSE CASE Outcome[g] = "draw"   -> ExpDraw
         [] Outcome[g] = "first"  -> IF side = 1 THEN ExpWin ELSE ExpLoss
         [] Outcome[g] = "second" -> IF side = 1 THEN ExpLoss ELSE ExpWin
         [] Outcome[g] = "other"  -> 0

IsGame(w) == job[w].kind = "game"

PlayerAt(w) == IF IsGame(w) THEN Side[job[w].game][job[w].side] ELSE job[w].player

GainAt(w) == IF IsGame(w) THEN Due(job[w].game, job[w].side) ELSE job[w].gain

(* The row lock of SELECT FOR UPDATE, held until the commit.               *)
Holders(p) == {w \in Worker : pc[w] \in {"update", "commit"} /\ PlayerAt(w) = p}

----------------------------------------------------------------------------
(* The shape of a step.                                                    *)

At(w, statement) == pc[w] = statement

Goto(w, statement) == pc' = [pc EXCEPT ![w] = statement]

Finish(w) ==
  /\ Goto(w, "idle")
  /\ job' = [job EXCEPT ![w] = Idle]
  /\ read' = [read EXCEPT ![w] = Nothing]

(* The request ends with an error; an award of it that is committed stays. *)
Fail(w) ==
  /\ Finish(w)
  /\ UNCHANGED <<coefficient, rows, history>>

(* A bug: there is no last side.                                           *)
ProceedOnward(w) ==
  /\ read' = [read EXCEPT ![w] = Nothing]
  /\ IF IsGame(w)
     THEN Goto(w, "award") /\ job' = [job EXCEPT ![w].side = @ + 1]
     ELSE Goto(w, "respond") /\ UNCHANGED job

(* The award in hand is done: on to the second side, or to the answer.     *)
Proceed(w) ==
  /\ read' = [read EXCEPT ![w] = Nothing]
  /\ IF IsGame(w) /\ job[w].side = 1
     THEN Goto(w, "award") /\ job' = [job EXCEPT ![w].side = 2]
     ELSE Goto(w, "respond") /\ UNCHANGED job

----------------------------------------------------------------------------
(* The statements.                                                         *)

AddExp(w, p, gain) ==
  /\ At(w, "idle")
  /\ exp[p] < MaxExp
  /\ Goto(w, "award")
  /\ job' = [job EXCEPT ![w] = [kind |-> "exp", player |-> p, gain |-> gain]]
  /\ UNCHANGED <<coefficient, rows, read, history>>

AwardGameExp(w, g) ==
  /\ At(w, "idle")
  /\ calls[g] < MaxCalls
  /\ calls' = [calls EXCEPT ![g] = @ + 1]
  /\ Goto(w, "award")
  /\ job' = [job EXCEPT ![w] = [kind |-> "game", game |-> g, side |-> 1]]
  /\ UNCHANGED <<coefficient, rows, read, answers>>

(* Nothing to award: AwardExp returns before it reads anything.            *)
SkipAward(w) ==
  /\ At(w, "award")
  /\ GainAt(w) <= 0
  /\ Proceed(w)
  /\ UNCHANGED <<coefficient, rows, history>>

(* The coefficient is read before the transaction is opened.               *)
ReadCoefficient(w) ==
  /\ At(w, "award")
  /\ GainAt(w) > 0
  /\ Goto(w, "select")
  /\ read' = [read EXCEPT ![w].coeff = coefficient]
  /\ UNCHANGED <<coefficient, rows, job, history>>

(* A bug: a plain SELECT, which waits for nobody.                          *)
GetProgression(w) ==
  LET p == PlayerAt(w) IN
  /\ At(w, "select")
  /\ IF p \in Registered
     THEN /\ Goto(w, "update")
          /\ read' = [read EXCEPT ![w].exp = exp[p], ![w].level = level[p]]
          /\ UNCHANGED <<coefficient, rows, job, history>>
     ELSE Fail(w)

(* A bug: a player without a row is passed over instead of refused.        *)
GetProgressionLenient(w) ==
  LET p == PlayerAt(w) IN
  /\ At(w, "select")
  /\ Holders(p) = {}
  /\ IF p \in Registered
     THEN /\ Goto(w, "update")
          /\ read' = [read EXCEPT ![w].exp = exp[p], ![w].level = level[p]]
          /\ UNCHANGED job
     ELSE Proceed(w)
  /\ UNCHANGED <<coefficient, rows, history>>

(* SELECT FOR UPDATE: waits for the holder of the row, then reads it as    *)
(* committed.  Without a row the request fails.                            *)
GetProgressionForUpdate(w) ==
  LET p == PlayerAt(w) IN
  /\ At(w, "select")
  /\ Holders(p) = {}
  /\ IF p \in Registered
     THEN /\ Goto(w, "update")
          /\ read' = [read EXCEPT ![w].exp = exp[p], ![w].level = level[p]]
          /\ UNCHANGED <<coefficient, rows, job, history>>
     ELSE Fail(w)

(* A bug: the level climbs by the experience gained, not by the total.     *)
UpdateProgressionByGain(w) ==
  /\ At(w, "update")
  /\ Goto(w, "commit")
  /\ read' = [read EXCEPT
       ![w].exp = @ + GainAt(w),
       ![w].level = ComputeLevel(GainAt(w), @, read[w].coeff)]
  /\ UNCHANGED <<coefficient, rows, job, history>>

(* UPDATE with the sum and the level computed from what was read.          *)
UpdateProgression(w) ==
  LET newExp == read[w].exp + GainAt(w) IN
  /\ At(w, "update")
  /\ Goto(w, "commit")
  /\ read' = [read EXCEPT
       ![w].exp = newExp,
       ![w].level = ComputeLevel(newExp, @, read[w].coeff)]
  /\ UNCHANGED <<coefficient, rows, job, history>>

Commit(w) ==
  LET p == PlayerAt(w) IN
  /\ At(w, "commit")
  /\ exp' = [exp EXCEPT ![p] = read[w].exp]
  /\ level' = [level EXCEPT ![p] = read[w].level]
  /\ gained' = [gained EXCEPT ![p] = @ + GainAt(w)]
  /\ awards' = IF IsGame(w) THEN [awards EXCEPT ![job[w].game][job[w].side] = @ + 1]
               ELSE awards
  /\ Proceed(w)
  /\ UNCHANGED <<coefficient, history>>

Respond(w) ==
  /\ At(w, "respond")
  /\ answers' = IF IsGame(w) THEN [answers EXCEPT ![job[w].game] = @ + 1] ELSE answers
  /\ Finish(w)
  /\ UNCHANGED <<coefficient, rows, calls>>

(* The process, the connection or the caller is gone: an open transaction  *)
(* is rolled back; after the commit only the answer is lost.               *)
Abort(w) == ~ At(w, "idle") /\ Fail(w)

(* The store is edited while the service runs; values are positive.        *)
Tune(c) ==
  /\ coefficient' = c
  /\ UNCHANGED <<rows, pc, job, read, history>>

Serve(w) ==
  \/ SkipAward(w)
  \/ ReadCoefficient(w)
  \/ GetProgressionForUpdate(w)
  \/ UpdateProgression(w)
  \/ Commit(w)
  \/ Respond(w)

Next ==
  \/ \E w \in Worker : \/ Serve(w)
                       \/ Abort(w)
                       \/ \E p \in Player, gain \in Gain : AddExp(w, p, gain)
                       \/ \E g \in Game : AwardGameExp(w, g)
  \/ \E c \in Coefficient : Tune(c)

Spec == Init /\ [][Next]_vars

----------------------------------------------------------------------------
(* Properties.                                                             *)

Statement == {"award", "select", "update", "commit", "respond"}

(* Every variable has its type; levels start at 1.                         *)
TypeOK ==
  /\ coefficient \in Coefficient
  /\ exp \in [Player -> Nat]
  /\ level \in [Player -> Nat \ {0}]
  /\ pc \in [Worker -> Statement \cup {"idle"}]
  /\ job \in [Worker -> {Idle} \cup Singles \cup Pairs]
  /\ read \in [Worker -> [coeff : Nat, exp : Nat, level : Nat]]
  /\ gained \in [Player -> Nat]
  /\ calls \in [Game -> Nat]
  /\ awards \in [Game -> [{1, 2} -> Nat]]
  /\ answers \in [Game -> Nat]

(* No award is lost: a player's experience is the sum of the awards that   *)
(* were committed, however many ran at the same time.                      *)
ExpIsSum == \A p \in Player : exp[p] = gained[p]

(* An award is one step of the row: the experience grows and the level is  *)
(* the one the new experience implies, climbing from the level the row had *)
(* just before; and nothing else changes either.                           *)
AwardsAreAtomic ==
  [][\A p \in Player :
       <<exp'[p], level'[p]>> # <<exp[p], level[p]>> =>
         /\ exp'[p] > exp[p]
         /\ \E c \in Coefficient : level'[p] = ComputeLevel(exp'[p], level[p], c)]_vars

(* What a caller may conclude about a game: each success it got stands for *)
(* an award to every side that is due one, and no side has more awards     *)
(* than there were calls, in particular none without a call; the second    *)
(* side never has more than the first.                                     *)
AnswersAreAwards ==
  \A g \in Game, s \in {1, 2} :
    Due(g, s) > 0 =>
      /\ answers[g] <= awards[g][s]
      /\ awards[g][s] <= calls[g]
      /\ s = 2 /\ Due(g, 1) > 0 => awards[g][2] <= awards[g][1]

(* Every player can be read: the level that is stored is consistent with   *)
(* the experience under the coefficient of the reader, so that             *)
(* ComputeExpProgress refuses no row, and the progress it reports is       *)
(* within the level.                                                       *)
ProgressIsReadable ==
  \A p \in Player :
    /\ Consistent(level[p], exp[p], coefficient)
    /\ LET x == ComputeExpProgress(level[p], exp[p], coefficient) IN
       x.levelExpCurrent \in 0 .. x.levelExpRequired - 1
----------------------------------------------------------------------------
(* The specification with a history of the coefficient.                    *)

VARIABLE tuned  \* history: the coefficient has been changed

TuningInit == Init /\ tuned = FALSE

TuningNext == Next /\ tuned' = (tuned \/ coefficient' # coefficient)

TuningSpec == TuningInit /\ [][TuningNext]_<<vars, tuned>>

(* Under the coefficient a player's awards were made with, every row can   *)
(* be read (GetPlayerResponse); only a tuned coefficient breaks it.        *)
ReadableUntilTuned == ~ tuned => ProgressIsReadable
=============================================================================
