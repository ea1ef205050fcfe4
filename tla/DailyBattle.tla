---------------------------- MODULE DailyBattle ----------------------------
(***************************************************************************)
(* The daily battle count, statement by statement.                         *)
(*                                                                         *)
(* A worker serves one request.  An increment (POST battle-limit) reads    *)
(* the player, the clock and the count one after the other, outside any    *)
(* transaction, and then adds one in a single UPSERT.  A reversal (POST    *)
(* revert-battle-count) runs in one READ COMMITTED transaction that marks  *)
(* the game and takes the row locks of its two players one after the       *)
(* other.  Meanwhile the game day turns at 05:00 JST and a subscription    *)
(* comes and goes.                                                         *)
(*                                                                         *)
(* fought and missed are history variables: no code reads them.            *)
(***************************************************************************)
EXTENDS Integers, FiniteSets

CONSTANTS
  Worker,      \* requests in flight
  Player,      \* registered players
  Subscriber,  \* those whose premium status may change
  Game,        \* game ids of battle
  Side,        \* the two players of a game, in the order of the request
  DayOf,       \* the game day of the consumedAt a reversal carries
  LastDay,     \* bound: game days 1 .. LastDay
  MaxFights,   \* bound: an increment starts below this many of a player's day
  FreeLimit    \* game_config free_daily_battle_limit

Day == 1 .. LastDay

ASSUME BattleAssumption ==
  /\ IsFiniteSet(Worker) /\ Worker # {}
  /\ IsFiniteSet(Game)
  /\ Subscriber \subseteq Player
  /\ LastDay \in Nat \ {0}
  /\ MaxFights \in [Player -> [Day -> Nat]]
  /\ FreeLimit \in Nat \ {0}
  /\ Side \in [Game -> [{1, 2} -> Player]]
  /\ DayOf \in [Game -> Day]

VARIABLES
  clock,     \* the current game day
  premium,   \* players.is_premium
  recorded,  \* the rows of player_daily_battle
  count,     \* their daily_battle_count; 0 where there is no row
  reverted,  \* battle_count_reversals
  pc,        \* the statement each worker executes next
  job,       \* the request it serves and what it has read
  pending,   \* the uncommitted writes of its transaction
  fought,    \* history: increments applied to each row
  missed     \* history: committed decrements that found nothing to lower

vars == <<clock, premium, recorded, count, reverted, pc, job, pending, fought, missed>>

local  == <<pc, job, pending>>
tables == <<premium, recorded, count, reverted>>

(* A request that is not being served; an increment by one player; a       *)
(* reversal of one game.                                                   *)
Idle == [kind |-> "none"]

Increments ==
  [kind : {"increment"}, player : Player, premium : BOOLEAN, day : Day]

Reversals == [kind : {"reversal"}, game : Game]

Zero == [p \in Player |-> 0]

(* locked: the players whose rows it has updated and holds; lowered: what  *)
(* these rows will hold; misses (history): the decrements that lowered     *)
(* nothing.                                                                *)
Clean == [marked |-> FALSE, locked |-> {}, lowered |-> Zero, misses |-> Zero]

Init ==
  /\ clock = 1
  /\ premium \in [Player -> BOOLEAN]
  /\ \A p \in Player \ Subscriber : ~ premium[p]
  /\ recorded = {}
  /\ count = [p \in Player |-> [d \in Day |-> 0]]
  /\ reverted = {}
  /\ pc = [w \in Worker |-> "idle"]
  /\ job = [w \in Worker |-> Idle]
  /\ pending = [w \in Worker |-> Clean]
  /\ fought = [p \in Player |-> [d \in Day |-> 0]]
  /\ missed = [p \in Player |-> [d \in Day |-> 0]]

----------------------------------------------------------------------------
(* Who waits for whom.                                                     *)

Reverting(w) == job[w].kind = "reversal"

Markers(g) == {w \in Worker : Reverting(w) /\ job[w].game = g /\ pending[w].marked}

RowHolders(p, d) ==
  {w \in Worker : Reverting(w) /\ DayOf[job[w].game] = d /\ p \in pending[w].locked}

(* The player whose row a reversal's next decrement lowers.                *)
Turn(w) == Side[job[w].game][IF pc[w] = "decrement1" THEN 1 ELSE 2]

Decrementing(w) == pc[w] \in {"decrement1", "decrement2"}

WaitsFor(w, v) ==
  /\ v # w
  /\ Decrementing(w)
  /\ v \in RowHolders(Turn(w), DayOf[job[w].game])

----------------------------------------------------------------------------
(* The shape of a step.                                                    *)

At(w, statement) == pc[w] = statement

Goto(w, statement) == pc' = [pc EXCEPT ![w] = statement]

Finish(w) ==
  /\ Goto(w, "idle")
  /\ job' = [job EXCEPT ![w] = Idle]
  /\ pending' = [pending EXCEPT ![w] = Clean]

(* A bug: no deferred Rollback, the transaction stays open with its locks. *)
FailWithoutRollback(w) ==
  /\ Goto(w, "idle")
  /\ UNCHANGED <<job, pending, clock, tables, fought, missed>>

(* The request ends without a change: a refusal, an error, a rollback.     *)
Fail(w) ==
  /\ Finish(w)
  /\ UNCHANGED <<clock, tables, fought, missed>>

----------------------------------------------------------------------------
(* IncrementBattleCount: three reads and a write, no transaction.          *)

(* FindByID: the premium status is read here and used from here on.        *)
FindByID(w, p) ==
  /\ At(w, "idle")
  /\ fought[p][clock] < MaxFights[p][clock]
  /\ Goto(w, "readClock")
  /\ job' = [job EXCEPT ![w] = [kind |-> "increment", player |-> p,
                                premium |-> premium[p], day |-> clock]]
  /\ UNCHANGED <<clock, tables, pending, fought, missed>>

(* computeCurrentGameDay: the day of the check and of the write.           *)
ReadClock(w) ==
  /\ At(w, "readClock")
  /\ Goto(w, IF job[w].premium THEN "increment" ELSE "getDailyBattle")
  /\ job' = [job EXCEPT ![w].day = clock]
  /\ UNCHANGED <<clock, tables, pending, fought, missed>>

(* A bug: the battle at the limit is let through as well.                  *)
EnsureWithinLimitInclusive(w) ==
  /\ At(w, "getDailyBattle")
  /\ IF count[job[w].player][job[w].day] <= FreeLimit
     THEN /\ Goto(w, "increment")
          /\ UNCHANGED <<clock, tables, job, pending, fought, missed>>
     ELSE Fail(w)

(* ensureWithinFreeBattleLimit: the count as committed now, no lock.       *)
EnsureWithinFreeBattleLimit(w) ==
  /\ At(w, "getDailyBattle")
  /\ IF count[job[w].player][job[w].day] + 1 <= FreeLimit
     THEN /\ Goto(w, "increment")
          /\ UNCHANGED <<clock, tables, job, pending, fought, missed>>
     ELSE Fail(w)

(* A bug: the row is written whoever holds it.                             *)
IncrementUnlocked(w) ==
  LET p == job[w].player
      d == job[w].day
  IN
  /\ At(w, "increment")
  /\ recorded' = recorded \cup {<<p, d>>}
  /\ count' = [count EXCEPT ![p][d] = @ + 1]
  /\ fought' = [fought EXCEPT ![p][d] = @ + 1]
  /\ Finish(w)
  /\ UNCHANGED <<clock, premium, reverted, missed>>

(* INSERT ... ON CONFLICT DO UPDATE SET count = count + 1: atomic, and it  *)
(* waits for a reversal that holds the row.                                *)
IncrementDailyBattleCount(w) ==
  LET p == job[w].player
      d == job[w].day
  IN
  /\ At(w, "increment")
  /\ RowHolders(p, d) = {}
  /\ recorded' = recorded \cup {<<p, d>>}
  /\ count' = [count EXCEPT ![p][d] = @ + 1]
  /\ fought' = [fought EXCEPT ![p][d] = @ + 1]
  /\ Finish(w)
  /\ UNCHANGED <<clock, premium, reverted, missed>>

----------------------------------------------------------------------------
(* RevertBattleCount: one transaction.                                     *)

BeginRevert(w, g) ==
  /\ At(w, "idle")
  /\ Goto(w, "mark")
  /\ job' = [job EXCEPT ![w] = [kind |-> "reversal", game |-> g]]
  /\ UNCHANGED <<clock, tables, pending, fought, missed>>

(* A bug: the mark is not looked at before the counts are lowered.         *)
MarkRevertedUnchecked(w) ==
  /\ At(w, "mark")
  /\ Markers(job[w].game) = {}
  /\ Goto(w, "decrement1")
  /\ pending' = [pending EXCEPT ![w].marked = TRUE]
  /\ UNCHANGED <<clock, tables, job, fought, missed>>

(* INSERT ... ON CONFLICT DO NOTHING on the game: waits for another        *)
(* reversal of it; one that is already marked is a success with no effect. *)
MarkReverted(w) ==
  /\ At(w, "mark")
  /\ Markers(job[w].game) = {}
  /\ IF job[w].game \in reverted
     THEN Goto(w, "commit") /\ UNCHANGED pending
     ELSE Goto(w, "decrement1") /\ pending' = [pending EXCEPT ![w].marked = TRUE]
  /\ UNCHANGED <<clock, tables, job, fought, missed>>

(* The row as the transaction sees it: its own update, or what is          *)
(* committed.                                                              *)
Current(w, p) ==
  IF p \in pending[w].locked THEN pending[w].lowered[p] ELSE count[p][DayOf[job[w].game]]

(* A bug: GREATEST is forgotten.                                           *)
LowerRowUnclamped(w) ==
  LET p == Turn(w) IN
  pending' = [pending EXCEPT ![w].locked = @ \cup {p},
                             ![w].lowered[p] = Current(w, p) - 1]

(* UPDATE ... GREATEST(count - 1, 0) WHERE player and game_date: waits for *)
(* the row's holder, and holds the row until the end of the transaction.   *)
LowerRow(w) ==
  LET p == Turn(w)
      c == Current(w, p)
  IN
  pending' = [pending EXCEPT
                ![w].locked = @ \cup {p},
                ![w].lowered[p] = IF c > 0 THEN c - 1 ELSE 0,
                ![w].misses[p] = IF c > 0 THEN @ ELSE @ + 1]

(* No row of that day: nothing is locked or lowered, a warning is logged   *)
(* and the reversal goes on.                                               *)
TargetNotFound(w) ==
  pending' = [pending EXCEPT ![w].misses[Turn(w)] = @ + 1]

DecrementDailyBattleCount(w) ==
  LET d == DayOf[job[w].game] IN
  /\ Decrementing(w)
  /\ RowHolders(Turn(w), d) \subseteq {w}
  /\ IF <<Turn(w), d>> \in recorded THEN LowerRow(w) ELSE TargetNotFound(w)
  /\ Goto(w, IF At(w, "decrement1") THEN "decrement2" ELSE "commit")
  /\ UNCHANGED <<clock, tables, job, fought, missed>>

(* Mark and lowered counts become visible together.                        *)
Commit(w) ==
  LET d == DayOf[job[w].game]
      x == pending[w]
  IN
  /\ At(w, "commit")
  /\ reverted' = IF x.marked THEN reverted \cup {job[w].game} ELSE reverted
  /\ count' = [p \in Player |->
       [count[p] EXCEPT ![d] = IF p \in x.locked THEN x.lowered[p] ELSE @]]
  /\ missed' = [p \in Player |-> [missed[p] EXCEPT ![d] = @ + x.misses[p]]]
  /\ Finish(w)
  /\ UNCHANGED <<clock, premium, recorded, fought>>

(* A lock cycle: two reversals with their players in opposite order, or a  *)
(* longer ring.  The database aborts a transaction of the ring.            *)
Deadlocked(w) ==
  \E ring \in SUBSET Worker :
    /\ w \in ring
    /\ \A v \in ring : \E u \in ring : WaitsFor(v, u)
    /\ \A v \in ring : \E u \in ring : WaitsFor(u, v)

DeadlockDetected(w) == Deadlocked(w) /\ Fail(w)

(* The connection, the process or the caller is gone before the last       *)
(* statement has run: a transaction is rolled back.                        *)
Abort(w) == ~ At(w, "idle") /\ Fail(w)

Serve(w) ==
  \/ ReadClock(w)
  \/ EnsureWithinFreeBattleLimit(w)
  \/ IncrementDailyBattleCount(w)
  \/ MarkReverted(w)
  \/ DecrementDailyBattleCount(w)
  \/ Commit(w)
  \/ DeadlockDetected(w)

----------------------------------------------------------------------------
(* What changes around the requests.                                       *)

(* 05:00 JST.                                                              *)
NextDay ==
  /\ clock < LastDay
  /\ clock' = clock + 1
  /\ UNCHANGED <<tables, local, fought, missed>>

(* UpdatePremium, from the subscription service.                           *)
UpdatePremium(p) ==
  /\ premium' = [premium EXCEPT ![p] = ~ @]
  /\ UNCHANGED <<clock, recorded, count, reverted, local, fought, missed>>

Next ==
  \/ \E w \in Worker : \/ Serve(w)
                       \/ Abort(w)
                       \/ \E p \in Player : FindByID(w, p)
                       \/ \E g \in Game : BeginRevert(w, g)
  \/ NextDay
  \/ \E p \in Subscriber : UpdatePremium(p)

Spec == Init /\ [][Next]_vars

----------------------------------------------------------------------------
(* Properties.                                                             *)

Statement == {"readClock", "getDailyBattle", "increment", "mark", "decrement1",
              "decrement2", "commit"}

Writes == [marked : BOOLEAN, locked : SUBSET Player,
           lowered : [Player -> Nat], misses : [Player -> Nat]]

(* Every variable has its type; no count is ever below zero.               *)
TypeOK ==
  /\ clock \in Day
  /\ premium \in [Player -> BOOLEAN]
  /\ recorded \in SUBSET (Player \X Day)
  /\ count \in [Player -> [Day -> Nat]]
  /\ reverted \in SUBSET Game
  /\ pc \in [Worker -> Statement \cup {"idle"}]
  /\ job \in [Worker -> {Idle} \cup Increments \cup Reversals]
  /\ pending \in [Worker -> Writes]
  /\ fought \in [Player -> [Day -> Nat]]
  /\ missed \in [Player -> [Day -> Nat]]

(* The sides of reverted games that the player's day gave a battle back    *)
(* for.                                                                    *)
Returns(p, d) ==
  {r \in reverted \X {1, 2} : Side[r[1]][r[2]] = p /\ DayOf[r[1]] = d}

(* The count is the battles fought less the battles given back, one for    *)
(* each side of each reverted game, but for the returns that found nothing *)
(* to lower: no increment or return is lost to another, none is applied    *)
(* twice however often a reversal is called, and none is applied by half.  *)
Conservation ==
  \A p \in Player, d \in Day :
    count[p][d] + Cardinality(Returns(p, d)) = fought[p][d] + missed[p][d]

(* The unlocked check lets a free player exceed the limit, as the comment  *)
(* of IncrementBattleCount accepts, by the requests in flight and no more. *)
BoundedOvershoot ==
  \A p \in Player \ Subscriber, d \in Day :
    count[p][d] <= FreeLimit + Cardinality(Worker) - 1

----------------------------------------------------------------------------
(* Liveness: a request runs on while it can, and the database breaks the   *)
(* rings.  The row lock is a queue, so a waiter is served in its turn.     *)

Fairness == \A w \in Worker : SF_vars(Serve(w))

LiveSpec == Spec /\ Fairness

(* No request waits for ever, whatever the order in which reversals name   *)
(* their players and however many requests share the rows.                 *)
EveryRequestEnds == \A w \in Worker : pc[w] # "idle" ~> pc[w] = "idle"
============================================================================
