# overload-party-account: formal verification

TLA+ models of the account service (`src/`), checked with TLC on small
instances, and theorems about them, proved with TLAPS for every instance.

The service keeps players, their progression, daily battle counts, factions and
settings in PostgreSQL (schema `account`). It is called over REST by the
gateway and the battle service, and receives five kinds of Pub/Sub events by
HTTP push. It holds no state of its own between requests: everything is in the
database, and everything that is hard about it is what two requests do to the
same rows, what a retry or a redelivery does to rows already written, and what
is left when a request is cut off.

## 1. The system

| Component | State | Operations | Talks to |
|---|---|---|---|
| Onboarding events (`usecase/onboarding.go`, `usecase/faction.go`, `adapter/pubsub`) | `players.name`, `players.onboarding_status`, `player_factions`, `processed_events` | apply name-set, faction-set, player-onboarded, faction-acquired; select the initial faction; grant a faction; put a name | Pub/Sub (at least once, unordered); registration makes the row |
| Daily battle count (`usecase/player.go`) | `player_daily_battle`, `battle_count_reversals` | read the limit, increment, reverse a game | `players.is_premium`, the clock, the configured limit |
| Progression (`usecase/player.go`, `domain/level.go`) | `player_progression` | award experience to a player, to both players of a game; compute level and progress | the configured coefficient and awards |
| Registration and login (`usecase/auth.go`) | `players`, `player_progression`, `player_settings` | register, login, find by Firebase uid | read models |
| Premium projection (`adapter/pubsub/premium_updated_subscriber.go`, `PlayerInteractor.UpdatePremium`) | `players.is_premium`, `premium_expires_at`, `processed_events` | premium-updated event, PUT premium | the shop service; the battle limit reads it |
| Settings (`usecase/player_settings.go`) | `player_settings` | get, partial update | |
| Push endpoints (`handler/pubsubpush`) | none | decode, dispatch, answer 200 or an error | every subscriber |
| REST contract (`handler/rest`, `router`, `packages/api-account`) | none | routes and handlers; errors to status codes in the server, status codes to errors in the client; the fake server for consumers' tests | every use case |
| Game configuration (`repository/firestore`) | Firestore `game_config`, read only | read one integer; validate at start | limit, coefficient, awards |
| Transactions (`repository/postgres/dbtx.go`) | the pool | RunInTx: begin, closure, commit, deferred rollback | every repository |
| Process (`cmd/server`, `config`) | what is open, what is being served | start, validate the configuration, serve, shut down | all of the above |

### What is hard here

* Every event handler is one READ COMMITTED transaction whose first statement
  enters the event in `processed_events`. Deliveries are repeated, concurrent
  and out of order. The duplicate is answered with success, so it must not be
  answered before the first delivery is committed.
* `advanceOnboardingStatus` reads the status without a lock and writes it in a
  later statement.
* The initial faction has two writers, an event and a REST call, that both read
  before they insert; a partial unique index decides.
* A battle is counted by three reads and a write outside any transaction, while
  the day turns and the subscription changes. A reversal locks two rows one
  after the other, in the order in which its caller names the players.
* A game's experience is awarded by two transactions, neither of them idempotent.
* Requests are cut off anywhere: before the commit, or after it and before the
  answer.
* A registration looks for the uid outside its transaction and reads the
  configuration after it; its caller must not repeat it, and must not lose it.
* Neither premium events nor names carry a version: the row keeps the write that
  is processed last. PUT name and PUT settings answer with a second statement,
  outside any transaction.
* A message that is refused is redelivered, parked and replayed under the same
  `event_id`; any answer but an error acknowledges it for good.
* An error passes the use case, the status and the client's sentinel, while the
  caller gives up and retries and the first attempt is still being served.
* `run()` opens four things, each step may fail, and closes them while requests
  may still be running.

### What makes each component correct

* Onboarding: an acknowledged event is never lost; an event has its effect once,
  in the step that enters it in the ledger; what it did to the status is not
  taken back; the status is backed by the data it announces; the initial faction
  is unique and final; every event that can be applied is acknowledged in the end.
* Daily battles: counts are increments less returns; a reversal counts once per
  game for both players or not at all; the limit is exceeded by no more than the
  requests in flight; no request waits for ever.
* Progression: experience is the sum of the awards committed; an award is one
  step of the row, to the level the experience implies; a success for a game
  means that both sides were awarded; every row can be read; the loop of
  `ComputeLevel` ends, with that level.
* Registration: one player per Firebase uid, with progression and settings; an
  answer that can be relied on; every caller gets its player in the end.
* Premium status, name and settings: an event counts once and a redelivery undoes
  nothing; concurrent updates of different columns all hold; an answer is the row as
  it was at one moment, after the write it answers; and the row keeps the newest
  write, as far as the writes arrive in order.
* Push endpoints: 200 means that the event took effect; a refusal leaves the
  event to its replay.
* REST contract: a success has taken effect, a refusal has not, and a sentinel
  names the cause; a retry counts once where it must.
* Process: nothing is served under an invalid configuration, no statement is cut
  off, everything opened is closed, and a process that is asked to stop stops.

## 2. The modules

```
OnboardingDomain ── Onboarding ── OnboardingProperties ─┬─ OnboardingLiveness ── MCOnboardingLive
       │                              │                 ├─ OnboardingScenario ─────────────────────┬─ MCOnboarding
       └── OnboardingEffects ─────────┘ (INSTANCE)      └─ OnboardingInvariant ── OnboardingSerial ┤
                                                                                                   └─ OnboardingProofs

DailyBattle ─┬─ MCDailyBattle
             └─ DailyBattleInvariant ── DailyBattleProofs

Level ─┬─ LevelLoop ──────────────────────────────┐
       └─ Progression ─┬─ ProgressionInvariant ── ProgressionProofs
                       └─ MCProgression

Accounts ── Registration ─┬─ RegistrationCaller ─── MCRegistrationCaller
       (INSTANCE)         └─ RegistrationInvariant ── RegistrationProofs

PlayerRows ─┬─ MCPlayerRows
            └─ PlayerRowsInvariant ── PlayerRowsProofs

Push ─┬─ MCPush
      └─ PushInvariant ── PushProofs

            RestClient ─┐
RestTable ─ RestServer ─┼─ RestCall ─┬─ MCRestCall
            RestFake ───┘            └─ RestCallInvariant ── RestCallProofs

Lifecycle ── LifecycleInvariant ── LifecycleProofs
```

`MCOnboarding` extends both the scenario and `OnboardingSerial`, whose history
variable its runs carry along. `LevelLoop` and `Lifecycle` need no MC module: their constants are small
sets.

Each module has the operators of its own mutants beside the definitions they
change, marked `A bug:`; no specification uses them.

### Onboarding

`Onboarding.tla` runs the transactions statement by statement. A worker is a
request being served; `pc[w]` is the statement it executes next, `task[w]` the
event or the selection it serves, `pending[w]` the writes its transaction has
not committed. The tables are `registered` (rows of `players`), `name`,
`status`, `owned` and `initial` (`player_factions`, and those of its rows with
`is_initial`) and `processed`; `acked` is what the caller has been told.

| Action | Code |
|---|---|
| `Begin` | a push delivery or POST `/factions/select`, through validation (`validateInitialFaction`), up to `RunInTx` |
| `InsertEvent` | `ProcessedEventRepository.Insert`: waits for a transaction inserting the same id |
| `UpdateName` | `PlayerRepository.UpdateName` inside `ApplyNameSet` |
| `Exists`, `GetInitialFaction`, `SetInitialFaction` | the statements of `ApplyFactionSet` and `SelectInitialFaction` |
| `AddPlayerFaction` | the faction-acquired subscriber |
| `GetOnboardingStatus`, `UpdateOnboardingStatus` | `advanceOnboardingStatus`: the decision is taken at the read |
| `Commit`, `Fail`, `Respond` | `RunInTx` and the answer of the push endpoint |
| `Abort` | the process, the connection or the caller is gone |
| `Register`, `PutName`, `Grant` | REST operations that share the rows, each atomic here |

Locks are not separate variables: a row or an index entry is locked by whoever
has an uncommitted write of it (`LedgerWriters`, `RowHolders`, `FactionWriters`,
`InitialWriters`), and a statement that needs it has the absence of other
holders as its guard. Foreign-key checks do not wait for an update of
`players`, since no key column is written.

`OnboardingEffects.tla` is what the rest of the system may rely on: an event is
one step, which enters it in the ledger, and never has an effect again.
`EffectsSpec` says that `Onboarding` implements it, with the same variables and
`pc`, `task`, `pending` hidden. The status is where the abstraction is honest:
the step of faction-set and of player-onboarded may leave any status of
`faction_set` or above in place, because of the race below.

`OnboardingSerial.tla` adds a history variable, `overlapped`: two requests have been
in flight at once. `SerialOneWay` speaks of the behaviours up to then.

### Daily battles

`DailyBattle.tla`: a worker serves an increment (`FindByID`, `ReadClock`,
`EnsureWithinFreeBattleLimit`, `IncrementDailyBattleCount`) or a reversal
(`BeginRevert`, `MarkReverted`, `DecrementDailyBattleCount` for each side,
`Commit`). `recorded` and `count` are the rows of `player_daily_battle`,
`reverted` is `battle_count_reversals`, `pending[w]` the mark, the rows held
and what they will contain. `DeadlockDetected` is the database breaking a ring
of transactions that wait for each other. `fought` and `missed` are history
variables: the increments applied, and the committed decrements that found no
row or a zero.

Players are registered already and the limit is the constant `FreeLimit`; the
Firestore read fails only as an `Abort`.

### Progression

`Level.tla` says what `ComputeLevel` returns: the level at which a climb from
the stored level stops. `LevelLoop.tla` is the loop that computes it, an
iteration per step, in signed words that wrap; `Bound` is 2^63 in the code.
`InRange` is the condition under which the comment of `ComputeLevel` calls it
safe: every threshold up to the result fits in a word. What the loop does
outside of it, with an extreme coefficient, is modelled, and nothing is
promised of it.

`Progression.tla` uses the abstract `ComputeLevel`. A worker serves POST `exp`
or POST `award-game-exp`; an award is the read of the coefficient, outside the
transaction, and then the statements of one transaction.

| Action | Code |
|---|---|
| `AddExp`, `AwardGameExp` | the REST handlers, up to the first award |
| `SkipAward` | `AwardExp` with nothing to award, and the sides `AwardGameExp` leaves out |
| `ReadCoefficient` | `GameConfigRepository.GetInt64` |
| `GetProgressionForUpdate` | SELECT FOR UPDATE: waits for the holder of the row; without a row the request fails |
| `UpdateProgression`, `Commit` | the sum and the level, visible at the commit; then the second side or the answer |
| `Respond`, `Abort` | the answer, and its loss |
| `Tune` | the coefficient is changed in Firestore |

`TuningSpec` is the same specification with the history variable `tuned`, set when
the coefficient is changed.

`Due` is the table of `AwardGameExp`; 0 stands for a side that gets nothing.
The amounts of the awards are constants: each is read once in a request, so that
a change of them is a change of the gain. `gained`, `calls`, `awards` and
`answers` are history variables: the service itself does not remember which
game it has awarded. The caller may call again at any time, whatever
answer it got.

### Registration and login

`Registration.tla`: a worker serves a registration or a lookup. `players`,
`progression` and `settings` are the rows of the three tables, `pending[w]` the
rows its transaction has inserted.

| Action | Code |
|---|---|
| `Call` | POST `/auth/register` or `/auth/login`, GET `/auth/by-firebase-uid/:uid` |
| `ExistsByFirebaseUID` | the check before the transaction: 409, or a new player id |
| `InsertPlayer` | waits for a transaction that inserts the same uid (the unique index), and fails if it is there then |
| `InsertProgression`, `InsertSettings`, `Commit` | the rest of the transaction |
| `FindView` | `PlayerViewRepository.FindByFirebaseUID`: 404, or the player |
| `ToResponse` | the read of the coefficient, the answer |
| `NoDocument` | that read finds no document: 404, told apart as `noConfig` |
| `Abort` | any statement fails, the caller gets 500 |

`Accounts.tla` is what callers may rely on: a uid gets one account, once and for
ever, and a request creates it or finds it in one step between its start and its
answer. `AccountsSpec` says that `Registration` implements it: the account is
the committed row of the uid, a request has found its player once it is about to
answer it. `RegistrationCaller.tla` adds callers that keep to the contract in
the comment of `Register`: after a conflict or an error they call Login, and
register again only when that finds nobody. A 404 for want of the configuration
document looks to them like either, and they may do either (`NextCalls`).

### The player's rows

`PlayerRows.tla`: the columns of one player that are written in place, the name
and the premium status in `players`, the settings in `player_settings`. A write is
its own value: a column holds the event or the request that wrote it last, so that
the row tells who did. `Names` gives the columns of each write.

| Action | Code |
|---|---|
| `Register` | both rows appear; before it every update affects no row: 404, or the event is refused |
| `Publish`, `Deliver` | Pub/Sub: an event is delivered any number of times, to any worker |
| `Send` | PUT name, PUT premium, PUT settings, GET settings; an empty patch is 400 at once |
| `InsertLedger` | the first statement of an event: waits for a transaction entering the same one; a duplicate skips the update |
| `UpdateRow` | UPDATE: waits for the holder of the row, whichever column it writes, then makes the row's next `version` with COALESCE for the columns not named |
| `Commit` | version and ledger entry become visible together |
| `ReadView` | the second statement of PUT name and PUT settings, and the only one of GET |
| `NoDocument` | PUT name reads the coefficient as well: 404 (`noConfig`) when the document is gone, though the name is stored |
| `Abort` | a statement or the process fails: rollback, 500 |

`made` and `committed` are history variables. `ordered`, chosen at the start, says
whether the writes of a column reach the service in the order in which they were
made, redeliveries apart. (`Onboarding` has what the name-set event does to the
status, and `DailyBattle` what the premium status does to the limit.)

### Push endpoints

`Push.tla`: a message has a topic and at most one fault, found by the envelope
(`Decode`, 400), by the subscriber or the use case (`Check`), by the ledger
(`InsertLedger`) or by the statements of the effect (`Effect`), each 500. Pub/Sub
delivers until 200, parks after `MaxDeliveries`, and an operator replays with the
fault corrected. The effects themselves are in `Onboarding` and `PlayerRows`.

### The REST contract

`RestClient.tla` has, for each operation, the request it sends and what it makes
of a reply (the generated parser, then `newStatusError`); `RestServer.tla` the
routes, and each handler and use case as the sequence of its steps; `RestFake.tla` the
routes and defaults of the fake server. `RestCall.tla` runs one call and its
retries: `Route` answers 404 or starts the handler, `Pass` takes the next step,
`Refuse` ends it with the status of its error, `Break` with 500 (of a write: also after
it took effect), `ReturnEarly` is the success with nothing to do; `Receive`,
`Cut`, `BadGateway` and `GiveUp` are what becomes of the reply. A caller that gives
up may retry while the first attempt is still served.
The tables by operation are written in parts, as in the code, and put together with
`++` of `RestTable.tla`.
`trouble` is what is wrong with the call: any subset of what the operation's
steps look at. `effect[n]` is what attempt `n` has done.

### The process

`Lifecycle.tla`: `main` walks through the statements of `run()`; `deferred` is
its stack of deferred closes, `listen` and `shutdown` the two goroutines of
`runHTTP`, `request` how far each request is, in or out of a statement. The listener fails at
its start (`Listen`) or later, when it can accept no more (`AcceptError`). The pool's `Close`
waits for the connections in use (`EndPoolClose`). `Exit` cuts off what still
runs. `documents` are the game configuration, which may be invalid.

## 3. The runs

| Run | Question | Instance |
|---|---|---|
| `onboarding` | Safety and refinement of the onboarding path, and is the transition check enough when requests do not overlap? | 2 workers, 1 player, 2 names, 3 factions, one task of each kind, three faction-set events and a selection that disagree |
| `onboarding_one_way` | Does the status only move forward, as the schema says? (it does not) | 2 workers, 3 events |
| `onboarding_live` | Is every event acknowledged in the end? | 2 workers, 3 events and a selection |
| `daily_battle` | Do counts balance, how far is the limit exceeded, and does every request end? | 2 workers, 2 players (one may subscribe), 2 games with the sides exchanged, 2 days |
| `level_loop` | Does the loop compute the level, and end? | every call from four levels in words of 7 bits, in range and out of it |
| `progression` | Are awards lost, halved or made up, and can every row be read until the coefficient is tuned? | 2 workers, 2 players and one without a row, 2 games with two calls each, direct awards, 2 coefficients |
| `progression_tuned` | And when it is tuned? (no) | the same, with a game against the computer |
| `registration` | Does a uid get one whole player, does the path implement `Accounts`, and does every caller get its player? | 3 callers, two of them with the same uid, 4 ids |
| `player_rows` | Do updates merge, are answers true, is the newest write kept? | 2 workers, any 3 of 3 events and 6 requests, before and after registration |
| `push` | Does 200 mean that the event took effect, and does every message take effect in the end? | 2 messages, one of any of the five topics, with any fault, 2 workers, 2 deliveries each before and after a replay |
| `rest_call` | Is what the client reports true of the server, and does the fake answer its happy path? | every operation, against the server and the fake, 2 attempts, every set of troubles but a missing document |
| `lifecycle` | Is anything cut off, left open or served too early, and does a signal end the process? | 1 start and stop, 2 requests, 1 key of each kind |

Properties, each with the hazard it is for:

* `AckedIsProcessed`: a duplicate that overtakes the delivery it duplicates, a
  rollback after the acknowledgement.
* `StatusFloor`, `StatusBacked`: stale reads of the status, and a status written
  without its data. They hold in spite of the unlocked read: see the proof.
* `OneInitialFaction`, `InitialIsFinal`: the race of event and REST call.
* `EffectsSpec`: half-applied and twice-applied events.
* `SerialOneWay`: reordered events, as long as requests do not overlap; when they do,
  the status does move back (`OneWayStatus`, section 4).
* `EventuallyAcked`: duplicates and lock waits delay an event and do not block it.
* `Conservation`: lost increments, reversals applied twice or by half.
* `BoundedOvershoot`: the check outside the transaction.
* `EveryRequestEnds`: crossing row locks.
* `LoopComputesLevel`, `LoopEnds`: overflow of the thresholds, and the boundary
  between two levels.
* `ExpIsSum`: two awards that read the same row.
* `AwardsAreAtomic`: an award computed from a row, or a level, that has changed
  while it waited.
* `AnswersAreAwards`: the two transactions of a game, one of which fails, and
  calls that are repeated. Awards are not idempotent, so that a side may have
  more awards than successes were answered, and never fewer; never more than calls.
* `ReadableUntilTuned`: a stored level and a coefficient that do not go together.
* `WholePlayers`: registrations of one uid that both find nobody, and a failure
  between the three inserts.
* `AccountsSpec`: the answer after the commit, the error in between, a conflict
  that names nobody: seen from outside, each request is one step. It implies
  `AnswersHold` and `KnownPlayerIsFound`, which are proved and not run.
* `EveryCallerGetsItsPlayer`: a caller stuck between a registration that is
  refused and a login that finds nobody.
* `RedeliveryNeverUndoes`: a duplicate, at the same time or long after, over a
  newer write of a request.
* `LastWriterPerColumn`: updates of two columns of one row that undo each other.
* `AnswersAreTrue`: the answer read by a second statement, outside the transaction.
* `EventuallyNewest`: a write lost to a redelivery, to a rollback or to the other way of writing.
* `LedgerIsTheEffects`: a message swallowed by a 200, or used
  up by a refusal; a duplicate answered before the first is committed.
* `EventuallyEffective`: a fault that holds others back, or a replay taken for a duplicate.
* `VerdictIsTrue`: an error after the write, wrapped into a refusal.
* `SentinelNamesTheCause`: 404 of a route and of the player, checks in another order
  than their statuses. The conflict with one's own first attempt counts as `taken`.
* `RetriesCountOnce`: a retry of what was already done, or is being done.
* `FakeDefaultSucceeds`: a fake that differs from the service it stands for.
* `SuccessAnswersAll`, `StatementsKeepTheirConnection`: closes under running requests.
* `HandledUnderValidConfig`: a coefficient of zero, with which `ComputeLevel` never ends.
* `ExitClosesAll`: an error return that forgets one of four.
* `StopsWhenAsked`: goroutines that wait for each other.

### Why the bounds are enough

Two workers are enough for every race above, each of which is between two
transactions; the proofs remove the bound. Players do not share rows, locks or
ledger entries in the onboarding path, so one player is enough for what
concerns one player. The faction events name two selectable factions (so that
they conflict) and one that is not (so that validation refuses). In
`DailyBattle` the limit of 1 is reached by the first battle and passed by the
second; `MaxFights` is a bound per player and day (an increment starts only below
that many battles of the day), two for the free player on the first day, so that
the limit is passed and the player comes back after it, and one for the subscriber
on either day. Two days let the day turn between the check and the write, and the
reversals are of day 1, so that they run on the day of the battle and after it.

In `Progression` the games make both players meet (one game between them, one of
a player and a player without a row, who is on the second side, so that the
first is awarded and the second refused), and each is called twice, so that a
retry overlaps the call it repeats. `Gain` holds 0 (skipped) and an amount that
reaches a threshold exactly under some sum; `MaxExp` stops direct awards when a
player has that much, games not. `ExpWin` of 9 takes a player through two levels
in one award. The game against the computer, which leaves one side out, is in
`progression_tuned`. In `LevelLoop` every value of a word is tried for the experience
and the coefficient.

In `registration` at most three ids are in use at a time, one by each caller, since the
id of a registration that failed is free again; a fourth leaves a choice. The third caller has a uid of its own, so that waiting is
seen to be per uid. In `player_rows`, `MaxMade` of 3 takes any three of the nine
writes and reads: two that overlap and one that does not, or a duplicate against
two newer writes. Events may be delivered without bound. In `push` one message
is of any topic (`TopicsOf`) and the other a premium-updated, and each can be
delivered twice before it is parked and twice after its replay. Two attempts of
a REST call are one call and a retry that overlaps it. In `lifecycle` a request that
is cut off in a statement, and another that is not, need two.

Where a run says `CHECK_DEADLOCK FALSE` the model comes to rest on purpose:
callers that have their player stop (`registration`), the loop has its result
(`level_loop`), `MaxMade` requests have been
made, messages are settled and their deliveries used up (`push`), the one call of
`rest_call` has its last answer, the process has exited (`lifecycle`). In the other
runs a deadlock would be an error.

### Fairness

* `onboarding_live`. A request runs on while it can (weak fairness of `Serve`
  per worker: the service has no other scheduling). Pub/Sub pushes an event
  again until it is answered with 200: strong fairness of `Redeliver`, since
  free requests come and go. Requests may be cut off until `stable` is set, and
  not after it: with a request cut off for ever nothing is ever acknowledged. An
  event that contradicts the chosen faction is excepted (`Conflicting`): the
  service refuses it for ever, by design, and the dead-letter queue takes it.
* `daily_battle`. PostgreSQL queues the waiters of a row, so one that is
  enabled again and again is served: strong fairness of `Serve` per worker.
  Requests may be cut off at any time in this run.
* `level_loop`. Weak fairness of the one action, the iteration: the goroutine runs.
* `registration`. A request runs on while it can, and its caller goes on to the
  next call of the contract (weak fairness of `Serve` and `Retry`); faults, a missing document among them, come
  to an end, since a service that fails for ever serves nobody. The transaction of a
  uid can be waited for by two, and is over after three statements.
* `player_rows`. The player registers in the end (events may come before), requests run on,
  Pub/Sub delivers an event again until it is processed (strong fairness, as
  workers are free only from time to time), failures end. Nothing makes a request
  be repeated: one that failed does not count as wanted.
* `push`. As above; besides, Pub/Sub parks what it has delivered too often, and the
  operator replays what is parked, corrected (weak fairness of `DeadLetter` and
  `Replay`): that is the procedure of the comment at `usecase/onboarding.go:158-162`.
* `lifecycle`. `run()`, the two goroutines and the end of a statement in
  flight; nothing makes the listener fail (`AcceptError`). That statements end is an assumption about the database: the code sets no deadline
  on statements, and one that never ends keeps the pool from closing.

## 4. The findings

`OneWayStatus` (run `onboarding_one_way`): faction-set reads a status below `completed`
(`name_set`, or `not_started` when it comes first), player-onboarded commits `completed`, faction-set writes `faction_set`. The
column comment of `db/schema.sql:40-41` promises one-way transitions only, and
the comment of `advanceOnboardingStatus` (`usecase/onboarding.go:131-134`)
promises a defence against out-of-order delivery. It is one against reordering
(`SerialOneWay` in run `onboarding`) and not against concurrent delivery. Both events are
then in the ledger, so no redelivery repairs the player. name-set is not
exposed, because it takes the row lock before the read.

`ProgressIsReadable` (run `progression_tuned`): a player reaches a level above 1 under
coefficient 1 (how high depends on the trace), the coefficient is raised to 2, and the
player's experience is now below the start of that level. `ComputeExpProgress` (`domain/level.go:46`)
answers an error for what its comment calls the sign of a bug, though every step
was legal, and every answer that shows the player fails until further awards
make up the difference. `ValidateGameConfig` cannot see it: both values are
positive, and it looks at one at a time. Under one coefficient it cannot
happen (`ReadableUntilTuned` in run `progression`, theorem `SteadyIsReadable`), and a lower one
does no harm either but to the progress shown, which may exceed the level.

### Divergences without a run

Seen while modelling, and part of the models, but not runs of their own:

| Code | says or does | while |
|---|---|---|
| `usecase/auth.go:83` | of two registrations of one uid that both find nobody, the unique index refuses the second, with 500 | `usecase/auth.go:45` and `data/openapi.yaml:50-51` promise `ErrPlayerAlreadyRegistered`, 409. No data is harmed: Login finds the player |
| `pubsub/premium_updated_subscriber.go:55` | stores the event processed last; events that overtake each other leave the older status for good | `docs/DATA_DESIGN.md:42` promises eventual consistency with the shop. `EventuallyNewest` therefore assumes order |
| `rest/player_settings_handler.go:48` | stores a volume above 100 | `db/schema.sql:129-130` describes 0-100 |
| `pubsub/premium_updated_subscriber.go:44`, and the other four | answers an unexpected `event_type` with an error | `pubsub/doc.go:5-7` says with success |
| `rest/errors.go:26` | answers 429 at the battle limit | `data/openapi.yaml:274-282` does not have it, and the client no sentinel for it |
| `usecase/faction.go:39` | lists no factions, 200, of a player who does not exist | `data/openapi.yaml:347-348` has 404 |
| `rest/player_settings_handler.go:54` | stores an empty language | `data/openapi.yaml:442-443` has 400 |
| `firestore/game_config_repo.go:34` | reports a missing document as `ErrNotFound`, hence 404 for a player who exists | `data/openapi.yaml:99-100` has 404 for an unknown player. Start-up checks the documents, so that one must be deleted meanwhile. `NoDocument` in `Registration` and `PlayerRows`, `config` in `RestServer` |
| `apiaccountserverfake/server.go:89` | has no route for `/health` | `server.go:1-7` says that it implements the contract, with a default for every endpoint |

## 5. The proofs

Every safety property that a passing run checks, refinements included, is also a
theorem. All of them hold for any number of workers, players and tasks (or games and
days, callers, messages, attempts, requests) under the assumptions
`DomainAssumption`, `BattleAssumption`, `LoopAssumption`, `ProgressionAssumption`,
`RegistrationAssumption`, `RowAssumption`, `PushAssumption` and `RestCallAssumption`
(`Lifecycle` needs none). They type the constants; a write of `PlayerRows` names columns of
one table; for the daily battles they also say that workers and games are finite sets, that there is a
worker, that days and the limit are positive, and that subscribers are players;
for the levels, that stored levels are at least 1, and that coefficients are
positive. TLC evaluates the assumptions
in every run of their module. Two theorems about REST calls have a hypothesis of their
own, given below.

**Onboarding** (`OnboardingProofs.tla`). No property is inductive: a commit
makes visible what statements long past decided. `IInv`
(`OnboardingInvariant.tla`) adds

* `Stage(w)`: for each statement, which writes a transaction standing there has
  made, and which of the facts it read still hold;
* `Apart(v, w)`: two transactions do not hold the same ledger entry, the same
  players row or an initial row of the same player.

The argument for `StatusFloor` and `StatusBacked` shows why the stale read does
limited harm. name-set holds the players row from before its read to its
commit, so its read is not stale: it writes `name_set` only over
`not_started`. faction-set and player-onboarded write `faction_set` or more
whatever they read. So the only status that is ever lost is `completed`.
`Invariance` shows `Spec => []IInv` with one lemma per action; `TypeCorrect`,
`NoLostEvent`, `FloorHolds`, `StatusIsBacked`, `AtMostOneInitial` and
`InitialChoiceIsFinal` follow from it.

The same invariant shows `ImplementsEffects`:
every statement but the commit is a stutter of the abstract specification or
its REST step, `Commit` of an event is its `Apply` step (of a duplicate, a
stutter), `Commit` of a selection is `Select`, `Respond` is `Ack`.

`SerialMovesForward` is about `SerialSpec`. `CanTransition` is decided at the read and
the status is written at the commit, so `SerialInv` says that the decision is still right
(`Fresh`) as long as no other request is in flight. The first step that lets
two requests overlap makes the invariant vacuous from its next state on, and takes no
status back itself: it is a `Begin`.

**Daily battles** (`DailyBattleProofs.tla`). `Conservation` is not inductive
because a reversal commits counts it computed earlier. `Balance(w)` is the
same equation for the uncommitted writes: what a locked row will hold, plus the
decrements executed, is what it holds now plus the misses. It is kept because
nobody else writes a locked row (`Apart`, and the guard of the increment).
`BoundedOvershoot` is strengthened to `Overshoot`: the count plus the increments
that have passed the check is at most the limit plus the workers less one. An
increment that passes the check is one of at most all workers, with the count
below the limit; a write moves one from the one term to the other.

**Levels** (`ProgressionProofs.tla`, first part). `ComputeLevel` is a choice
over a set, so that the first thing to show is that the set has exactly one
such level: `ComputeLevelStops`, from the least element of the levels whose end
is above the experience, and `StopsOnce`. The loop keeps `Climbing`: in range, it
is between the level it started from and the result. Every term up to the
result is then exact (`TermExact`), and `LoopIsCorrect` follows.

**Progression** (`ProgressionProofs.tla`). `ExpIsSum` speaks of the committed
rows, and a commit writes what was computed two statements before. `Stage(w)`
says that the row is still the one that was read, and that what will be written
is what the award makes of it; it is kept because no two workers hold a row
(`Apart`), which is the guard of SELECT FOR UPDATE. From it,
`NoAwardLost` and `AwardsOneStep`.

`AnswersAreAwards` counts what is behind callers. `CallsInv` adds what is in flight: a
side that is due an award has one for each answer and for each call that has
passed the side (`Behind`), and the calls that have not passed it (`Ahead`) are still
without theirs; between the two sides of a game (`Between`) a call has paid the
first and not the second. Each statement moves one call from one of these sets to another,
and the numbers with it: an `Abort` only takes a call away, which the
inequalities allow. `SuccessMeansAwarded` follows.

`SteadyIsReadable` adds `Settled`: under the one coefficient, the experience of
every row lies within its level, which a climb that stops keeps (`AwardSettles`).
`TuningAloneBreaksRows` is the same for a specification that may tune: until it
does (`SettledUntilTuned`), the coefficient that an award in flight has read is still the present
one.

**Registration** (`RegistrationProofs.tla`). That a uid has one player rests on
statements before the commit: `Stage(w)` says which rows a transaction has written
at each of them, and that from the insert on (`Holding`) its uid is not
taken; `Apart` that one transaction at a time holds a uid in the
unique index, and that the ids of registrations in flight (`Minting`) are fresh and different.
`ImplementsAccounts` maps an account to the committed row of its uid. The commit
is the step `Create`, the read of the player's view is `Find`, the answers are
`Tell`, `Refuse`, `Miss`, `Unready` and `Error`, and every other statement is a stutter.

**The player's rows** (`PlayerRowsProofs.tla`). `LastWriterPerColumn` compares the
row with a history that grows at a commit, while the version committed was made at
the UPDATE. `Stage(w)` says that it is still `Written(task[w])`, what the
UPDATE would make of the row now; it is kept because only the holder of the row
commits to it (`Apart`). That the commit then adds one write to the history is
`AfterAppend`; that answers given earlier stay true is `AfterPrefix`. `SentOnce`
(a request is sent, served and answered once) ties an answer to its write.

**Push endpoints** (`PushProofs.tla`). `LedgerIsTheEffects` is almost inductive:
`Stage(w)` says that a transaction with uncommitted writes is the one of an event
that is not in the ledger, and that a 200 is answered when it is; `Apart`, that no
two transactions insert one entry, which is the wait of `InsertLedger`. An effect and
its entry are then committed together, once (`LedgerIsExact`).

**REST calls** (`RestCallProofs.tla`). The difficulty is that the 18 operations are data:
their tables are proved right once and for all, and then one argument serves them all.
`RouteOf` (a request matches its own route and no other), `HandlerAgrees` (the client
takes what the handler answers for success), `OthersFail` (and nothing else) and
`UsecaseOrdered` are the facts of the contract. The last is what makes a refusal
honest: `MayFollow(s, t)`, after a write only steps follow that cannot refuse what the write has
not refused. `HandlerInv` says of a running handler that the write it
promises is still before it, or that all that is left is `Harmless`; `Tells`, that an answer
says what was done; `VerdictInv`, that a verdict is what was answered,
an error, or a proxy's 502. `OnceInv` adds that what was claimed stays taken.

Two steps of the model do not fit this. The first award of a game is followed by a
step that may refuse: it is named in the property (`effect = "part"`). And
`Register` reads the configuration after its commit, hence answers 404 for a player that it
has just made when the document is gone. `VerdictsAreTrue` and
`SentinelsNameTheCause` therefore assume `"config" \notin Troubles`, as their run
does: the documents that the start-up has checked are not deleted afterwards
(`ConfigIsChecked`, section 4). `SuccessIsTrue`, `RetriesTakeEffectOnce` and
`FakeSucceedsByDefault` do without it.

`RestTable` has an operator `++` of its own for what `TLC.tla` calls `@@`, because
the definition of the latter is not expanded by the prover.

**The process** (`LifecycleProofs.tla`). `OpenInv` says what the stack of deferred
closes is at each place of `run()`, and that what is open is what the stack will
close; a dialer without its pool is open in one place only, and closed by hand there
(`db.go`). From it `NothingIsLeft`, for every error return. `ServeInv` ties the
two goroutines to `main`: once anything listens the configuration is valid,
and nothing is closed before both have returned. `RequestInv` says
when a request may be spoiled, only after the ten seconds, and that a
request in a statement has the pool open; the pool's close waits for it. From these
`SuccessIsComplete`, `ConfigIsChecked` and `StatementsAreKept`.

All the theorems about temporal specifications are safety. The theorems
`ImplementsEffects` and `ImplementsAccounts` have no liveness part. Model-checked
only is liveness (`EventuallyAcked`, `EveryRequestEnds`, `LoopEnds`,
`EveryCallerGetsItsPlayer`, `EventuallyNewest`, `EventuallyEffective`, `StopsWhenAsked`): the
prover has neither fairness nor ENABLED.

## 6. What is not modelled

* The individual environment variables of `FromEnv`: it refuses or it does not.
* SIGKILL, and a signal before `NotifyContext` or after its cancel: the process is
  gone, and to the database that is an `Abort` of every request.
* `ListPlayerFactions` as a call: the client wrapper has no method for it. Its route
  and handler are in `RestServer`.
* `GetBattleLimit` as an interleaving: three reads that change nothing and promise no
  common moment. It is an operation of `RestCall`.
* The check of an empty uid in the handler of `by-firebase-uid`: the router answers
  404 before it, as `RestServer` has it.
* The missing configuration document in `rest_call`: the start-up excludes it unless somebody
  deletes it later (section 4). The operator is there (`config` of `RestServer`).
* The width of the stored experience: `usecase/player.go:241` adds in int64, `Progression` in the
  integers. The theorems of `Progression` are about sums below 2^63; the words of `ComputeLevel` are
  those of `LevelLoop`, which do wrap.
* A battle under a premium status that has just ended, or counted for the day that has just ended
  (`usecase/player.go:153`), and a reversal before its battle (`:217`) are steps of `DailyBattle`, and
  no property forbids them: `Conservation` accounts for them, `BoundedOvershoot` speaks of players
  who never subscribe. Likewise a first delivery that is overtaken (`EventuallyNewest`, above).
* `premium_expires_at`, icons, timestamps, display texts, JSON layout and logging:
  no property tells their values apart. The two volumes and the
  push flag of the settings stand as one column.
* Constraint failures that no legal input reaches (CHECK on faction and status).
* Pool exhaustion: a request that gets no connection changes nothing, and the
  code sets no limits of its own.
* The generated types (`openapi_gen.go`) beyond what `RestClient` makes of replies,
  and the test fixtures (`postgrestest`): no behaviour of the service.

## 7. The plan

Done: the six components with state in the database (onboarding, daily battles,
progression, registration, the player's rows and settings), the push endpoints, the REST
contract with client and fake, the process. Left, in this order:

1. An abstract specification of the daily battle count, in which a reversal is one
   step, and the theorem that `DailyBattle` implements it; likewise of the push path, in
   which a message takes effect in the step that acknowledges it or before.
2. The state parts of the liveness arguments as theorems: who waits for whom is
   ordered (`registration`, `onboarding_live`), so that the deadlock of crossing
   reversals is the only one.
3. A composition of onboarding with registration, where the row that an event
   needs comes from the other's transaction. Today `Register` is one step of
   `Onboarding`, `PlayerRows` and `Push`, which `WholePlayers` justifies.
