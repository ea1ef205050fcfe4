---------------------------- MODULE Onboarding -----------------------------
(***************************************************************************)
(* The onboarding path of the account service, statement by statement.     *)
(*                                                                         *)
(* Workers are requests being served: push deliveries of Pub/Sub events    *)
(* and POST initial-faction calls.  Each runs one READ COMMITTED           *)
(* transaction (dbtx.go, RunInTx): every statement sees what is committed  *)
(* when it starts, a write stays in pending[w] until Commit, and a         *)
(* statement waits while another transaction holds the row or the index    *)
(* entry it needs.  PutName and Grant are single autocommitted statements. *)
(* Pub/Sub delivers at least once: any event may arrive at any time, again *)
(* and out of order, even after it was acknowledged.                       *)
(***************************************************************************)
EXTENDS OnboardingDomain, FiniteSets

CONSTANTS Worker

VARIABLES
  registered,  \* players with a row in account.players
  name,        \* players.name
  status,      \* players.onboarding_status
  owned,       \* player_factions: the factions of each player
  initial,     \* those of its rows with is_initial
  processed,   \* processed_events
  acked,       \* events answered with 200
  pc,          \* the statement each worker executes next
  task,        \* the task each worker serves
  pending      \* the uncommitted writes of each worker's transaction

db   == <<registered, name, status, owned, initial, processed>>
vars == <<registered, name, status, owned, initial, processed, acked, pc, task, pending>>

Statement == {"insert", "exists", "updateName", "getInitial", "setInitial",
              "addFaction", "getStatus", "setStatus", "commit"}

Clean == [ledger |-> FALSE, name |-> None, status |-> None, owned |-> {}, initial |-> {}]

Pending == [ledger : BOOLEAN, name : Name \cup {None}, status : Status \cup {None},
            owned : SUBSET Faction, initial : SUBSET Faction]

Init ==
  /\ registered = {}
  /\ name = [p \in Player |-> None]
  /\ status = [p \in Player |-> "not_started"]
  /\ owned = [p \in Player |-> {}]
  /\ initial = [p \in Player |-> {}]
  /\ processed = {}
  /\ acked = {}
  /\ pc = [w \in Worker |-> "idle"]
  /\ task = [w \in Worker |-> None]
  /\ pending = [w \in Worker |-> Clean]

----------------------------------------------------------------------------
(* Who holds what.  A lock is an uncommitted write of a live transaction.  *)

Busy(w) == pc[w] # "idle"

LedgerWriters(t) == {w \in Worker : Busy(w) /\ task[w] = t /\ pending[w].ledger}

Serving(p) == {w \in Worker : Busy(w) /\ PlayerOf[task[w]] = p}

RowHolders(p) ==
  {w \in Serving(p) : pending[w].name # None \/ pending[w].status # None}

FactionWriters(p, f) == {w \in Serving(p) : f \in pending[w].owned}

InitialWriters(p) == {w \in Serving(p) : pending[w].initial # {}}

----------------------------------------------------------------------------
(* The shape of a step.                                                    *)

At(w, statement) == pc[w] = statement

Goto(w, statement) == pc' = [pc EXCEPT ![w] = statement]

Write(w, writes) == pending' = [pending EXCEPT ![w] = writes]

Finish(w) ==
  /\ Goto(w, "idle")
  /\ task' = [task EXCEPT ![w] = None]
  /\ Write(w, Clean)

(* A statement that only decides what comes next.                          *)
Decide(w, statement) ==
  /\ Goto(w, statement)
  /\ UNCHANGED <<db, acked, task, pending>>

(* A statement that leaves an uncommitted write.                           *)
Execute(w, writes, statement) ==
  /\ Goto(w, statement)
  /\ Write(w, writes)
  /\ UNCHANGED <<db, acked, task>>

(* The closure returned an error: the deferred Rollback undoes every       *)
(* write, the ledger entry among them, and the answer is not a success.    *)
Fail(w) ==
  /\ Finish(w)
  /\ UNCHANGED <<db, acked>>

----------------------------------------------------------------------------
(* The statements of the transactions.                                     *)

(* A request arrives and is validated before its transaction is opened.    *)
Begin(w, t) ==
  /\ At(w, "idle")
  /\ Valid(t)
  /\ Goto(w, IF Kind[t] = "select" THEN "exists" ELSE "insert")
  /\ task' = [task EXCEPT ![w] = t]
  /\ UNCHANGED <<db, acked, pending>>

AfterInsert(t) ==
  CASE Kind[t] = "name_set"         -> "updateName"
    [] Kind[t] = "faction_set"      -> "getInitial"
    [] Kind[t] = "completed"        -> "getStatus"
    [] Kind[t] = "faction_acquired" -> "addFaction"

(* A bug: the entry of a transaction still in flight counts as a duplicate. *)
InsertEventNoWait(w) ==
  /\ At(w, "insert")
  /\ IF task[w] \in processed \/ LedgerWriters(task[w]) # {}
     THEN Decide(w, "commit")
     ELSE Execute(w, [pending[w] EXCEPT !.ledger = TRUE], AfterInsert(task[w]))

(* A bug: the ledger entry is committed on its own, ahead of the effect.   *)
InsertEventOutsideTx(w) ==
  /\ At(w, "insert")
  /\ LedgerWriters(task[w]) = {}
  /\ Goto(w, IF task[w] \in processed THEN "commit" ELSE AfterInsert(task[w]))
  /\ processed' = processed \cup {task[w]}
  /\ UNCHANGED <<registered, name, status, owned, initial, acked, task, pending>>

(* A bug: the duplicate key is an error, so a redelivery never succeeds.    *)
InsertEventDuplicateFails(w) ==
  /\ At(w, "insert")
  /\ LedgerWriters(task[w]) = {}
  /\ IF task[w] \in processed
     THEN Fail(w)
     ELSE Execute(w, [pending[w] EXCEPT !.ledger = TRUE], AfterInsert(task[w]))

(* INSERT ... ON CONFLICT DO NOTHING on the ledger.  It waits for another  *)
(* transaction that is inserting the same event_id; an id that is already  *)
(* there is a duplicate, answered with success and no effect.              *)
InsertEvent(w) ==
  /\ At(w, "insert")
  /\ LedgerWriters(task[w]) = {}
  /\ IF task[w] \in processed
     THEN Decide(w, "commit")
     ELSE Execute(w, [pending[w] EXCEPT !.ledger = TRUE], AfterInsert(task[w]))

(* UPDATE players SET name: takes the row lock before the status is read.  *)
UpdateName(w) ==
  /\ At(w, "updateName")
  /\ IF PlayerOf[task[w]] \in registered
     THEN /\ RowHolders(PlayerOf[task[w]]) \subseteq {w}
          /\ Execute(w, [pending[w] EXCEPT !.name = NameOf[task[w]]], "getStatus")
     ELSE Fail(w)

(* SelectInitialFaction checks the player first.                           *)
Exists(w) ==
  /\ At(w, "exists")
  /\ IF PlayerOf[task[w]] \in registered THEN Decide(w, "getInitial") ELSE Fail(w)

(* A bug: the event takes the selection for granted and writes no row.     *)
GetInitialFactionAssumed(w) ==
  LET existing == initial[PlayerOf[task[w]]] IN
  /\ At(w, "getInitial")
  /\ IF existing = {} /\ Kind[task[w]] = "select" THEN Decide(w, "setInitial")
     ELSE IF Kind[task[w]] = "faction_set" /\ existing \subseteq {FactionOf[task[w]]}
     THEN Decide(w, "getStatus")
     ELSE Fail(w)

(* The initial faction as committed now: none, the incoming one, or        *)
(* another.  Another is ErrFactionConflict for an event; any at all is     *)
(* ErrFactionAlreadySelected for a selection.                              *)
GetInitialFaction(w) ==
  LET existing == initial[PlayerOf[task[w]]] IN
  /\ At(w, "getInitial")
  /\ IF existing = {} THEN Decide(w, "setInitial")
     ELSE IF Kind[task[w]] = "faction_set" /\ existing = {FactionOf[task[w]]}
     THEN Decide(w, "getStatus")
     ELSE Fail(w)

(* A bug: no unique index on is_initial, the earlier read is trusted.      *)
SetInitialFactionNoIndex(w) ==
  LET p == PlayerOf[task[w]]
      f == FactionOf[task[w]]
  IN
  /\ At(w, "setInitial")
  /\ FactionWriters(p, f) = {}
  /\ IF p \in registered
     THEN Execute(w, [pending[w] EXCEPT !.owned = {f}, !.initial = {f}],
                  IF Kind[task[w]] = "select" THEN "commit" ELSE "getStatus")
     ELSE Fail(w)

(* INSERT ... ON CONFLICT (player_id, faction) DO UPDATE SET is_initial.   *)
(* It waits for a transaction writing the same row or another initial row  *)
(* of the player.  The foreign key wants the player; the partial unique    *)
(* index refuses a second initial faction.                                 *)
SetInitialFaction(w) ==
  LET p == PlayerOf[task[w]]
      f == FactionOf[task[w]]
  IN
  /\ At(w, "setInitial")
  /\ InitialWriters(p) = {}
  /\ FactionWriters(p, f) = {}
  /\ IF p \in registered /\ initial[p] \subseteq {f}
     THEN Execute(w, [pending[w] EXCEPT !.owned = {f}, !.initial = {f}],
                  IF Kind[task[w]] = "select" THEN "commit" ELSE "getStatus")
     ELSE Fail(w)

(* INSERT ... ON CONFLICT DO NOTHING on player_factions, inside the        *)
(* faction-acquired transaction.                                           *)
AddPlayerFaction(w) ==
  LET p == PlayerOf[task[w]]
      f == FactionOf[task[w]]
  IN
  /\ At(w, "addFaction")
  /\ f \in owned[p] \/ FactionWriters(p, f) = {}
  /\ IF p \in registered
     THEN Execute(w, [pending[w] EXCEPT !.owned = {f} \ owned[p]], "commit")
     ELSE Fail(w)

(* A bug: a backward transition is written too.                            *)
GetOnboardingStatusAnyWay(w) ==
  /\ At(w, "getStatus")
  /\ IF PlayerOf[task[w]] \in registered
     THEN Decide(w, IF status[PlayerOf[task[w]]] # Target(task[w])
                    THEN "setStatus" ELSE "commit")
     ELSE Fail(w)

(* advanceOnboardingStatus, the read: no lock, and the decision taken here *)
(* is carried to the write.                                                *)
GetOnboardingStatus(w) ==
  LET current == status[PlayerOf[task[w]]]
      target  == Target(task[w])
  IN
  /\ At(w, "getStatus")
  /\ IF PlayerOf[task[w]] \in registered
     THEN Decide(w, IF CanTransition(current, target) /\ current # target
                    THEN "setStatus" ELSE "commit")
     ELSE Fail(w)

(* advanceOnboardingStatus, the write: waits for the row, then writes the  *)
(* target over whatever the row holds by now.                              *)
UpdateOnboardingStatus(w) ==
  /\ At(w, "setStatus")
  /\ RowHolders(PlayerOf[task[w]]) \subseteq {w}
  /\ Execute(w, [pending[w] EXCEPT !.status = Target(task[w])], "commit")

(* Every pending write becomes visible in one step.                        *)
Commit(w) ==
  LET p == PlayerOf[task[w]]
      x == pending[w]
  IN
  /\ At(w, "commit")
  /\ Goto(w, "respond")
  /\ processed' = IF x.ledger THEN processed \cup {task[w]} ELSE processed
  /\ name' = IF x.name = None THEN name ELSE [name EXCEPT ![p] = x.name]
  /\ status' = IF x.status = None THEN status ELSE [status EXCEPT ![p] = x.status]
  /\ owned' = [owned EXCEPT ![p] = @ \cup x.owned]
  /\ initial' = [initial EXCEPT ![p] = @ \cup x.initial]
  /\ Write(w, Clean)
  /\ UNCHANGED <<registered, acked, task>>

(* A bug: the answer to a REST selection is recorded as an acknowledgement. *)
RespondAny(w) ==
  /\ At(w, "respond")
  /\ acked' = acked \cup {task[w]}
  /\ Finish(w)
  /\ UNCHANGED db

(* The success reaches the caller: for Pub/Sub, a 200 acknowledges.        *)
Respond(w) ==
  /\ At(w, "respond")
  /\ acked' = acked \cup ({task[w]} \cap Event)
  /\ Finish(w)
  /\ UNCHANGED db

(* The process, the connection or the client is gone: before Commit the    *)
(* transaction is rolled back, after it only the answer is lost.           *)
Abort(w) == Busy(w) /\ Fail(w)

Serve(w) ==
  \/ InsertEvent(w)
  \/ UpdateName(w)
  \/ Exists(w)
  \/ GetInitialFaction(w)
  \/ SetInitialFaction(w)
  \/ AddPlayerFaction(w)
  \/ GetOnboardingStatus(w)
  \/ UpdateOnboardingStatus(w)
  \/ Commit(w)
  \/ Respond(w)

----------------------------------------------------------------------------
(* The operations of one statement, and the registration that makes the    *)
(* row (one transaction; module scope of its own).                         *)

Register(p) ==
  /\ p \notin registered
  /\ registered' = registered \cup {p}
  /\ UNCHANGED <<name, status, owned, initial, processed, acked, pc, task, pending>>

(* PUT name: one UPDATE, which waits for the row.                          *)
PutName(p, n) ==
  /\ p \in registered
  /\ RowHolders(p) = {}
  /\ name' = [name EXCEPT ![p] = n]
  /\ UNCHANGED <<registered, status, owned, initial, processed, acked, pc, task, pending>>

(* POST factions: one INSERT ... ON CONFLICT DO NOTHING.                   *)
Grant(p, f) ==
  /\ p \in registered
  /\ f \notin owned[p]
  /\ FactionWriters(p, f) = {}
  /\ owned' = [owned EXCEPT ![p] = @ \cup {f}]
  /\ UNCHANGED <<registered, name, status, initial, processed, acked, pc, task, pending>>

Work ==
  \/ \E w \in Worker : Serve(w) \/ \E t \in Task : Begin(w, t)
  \/ \E p \in Player : \/ Register(p)
                       \/ \E n \in Name : PutName(p, n)
                       \/ \E f \in Faction : Grant(p, f)

Fault == \E w \in Worker : Abort(w)

Next == Work \/ Fault

Spec == Init /\ [][Next]_vars
============================================================================
