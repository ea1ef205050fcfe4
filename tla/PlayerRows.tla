----------------------------- MODULE PlayerRows -----------------------------
(***************************************************************************)
(* The rows of one player that are written in place: name and premium      *)
(* status in players, the settings in player_settings.                     *)
(*                                                                         *)
(* A request (PUT name, PUT premium, PUT settings) is a single UPDATE; PUT *)
(* name and PUT settings then read their answer with a second statement,   *)
(* in no transaction.  An event (onboarding-name-set, premium-updated) is  *)
(* a transaction that enters the event in the ledger and then updates the  *)
(* row.  Events are delivered at least once, in any order, to several      *)
(* workers at a time; no event and no request carries a version.  A write  *)
(* is its own value: the columns it names hold the write itself.           *)
(*                                                                         *)
(* made and committed are history variables: no code reads them.           *)
(***************************************************************************)
EXTENDS Naturals, Sequences, SequencesExt

CONSTANTS
  Worker,   \* requests and deliveries in flight
  Event,    \* onboarding-name-set and premium-updated events
  Put,      \* PUT name, PUT premium and PUT settings requests
  Get,      \* GET settings requests
  Names,    \* the columns each write names: of one table
  Initial,  \* what Register stored
  MaxMade   \* bound: events and requests in all

Players == {"name", "premium"}

Settings == {"language", "volume"}

Column == Players \cup Settings

Request == Put \cup Get

Op == Event \cup Request

ASSUME RowAssumption ==
  /\ Event \cap Request = {}
  /\ Put \cap Get = {}
  /\ Names \in [Op -> (SUBSET Players) \cup (SUBSET Settings)]
  /\ Initial \notin Op
  /\ MaxMade \in Nat

VARIABLES
  ordered,     \* whether the writes of a column reach the service in order
  registered,  \* whether the player's rows exist
  row,         \* the write each column holds
  processed,   \* the events of account.processed_events
  pc,          \* the statement each worker executes next
  task,        \* the write, or the read, it carries out
  marked,      \* it has entered its event in the ledger, uncommitted
  version,     \* the uncommitted version of a row it has written and locked
  answer,      \* the answer to each request
  made,        \* history: what was asked for, in that order
  committed    \* history: the writes in the order of their commits

vars == <<ordered, registered, row, processed, pc, task, marked, version, answer,
          made, committed>>

store == <<registered, row, processed, committed>>

Unanswered == [code |-> "none"]

NoVersion == [c \in {} |-> Initial]

Init ==
  /\ ordered \in BOOLEAN
  /\ registered = FALSE
  /\ row = [c \in Column |-> Initial]
  /\ processed = {}
  /\ pc = [w \in Worker |-> "idle"]
  /\ task = [w \in Worker |-> Initial]
  /\ marked = [w \in Worker |-> FALSE]
  /\ version = [w \in Worker |-> NoVersion]
  /\ answer = [x \in Request |-> Unanswered]
  /\ made = <<>>
  /\ committed = <<>>

----------------------------------------------------------------------------
At(w, statement) == pc[w] = statement

Goto(w, statement) == pc' = [pc EXCEPT ![w] = statement]

Made(x) == x \in ToSet(made)

Committed(x) == x \in ToSet(committed)

(* Position of a write in a sequence of writes.                            *)
Position(s, x) == CHOOSE i \in DOMAIN s : s[i] = x

(* The table of a write or a read.                                         *)
TableOf(x) == IF Names[x] \cap Players # {} THEN Players ELSE Settings

(* The workers that have an uncommitted update of the row.                 *)
Holders(table) == {w \in Worker : DOMAIN version[w] = table}

(* The workers that have entered the event, uncommitted.                   *)
Markers(e) == {w \in Worker : marked[w] /\ task[w] = e}

Overlap(x, y) == Names[x] \cap Names[y] # {}

(* What x must wait for to arrive in order.                                *)
Unprocessed(x) == {e \in Event \ processed : Made(e) /\ Overlap(e, x)}

InFlight(x) == {w \in Worker : task[w] \in Put /\ Overlap(task[w], x)}

Make(x) ==
  /\ ~ Made(x)
  /\ Len(made) < MaxMade
  /\ made' = Append(made, x)

Begin(w, x, statement) ==
  /\ At(w, "idle")
  /\ Goto(w, statement)
  /\ task' = [task EXCEPT ![w] = x]
  /\ UNCHANGED <<ordered, store, marked, version>>

(* The end of a request or a delivery, and of its locks.                   *)
Finish(w) ==
  /\ Goto(w, "idle")
  /\ task' = [task EXCEPT ![w] = Initial]
  /\ marked' = [marked EXCEPT ![w] = FALSE]
  /\ version' = [version EXCEPT ![w] = NoVersion]
  /\ UNCHANGED <<ordered, made>>

(* A request is answered; Pub/Sub learns only whether to deliver again.    *)
Reply(w, a) ==
  IF task[w] \in Request THEN answer' = [answer EXCEPT ![task[w]] = a]
  ELSE UNCHANGED answer

(* Rollback: the transaction leaves nothing.                               *)
Fail(w, code) ==
  /\ Finish(w)
  /\ Reply(w, [code |-> code])
  /\ UNCHANGED store

----------------------------------------------------------------------------
(* The senders.                                                            *)

(* Register commits both rows.                                             *)
Register ==
  /\ ~ registered
  /\ registered' = TRUE
  /\ UNCHANGED <<ordered, row, processed, committed, pc, task, marked, version, answer, made>>

(* A publisher makes an event.                                             *)
Publish(e) ==
  /\ Make(e)
  /\ ordered => InFlight(e) = {}
  /\ UNCHANGED <<ordered, store, pc, task, marked, version, answer>>

(* Pub/Sub delivers it, once or again.                                     *)
Deliver(w, e) ==
  /\ Made(e)
  /\ ordered => \A d \in Unprocessed(e) : Position(made, e) <= Position(made, d)
  /\ Begin(w, e, "ledger")
  /\ UNCHANGED <<answer, made>>

(* The player, or an operator, sends a request.                            *)
Send(w, x) ==
  /\ Make(x)
  /\ ordered => Unprocessed(x) = {} /\ InFlight(x) = {}
  /\ \/ /\ x \in Put /\ Names[x] # {}
        /\ Begin(w, x, "update")
        /\ UNCHANGED answer
     \/ /\ x \in Get
        /\ Begin(w, x, "view")
        /\ UNCHANGED answer
     \/ /\ x \in Put /\ Names[x] = {}
        /\ At(w, "idle")
        /\ answer' = [answer EXCEPT ![x] = [code |-> "badRequest"]]
        /\ UNCHANGED <<ordered, store, pc, task, marked, version>>

----------------------------------------------------------------------------
(* The statements.                                                         *)

(* A bug: the ledger is not asked whether the event is new.                *)
InsertLedgerUnchecked(w) ==
  /\ At(w, "ledger")
  /\ Markers(task[w]) = {}
  /\ Goto(w, "update")
  /\ marked' = [marked EXCEPT ![w] = TRUE]
  /\ UNCHANGED <<ordered, store, task, version, answer, made>>

(* INSERT ... ON CONFLICT DO NOTHING: waits for a transaction that enters  *)
(* the same event; a duplicate skips the update.                           *)
InsertLedger(w) ==
  /\ At(w, "ledger")
  /\ Markers(task[w]) = {}
  /\ IF task[w] \in processed
     THEN Goto(w, "commit") /\ UNCHANGED marked
     ELSE Goto(w, "update") /\ marked' = [marked EXCEPT ![w] = TRUE]
  /\ UNCHANGED <<ordered, store, task, version, answer, made>>

(* A bug: every column of the table is written, null where none is named.  *)
WrittenWhole(x) == [c \in TableOf(x) |-> IF c \in Names[x] THEN x ELSE Initial]

(* The row's next version: the columns not named are kept (COALESCE).      *)
Written(x) == [c \in TableOf(x) |-> IF c \in Names[x] THEN x ELSE row[c]]

(* A bug: an update of no row is a success.                                *)
UpdateRowUncounted(w) ==
  /\ At(w, "update")
  /\ Holders(TableOf(task[w])) = {}
  /\ Goto(w, "commit")
  /\ version' = [version EXCEPT ![w] = IF registered THEN Written(task[w]) ELSE NoVersion]
  /\ UNCHANGED <<ordered, store, task, marked, answer, made>>

(* A bug: the row is read first and written whole, without a lock.         *)
UpdateRowUnlocked(w) ==
  /\ At(w, "update")
  /\ registered
  /\ Goto(w, "commit")
  /\ version' = [version EXCEPT ![w] = Written(task[w])]
  /\ UNCHANGED <<ordered, store, task, marked, answer, made>>

(* UPDATE: waits for the holder of the row, whichever column it writes,    *)
(* and then sees its version; no row affected is ErrNotFound.              *)
UpdateRow(w) ==
  /\ At(w, "update")
  /\ Holders(TableOf(task[w])) = {}
  /\ \/ /\ ~ registered
        /\ Fail(w, "notFound")
     \/ /\ registered
        /\ Goto(w, "commit")
        /\ version' = [version EXCEPT ![w] = Written(task[w])]
        /\ UNCHANGED <<ordered, store, task, marked, answer, made>>

(* PUT name and PUT settings read their answer; the rest is done.          *)
ReadsBack(x) == x \in Put /\ Names[x] # {"premium"}

(* Ledger entry and update become visible together.                        *)
Commit(w) ==
  LET x == task[w] IN
  /\ At(w, "commit")
  /\ processed' = IF marked[w] THEN processed \cup {x} ELSE processed
  /\ row' = [c \in Column |-> IF c \in DOMAIN version[w] THEN version[w][c] ELSE row[c]]
  /\ committed' = IF version[w] = NoVersion THEN committed ELSE Append(committed, x)
  /\ \/ /\ ReadsBack(x)
        /\ Goto(w, "view")
        /\ marked' = [marked EXCEPT ![w] = FALSE]
        /\ version' = [version EXCEPT ![w] = NoVersion]
        /\ UNCHANGED <<ordered, task, answer, made>>
     \/ /\ ~ ReadsBack(x)
        /\ Finish(w)
        /\ Reply(w, [code |-> "done"])
  /\ UNCHANGED registered

(* A bug: the response repeats the request over the defaults.              *)
ReadViewEchoes(w) ==
  LET x == task[w] IN
  /\ At(w, "view")
  /\ Finish(w)
  /\ Reply(w, [code |-> "ok",
               row |-> [c \in TableOf(x) |-> IF c \in Names[x] THEN x ELSE Initial]])
  /\ UNCHANGED store

(* GetPlayerResponse reads the coefficient after the row: a document that  *)
(* is gone is answered 404 like an unknown player, here "noConfig".        *)
NoDocument(w) ==
  /\ registered
  /\ task[w] \in Put /\ "name" \in Names[task[w]]
  /\ Fail(w, "noConfig")

(* GetPlayerResponse or Get, in no transaction: the row as committed now.  *)
ReadView(w) ==
  /\ At(w, "view")
  /\ \/ ~ registered /\ Fail(w, "notFound")
     \/ NoDocument(w)
     \/ /\ registered
        /\ Finish(w)
        /\ Reply(w, [code |-> "ok", row |-> [c \in TableOf(task[w]) |-> row[c]]])
        /\ UNCHANGED store

(* A statement fails or the process dies: rollback, the caller gets 500.   *)
Abort(w) == ~ At(w, "idle") /\ Fail(w, "error")

Serve(w) == InsertLedger(w) \/ UpdateRow(w) \/ Commit(w) \/ ReadView(w)

Next ==
  \/ Register
  \/ \E e \in Event : Publish(e)
  \/ \E w \in Worker :
       \/ \E e \in Event : Deliver(w, e)
       \/ \E x \in Request : Send(w, x)
       \/ Serve(w)
       \/ Abort(w)

Spec == Init /\ [][Next]_vars

----------------------------------------------------------------------------
(* Properties.                                                             *)

Rows(table) == [table -> Event \cup Put \cup {Initial}]

Versions == Rows(Players) \cup Rows(Settings)

Answers ==
  [code : {"ok"}, row : Versions]
    \cup [code : {"none", "done", "badRequest", "notFound", "noConfig", "error"}]

(* Every variable has its type.                                            *)
TypeOK ==
  /\ ordered \in BOOLEAN /\ registered \in BOOLEAN
  /\ row \in Rows(Column)
  /\ processed \subseteq Event
  /\ pc \in [Worker -> {"idle", "ledger", "update", "commit", "view"}]
  /\ task \in [Worker -> Op \cup {Initial}]
  /\ marked \in [Worker -> BOOLEAN]
  /\ version \in [Worker -> Versions \cup {NoVersion}]
  /\ answer \in [Request -> Answers]
  /\ made \in Seq(Op)
  /\ committed \in Seq(Event \cup Put)

(* An event changes the player at its first commit and never again: a      *)
(* redelivery cannot undo a newer name or status, neither while the first  *)
(* delivery runs, nor after it failed, nor long after it was acknowledged. *)
RedeliveryNeverUndoes ==
  [][\A e \in Event : e \in processed => \A c \in Column : row'[c] = e => row[c] = e]_vars

(* The last of the first k writes that names a column, if one does.        *)
LastNaming(s, k, c) ==
  {s[i] : i \in {j \in 1 .. k : /\ c \in Names[s[j]]
                               /\ \A l \in (j + 1) .. k : c \notin Names[s[l]]}}

Pick(V) == IF V = {} THEN Initial ELSE CHOOSE v \in V : TRUE

(* The columns after the first k of some writes.                           *)
After(s, k) == [c \in Column |-> Pick(LastNaming(s, k, c))]

(* Concurrent updates: every column holds what the last committed write    *)
(* that names it wrote, whatever updates of this or other columns of the   *)
(* row ran at the same time.                                               *)
LastWriterPerColumn == row = After(committed, Len(committed))

(* An answer is true of what is committed: a success shows the row after   *)
(* some writes, among them the request's own; a refusal has changed        *)
(* nothing, and 204 has.  A 404 for want of the configuration document     *)
(* (PUT name) is no such refusal: the name has been stored.                *)
IsTrue(x, a) ==
  /\ a.code = "ok" =>
       \E k \in 0 .. Len(committed) :
         /\ x \in Put => \E i \in 1 .. k : committed[i] = x
         /\ \A c \in DOMAIN a.row : a.row[c] = After(committed, k)[c]
  /\ a.code = "done" => Committed(x)
  /\ a.code \in {"badRequest", "notFound"} => ~ Committed(x)
  /\ a.code = "noConfig" => Committed(x)

(* The comment of UpdateName: the answer is read back in no transaction,   *)
(* yet read-after-write is not broken.  A successful answer shows the row  *)
(* as it was at one moment, after the request's own write: perhaps with    *)
(* later ones, never a mixture, never an older row.  What was refused with *)
(* 400, or with 404 for want of the player, is never carried out.          *)
AnswersAreTrue == \A x \in Request : IsTrue(x, answer[x])

----------------------------------------------------------------------------
(* Eventual consistency.  The player registers, Pub/Sub delivers an event  *)
(* again until it is processed, and the failures end.                      *)

Fault == \E w \in Worker : Abort(w)

LiveSpec ==
  /\ Spec
  /\ WF_vars(Register)
  /\ \A w \in Worker : WF_vars(Serve(w))
  /\ \A e \in Event : SF_vars(e \notin processed /\ \E w \in Worker : Deliver(w, e))
  /\ <>[][~ Fault]_vars

(* The last write that was asked for, of those that count: an event is     *)
(* never given up, a request that failed is.                               *)
Newest(c) ==
  LET s == SelectSeq(made, LAMBDA x : c \in Names[x] /\ (x \in Put => Committed(x)))
  IN  IF s = <<>> THEN Initial ELSE Last(s)

(* DATA_DESIGN: shop is authoritative and premium-updated brings the       *)
(* projection into line eventually.  So it does, and so does the name a    *)
(* player chose, when writes of a column arrive in the order they were     *)
(* made; events that overtake each other leave the older status for good.  *)
EventuallyNewest ==
  ordered => <>[] (\A c \in Column : row[c] = Newest(c))
=============================================================================
