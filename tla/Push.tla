-------------------------------- MODULE Push --------------------------------
(***************************************************************************)
(* The push endpoints from the message to its acknowledgement.             *)
(*                                                                         *)
(* Pub/Sub pushes each message at least once to the endpoint of its topic. *)
(* The endpoint decodes the envelope, the subscriber checks the event and  *)
(* applies it in one transaction with its ledger entry; 200 acknowledges,  *)
(* anything else makes Pub/Sub deliver again and, after MaxDeliveries,     *)
(* park the message as a dead letter.  An operator replays a dead letter   *)
(* with its payload corrected (usecase/onboarding.go:158-162).  All the    *)
(* messages are about one player; what an event changes is the subject of  *)
(* Onboarding and PlayerRows, here it is applied or not.                   *)
(***************************************************************************)
EXTENDS Naturals

CONSTANTS
  Message,       \* messages, each with an event_id of its own
  Worker,        \* deliveries being served
  TopicsOf,      \* the topics each message may be of
  MaxDeliveries  \* deliveries before a message is a dead letter

Topic == {"faction-acquired", "premium-updated", "player-onboarded",
          "onboarding-name-set", "onboarding-faction-set"}

ASSUME PushAssumption ==
  /\ TopicsOf \in [Message -> SUBSET Topic]
  /\ MaxDeliveries \in Nat \ {0}

VARIABLES
  topic,       \* the topic of each message
  fault,       \* what is wrong with it: a fault, or "none"
  state,       \* "unpublished", "queued", "acked", "dead"
  deliveries,  \* its deliveries since it was published or replayed
  registered,  \* whether the player exists
  ledger,      \* account.processed_events
  applied,     \* how often the effect of each message was committed
  pc,          \* where each worker is
  task,        \* the message it serves
  writes       \* whether its transaction has written the ledger entry

vars == <<topic, fault, state, deliveries, registered, ledger, applied,
          pc, task, writes>>

broker == <<topic, fault, state, deliveries>>

db == <<registered, ledger, applied>>

None == "none"

Init ==
  /\ topic \in {t \in [Message -> Topic] : \A m \in Message : t[m] \in TopicsOf[m]}
  /\ fault = [m \in Message |-> None]
  /\ state = [m \in Message |-> "unpublished"]
  /\ deliveries = [m \in Message |-> 0]
  /\ registered \in BOOLEAN
  /\ ledger = {}
  /\ applied = [m \in Message |-> 0]
  /\ pc = [w \in Worker |-> "idle"]
  /\ task = [w \in Worker |-> None]
  /\ writes = [w \in Worker |-> FALSE]

----------------------------------------------------------------------------
(* What may be wrong with a message, and who finds it.                     *)

EnvelopeFault == {"malformed envelope", "no data", "not base64"}

FactionAcquiredFault == {"bad payload", "event_type"}

PremiumUpdatedFault == {"bad payload", "event_type"}

PlayerOnboardedFault == {"bad payload", "event_type", "field"}

NameSetFault == {"bad payload", "event_type", "field"}

FactionSetFault == {"bad payload", "event_type", "field"}

SubscriberFault(t) ==
  CASE t = "faction-acquired"       -> FactionAcquiredFault
    [] t = "premium-updated"        -> PremiumUpdatedFault
    [] t = "player-onboarded"       -> PlayerOnboardedFault
    [] t = "onboarding-name-set"    -> NameSetFault
    [] t = "onboarding-faction-set" -> FactionSetFault

(* A name or a faction that the use case refuses before its transaction.   *)
NameFault == {"value"}

FactionFault == {"value"}

ValueFault(t) ==
  CASE t = "onboarding-name-set"    -> NameFault
    [] t = "onboarding-faction-set" -> FactionFault
    [] OTHER                        -> {}

(* Refused in the transaction: an event_id that is no UUID by the ledger;  *)
(* another initial faction, or a player_id or a faction that the tables    *)
(* refuse, by the statements of the effect.                                *)
EffectFault(t) ==
  CASE t = "onboarding-faction-set" -> {"conflict", "bad id"}
    [] t = "faction-acquired"       -> {"bad faction", "bad id"}
    [] OTHER                        -> {"bad id"}

Fault(t) ==
  EnvelopeFault \cup SubscriberFault(t) \cup ValueFault(t) \cup EffectFault(t)
    \cup {"event_id"}

----------------------------------------------------------------------------
(* Pub/Sub and the world.                                                  *)

Publish(m) ==
  /\ state[m] = "unpublished"
  /\ state' = [state EXCEPT ![m] = "queued"]
  /\ \E f \in Fault(topic[m]) \cup {None} : fault' = [fault EXCEPT ![m] = f]
  /\ UNCHANGED <<topic, deliveries, db, pc, task, writes>>

(* An acknowledged message may be delivered once more.                     *)
Deliver(w, m) ==
  /\ pc[w] = "idle"
  /\ state[m] \in {"queued", "acked"}
  /\ deliveries[m] < MaxDeliveries
  /\ deliveries' = [deliveries EXCEPT ![m] = @ + 1]
  /\ pc' = [pc EXCEPT ![w] = "decode"]
  /\ task' = [task EXCEPT ![w] = m]
  /\ UNCHANGED <<topic, fault, state, db, writes>>

DeadLetter(m) ==
  /\ state[m] = "queued"
  /\ deliveries[m] = MaxDeliveries
  /\ state' = [state EXCEPT ![m] = "dead"]
  /\ UNCHANGED <<topic, fault, deliveries, db, pc, task, writes>>

(* The operator corrects the payload; the event_id is the same.            *)
Replay(m) ==
  /\ state[m] = "dead"
  /\ \A w \in Worker : task[w] # m
  /\ state' = [state EXCEPT ![m] = "queued"]
  /\ fault' = [fault EXCEPT ![m] = None]
  /\ deliveries' = [deliveries EXCEPT ![m] = 0]
  /\ UNCHANGED <<topic, db, pc, task, writes>>

Register ==
  /\ ~ registered
  /\ registered' = TRUE
  /\ UNCHANGED <<broker, ledger, applied, pc, task, writes>>

----------------------------------------------------------------------------
(* The endpoint.                                                           *)

At(w, place) == pc[w] = place

Goto(w, place) ==
  /\ pc' = [pc EXCEPT ![w] = place]
  /\ UNCHANGED <<broker, db, task>>

(* The request ends: 200 acknowledges, 400 and 500 do not.  Whatever the   *)
(* transaction has not committed is rolled back.                           *)
Answer(w, code) ==
  /\ pc' = [pc EXCEPT ![w] = "idle"]
  /\ task' = [task EXCEPT ![w] = None]
  /\ writes' = [writes EXCEPT ![w] = FALSE]
  /\ state' = IF code = 200 /\ state[task[w]] = "queued"
              THEN [state EXCEPT ![task[w]] = "acked"] ELSE state
  /\ UNCHANGED <<topic, fault, deliveries, registered>>

(* EventHandler.Handle up to the call of the subscriber.                   *)
Decode(w) ==
  /\ At(w, "decode")
  /\ \/ /\ fault[task[w]] \in EnvelopeFault
        /\ Answer(w, 400)
        /\ UNCHANGED <<ledger, applied>>
     \/ /\ fault[task[w]] \notin EnvelopeFault
        /\ Goto(w, "check")
        /\ UNCHANGED writes

(* A bug: an unexpected event_type is skipped with a success.              *)
CheckSkipsUnknown(w) ==
  LET m == task[w]
      refused == SubscriberFault(topic[m]) \cup ValueFault(topic[m])
  IN  /\ At(w, "check")
      /\ \/ /\ fault[m] \in refused
            /\ Answer(w, IF fault[m] = "event_type" THEN 200 ELSE 500)
            /\ UNCHANGED <<ledger, applied>>
         \/ /\ fault[m] \notin refused
            /\ Goto(w, "insert")
            /\ UNCHANGED writes

(* HandleMessage of the subscriber up to its transaction.                  *)
Check(w) ==
  LET m == task[w]
      refused == SubscriberFault(topic[m]) \cup ValueFault(topic[m])
  IN  /\ At(w, "check")
      /\ \/ /\ fault[m] \in refused
            /\ Answer(w, 500)
            /\ UNCHANGED <<ledger, applied>>
         \/ /\ fault[m] \notin refused
            /\ Goto(w, "insert")
            /\ UNCHANGED writes

(* A bug: the entry is inserted on the pool, outside the transaction.      *)
InsertOnPool(w) ==
  LET m == task[w]
  IN  /\ At(w, "insert")
      /\ fault[m] # "event_id"
      /\ ledger' = ledger \cup {m}
      /\ pc' = [pc EXCEPT ![w] = IF m \in ledger THEN "respond" ELSE "effect"]
      /\ writes' = [writes EXCEPT ![w] = m \notin ledger]
      /\ UNCHANGED <<broker, registered, applied, task>>

(* A bug: the insert does not wait for the transaction that has inserted.  *)
InsertNoWait(w) ==
  /\ At(w, "insert")
  /\ fault[task[w]] # "event_id"
  /\ Goto(w, IF task[w] \in ledger THEN "respond" ELSE "effect")
  /\ writes' = [writes EXCEPT ![w] = task[w] \notin ledger]

(* The ledger entry: it waits for another transaction that inserts it, and *)
(* a duplicate commits nothing.                                            *)
InsertLedger(w) ==
  LET m == task[w]
  IN  /\ At(w, "insert")
      /\ \A v \in Worker \ {w} : ~ (task[v] = m /\ writes[v])
      /\ \/ /\ fault[m] = "event_id"
            /\ Answer(w, 500)
            /\ UNCHANGED <<ledger, applied>>
         \/ /\ fault[m] # "event_id"
            /\ m \in ledger
            /\ Goto(w, "respond")
            /\ UNCHANGED writes
         \/ /\ fault[m] # "event_id"
            /\ m \notin ledger
            /\ Goto(w, "effect")
            /\ writes' = [writes EXCEPT ![w] = TRUE]

(* The statements of the effect: they need the player, and the publisher's *)
(* mistakes surface here (IsPublisherBug, or an error of the database).    *)
Effect(w) ==
  LET m == task[w]
      refused == fault[m] \in EffectFault(topic[m]) \/ ~ registered
  IN  /\ At(w, "effect")
      /\ \/ /\ refused
            /\ Answer(w, 500)
            /\ UNCHANGED <<ledger, applied>>
         \/ /\ ~ refused
            /\ Goto(w, "commit")
            /\ UNCHANGED writes

Commit(w) ==
  /\ At(w, "commit")
  /\ pc' = [pc EXCEPT ![w] = "respond"]
  /\ writes' = [writes EXCEPT ![w] = FALSE]
  /\ ledger' = ledger \cup {task[w]}
  /\ applied' = [applied EXCEPT ![task[w]] = @ + 1]
  /\ UNCHANGED <<broker, registered, task>>

Respond(w) ==
  /\ At(w, "respond")
  /\ Answer(w, 200)
  /\ UNCHANGED <<ledger, applied>>

(* The database or the process fails, the deadline passes or the answer is *)
(* lost: no acknowledgement.                                               *)
Fail(w) ==
  /\ pc[w] # "idle"
  /\ Answer(w, 500)
  /\ UNCHANGED <<ledger, applied>>

Serve(w) ==
  Decode(w) \/ Check(w) \/ InsertLedger(w) \/ Effect(w) \/ Commit(w) \/ Respond(w)

Next ==
  \/ Register
  \/ \E m \in Message :
       \/ Publish(m) \/ DeadLetter(m) \/ Replay(m)
       \/ \E w \in Worker : Deliver(w, m)
  \/ \E w \in Worker : Serve(w) \/ Fail(w)

Spec == Init /\ [][Next]_vars

Failure == \E w \in Worker : Fail(w)

(* Pub/Sub delivers or parks what is not acknowledged, a request is served *)
(* to its end, registrations and replays happen, and failures end.         *)
LiveSpec ==
  /\ Spec
  /\ <>[][~ Failure]_vars
  /\ WF_vars(Register)
  /\ \A w \in Worker : WF_vars(Serve(w))
  /\ \A m \in Message :
       /\ WF_vars(DeadLetter(m))
       /\ WF_vars(Replay(m))
       /\ SF_vars(\E w \in Worker : Deliver(w, m))

----------------------------------------------------------------------------
(* The ledger holds exactly the messages that took effect, each of them    *)
(* once: a refused one leaves no entry that would turn its corrected       *)
(* replay into a duplicate.  A message is acknowledged only once it is     *)
(* there; no malformed, misrouted or contradictory one is swallowed with a *)
(* 200, and no duplicate overtakes the delivery it duplicates.             *)
LedgerIsTheEffects ==
  \A m \in Message :
    /\ applied[m] = IF m \in ledger THEN 1 ELSE 0
    /\ state[m] = "acked" => m \in ledger

(* Every message takes effect in the end, the faulty ones after they were  *)
(* parked, corrected and replayed under the same event_id: a refusal never *)
(* uses an event up, and no fault holds the other messages back.           *)
EventuallyEffective ==
  \A m \in Message :
    state[m] = "queued" ~> (applied[m] = 1 /\ state[m] = "acked")
=============================================================================
