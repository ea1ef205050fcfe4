----------------------------- MODULE PushProofs ------------------------------
(***************************************************************************)
(* Proofs about module Push, for every set of messages, topics and         *)
(* deliveries being served, and any number of deliveries of a message.     *)
(***************************************************************************)
EXTENDS PushInvariant, TLAPS

(* No fault is one of the values of fault.                                 *)
LEMMA NoFault == None \in AnyFault
  BY DEF AnyFault

(* So is every fault that a message of a topic may have.                   *)
LEMMA FaultsOfTopics ==
  ASSUME NEW t \in Topic, NEW f \in Fault(t)
  PROVE  f \in AnyFault
  BY Zenon DEF AnyFault, FaultOfTopics

----------------------------------------------------------------------------
(* The shape of a step.                                                    *)

(* The other deliveries keep where they are.                               *)
Others(w) ==
  \A v \in Worker \ {w} : pc'[v] = pc[v] /\ task'[v] = task[v] /\ writes'[v] = writes[v]

(* The step of one delivery keeps the invariant when the ledger gains at   *)
(* most the entry it has written, and its own stage holds.                 *)
LEMMA WorkerStep ==
  ASSUME IInv, TypeOK', LedgerIsTheEffects', NEW w \in Worker, Others(w), Stage(w)',
         \/ ledger' = ledger
         \/ writes[w] /\ ledger' = ledger \cup {task[w]},
         writes'[w] => \A v \in Worker \ {w} : writes[v] => task[v] # task'[w]
  PROVE  IInv'
<1>1. ASSUME NEW v \in Worker PROVE Stage(v)'
  <2>1. CASE v = w
    BY <2>1
  <2>2. CASE v # w
    <3>1. Stage(v) /\ Apart(v, w) /\ pc'[v] = pc[v] /\ task'[v] = task[v] /\ writes'[v] = writes[v]
      BY <2>2 DEF IInv, Others
    <3>2. writes[v] => task[v] \notin ledger'
      BY <2>2, <3>1 DEF Stage, Apart
    <3>3. pc[v] = "respond" => task[v] \in ledger'
      BY <3>1 DEF Stage
    <3>. QED
      BY <3>1, <3>2, <3>3 DEF Stage
  <2>. QED
    BY <2>1, <2>2
<1>2. ASSUME NEW u \in Worker, NEW v \in Worker PROVE Apart(u, v)'
  BY DEF IInv, Apart, Others
<1>. QED
  BY <1>1, <1>2 DEF IInv

(* A delivery that is answered is free; 200 is answered for an entry of    *)
(* the ledger only.                                                        *)
LEMMA AnswerStep ==
  ASSUME IInv, NEW w \in Worker, pc[w] # "idle", NEW code \in {200, 400, 500},
         Answer(w, code), UNCHANGED <<ledger, applied>>,
         code = 200 => task[w] \in ledger
  PROVE  IInv'
<1>. USE DEF IInv
<1>1. task[w] \in Message
  BY DEF Stage
<1>2. TypeOK'
  BY <1>1 DEF TypeOK, Answer, Place
<1>3. Others(w) /\ pc'[w] = "idle" /\ writes'[w] = FALSE
  BY DEF TypeOK, Answer, Others
<1>4. LedgerIsTheEffects'
  BY <1>1 DEF TypeOK, Answer, LedgerIsTheEffects
<1>5. Stage(w)'
  BY <1>3 DEF Stage
<1>. QED
  BY <1>2, <1>3, <1>4, <1>5, WorkerStep

(* A delivery that goes on, with a write of the entry or without.          *)
LEMMA GotoStep ==
  ASSUME IInv, NEW w \in Worker, NEW place, place \in Place, Goto(w, place),
         place # "idle", pc[w] # "idle",
         writes' \in [Worker -> BOOLEAN],
         \A v \in Worker \ {w} : writes'[v] = writes[v],
         writes'[w] <=> place \in {"effect", "commit"},
         writes'[w] =>
           /\ task[w] \notin ledger
           /\ writes[w] \/ \A v \in Worker \ {w} : ~ (task[v] = task[w] /\ writes[v]),
         place = "respond" => task[w] \in ledger
  PROVE  IInv'
<1>. USE DEF IInv
<1>1. TypeOK'
  BY DEF TypeOK, Goto, broker, db
<1>2. Others(w) /\ pc'[w] = place /\ task' = task /\ ledger' = ledger
  BY DEF TypeOK, Goto, Others, db
<1>3. LedgerIsTheEffects'
  BY DEF Goto, LedgerIsTheEffects, broker, db
<1>4. Stage(w)'
  BY <1>2 DEF Stage
<1>5. writes'[w] => \A v \in Worker \ {w} : writes[v] => task[v] # task'[w]
  BY <1>2 DEF Apart
<1>. QED
  BY <1>1, <1>2, <1>3, <1>4, <1>5, WorkerStep

(* Steps that no delivery takes: they leave the ledger and the endpoints   *)
(* alone and acknowledge nothing.                                          *)
LEMMA OutsideStep ==
  ASSUME IInv, TypeOK', UNCHANGED <<ledger, applied, pc, task, writes>>,
         \A m \in Message : state'[m] = "acked" => state[m] = "acked"
  PROVE  IInv'
  BY DEF IInv, Stage, Apart, LedgerIsTheEffects

----------------------------------------------------------------------------
(* One lemma for each action.                                              *)

(* Nothing has been published or served.                                   *)
LEMMA InitIInv == Init => IInv
<1>. SUFFICES ASSUME Init PROVE IInv
  OBVIOUS
<1>1. TypeOK
  <2>1. None \in AnyFault /\ 0 \in 0 .. MaxDeliveries
    BY NoFault, PushAssumption
  <2>2. topic \in [Message -> Topic]
    BY DEF Init
  <2>. QED
    BY <2>1, <2>2 DEF Init, TypeOK, Place
<1>. QED
  BY <1>1 DEF Init, IInv, Stage, Apart, LedgerIsTheEffects

(* A message is published, with a fault or without.                        *)
LEMMA PublishStep ==
  ASSUME IInv, NEW m \in Message, Publish(m)
  PROVE  IInv'
<1>1. topic[m] \in Topic
  BY DEF IInv, TypeOK
<1>2. fault' \in [Message -> AnyFault]
  <2>1. PICK f \in Fault(topic[m]) \cup {None} : fault' = [fault EXCEPT ![m] = f]
    BY DEF Publish
  <2>2. f \in AnyFault
    BY <1>1, NoFault, FaultsOfTopics
  <2>. QED
    BY <2>1, <2>2 DEF IInv, TypeOK
<1>3. TypeOK'
  BY <1>2 DEF IInv, TypeOK, Publish, db
<1>. QED
  BY <1>3, OutsideStep DEF Publish, IInv, TypeOK, db

(* A dead letter is parked; nothing is acknowledged.                       *)
LEMMA DeadLetterStep ==
  ASSUME IInv, NEW m \in Message, DeadLetter(m)
  PROVE  IInv'
<1>1. TypeOK'
  BY DEF IInv, TypeOK, DeadLetter, db
<1>. QED
  BY <1>1, OutsideStep DEF DeadLetter, IInv, TypeOK, db

(* A replay makes the message new to Pub/Sub, not to the ledger.           *)
LEMMA ReplayStep ==
  ASSUME IInv, NEW m \in Message, Replay(m)
  PROVE  IInv'
<1>1. TypeOK'
  <2>1. None \in AnyFault /\ 0 \in 0 .. MaxDeliveries
    BY NoFault, PushAssumption
  <2>. QED
    BY <2>1 DEF IInv, TypeOK, Replay, db
<1>. QED
  BY <1>1, OutsideStep DEF Replay, IInv, TypeOK, db

(* The player appears.                                                     *)
LEMMA RegisterStep ==
  ASSUME IInv, Register
  PROVE  IInv'
<1>1. TypeOK'
  BY DEF IInv, TypeOK, Register, broker
<1>. QED
  BY <1>1, OutsideStep DEF Register, broker

(* A delivery starts with nothing written.                                 *)
LEMMA DeliverStep ==
  ASSUME IInv, NEW w \in Worker, NEW m \in Message, Deliver(w, m)
  PROVE  IInv'
<1>. USE DEF IInv
<1>1. TypeOK'
  <2>1. deliveries[m] + 1 \in 0 .. MaxDeliveries
    BY PushAssumption DEF TypeOK, Deliver
  <2>. QED
    BY <2>1 DEF TypeOK, Deliver, Place, db
<1>2. /\ Others(w) /\ pc'[w] = "decode" /\ task'[w] = m /\ writes' = writes
      /\ ledger' = ledger
  BY DEF TypeOK, Deliver, Others, db
<1>3. ~ writes[w]
  BY DEF Stage, Deliver
<1>4. LedgerIsTheEffects'
  BY DEF Deliver, LedgerIsTheEffects, db
<1>5. Stage(w)'
  BY <1>2, <1>3 DEF Stage
<1>. QED
  BY <1>1, <1>2, <1>3, <1>4, <1>5, WorkerStep

(* The envelope is decoded or refused with 400.                            *)
LEMMA DecodeStep ==
  ASSUME IInv, NEW w \in Worker, Decode(w)
  PROVE  IInv'
<1>1. pc[w] = "decode" /\ ~ writes[w]
  BY DEF Decode, At, IInv, Stage
<1>2. CASE Answer(w, 400) /\ UNCHANGED <<ledger, applied>>
  BY <1>1, <1>2, AnswerStep
<1>3. CASE Goto(w, "check") /\ UNCHANGED writes
  <2>1. writes' = writes /\ writes \in [Worker -> BOOLEAN]
    BY <1>3 DEF IInv, TypeOK
  <2>. QED
    BY <1>1, <1>3, <2>1, GotoStep DEF Place
<1>. QED
  BY <1>2, <1>3 DEF Decode

(* The event is checked before the transaction is opened.                  *)
LEMMA CheckStep ==
  ASSUME IInv, NEW w \in Worker, Check(w)
  PROVE  IInv'
<1>1. pc[w] = "check" /\ ~ writes[w]
  BY DEF Check, At, IInv, Stage
<1>2. CASE Answer(w, 500) /\ UNCHANGED <<ledger, applied>>
  BY <1>1, <1>2, AnswerStep
<1>3. CASE Goto(w, "insert") /\ UNCHANGED writes
  <2>1. writes' = writes /\ writes \in [Worker -> BOOLEAN]
    BY <1>3 DEF IInv, TypeOK
  <2>. QED
    BY <1>1, <1>3, <2>1, GotoStep DEF Place
<1>. QED
  BY <1>2, <1>3 DEF Check

(* The entry is written when nobody else has it, committed or not.         *)
LEMMA InsertLedgerStep ==
  ASSUME IInv, NEW w \in Worker, InsertLedger(w)
  PROVE  IInv'
<1>1. /\ pc[w] = "insert" /\ ~ writes[w]
      /\ \A v \in Worker \ {w} : ~ (task[v] = task[w] /\ writes[v])
  BY DEF InsertLedger, At, IInv, Stage
<1>2. CASE Answer(w, 500) /\ UNCHANGED <<ledger, applied>>
  BY <1>1, <1>2, AnswerStep
<1>3. CASE task[w] \in ledger /\ Goto(w, "respond") /\ UNCHANGED writes
  <2>1. writes' = writes /\ writes \in [Worker -> BOOLEAN]
    BY <1>3 DEF IInv, TypeOK
  <2>. QED
    BY <1>1, <1>3, <2>1, GotoStep DEF Place
<1>4. CASE /\ task[w] \notin ledger /\ Goto(w, "effect")
           /\ writes' = [writes EXCEPT ![w] = TRUE]
  <2>1. /\ writes' \in [Worker -> BOOLEAN] /\ writes'[w] = TRUE
        /\ \A v \in Worker \ {w} : writes'[v] = writes[v]
    BY <1>4 DEF IInv, TypeOK
  <2>. QED
    BY <1>1, <1>4, <2>1, GotoStep DEF Place
<1>. QED
  BY <1>2, <1>3, <1>4 DEF InsertLedger

(* The effect is refused, and its entry rolled back, or it is ready to     *)
(* commit.                                                                 *)
LEMMA EffectStep ==
  ASSUME IInv, NEW w \in Worker, Effect(w)
  PROVE  IInv'
<1>1. pc[w] = "effect" /\ writes[w] = TRUE /\ task[w] \notin ledger
  BY DEF Effect, At, IInv, TypeOK, Stage
<1>2. CASE Answer(w, 500) /\ UNCHANGED <<ledger, applied>>
  BY <1>1, <1>2, AnswerStep
<1>3. CASE Goto(w, "commit") /\ UNCHANGED writes
  <2>1. writes' = writes /\ writes \in [Worker -> BOOLEAN]
    BY <1>3 DEF IInv, TypeOK
  <2>. QED
    BY <1>1, <1>3, <2>1, GotoStep DEF Place
<1>. QED
  BY <1>2, <1>3 DEF Effect

(* The entry and the effect appear together, for a message that had        *)
(* neither.                                                                *)
LEMMA CommitStep ==
  ASSUME IInv, NEW w \in Worker, Commit(w)
  PROVE  IInv'
<1>. USE DEF IInv
<1>1. writes[w] /\ task[w] \notin ledger /\ task[w] \in Message /\ pc[w] = "commit"
  BY DEF Commit, At, Stage
<1>2. /\ Others(w) /\ pc'[w] = "respond" /\ writes'[w] = FALSE /\ task' = task
      /\ ledger' = ledger \cup {task[w]} /\ state' = state
      /\ applied' = [applied EXCEPT ![task[w]] = @ + 1]
  BY DEF Commit, TypeOK, Others, broker
<1>3. TypeOK'
  BY <1>1, <1>2 DEF TypeOK, Commit, Place, broker
<1>4. ASSUME NEW m \in Message
      PROVE  /\ applied'[m] = IF m \in ledger' THEN 1 ELSE 0
             /\ state'[m] = "acked" => m \in ledger'
  <2>1. /\ applied[m] = IF m \in ledger THEN 1 ELSE 0
        /\ state[m] = "acked" => m \in ledger
    BY DEF LedgerIsTheEffects
  <2>2. CASE m = task[w]
    BY <1>1, <1>2, <2>1, <2>2 DEF TypeOK
  <2>3. CASE m # task[w]
    BY <1>2, <2>1, <2>3 DEF TypeOK
  <2>. QED
    BY <2>2, <2>3
<1>5. LedgerIsTheEffects'
  BY <1>4 DEF LedgerIsTheEffects
<1>6. Stage(w)'
  BY <1>1, <1>2 DEF Stage
<1>. QED
  BY <1>1, <1>2, <1>3, <1>5, <1>6, WorkerStep

(* The success is answered.                                                *)
LEMMA RespondStep ==
  ASSUME IInv, NEW w \in Worker, Respond(w)
  PROVE  IInv'
<1>1. pc[w] = "respond" /\ task[w] \in ledger
  BY DEF Respond, At, IInv, Stage
<1>. QED
  BY <1>1, AnswerStep DEF Respond

(* A failure at any place answers no success.                              *)
LEMMA FailStep ==
  ASSUME IInv, NEW w \in Worker, Fail(w)
  PROVE  IInv'
  BY AnswerStep DEF Fail

(* Every step keeps the invariant.                                         *)
LEMMA NextStep == IInv /\ [Next]_vars => IInv'
<1>. SUFFICES ASSUME IInv, [Next]_vars PROVE IInv'
  OBVIOUS
<1>1. CASE UNCHANGED vars
  BY <1>1 DEF IInv, TypeOK, Stage, Apart, LedgerIsTheEffects, vars
<1>2. ASSUME NEW w \in Worker, Serve(w) PROVE IInv'
  BY <1>2, DecodeStep, CheckStep, InsertLedgerStep, EffectStep, CommitStep, RespondStep
     DEF Serve
<1>. QED
  BY <1>1, <1>2, FailStep, RegisterStep, PublishStep, DeadLetterStep, ReplayStep, DeliverStep
     DEF Next

----------------------------------------------------------------------------
(* The theorems.                                                           *)

(* What a delivery knows at each place holds in every reachable state.     *)
THEOREM Invariance == Spec => []IInv
  BY InitIInv, NextStep, PTL DEF Spec

(* Every variable keeps its type; no message is delivered more often than  *)
(* the limit of its topic allows.                                          *)
THEOREM TypeCorrect == Spec => []TypeOK
<1>1. IInv => TypeOK
  BY DEF IInv
<1>. QED
  BY <1>1, Invariance, PTL

(* The ledger holds exactly the messages whose effect was committed, each  *)
(* once, and a 200 is answered for these only: however deliveries overlap, *)
(* repeat or fail, and whatever is wrong with a message                    *)
(* (EventHandler.Handle, HandleMessage, RunInTx).                          *)
THEOREM LedgerIsExact == Spec => []LedgerIsTheEffects
<1>1. IInv => LedgerIsTheEffects
  BY DEF IInv
<1>. QED
  BY <1>1, Invariance, PTL
=============================================================================
