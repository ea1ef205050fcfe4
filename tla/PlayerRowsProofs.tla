-------------------------- MODULE PlayerRowsProofs --------------------------
(***************************************************************************)
(* Proofs about module PlayerRows, for every set of workers, events and    *)
(* requests.                                                               *)
(***************************************************************************)
EXTENDS PlayerRowsInvariant, TLAPS

----------------------------------------------------------------------------
(* Writes, tables and sequences of writes.                                 *)

Write == Event \cup Put

(* A table is one of two, and has all the columns that a write names.      *)
LEMMA Tables ==
  ASSUME NEW x \in Op
  PROVE  /\ TableOf(x) \in {Players, Settings}
         /\ Names[x] \subseteq TableOf(x)
         /\ TableOf(x) \subseteq Column /\ TableOf(x) # {}
<1>1. Names[x] \in (SUBSET Players) \cup (SUBSET Settings)
  BY RowAssumption
<1>2. Players \cap Settings = {} /\ Players # {} /\ Settings # {}
  BY DEF Players, Settings
<1>. QED
  BY <1>1, <1>2 DEF TableOf, Column

(* A version has columns, so it is not the empty one.                      *)
LEMMA VersionType ==
  ASSUME TypeOK, NEW x \in Write
  PROVE  Written(x) \in Versions /\ Written(x) # NoVersion /\ DOMAIN Written(x) = TableOf(x)
<1>1. x \in Op
  BY DEF Write, Op, Request
<1>2. DOMAIN Written(x) = TableOf(x)
  BY DEF Written
<1>3. ASSUME NEW c \in TableOf(x) PROVE Written(x)[c] \in Event \cup Put \cup {Initial}
  <2>1. c \in Column
    BY <1>1, Tables
  <2>. QED
    BY <2>1 DEF Written, TypeOK, Rows, Write
<1>4. Written(x) \in Rows(TableOf(x))
  BY <1>2, <1>3 DEF Written, Rows
<1>5. TableOf(x) = Players \/ TableOf(x) = Settings
  BY <1>1, Tables
<1>6. Written(x) \in Versions
  BY <1>4, <1>5 DEF Versions
<1>7. DOMAIN NoVersion = {}
  BY DEF NoVersion
<1>. QED
  BY <1>1, <1>2, <1>6, <1>7, Tables

(* A sequence that is extended has one more member.                        *)
LEMMA ToSetAppend ==
  ASSUME NEW S, NEW s \in Seq(S), NEW x \in S
  PROVE  ToSet(Append(s, x)) = ToSet(s) \cup {x}
<1>. DEFINE t == Append(s, x)
<1>1. t \in Seq(S) /\ Len(t) = Len(s) + 1 /\ t[Len(s) + 1] = x
      /\ \A i \in 1 .. Len(s) : t[i] = s[i]
  OBVIOUS
<1>2. DOMAIN t = 1 .. Len(s) + 1 /\ DOMAIN s = 1 .. Len(s) /\ Len(s) \in Nat
  BY <1>1
<1>. HIDE DEF t
<1>3. ToSet(t) = ToSet(s) \cup {x}
  BY <1>1, <1>2 DEF ToSet
<1>. QED
  BY <1>3 DEF t

(* What the first k writes leave does not depend on the later ones.        *)
LEMMA AfterPrefix ==
  ASSUME NEW s \in Seq(Write), NEW x \in Write, NEW k \in 0 .. Len(s)
  PROVE  After(Append(s, x), k) = After(s, k)
<1>. DEFINE t == Append(s, x)
<1>1. \A i \in 1 .. k : t[i] = s[i]
  OBVIOUS
<1>. HIDE DEF t
<1>2. ASSUME NEW c \in Column PROVE LastNaming(t, k, c) = LastNaming(s, k, c)
  BY <1>1 DEF LastNaming
<1>3. After(t, k) = After(s, k)
  BY <1>2 DEF After
<1>. QED
  BY <1>3 DEF t

(* One more write changes the columns it names and no other.               *)
LEMMA AfterAppend ==
  ASSUME NEW s \in Seq(Write), NEW x \in Write
  PROVE  After(Append(s, x), Len(s) + 1)
           = [c \in Column |-> IF c \in Names[x] THEN x ELSE After(s, Len(s))[c]]
<1>. DEFINE t == Append(s, x)
            n == Len(s)
<1>1. n \in Nat /\ t[n + 1] = x /\ \A i \in 1 .. n : t[i] = s[i]
  OBVIOUS
<1>. HIDE DEF t, n
<1>2. ASSUME NEW c \in Column, c \in Names[x]
      PROVE  Pick(LastNaming(t, n + 1, c)) = x
  <2>1. LastNaming(t, n + 1, c) = {x}
    BY <1>1, <1>2 DEF LastNaming
  <2>. QED
    BY <2>1 DEF Pick
<1>3. ASSUME NEW c \in Column, c \notin Names[x]
      PROVE  LastNaming(t, n + 1, c) = LastNaming(s, n, c)
  <2>. DEFINE I(q, k) == {j \in 1 .. k : /\ c \in Names[q[j]]
                                         /\ \A l \in (j + 1) .. k : c \notin Names[q[l]]}
  <2>1. I(t, n + 1) = I(s, n)
    BY <1>1, <1>3
  <2>2. \A i \in I(s, n) : t[i] = s[i]
    BY <1>1
  <2>3. LastNaming(t, n + 1, c) = {t[i] : i \in I(t, n + 1)} /\ LastNaming(s, n, c) = {s[i] : i \in I(s, n)}
    BY DEF LastNaming
  <2>. HIDE DEF I
  <2>. QED
    BY <2>1, <2>2, <2>3
<1>4. After(t, n + 1) = [c \in Column |-> IF c \in Names[x] THEN x ELSE After(s, n)[c]]
  BY <1>2, <1>3 DEF After
<1>. QED
  BY <1>4 DEF t, n
----------------------------------------------------------------------------
(* Steps that commit nothing.                                              *)

(* The other workers keep what they are doing.                             *)
Others(w) ==
  \A v \in Worker \ {w} :
    pc'[v] = pc[v] /\ task'[v] = task[v] /\ marked'[v] = marked[v] /\ version'[v] = version[v]

LEMMA StageKept ==
  ASSUME NEW v \in Worker, Stage(v), UNCHANGED store,
         pc'[v] = pc[v], task'[v] = task[v], marked'[v] = marked[v], version'[v] = version[v]
  PROVE  Stage(v)'
  BY DEF Stage, store, Updated, Committed, Written

(* A step of one worker keeps the invariant when it takes no event, row or *)
(* request of another.                                                     *)
LEMMA WorkerStep ==
  ASSUME IInv, TypeOK', NEW w \in Worker, Others(w), UNCHANGED store, Stage(w)',
         SentOnce', AnswersAreTrue',
         \A v \in Worker \ {w} :
           /\ marked[v] /\ marked'[w] => task[v] # task'[w]
           /\ Updated(v) /\ Updated(w)' => TableOf(task[v]) # TableOf(task'[w])
           /\ task'[w] \in Request => task[v] # task'[w]
  PROVE  IInv'
<1>1. ASSUME NEW v \in Worker PROVE Stage(v)'
  <2>1. CASE v = w
    BY <2>1
  <2>2. CASE v # w
    BY <2>2, StageKept DEF IInv, Others
  <2>. QED
    BY <2>1, <2>2
<1>2. ASSUME NEW u \in Worker, NEW v \in Worker PROVE Apart(u, v)'
  <2>1. CASE u = v
    BY <2>1 DEF Apart
  <2>2. CASE u # v /\ u # w /\ v # w
    <3>1. Apart(u, v)
      BY DEF IInv
    <3>. QED
      BY <2>2, <3>1 DEF Apart, Others, Updated
  <2>3. CASE u # v /\ u = w
    BY <2>3 DEF Apart, Others, Updated
  <2>4. CASE u # v /\ v = w
    BY <2>4 DEF Apart, Others, Updated
  <2>. QED
    BY <2>1, <2>2, <2>3, <2>4
<1>3. LastWriterPerColumn'
  BY DEF IInv, LastWriterPerColumn, store
<1>. QED
  BY <1>1, <1>2, <1>3 DEF IInv

(* A request or a delivery ends without a commit, with a true answer.      *)
LEMMA FinishStep ==
  ASSUME IInv, NEW w \in Worker, pc[w] # "idle", Finish(w), UNCHANGED store,
         NEW a \in Answers, Reply(w, a), task[w] \in Request => IsTrue(task[w], a)
  PROVE  IInv'
<1>. USE DEF IInv
<1>1. /\ pc'[w] = "idle" /\ task'[w] = Initial /\ ~ marked'[w] /\ version'[w] = NoVersion
      /\ Others(w) /\ made' = made
  BY DEF Finish, Goto, TypeOK, Others
<1>2. answer' \in [Request -> Answers]
  BY DEF Reply, TypeOK
<1>3. TypeOK'
  BY <1>2 DEF TypeOK, Finish, Goto, store
<1>4. Initial \notin Op
  BY RowAssumption
<1>5. Stage(w)'
  BY <1>1, <1>4 DEF Stage, Updated, Op, Request
<1>6. ASSUME NEW x \in Request, answer'[x] # answer[x]
      PROVE  x = task[w] /\ answer'[x] = a
  BY <1>6 DEF Reply, TypeOK
<1>7. SentOnce'
  <2>1. ASSUME NEW v \in Worker, task'[v] \in Request
        PROVE  Made(task[v])' /\ answer'[task'[v]] = Unanswered
    <3>1. v # w /\ task'[v] = task[v]
      BY <1>1, <1>4, <2>1 DEF Others, Op
    <3>2. task[v] # task[w]
      BY <2>1, <3>1 DEF Apart
    <3>3. answer'[task[v]] = answer[task[v]]
      BY <1>6, <2>1, <3>1, <3>2
    <3>. QED
      BY <1>1, <2>1, <3>1, <3>3 DEF SentOnce, Made
  <2>2. ASSUME NEW x \in Request, ~ Made(x)'
        PROVE  answer'[x] = Unanswered /\ ~ Committed(x)'
    <3>1. ~ Made(x)
      BY <1>1, <2>2 DEF Made
    <3>2. x # task[w]
      BY <3>1 DEF SentOnce
    <3>. QED
      BY <1>6, <3>1, <3>2 DEF SentOnce, Committed, store
  <2>. QED
    BY <2>1, <2>2 DEF SentOnce, store
<1>8. ASSUME NEW x \in Request PROVE IsTrue(x, answer[x])'
  <2>1. committed' = committed
    BY DEF store
  <2>2. CASE answer'[x] = answer[x]
    <3>1. IsTrue(x, answer[x])
      BY DEF AnswersAreTrue
    <3>. QED
      BY <2>1, <2>2, <3>1 DEF IsTrue, Committed
  <2>3. CASE answer'[x] # answer[x]
    <3>1. x = task[w] /\ answer'[x] = a
      BY <1>6, <2>3
    <3>2. IsTrue(x, a)
      BY <3>1
    <3>. QED
      BY <2>1, <3>1, <3>2 DEF IsTrue, Committed
  <2>. QED
    BY <2>2, <2>3
<1>9. AnswersAreTrue'
  BY <1>8 DEF AnswersAreTrue
<1>10. Updated(w)' = FALSE /\ task'[w] \notin Request
  BY <1>1, <1>4 DEF Updated, Op
<1>. QED
  BY <1>1, <1>3, <1>5, <1>7, <1>9, <1>10, WorkerStep
(* The answers stay true, whatever else a step does.                       *)
LEMMA AnswersKept ==
  ASSUME AnswersAreTrue, UNCHANGED <<answer, committed>>
  PROVE  AnswersAreTrue'
  BY DEF AnswersAreTrue, IsTrue, Committed

(* What is made stays made.                                                *)
LEMMA MakeStep ==
  ASSUME TypeOK, NEW x \in Op, Make(x)
  PROVE  made' \in Seq(Op) /\ \A y : Made(y)' <=> Made(y) \/ y = x
<1>1. made \in Seq(Op) /\ made' = Append(made, x)
  BY DEF TypeOK, Make
<1>2. ToSet(made') = ToSet(made) \cup {x}
  BY <1>1, ToSetAppend
<1>. QED
  BY <1>1, <1>2 DEF Made

LEMMA RegisterStep ==
  ASSUME IInv, Register
  PROVE  IInv'
<1>. USE DEF IInv, Register
<1>1. TypeOK'
  BY DEF TypeOK
<1>2. ASSUME NEW w \in Worker PROVE Stage(w)'
  BY DEF Stage, Updated, Committed, Written
<1>3. ASSUME NEW v \in Worker, NEW w \in Worker PROVE Apart(v, w)'
  BY DEF Apart, Updated
<1>4. SentOnce' /\ LastWriterPerColumn'
  BY DEF SentOnce, Made, Committed, LastWriterPerColumn
<1>. QED
  BY <1>1, <1>2, <1>3, <1>4, AnswersKept

LEMMA PublishStep ==
  ASSUME IInv, NEW e \in Event, Publish(e)
  PROVE  IInv'
<1>. USE DEF IInv, Publish
<1>1. e \in Op /\ e \notin Request
  BY RowAssumption DEF Op
<1>2. made' \in Seq(Op) /\ \A y : Made(y)' <=> Made(y) \/ y = e
  BY <1>1, MakeStep
<1>3. TypeOK'
  BY <1>2 DEF TypeOK, store
<1>4. ASSUME NEW w \in Worker PROVE Stage(w)'
  BY StageKept
<1>5. ASSUME NEW v \in Worker, NEW w \in Worker PROVE Apart(v, w)'
  BY DEF Apart, Updated
<1>6. SentOnce'
  BY <1>1, <1>2 DEF SentOnce, Committed, store
<1>7. LastWriterPerColumn' /\ AnswersAreTrue'
  BY AnswersKept DEF LastWriterPerColumn, store
<1>. QED
  BY <1>3, <1>4, <1>5, <1>6, <1>7

(* A worker takes an event, or a request that no other serves.             *)
LEMMA BeginStep ==
  ASSUME IInv, NEW w \in Worker, NEW x \in Op, NEW q \in {"ledger", "update", "view"},
         Begin(w, x, q), UNCHANGED answer, made' \in Seq(Op), SentOnce',
         q = "ledger" => x \in Event,
         q = "update" => x \in Put /\ ~ Committed(x),
         q = "view" => x \in Get,
         x \in Request => \A v \in Worker : task[v] # x
  PROVE  IInv'
<1>. USE DEF IInv
<1>1. pc[w] = "idle" /\ pc'[w] = q /\ task'[w] = x /\ Others(w) /\ marked' = marked
      /\ version' = version /\ UNCHANGED store
  BY DEF Begin, At, Goto, TypeOK, Others
<1>2. TypeOK'
  BY DEF TypeOK, Begin, Goto, store
<1>3. ~ marked[w] /\ ~ Updated(w)
  <2>1. Stage(w) /\ marked[w] \in BOOLEAN
    BY DEF TypeOK
  <2>2. task[w] = Initial /\ Initial \notin Event
    BY <1>1, <2>1, RowAssumption DEF Stage, Op
  <2>. QED
    BY <1>1, <2>1, <2>2 DEF Stage
<1>4. Event \cap Request = {} /\ Put \cap Get = {}
  BY RowAssumption
<1>5. Stage(w)'
  BY <1>1, <1>3, <1>4 DEF Stage, Updated, Committed, Request, store
<1>6. AnswersAreTrue'
  BY AnswersKept DEF store, Begin
<1>7. ~ marked'[w] /\ ~ Updated(w)'
  BY <1>1, <1>3 DEF Updated
<1>. QED
  BY <1>1, <1>2, <1>5, <1>6, <1>7, WorkerStep

LEMMA DeliverStep ==
  ASSUME IInv, NEW w \in Worker, NEW e \in Event, Deliver(w, e)
  PROVE  IInv'
<1>. USE DEF IInv
<1>1. e \in Op /\ e \notin Request
  BY RowAssumption DEF Op
<1>2. Begin(w, e, "ledger") /\ UNCHANGED <<answer, made>>
  BY DEF Deliver
<1>3. ASSUME NEW v \in Worker, task'[v] \in Request PROVE task'[v] = task[v]
  BY <1>1, <1>2, <1>3 DEF Begin, TypeOK
<1>4. SentOnce'
  BY <1>2, <1>3 DEF SentOnce, Made, Committed, Begin, store
<1>5. made' \in Seq(Op)
  BY <1>2 DEF TypeOK
<1>. QED
  BY <1>1, <1>2, <1>4, <1>5, BeginStep

LEMMA SendStep ==
  ASSUME IInv, NEW w \in Worker, NEW x \in Request, Send(w, x)
  PROVE  IInv'
<1>. USE DEF IInv
<1>1. x \in Op
  BY DEF Op
<1>2. made' \in Seq(Op) /\ \A y : Made(y)' <=> Made(y) \/ y = x
  BY <1>1, MakeStep DEF Send
<1>3. ~ Made(x) /\ answer[x] = Unanswered /\ ~ Committed(x)
  BY DEF Send, Make, SentOnce
<1>4. ASSUME NEW v \in Worker PROVE task[v] # x
  BY <1>3 DEF SentOnce
<1>5. ASSUME NEW q \in {"update", "view"}, Begin(w, x, q), UNCHANGED answer
      PROVE  SentOnce'
  <2>1. ASSUME NEW v \in Worker PROVE task'[v] = task[v] \/ task'[v] = x
    BY <1>5 DEF Begin, TypeOK
  <2>. QED
    BY <1>2, <1>3, <1>5, <2>1 DEF SentOnce, Committed, Begin, store
<1>6. CASE x \in Put /\ Begin(w, x, "update") /\ UNCHANGED answer
  BY <1>1, <1>2, <1>3, <1>4, <1>5, <1>6, BeginStep
<1>7. CASE x \in Get /\ Begin(w, x, "view") /\ UNCHANGED answer
  BY <1>1, <1>2, <1>3, <1>4, <1>5, <1>7, BeginStep
<1>8. CASE /\ answer' = [answer EXCEPT ![x] = [code |-> "badRequest"]]
           /\ UNCHANGED <<ordered, store, pc, task, marked, version>>
  <2>1. TypeOK'
    BY <1>2, <1>8 DEF TypeOK, Answers, store
  <2>2. ASSUME NEW v \in Worker PROVE Stage(v)'
    BY <1>8, StageKept
  <2>3. ASSUME NEW u \in Worker, NEW v \in Worker PROVE Apart(u, v)'
    BY <1>8 DEF Apart, Updated
  <2>4. SentOnce'
    BY <1>2, <1>4, <1>8 DEF SentOnce, Committed, store, TypeOK
  <2>5. LastWriterPerColumn'
    BY <1>8 DEF LastWriterPerColumn, store
  <2>6. ASSUME NEW y \in Request PROVE IsTrue(y, answer[y])'
    <3>1. CASE y = x
      BY <1>3, <1>8, <3>1 DEF IsTrue, Committed, store, TypeOK
    <3>2. CASE y # x
      BY <1>8, <3>2 DEF AnswersAreTrue, IsTrue, Committed, store, TypeOK
    <3>. QED
      BY <3>1, <3>2
  <2>. QED
    BY <2>1, <2>2, <2>3, <2>4, <2>5, <2>6 DEF AnswersAreTrue
<1>. QED
  BY <1>6, <1>7, <1>8 DEF Send
----------------------------------------------------------------------------
(* The statements.                                                         *)

LEMMA InsertLedgerStep ==
  ASSUME IInv, NEW w \in Worker, InsertLedger(w)
  PROVE  IInv'
<1>. USE DEF IInv
<1>1. pc[w] = "ledger" /\ task[w] \in Event /\ ~ Updated(w) /\ ~ marked[w]
      /\ UNCHANGED <<store, task, version, answer, made>>
  BY DEF InsertLedger, At, Stage, TypeOK
<1>2. task[w] \notin Request /\ task[w] \notin Put /\ Event \cap Put = {}
  BY <1>1, RowAssumption DEF Request
<1>3. SentOnce'
  BY <1>1 DEF SentOnce, Made, Committed, store
<1>4. AnswersAreTrue'
  BY <1>1, AnswersKept DEF store
<1>5. CASE task[w] \in processed /\ Goto(w, "commit") /\ UNCHANGED marked
  <2>1. pc'[w] = "commit" /\ Others(w) /\ marked'[w] = FALSE
    BY <1>1, <1>5 DEF Goto, TypeOK, Others
  <2>2. TypeOK'
    BY <1>1, <1>5 DEF TypeOK, Goto, InsertLedger, store
  <2>3. Stage(w)' /\ ~ Updated(w)'
    BY <1>1, <1>2, <2>1 DEF Stage, Updated
  <2>. QED
    BY <1>1, <1>2, <1>3, <1>4, <2>1, <2>2, <2>3, WorkerStep
<1>6. CASE /\ task[w] \notin processed
           /\ Goto(w, "update") /\ marked' = [marked EXCEPT ![w] = TRUE]
  <2>1. pc'[w] = "update" /\ Others(w) /\ marked'[w] = TRUE
    BY <1>1, <1>6 DEF Goto, TypeOK, Others
  <2>2. TypeOK'
    BY <1>1, <1>6 DEF TypeOK, Goto, InsertLedger, store
  <2>3. Stage(w)' /\ ~ Updated(w)'
    BY <1>1, <1>2, <1>6, <2>1 DEF Stage, Updated, store
  <2>4. ASSUME NEW v \in Worker, marked[v] PROVE task[v] # task[w]
    BY <2>4 DEF InsertLedger, Markers
  <2>. QED
    BY <1>1, <1>2, <1>3, <1>4, <2>1, <2>2, <2>3, <2>4, WorkerStep
<1>. QED
  BY <1>5, <1>6 DEF InsertLedger

LEMMA UpdateRowStep ==
  ASSUME IInv, NEW w \in Worker, UpdateRow(w)
  PROVE  IInv'
<1>. USE DEF IInv
<1>1. pc[w] = "update" /\ task[w] \in Write /\ ~ Updated(w)
      /\ (task[w] \in Put => ~ Committed(task[w]))
  BY DEF UpdateRow, At, Stage, Write
<1>2. CASE Fail(w, "notFound")
  <2>. DEFINE a == [code |-> "notFound"]
  <2>1. a \in Answers /\ a.code = "notFound"
    BY DEF Answers
  <2>2. task[w] \in Request => task[w] \in Put
    BY <1>1, RowAssumption DEF Write, Request
  <2>3. task[w] \in Request => IsTrue(task[w], a)
    BY <1>1, <2>1, <2>2 DEF IsTrue
  <2>4. Finish(w) /\ Reply(w, a) /\ UNCHANGED store
    BY <1>2 DEF Fail
  <2>. HIDE DEF a
  <2>. QED
    BY <1>1, <2>1, <2>3, <2>4, FinishStep
<1>3. CASE /\ registered
           /\ Goto(w, "commit")
           /\ version' = [version EXCEPT ![w] = Written(task[w])]
           /\ UNCHANGED <<ordered, store, task, marked, answer, made>>
  <2>1. pc'[w] = "commit" /\ version'[w] = Written(task[w]) /\ Others(w)
    BY <1>3 DEF Goto, TypeOK, Others
  <2>2. Written(task[w]) \in Versions /\ Written(task[w]) # NoVersion
    BY <1>1, VersionType
  <2>3. TypeOK'
    BY <1>3, <2>2 DEF TypeOK, Goto, store
  <2>4. Written(task[w])' = Written(task[w]) /\ Updated(w)'
    BY <1>3, <2>1, <2>2 DEF Written, Updated, store
  <2>5. Stage(w)'
    BY <1>1, <1>3, <2>1, <2>4 DEF Stage, Updated, Committed, Write, store
  <2>6. ASSUME NEW v \in Worker, Updated(v) PROVE TableOf(task[v]) # TableOf(task[w])
    <3>1. version[v] = Written(task[v]) /\ DOMAIN version[v] = TableOf(task[v])
      BY <2>6 DEF Stage, Written
    <3>. QED
      BY <3>1 DEF UpdateRow, Holders
  <2>7. ASSUME NEW v \in Worker \ {w}
        PROVE  /\ marked[v] /\ marked[w] => task[v] # task[w]
               /\ task[w] \in Request => task[v] # task[w]
    BY DEF Apart
  <2>8. SentOnce'
    BY <1>3 DEF SentOnce, Made, Committed, store
  <2>9. AnswersAreTrue'
    BY <1>3, AnswersKept DEF store
  <2>. QED
    BY <1>3, <2>1, <2>3, <2>5, <2>6, <2>7, <2>8, <2>9, WorkerStep
<1>. QED
  BY <1>2, <1>3 DEF UpdateRow

LEMMA ReadViewStep ==
  ASSUME IInv, NEW w \in Worker, ReadView(w)
  PROVE  IInv'
<1>. USE DEF IInv
<1>. DEFINE x == task[w]
<1>1. pc[w] = "view" /\ x \in Request /\ (x \in Put => Committed(x))
  BY DEF ReadView, At, Stage
<1>2. CASE ~ registered /\ Fail(w, "notFound")
  <2>. DEFINE a == [code |-> "notFound"]
  <2>1. a \in Answers /\ a.code = "notFound"
    BY DEF Answers
  <2>2. ~ Committed(x)
    BY <1>2 DEF SentOnce, Committed, ToSet
  <2>3. IsTrue(x, a)
    BY <2>1, <2>2 DEF IsTrue
  <2>4. Finish(w) /\ Reply(w, a) /\ UNCHANGED store
    BY <1>2 DEF Fail
  <2>. HIDE DEF a
  <2>. QED
    BY <1>1, <2>1, <2>3, <2>4, FinishStep
<1>3. CASE NoDocument(w)
  <2>. DEFINE a == [code |-> "noConfig"]
  <2>1. a \in Answers /\ a.code = "noConfig"
    BY DEF Answers
  <2>2. Committed(x)
    BY <1>1, <1>3 DEF NoDocument
  <2>3. IsTrue(x, a)
    BY <2>1, <2>2 DEF IsTrue
  <2>4. Finish(w) /\ Reply(w, a) /\ UNCHANGED store
    BY <1>3 DEF NoDocument, Fail
  <2>. HIDE DEF a
  <2>. QED
    BY <1>1, <2>1, <2>3, <2>4, FinishStep
<1>4. CASE /\ registered
           /\ Finish(w)
           /\ Reply(w, [code |-> "ok", row |-> [c \in TableOf(x) |-> row[c]]])
           /\ UNCHANGED store
  <2>. DEFINE r == [c \in TableOf(x) |-> row[c]]
              a == [code |-> "ok", row |-> r]
  <2>1. x \in Op
    BY <1>1 DEF Op
  <2>2. TableOf(x) \subseteq Column /\ TableOf(x) \in {Players, Settings}
    BY <2>1, Tables
  <2>3. r \in Versions
    BY <2>2 DEF TypeOK, Rows, Versions
  <2>4. a \in Answers /\ a.code = "ok" /\ a.row = r
    BY <2>3 DEF Answers
  <2>5. Len(committed) \in Nat
    BY DEF TypeOK
  <2>6. x \in Put => \E i \in 1 .. Len(committed) : committed[i] = x
    BY <1>1 DEF Committed, ToSet, TypeOK
  <2>7. \A c \in DOMAIN r : r[c] = After(committed, Len(committed))[c]
    BY <2>2 DEF LastWriterPerColumn
  <2>8. IsTrue(x, a)
    <3>. HIDE DEF x, r, a
    <3>. QED
      BY <2>4, <2>5, <2>6, <2>7 DEF IsTrue
  <2>. HIDE DEF a
  <2>. QED
    BY <1>1, <1>4, <2>4, <2>8, FinishStep DEF a
<1>. QED
  BY <1>2, <1>3, <1>4 DEF ReadView

LEMMA AbortStep ==
  ASSUME IInv, NEW w \in Worker, Abort(w)
  PROVE  IInv'
<1>. DEFINE a == [code |-> "error"]
<1>1. a \in Answers /\ a.code = "error"
  BY DEF Answers
<1>2. pc[w] # "idle" /\ Finish(w) /\ Reply(w, a) /\ UNCHANGED store
  BY DEF Abort, At, Fail
<1>3. IsTrue(task[w], a)
  BY <1>1 DEF IsTrue
<1>. HIDE DEF a
<1>. QED
  BY <1>1, <1>2, <1>3, FinishStep
----------------------------------------------------------------------------
(* Commit.                                                                 *)

(* A transaction that has updated a row installs its version.              *)
LEMMA Install ==
  ASSUME IInv, NEW w \in Worker, Commit(w), Updated(w)
  PROVE  /\ task[w] \in Write /\ registered
         /\ committed' = Append(committed, task[w])
         /\ row' = [c \in Column |-> IF c \in Names[task[w]] THEN task[w] ELSE row[c]]
         /\ row' \in Rows(Column)
         /\ LastWriterPerColumn'
<1>. USE DEF IInv
<1>. DEFINE x == task[w]
<1>1. x \in Write /\ version[w] = Written(x) /\ registered
  BY DEF Stage, Commit, At, Write
<1>2. x \in Op
  BY <1>1 DEF Write, Op, Request
<1>3. Names[x] \subseteq TableOf(x) /\ TableOf(x) \subseteq Column
  BY <1>2, Tables
<1>4. committed' = Append(committed, x)
  BY DEF Commit, Updated
<1>5. row' = [c \in Column |-> IF c \in Names[x] THEN x ELSE row[c]]
  BY <1>1, <1>3 DEF Commit, Written
<1>6. row' \in Rows(Column)
  BY <1>1, <1>5 DEF TypeOK, Rows, Write
<1>7. committed \in Seq(Write) /\ Len(committed)' = Len(committed) + 1
  BY <1>1, <1>4 DEF TypeOK, Write
<1>8. After(committed', Len(committed) + 1)
        = [c \in Column |-> IF c \in Names[x] THEN x ELSE After(committed, Len(committed))[c]]
  BY <1>1, <1>4, <1>7, AfterAppend
<1>9. row' = After(committed', Len(committed) + 1)
  BY <1>5, <1>8 DEF LastWriterPerColumn
<1>. QED
  BY <1>1, <1>4, <1>5, <1>6, <1>7, <1>9 DEF LastWriterPerColumn

(* An answer stays true when the write of another is committed.            *)
LEMMA TrueAfterCommit ==
  ASSUME TypeOK, NEW y, NEW x \in Write, x # y, committed' = Append(committed, x),
         NEW a, IsTrue(y, a)
  PROVE  IsTrue(y, a)'
<1>1. committed \in Seq(Write) /\ Len(committed) \in Nat
  BY DEF TypeOK, Write
<1>2. ToSet(committed') = ToSet(committed) \cup {x}
  BY <1>1, ToSetAppend
<1>3. ASSUME NEW k \in 0 .. Len(committed)
      PROVE  /\ k \in 0 .. Len(committed')
             /\ After(committed', k) = After(committed, k)
             /\ \A i \in 1 .. k : committed'[i] = committed[i]
  BY <1>1, AfterPrefix
<1>4. ASSUME a.code = "ok"
      PROVE  \E k \in 0 .. Len(committed') :
               /\ y \in Put => \E i \in 1 .. k : committed'[i] = y
               /\ \A c \in DOMAIN a.row : a.row[c] = After(committed', k)[c]
  <2>1. PICK k \in 0 .. Len(committed) :
               /\ y \in Put => \E i \in 1 .. k : committed[i] = y
               /\ \A c \in DOMAIN a.row : a.row[c] = After(committed, k)[c]
    BY <1>4 DEF IsTrue
  <2>. QED
    BY <1>3, <2>1
<1>. QED
  BY <1>2, <1>4 DEF IsTrue, Committed

(* What the others know survives it.                                       *)
LEMMA OthersAfterCommit ==
  ASSUME IInv, NEW w \in Worker, Commit(w), Updated(w), Others(w), NEW v \in Worker \ {w}
  PROVE  Stage(v)'
<1>. USE DEF IInv
<1>. DEFINE x == task[w]
            y == task[v]
<1>1. /\ x \in Write /\ registered /\ committed' = Append(committed, x)
      /\ row' = [c \in Column |-> IF c \in Names[x] THEN x ELSE row[c]]
  BY Install
<1>2. pc'[v] = pc[v] /\ task'[v] = y /\ marked'[v] = marked[v] /\ version'[v] = version[v]
      /\ registered' = registered
  BY DEF Others, Commit
<1>3. Stage(v) /\ Apart(v, w) /\ v # w
  OBVIOUS
<1>4. y \in Put => (Committed(y)' <=> Committed(y))
  <2>1. y \in Put => x # y
    BY <1>1, <1>3, RowAssumption DEF Apart, Request, Write
  <2>2. ToSet(committed') = ToSet(committed) \cup {x}
    BY <1>1, ToSetAppend DEF TypeOK, Write
  <2>. QED
    BY <1>2, <2>1, <2>2 DEF Committed
<1>5. marked[v] => y \notin processed'
  <2>1. processed' = IF marked[w] THEN processed \cup {x} ELSE processed
    BY DEF Commit
  <2>. QED
    BY <1>3, <2>1 DEF Stage, Apart
<1>6. ASSUME Updated(v) PROVE version[v] = Written(y)'
  <2>1. y \in Write /\ version[v] = Written(y)
    BY <1>3, <1>6 DEF Stage, Write
  <2>2. x \in Op /\ y \in Op /\ TableOf(x) # TableOf(y)
    BY <1>1, <1>3, <1>6, <2>1 DEF Apart, Write, Op, Request
  <2>3. TableOf(x) \cap TableOf(y) = {} /\ Names[x] \subseteq TableOf(x) /\ TableOf(y) \subseteq Column
    BY <2>2, Tables DEF Players, Settings
  <2>4. \A c \in TableOf(y) : row'[c] = row[c]
    BY <1>1, <2>3
  <2>5. Written(y)' = [c \in TableOf(y) |-> IF c \in Names[y] THEN y ELSE row'[c]]
    BY <1>2 DEF Written, TableOf
  <2>6. Written(y) = [c \in TableOf(y) |-> IF c \in Names[y] THEN y ELSE row[c]]
    BY DEF Written
  <2>. QED
    BY <2>1, <2>4, <2>5, <2>6
<1>. QED
  BY <1>2, <1>3, <1>4, <1>5, <1>6 DEF Stage, Updated, Written

(* A duplicate commits nothing; otherwise the invariant is kept, whether   *)
(* the request reads its answer or is done.                                *)
LEMMA CommitStep ==
  ASSUME IInv, NEW w \in Worker, Commit(w)
  PROVE  IInv'
<1>. USE DEF IInv
<1>. DEFINE x == task[w]
            done == [code |-> "done"]
<1>1. Event \cap Request = {} /\ Put \subseteq Request /\ Get \cap Put = {}
      /\ Initial \notin Event \cup Request
  BY RowAssumption DEF Request, Op
<1>2. pc[w] = "commit" /\ registered' = registered /\ ordered' = ordered /\ made' = made
  BY DEF Commit, At, Finish
<1>3. done \in Answers /\ done.code = "done"
  BY DEF Answers
<1>4. CASE ~ Updated(w)
  <2>1. x \in Event /\ ~ marked[w] /\ version[w] = NoVersion
    BY <1>2, <1>4, <1>1 DEF Stage, Updated, TypeOK
  <2>2. row' = row
    BY <2>1 DEF Commit, NoVersion, TypeOK, Rows
  <2>3. UNCHANGED store
    BY <2>1, <2>2 DEF Commit, store
  <2>4. Finish(w) /\ Reply(w, done)
    BY <1>1, <2>1 DEF Commit, ReadsBack
  <2>. HIDE DEF done
  <2>. QED
    BY <1>1, <1>2, <1>3, <2>1, <2>3, <2>4, FinishStep
<1>5. CASE Updated(w)
  <2>1. /\ x \in Write /\ registered /\ committed' = Append(committed, x)
        /\ row' \in Rows(Column) /\ LastWriterPerColumn'
    BY <1>5, Install
  <2>2. /\ Others(w) /\ marked'[w] = FALSE /\ version'[w] = NoVersion
        /\ \/ /\ x \in Put /\ pc'[w] = "view" /\ task'[w] = x /\ answer' = answer
           \/ pc'[w] = "idle" /\ task'[w] = Initial /\ Reply(w, done)
    BY DEF Commit, ReadsBack, Finish, Goto, TypeOK, Others
  <2>3. TypeOK'
    <3>1. answer' \in [Request -> Answers]
      BY <1>3, <2>2 DEF Reply, TypeOK
    <3>2. /\ pc' \in [Worker -> {"idle", "ledger", "update", "commit", "view"}]
          /\ task' \in [Worker -> Op \cup {Initial}]
          /\ marked' \in [Worker -> BOOLEAN]
          /\ version' \in [Worker -> Versions \cup {NoVersion}]
      BY DEF Commit, Finish, Goto, TypeOK
    <3>3. processed' \subseteq Event
      BY <1>2 DEF Commit, Stage, TypeOK
    <3>4. committed' \in Seq(Event \cup Put)
      BY <2>1 DEF TypeOK, Write
    <3>. QED
      BY <1>2, <2>1, <3>1, <3>2, <3>3, <3>4 DEF TypeOK
  <2>4. ToSet(committed') = ToSet(committed) \cup {x}
    <3>1. committed \in Seq(Write)
      BY DEF TypeOK, Write
    <3>. HIDE DEF x
    <3>. QED
      BY <2>1, <3>1, ToSetAppend
  <2>5. Stage(w)'
    BY <1>1, <2>2, <2>4 DEF Stage, Updated, Committed
  <2>6. ASSUME NEW v \in Worker PROVE Stage(v)'
    <3>1. CASE v = w
      BY <2>5, <3>1
    <3>2. CASE v # w
      BY <1>5, <2>2, <3>2, OthersAfterCommit
    <3>. QED
      BY <3>1, <3>2
  <2>7. ASSUME NEW u \in Worker, NEW v \in Worker PROVE Apart(u, v)'
    <3>1. Apart(u, v)
      OBVIOUS
    <3>. QED
      BY <1>1, <2>2, <3>1 DEF Apart, Others, Updated, Request
  <2>8. ASSUME NEW y \in Request, answer'[y] # answer[y]
        PROVE  y = x /\ answer'[y] = done
    BY <2>2, <2>8 DEF Reply, TypeOK
  <2>9. SentOnce'
    <3>1. ASSUME NEW v \in Worker, task'[v] \in Request
          PROVE  Made(task[v])' /\ answer'[task'[v]] = Unanswered
      <4>1. task'[v] = task[v]
        BY <1>1, <2>2, <3>1 DEF Others
      <4>2. Made(task[v]) /\ answer[task[v]] = Unanswered
        BY <3>1, <4>1 DEF SentOnce
      <4>3. answer'[task[v]] = answer[task[v]]
        <5>1. CASE v = w
          BY <1>1, <2>2, <3>1, <4>1, <5>1
        <5>2. CASE v # w
          BY <2>8, <3>1, <4>1, <5>2 DEF Apart
        <5>. QED
          BY <5>1, <5>2
      <4>. QED
        BY <1>2, <4>1, <4>2, <4>3 DEF Made
    <3>2. ASSUME NEW y \in Request, ~ Made(y)'
          PROVE  answer'[y] = Unanswered /\ ~ Committed(y)'
      <4>1. ~ Made(y) /\ y # x
        BY <1>2, <3>2 DEF SentOnce, Made
      <4>. QED
        BY <2>4, <2>8, <4>1 DEF SentOnce, Committed
    <3>. QED
      BY <1>2, <2>1, <3>1, <3>2 DEF SentOnce
  <2>10. ASSUME NEW y \in Request PROVE IsTrue(y, answer[y])'
    <3>1. CASE answer'[y] # answer[y]
      <4>1. Committed(y)' /\ answer'[y] = done
        BY <2>4, <2>8, <3>1 DEF Committed
      <4>. QED
        BY <1>3, <4>1 DEF IsTrue
    <3>2. CASE answer'[y] = answer[y] /\ y # x
      <4>1. IsTrue(y, answer[y])
        BY DEF AnswersAreTrue
      <4>. DEFINE b == answer[y]
      <4>2. \A c : c = b => IsTrue(y, c)
        BY <4>1
      <4>. QED
        BY <2>1, <3>2, <4>1, TrueAfterCommit
    <3>3. CASE answer'[y] = answer[y] /\ y = x
      <4>1. answer'[y].code = "none"
        BY <3>3 DEF SentOnce, Unanswered
      <4>. QED
        BY <4>1 DEF IsTrue
    <3>. QED
      BY <3>1, <3>2, <3>3
  <2>. QED
    BY <2>1, <2>3, <2>6, <2>7, <2>9, <2>10 DEF AnswersAreTrue
<1>. QED
  BY <1>4, <1>5
----------------------------------------------------------------------------
(* The theorems.                                                           *)

LEMMA Initially ==
  ASSUME Init
  PROVE  IInv
<1>. USE DEF Init
<1>1. TypeOK
  <2>1. Unanswered \in Answers
    BY DEF Answers, Unanswered
  <2>2. row \in Rows(Column) /\ made \in Seq(Op) /\ committed \in Seq(Event \cup Put)
    BY DEF Rows
  <2>3. answer \in [Request -> Answers] /\ version \in [Worker -> Versions \cup {NoVersion}]
    BY <2>1
  <2>. QED
    BY <2>2, <2>3 DEF TypeOK
<1>2. ASSUME NEW w \in Worker PROVE Stage(w)
  BY RowAssumption DEF Stage, Updated, Op, Request
<1>3. ASSUME NEW v \in Worker, NEW w \in Worker PROVE Apart(v, w)
  BY RowAssumption DEF Apart, Updated, Op
<1>4. SentOnce
  BY RowAssumption DEF SentOnce, Made, Committed, ToSet, Op
<1>5. LastWriterPerColumn
  <2>1. \A c \in Column : LastNaming(committed, Len(committed), c) = {}
    BY DEF LastNaming
  <2>. QED
    BY <2>1 DEF LastWriterPerColumn, After, Pick
<1>6. AnswersAreTrue
  BY DEF AnswersAreTrue, IsTrue, Unanswered
<1>. QED
  BY <1>1, <1>2, <1>3, <1>4, <1>5, <1>6 DEF IInv

LEMMA NextStep ==
  ASSUME IInv, Next
  PROVE  IInv'
<1>1. CASE Register
  BY <1>1, RegisterStep
<1>2. ASSUME NEW e \in Event, Publish(e) PROVE IInv'
  BY <1>2, PublishStep
<1>3. ASSUME NEW w \in Worker,
             \/ \E e \in Event : Deliver(w, e)
             \/ \E x \in Request : Send(w, x)
             \/ Serve(w)
             \/ Abort(w)
      PROVE  IInv'
  BY <1>3, DeliverStep, SendStep, InsertLedgerStep, UpdateRowStep, CommitStep, ReadViewStep,
     AbortStep DEF Serve
<1>. QED
  BY <1>1, <1>2, <1>3 DEF Next

LEMMA StutterStep ==
  ASSUME IInv, UNCHANGED vars
  PROVE  IInv'
<1>. USE DEF IInv, vars
<1>1. TypeOK'
  BY DEF TypeOK
<1>2. ASSUME NEW w \in Worker PROVE Stage(w)'
  BY StageKept DEF store
<1>3. ASSUME NEW v \in Worker, NEW w \in Worker PROVE Apart(v, w)'
  BY DEF Apart, Updated
<1>4. SentOnce' /\ LastWriterPerColumn'
  BY DEF SentOnce, Made, Committed, LastWriterPerColumn
<1>. QED
  BY <1>1, <1>2, <1>3, <1>4, AnswersKept

(* The inductive invariant of the rows.                                    *)
THEOREM Invariance == Spec => []IInv
<1>1. Init => IInv
  BY Initially
<1>2. IInv /\ [Next]_vars => IInv'
  BY NextStep, StutterStep
<1>. QED
  BY <1>1, <1>2, PTL DEF Spec

(* Every variable keeps its type.                                          *)
THEOREM TypeCorrect == Spec => []TypeOK
<1>1. IInv => TypeOK
  BY DEF IInv
<1>. QED
  BY <1>1, Invariance, PTL

(* Concurrent updates never undo each other (UpdateName, UpdatePremium,    *)
(* UpdatePartial), for any number of requests and events in flight.        *)
THEOREM NoUpdateLost == Spec => []LastWriterPerColumn
<1>1. IInv => LastWriterPerColumn
  BY DEF IInv
<1>. QED
  BY <1>1, Invariance, PTL

(* What PUT name, PUT premium and the settings requests answer is true of  *)
(* the database, though they read it outside a transaction.                *)
THEOREM AnswersHoldTrue == Spec => []AnswersAreTrue
<1>1. IInv => AnswersAreTrue
  BY DEF IInv
<1>. QED
  BY <1>1, Invariance, PTL

(* An event never writes a column again once it is in the ledger.          *)
LEMMA EventWritesOnce ==
  ASSUME IInv, [Next]_vars, NEW e \in Event, e \in processed, NEW c \in Column, row'[c] = e
  PROVE  row[c] = e
<1>1. CASE UNCHANGED row
  BY <1>1
<1>2. ASSUME NEW w \in Worker, Commit(w) PROVE row[c] = e
  <2>1. CASE Updated(w)
    <3>1. task[w] # e
      BY <2>1 DEF IInv, Stage
    <3>. QED
      BY <1>2, <2>1, <3>1, Install
  <2>2. CASE ~ Updated(w)
    BY <1>2, <2>2 DEF Commit, Updated, NoVersion
  <2>. QED
    BY <2>1, <2>2
<1>3. UNCHANGED row \/ \E w \in Worker : Commit(w)
  BY DEF Next, vars, store, Register, Publish, Deliver, Send, Begin, Serve, InsertLedger, UpdateRow,
     ReadView, NoDocument, Abort, Fail
<1>. QED
  BY <1>1, <1>2, <1>3

(* A redelivery undoes nothing, at whatever time it comes.                 *)
THEOREM RedeliveryIsHarmless == Spec => RedeliveryNeverUndoes
<1>1. IInv /\ [Next]_vars
        => [\A e \in Event : e \in processed => \A c \in Column : row'[c] = e => row[c] = e]_vars
  BY EventWritesOnce
<1>. QED
  BY <1>1, Invariance, PTL DEF Spec, RedeliveryNeverUndoes
=============================================================================
