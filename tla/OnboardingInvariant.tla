------------------------ MODULE OnboardingInvariant -------------------------
(***************************************************************************)
(* The inductive invariant behind the safety properties.                   *)
(*                                                                         *)
(* Stage says, for one worker, which writes its transaction has made when  *)
(* it stands at a statement, and which facts of the committed state its    *)
(* earlier reads established that still hold.  Apart says that no two      *)
(* transactions hold the same ledger entry, the same players row, or an    *)
(* initial row of the same player.  Together they make the stale status    *)
(* read harmless for every status except completed.                        *)
(***************************************************************************)
EXTENDS OnboardingProperties

KindAt(w) == Kind[task[w]]

PlayerAt(w) == PlayerOf[task[w]]

FactionAt(w) == FactionOf[task[w]]

(* Statements between the ledger entry (or the existence check) and the    *)
(* commit, and the kinds of task that execute them.                        *)
KindsOf(statement) ==
  CASE statement = "updateName" -> {"name_set"}
    [] statement \in {"getInitial", "setInitial"} -> {"faction_set", "select"}
    [] statement = "addFaction" -> {"faction_acquired"}
    [] statement \in {"getStatus", "setStatus"} -> {"name_set", "faction_set", "completed"}

Middle == {"updateName", "getInitial", "setInitial", "addFaction", "getStatus", "setStatus"}

StageEnds(w) ==
  /\ pc[w] = "idle" <=> task[w] = None
  /\ pc[w] \in {"idle", "insert", "exists", "respond"} => pending[w] = Clean
  /\ pc[w] = "insert" => KindAt(w) # "select"
  /\ pc[w] = "exists" => KindAt(w) = "select"
  /\ pc[w] = "respond" /\ KindAt(w) # "select" => task[w] \in processed
  /\ task[w] # None => Valid(task[w])

StageMiddle(w) ==
  pc[w] \in Middle =>
    /\ KindAt(w) \in KindsOf(pc[w])
    /\ pending[w].ledger <=> KindAt(w) # "select"
    /\ pending[w].name = IF KindAt(w) = "name_set" /\ pc[w] # "updateName"
                         THEN NameOf[task[w]] ELSE None
    /\ pending[w].status = None
    /\ pending[w].owned = pending[w].initial
    /\ pending[w].initial = {}
         \/ /\ pending[w].initial = {FactionAt(w)}
            /\ KindAt(w) = "faction_set"
            /\ pc[w] \in {"getStatus", "setStatus"}

(* What has been read and still holds.                                     *)
StageRead(w) ==
  /\ pc[w] \in {"getStatus", "setStatus"} /\ KindAt(w) # "completed"
       => PlayerAt(w) \in registered
  /\ pc[w] = "setStatus" => PlayerAt(w) \in registered
  /\ pc[w] \in {"getStatus", "setStatus"} /\ KindAt(w) = "faction_set"
       => pending[w].initial = {FactionAt(w)} \/ initial[PlayerAt(w)] = {FactionAt(w)}
  /\ pc[w] = "setStatus" /\ KindAt(w) = "name_set"
       => status[PlayerAt(w)] = "not_started"

(* A transaction about to commit: nothing for a duplicate, or all of the   *)
(* effect of its task.                                                     *)
Duplicate(w) ==
  /\ KindAt(w) # "select"
  /\ pending[w] = Clean
  /\ task[w] \in processed

StatusEffect(w) ==
  /\ KindAt(w) = "name_set" =>
       \/ pending[w].status = None /\ status[PlayerAt(w)] # "not_started"
       \/ pending[w].status = "name_set" /\ status[PlayerAt(w)] = "not_started"
  /\ KindAt(w) \in {"faction_set", "completed"} =>
       \/ pending[w].status = None /\ Rank(status[PlayerAt(w)]) >= 2
       \/ pending[w].status = KindAt(w)
  /\ KindAt(w) \in {"faction_acquired", "select"} => pending[w].status = None

FactionEffect(w) ==
  /\ KindAt(w) \in {"name_set", "completed"} =>
       pending[w].owned = {} /\ pending[w].initial = {}
  /\ KindAt(w) = "select" =>
       pending[w].owned = {FactionAt(w)} /\ pending[w].initial = {FactionAt(w)}
  /\ KindAt(w) = "faction_set" =>
       /\ pending[w].owned = pending[w].initial
       /\ \/ pending[w].initial = {FactionAt(w)}
          \/ pending[w].initial = {} /\ initial[PlayerAt(w)] = {FactionAt(w)}
  /\ KindAt(w) = "faction_acquired" =>
       /\ pending[w].initial = {}
       /\ \/ pending[w].owned = {FactionAt(w)}
          \/ pending[w].owned = {} /\ FactionAt(w) \in owned[PlayerAt(w)]

Effective(w) ==
  /\ PlayerAt(w) \in registered
  /\ pending[w].ledger <=> KindAt(w) # "select"
  /\ pending[w].name = IF KindAt(w) = "name_set" THEN NameOf[task[w]] ELSE None
  /\ StatusEffect(w)
  /\ FactionEffect(w)

StageCommit(w) == pc[w] = "commit" => Duplicate(w) \/ Effective(w)

(* The ledger entry and the initial row a transaction holds are not        *)
(* committed, and no other initial row of the player is.                   *)
StageHeld(w) ==
  /\ pending[w].ledger => task[w] \notin processed
  /\ pending[w].initial # {} => /\ PlayerAt(w) \in registered
                                /\ initial[PlayerAt(w)] \subseteq pending[w].initial

Stage(w) ==
  StageEnds(w) /\ StageMiddle(w) /\ StageRead(w) /\ StageCommit(w) /\ StageHeld(w)

HoldsRow(w) == pending[w].name # None \/ pending[w].status # None

Apart(v, w) ==
  v # w =>
    /\ pending[v].ledger /\ pending[w].ledger => task[v] # task[w]
    /\ HoldsRow(v) /\ HoldsRow(w) => PlayerAt(v) # PlayerAt(w)
    /\ pending[v].initial # {} /\ pending[w].initial # {} => PlayerAt(v) # PlayerAt(w)

(* Faction rows belong to players (the foreign key).                       *)
FactionsHavePlayers ==
  \A p \in Player : owned[p] # {} => p \in registered

(* What is committed.                                                      *)
Committed ==
  /\ FactionsHavePlayers
  /\ AckedIsProcessed
  /\ StatusFloor
  /\ StatusBacked
  /\ OneInitialFaction

IInv ==
  /\ TypeOK
  /\ Committed
  /\ \A w \in Worker : Stage(w)
  /\ \A v, w \in Worker : Apart(v, w)
============================================================================
