---------------------------- MODULE PushInvariant ----------------------------
(***************************************************************************)
(* The inductive invariant of Push.                                        *)
(***************************************************************************)
EXTENDS Push

Place == {"idle", "decode", "check", "insert", "effect", "commit", "respond"}

FaultOfTopics == UNION {Fault(t) : t \in Topic}

AnyFault == FaultOfTopics \cup {None}

(* Every variable has its type.                                            *)
TypeOK ==
  /\ topic \in [Message -> Topic]
  /\ fault \in [Message -> AnyFault]
  /\ state \in [Message -> {"unpublished", "queued", "acked", "dead"}]
  /\ deliveries \in [Message -> 0 .. MaxDeliveries]
  /\ registered \in BOOLEAN
  /\ ledger \subseteq Message
  /\ applied \in [Message -> Nat]
  /\ pc \in [Worker -> Place]
  /\ task \in [Worker -> Message \cup {None}]
  /\ writes \in [Worker -> BOOLEAN]

(* A delivery that has written the ledger entry and not committed it knows *)
(* that no other has; one that answers 200 knows that the entry is there.  *)
Stage(w) ==
  /\ pc[w] # "idle" => task[w] \in Message
  /\ writes[w] <=> pc[w] \in {"effect", "commit"}
  /\ writes[w] => task[w] \notin ledger
  /\ pc[w] = "respond" => task[w] \in ledger

(* Two transactions do not insert the same entry.                          *)
Apart(v, w) == v # w /\ writes[v] /\ writes[w] => task[v] # task[w]

IInv ==
  /\ TypeOK
  /\ \A w \in Worker : Stage(w)
  /\ \A v, w \in Worker : Apart(v, w)
  /\ LedgerIsTheEffects
==============================================================================
