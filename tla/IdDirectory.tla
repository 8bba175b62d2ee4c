----------------------------- MODULE IdDirectory -----------------------------
(***************************************************************************)
(* What the platform promises of Global IDs (docs/GLOBAL-IDS.md, "The      *)
(* rules"), with no transactions, locks or connections: a record gets an   *)
(* identifier once, no other record has had it, the allocation is          *)
(* announced once, and every answer names the identifier the record has.   *)
(*                                                                         *)
(* One entity type is modelled: each has its own counter row, and a key    *)
(* stands for a source record of that type.  The platform names a key in   *)
(* two tables, global_entities and identities (or service_identities); a   *)
(* record is a row of one of them.                                         *)
(***************************************************************************)
EXTENDS Naturals

CONSTANT Keys

Records == [table : {"entity", "identity"}, key : Keys]
NoNumber == 0

VARIABLES
  ids,        \* the number of each record, NoNumber until it has one
  announced,  \* the numbers whose allocation has been announced
  answers     \* the <<record, number>> pairs ever returned to a caller

directoryVars == <<ids, announced, answers>>

Init ==
  /\ ids = [r \in Records |-> NoNumber]
  /\ announced = {}
  /\ answers = {}

(* A fresh number names one key in every table that did not name it yet,  *)
(* or in one of them, and is announced with it.                            *)
Mint ==
  \E n \in announced' \ announced :
    /\ n \notin {NoNumber} \union {ids[r] : r \in Records}
    /\ announced' = announced \union {n}
    /\ \E k \in Keys : \E T \in SUBSET {"entity", "identity"} :
         /\ T # {}
         /\ \A t \in T : ids[[table |-> t, key |-> k]] = NoNumber
         /\ ids' = [r \in Records |->
                      IF r.key = k /\ r.table \in T THEN n ELSE ids[r]]

Answer ==
  /\ answers \subseteq answers'
  /\ \A a \in answers' \ answers :
       a[1] \in Records /\ ids'[a[1]] # NoNumber /\ ids'[a[1]] = a[2]

(* The step that mints may answer as well. *)
Next == Answer /\ (Mint \/ UNCHANGED <<ids, announced>>)

Spec == Init /\ [][Next]_directoryVars
=============================================================================
