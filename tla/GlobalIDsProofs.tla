--------------------------- MODULE GlobalIDsProofs ---------------------------
(***************************************************************************)
(* The safety of Global ID allocation for any number of requests, core     *)
(* processes, keys and connections: IInv is inductive, it implies the      *)
(* invariants the runs check, and GlobalIDs implements IdDirectory.        *)
(***************************************************************************)
EXTENDS GlobalIDs, FiniteSetTheorems, TLAPS

(* Each key has one record in each table, and no two keys share one. *)
LEMMA RecordFacts ==
  ASSUME NEW k \in Keys
  PROVE  /\ Entity(k) \in Records /\ Identity(k) \in Records
         /\ Entity(k).key = k /\ Identity(k).key = k
         /\ Entity(k) # Identity(k)
         /\ \A p \in Records : p.key = k => p \in {Entity(k), Identity(k)}
         /\ \A j \in Keys : /\ Entity(j) = Entity(k) => j = k
                            /\ Identity(j) = Identity(k) => j = k
                            /\ Entity(j) # Identity(k)
  BY DEF Records, Entity, Identity

(* A transaction is about one of the request's keys. *)
LEMMA TargetFacts ==
  ASSUME IInv, NEW r \in Requests, pc[r] \in InTx
  PROVE  /\ cur[r] \in Keys
         /\ Target(r) \in {Entity(cur[r]), Identity(cur[r])}
         /\ Target(r) \in Records
  BY RecordFacts DEF IInv, TypeOK, Transaction, Target

LEMMA InitIInv == Init => IInv
  <1> SUFFICES ASSUME Init PROVE IInv
    OBVIOUS
  <1>1. TypeOK
    BY NobodyAssumption DEF Init, TypeOK, PCs, Ops, NoNumber
  <1>2. \A r \in Requests : Transaction(r) /\ SubjectHeld(r) /\ Collected(r)
    BY DEF Init, Transaction, SubjectHeld, Collected, InTx
  <1>3. AnswersAreDurable /\ NeverReused /\ NumbersBelowCounter /\ AnnouncedInOrder
    BY DEF Init, AnswersAreDurable, NeverReused, NumbersBelowCounter,
       AnnouncedInOrder, NoNumber
  <1>4. QED
    BY <1>1, <1>2, <1>3 DEF IInv

-----------------------------------------------------------------------------
(* Steps that leave the tables alone *)

(* What the tables say of themselves stays true while they do not change   *)
(* and nobody is answered.                                                 *)
LEMMA TablesStand ==
  ASSUME IInv, UNCHANGED <<tables, answers>>
  PROVE  AnswersAreDurable' /\ NeverReused' /\ NumbersBelowCounter' /\ AnnouncedInOrder'
  BY DEF IInv, tables, AnswersAreDurable, NeverReused, NumbersBelowCounter,
     AnnouncedInOrder

(* A request another request's step does not touch keeps its invariant:    *)
(* its record either stays, and it keeps the locks it holds.               *)
LEMMA OthersStand ==
  ASSUME IInv, NEW s \in Requests, UNCHANGED tables,
         pc'[s] = pc[s], op'[s] = op[s], todo'[s] = todo[s], cur'[s] = cur[s],
         val'[s] = val[s], got'[s] = got[s],
         counterLock = s => counterLock' = s,
         \A k \in Keys : subjectLock[k] = s => subjectLock'[k] = s
  PROVE  Transaction(s)' /\ SubjectHeld(s)' /\ Collected(s)'
  <1>1. pc[s] \in InTx => cur[s] \in Keys
    BY TargetFacts
  <1>2. Target(s)' = Target(s)
    BY DEF Target, Entity, Identity
  <1>3. pc[s] \in {"counter", "insert", "event", "commit"} => pc[s] \in InTx
    BY DEF InTx
  <1>4. Transaction(s)'
    BY <1>2 DEF IInv, Transaction, tables, Entity
  <1>5. SubjectHeld(s)'
    BY <1>1, <1>2, <1>3 DEF IInv, SubjectHeld, tables
  <1>6. Collected(s)'
    BY DEF IInv, Collected, tables
  <1>7. QED
    BY <1>4, <1>5, <1>6

(* Only r moves. *)
OnlyMoves(r) ==
  \A s \in Requests \ {r} :
    /\ pc'[s] = pc[s] /\ op'[s] = op[s] /\ todo'[s] = todo[s]
    /\ cur'[s] = cur[s] /\ val'[s] = val[s] /\ got'[s] = got[s]
    /\ counterLock = s => counterLock' = s
    /\ \A k \in Keys : subjectLock[k] = s => subjectLock'[k] = s

(* The pattern of every step that leaves the tables alone and answers      *)
(* nobody.                                                                 *)
LEMMA QuietStep ==
  ASSUME IInv, NEW r \in Requests, UNCHANGED <<tables, answers>>,
         TypeOK', OnlyMoves(r), Transaction(r)', SubjectHeld(r)', Collected(r)'
  PROVE  IInv'
  <1>1. \A s \in Requests \ {r} : Transaction(s)' /\ SubjectHeld(s)' /\ Collected(s)'
    <2> SUFFICES ASSUME NEW s \in Requests \ {r}
                 PROVE  Transaction(s)' /\ SubjectHeld(s)' /\ Collected(s)'
      OBVIOUS
    <2>1. UNCHANGED tables
      OBVIOUS
    <2>2. /\ pc'[s] = pc[s] /\ op'[s] = op[s] /\ todo'[s] = todo[s]
          /\ cur'[s] = cur[s] /\ val'[s] = val[s] /\ got'[s] = got[s]
          /\ counterLock = s => counterLock' = s
          /\ \A k \in Keys : subjectLock[k] = s => subjectLock'[k] = s
      BY DEF OnlyMoves
    <2>3. QED
      BY <2>1, <2>2, OthersStand
  <1>2. QED
    BY <1>1, TablesStand DEF IInv

LEMMA CallStep ==
  ASSUME IInv, NEW r \in Requests, Call(r)
  PROVE  IInv'
  <1>1. TypeOK'
    BY CallsAssumption DEF Call, IInv, TypeOK, tables, locks, Goto, PCs, Ops
  <1>2. OnlyMoves(r)
    BY DEF Call, OnlyMoves, IInv, TypeOK, locks, Goto
  <1>3. pc'[r] \in {"page", "begin"} /\ got'[r] = got[r]
    BY DEF Call, IInv, TypeOK, Goto
  <1>4. Transaction(r)' /\ SubjectHeld(r)' /\ Collected(r)'
    BY <1>3 DEF Call, IInv, Transaction, SubjectHeld, Collected, InTx, tables
  <1>5. QED
    BY <1>1, <1>2, <1>4, QuietStep DEF Call

LEMMA BeginStep ==
  ASSUME IInv, NEW r \in Requests, Begin(r)
  PROVE  IInv'
  <1>1. TypeOK'
    BY DEF Begin, IInv, TypeOK, tables, locks, Goto, PCs, InTx
  <1>2. OnlyMoves(r)
    BY DEF Begin, OnlyMoves, IInv, TypeOK, locks, Goto
  <1>3. /\ pc'[r] = IF op[r] = "identity" THEN "locking" ELSE "select"
        /\ cur'[r] \in todo[r] /\ UNCHANGED <<op, todo, got, tables>>
    BY DEF Begin, IInv, TypeOK, Goto
  <1>4. Transaction(r)' /\ SubjectHeld(r)' /\ Collected(r)'
    BY <1>3 DEF IInv, Transaction, SubjectHeld, Collected, InTx, tables
  <1>5. QED
    BY <1>1, <1>2, <1>4, QuietStep DEF Begin

LEMMA LockSubjectStep ==
  ASSUME IInv, NEW r \in Requests, LockSubject(r)
  PROVE  IInv'
  <1>1. pc[r] \in InTx /\ cur[r] \in Keys
    BY TargetFacts DEF LockSubject, InTx
  <1>2. TypeOK'
    BY DEF LockSubject, IInv, TypeOK, tables, Goto, PCs, InTx
  <1>3. OnlyMoves(r)
    BY NobodyAssumption DEF LockSubject, OnlyMoves, IInv, TypeOK, Goto
  <1>4. /\ pc'[r] = "select" /\ subjectLock'[cur[r]] = r
        /\ UNCHANGED <<op, todo, cur, got, tables>>
    BY <1>1 DEF LockSubject, IInv, TypeOK, Goto
  <1>5. Transaction(r)' /\ SubjectHeld(r)' /\ Collected(r)'
    BY <1>1, <1>4 DEF IInv, Transaction, SubjectHeld, Collected, InTx, tables
  <1>6. QED
    BY <1>2, <1>3, <1>5, QuietStep DEF LockSubject

(* What a SELECT under the subject's lock finds stays true under it. *)
LEMMA SelectStep ==
  ASSUME IInv, NEW r \in Requests, Select(r)
  PROVE  IInv'
  <1>1. pc[r] \in InTx /\ cur[r] \in Keys /\ Target(r) \in Records
    BY TargetFacts DEF Select, InTx
  <1>2. ids[Target(r)] \in Nat
    BY <1>1 DEF IInv, TypeOK
  <1>3. TypeOK'
    BY <1>2 DEF Select, IInv, TypeOK, tables, locks, Goto, PCs, InTx
  <1>4. OnlyMoves(r)
    BY DEF Select, OnlyMoves, IInv, TypeOK, locks, Goto
  <1>5. /\ pc'[r] = IF ids[Target(r)] = NoNumber THEN "counter" ELSE "return"
        /\ val'[r] = ids[Target(r)]
        /\ UNCHANGED <<op, todo, cur, got, tables, locks>>
    BY DEF Select, IInv, TypeOK, Goto
  <1>6. Target(r)' = Target(r)
    BY <1>5 DEF Target, Entity, Identity
  <1>7. Transaction(r)'
    BY <1>1, <1>5, <1>6 DEF IInv, Transaction, InTx, tables
  <1>8. SubjectHeld(r)' /\ Collected(r)'
    BY <1>1, <1>5, <1>6 DEF Select, IInv, SubjectHeld, Collected, InTx, tables, locks
  <1>9. QED
    BY <1>3, <1>4, <1>7, <1>8, QuietStep DEF Select

LEMMA TakeNumberStep ==
  ASSUME IInv, NEW r \in Requests, TakeNumber(r)
  PROVE  IInv'
  <1>1. pc[r] \in InTx
    BY DEF TakeNumber, InTx
  <1>2. TypeOK'
    BY DEF TakeNumber, IInv, TypeOK, tables, Goto, PCs, InTx
  <1>3. OnlyMoves(r)
    BY NobodyAssumption DEF TakeNumber, OnlyMoves, IInv, TypeOK, Goto
  <1>4. /\ pc'[r] = "insert" /\ val'[r] = counter /\ counterLock' = r
        /\ UNCHANGED <<op, todo, cur, got, tables, subjectLock>>
    BY DEF TakeNumber, IInv, TypeOK, Goto
  <1>5. Target(r)' = Target(r)
    BY <1>4 DEF Target, Entity, Identity
  <1>6. Transaction(r)' /\ Collected(r)'
    BY <1>1, <1>4 DEF IInv, Transaction, Collected, InTx, tables
  <1>7. SubjectHeld(r)'
    BY <1>1, <1>4, <1>5 DEF TakeNumber, IInv, SubjectHeld, InTx, tables
  <1>8. QED
    BY <1>2, <1>3, <1>6, <1>7, QuietStep DEF TakeNumber

(* Releasing r's locks takes nobody else's. *)
LEMMA ReleaseFacts ==
  ASSUME IInv, NEW r \in Requests, ReleaseLocks(r)
  PROVE  /\ counterLock' \in Requests \union {NoRequest}
         /\ subjectLock' \in [Keys -> Requests \union {NoRequest}]
         /\ \A s \in Requests \ {r} :
              /\ counterLock = s => counterLock' = s
              /\ \A k \in Keys : subjectLock[k] = s => subjectLock'[k] = s
  BY DEF ReleaseLocks, IInv, TypeOK

LEMMA InsertStep ==
  ASSUME IInv, NEW r \in Requests, Insert(r)
  PROVE  IInv'
  <1>1. pc[r] \in InTx /\ cur[r] \in Keys
    BY TargetFacts DEF Insert, InTx
  <1>2. /\ counterLock' \in Requests \union {NoRequest}
        /\ subjectLock' \in [Keys -> Requests \union {NoRequest}]
    BY ReleaseFacts DEF Insert, IInv, TypeOK, locks
  <1>3. TypeOK'
    BY <1>2 DEF Insert, IInv, TypeOK, tables, Goto, PCs, InTx
  <1>4. OnlyMoves(r)
    BY ReleaseFacts DEF Insert, OnlyMoves, IInv, TypeOK, Goto, locks
  <1>5. UNCHANGED <<op, todo, cur, val, got, tables>>
    BY DEF Insert
  <1>6. Target(r)' = Target(r)
    BY <1>5 DEF Target, Entity, Identity
  <1>7. CASE op[r] # "identity" /\ ids[Entity(cur[r])] # NoNumber
    <2>1. pc'[r] = "lost"
      BY <1>7 DEF Insert, IInv, TypeOK, Goto
    <2>2. Transaction(r)' /\ SubjectHeld(r)' /\ Collected(r)'
      BY <1>1, <1>5, <1>7, <2>1
         DEF IInv, Transaction, SubjectHeld, Collected, InTx, tables, Entity
    <2>3. QED
      BY <1>3, <1>4, <2>2, QuietStep DEF Insert
  <1>8. CASE op[r] = "identity" \/ ids[Entity(cur[r])] = NoNumber
    <2>1. pc'[r] = "event" /\ UNCHANGED locks
      BY <1>8 DEF Insert, IInv, TypeOK, Goto
    <2>2. ids[Target(r)] = NoNumber
      BY <1>8 DEF Insert, IInv, SubjectHeld, Target
    <2>3. Transaction(r)'
      BY <1>1, <1>5, <1>6, <2>1, <2>2 DEF Insert, IInv, Transaction, InTx, tables, locks
    <2>4. SubjectHeld(r)' /\ Collected(r)'
      BY <1>1, <1>5, <2>1 DEF Insert, IInv, SubjectHeld, Collected, InTx, tables, locks
    <2>5. QED
      BY <1>3, <1>4, <2>3, <2>4, QuietStep DEF Insert
  <1>9. QED
    BY <1>7, <1>8

LEMMA QueueEventStep ==
  ASSUME IInv, NEW r \in Requests, QueueEvent(r)
  PROVE  IInv'
  <1>1. pc[r] \in InTx
    BY DEF QueueEvent, InTx
  <1>2. TypeOK'
    BY DEF QueueEvent, IInv, TypeOK, tables, locks, Goto, PCs, InTx
  <1>3. OnlyMoves(r)
    BY DEF QueueEvent, OnlyMoves, IInv, TypeOK, locks, Goto
  <1>4. pc'[r] = "commit" /\ UNCHANGED <<op, todo, cur, val, got, tables, locks>>
    BY DEF QueueEvent, IInv, TypeOK, Goto
  <1>5. Target(r)' = Target(r)
    BY <1>4 DEF Target, Entity, Identity
  <1>6. Transaction(r)'
    BY <1>1, <1>4, <1>5 DEF QueueEvent, IInv, Transaction, InTx, tables, locks
  <1>7. SubjectHeld(r)' /\ Collected(r)'
    BY <1>1, <1>4 DEF QueueEvent, IInv, SubjectHeld, Collected, InTx, tables, locks
  <1>8. QED
    BY <1>2, <1>3, <1>6, <1>7, QuietStep DEF QueueEvent

-----------------------------------------------------------------------------
(* Steps that end a transaction or a call *)

(* A pair a caller may be given: the record has the number. *)
Sound(a) == a \in Records \X Nat /\ ids[a[1]] = a[2] /\ a[2] # NoNumber

LEMMA CollectedIsSound ==
  ASSUME IInv, NEW r \in Requests
  PROVE  \A a \in got[r] : Sound(a)
  BY DEF IInv, TypeOK, Collected, Sound

(* What EndCall leaves of a request. *)
LEMMA EndCallFacts ==
  ASSUME IInv, NEW r \in Requests, NEW G \in SUBSET (Records \X Nat), EndCall(r, G)
  PROVE  /\ pc' \in [Requests -> PCs] /\ op' \in [Requests -> Ops]
         /\ todo' \in [Requests -> SUBSET Keys]
         /\ cur' \in [Requests -> Keys \union {NoKey}]
         /\ val' \in [Requests -> Nat]
         /\ got' \in [Requests -> SUBSET (Records \X Nat)]
         /\ answers' = answers \union G /\ answers' \subseteq Records \X Nat
         /\ pc'[r] = "idle" /\ got'[r] = {}
         /\ \A s \in Requests \ {r} :
              /\ pc'[s] = pc[s] /\ op'[s] = op[s] /\ todo'[s] = todo[s]
              /\ cur'[s] = cur[s] /\ val'[s] = val[s] /\ got'[s] = got[s]
  BY DEF EndCall, Goto, IInv, TypeOK, PCs, Ops, NoNumber

(* What Deliver leaves of a request: it is done, or starts on the next     *)
(* record, and gives away or keeps only what it had and the new pair.      *)
LEMMA DeliverFacts ==
  ASSUME IInv, NEW r \in Requests, pc[r] \in InTx, NEW n \in Nat, Deliver(r, n)
  PROVE  /\ pc' \in [Requests -> PCs] /\ op' \in [Requests -> Ops]
         /\ todo' \in [Requests -> SUBSET Keys]
         /\ cur' \in [Requests -> Keys \union {NoKey}]
         /\ val' \in [Requests -> Nat]
         /\ got' \in [Requests -> SUBSET (Records \X Nat)]
         /\ answers \subseteq answers'
         /\ answers' \subseteq answers \union got[r] \union {<<Target(r), n>>}
         /\ answers' \subseteq Records \X Nat
         /\ pc'[r] \in {"idle", "begin"}
         /\ got'[r] \subseteq got[r] \union {<<Target(r), n>>}
         /\ \A s \in Requests \ {r} :
              /\ pc'[s] = pc[s] /\ op'[s] = op[s] /\ todo'[s] = todo[s]
              /\ cur'[s] = cur[s] /\ val'[s] = val[s] /\ got'[s] = got[s]
  <1> DEFINE mapped == got[r] \union {<<Target(r), n>>}
             left == todo[r] \ {cur[r]}
  <1>1. mapped \in SUBSET (Records \X Nat)
    BY TargetFacts DEF IInv, TypeOK
  <1>2. answers \subseteq Records \X Nat
    BY DEF IInv, TypeOK
  <1>3. CASE EndCall(r, mapped)
    <2> HIDE DEF mapped
    <2>1. QED
      BY <1>1, <1>3, EndCallFacts DEF mapped
  <1>4. CASE left # {} /\ ~EndCall(r, mapped)
    <2> HIDE DEF mapped
    <2>1. /\ Goto(r, "begin")
          /\ todo' = [todo EXCEPT ![r] = left]
          /\ cur' = [cur EXCEPT ![r] = NoKey]
          /\ val' = [val EXCEPT ![r] = NoNumber]
          /\ got' = [got EXCEPT ![r] = mapped]
          /\ UNCHANGED <<op, answers>>
      BY <1>4 DEF Deliver, mapped
    <2>2. QED
      BY <1>1, <1>2, <2>1 DEF mapped, Goto, IInv, TypeOK, PCs, NoNumber
  <1>5. left = {} => EndCall(r, mapped)
    BY DEF Deliver
  <1>6. QED
    BY <1>3, <1>4, <1>5

(* The pattern of the steps that end a transaction without new numbers. *)
LEMMA DoneStep ==
  ASSUME IInv, NEW r \in Requests, UNCHANGED tables, TypeOK', OnlyMoves(r),
         pc'[r] \in {"idle", "begin"},
         \A a \in got'[r] : Sound(a),
         \A a \in answers' \ answers : Sound(a)
  PROVE  IInv'
  <1>1. Transaction(r)' /\ SubjectHeld(r)'
    BY DEF Transaction, SubjectHeld, InTx
  <1>2. Collected(r)'
    BY DEF Collected, Sound, tables
  <1>3. \A s \in Requests \ {r} : Transaction(s)' /\ SubjectHeld(s)' /\ Collected(s)'
    <2> SUFFICES ASSUME NEW s \in Requests \ {r}
                 PROVE  Transaction(s)' /\ SubjectHeld(s)' /\ Collected(s)'
      OBVIOUS
    <2>1. /\ pc'[s] = pc[s] /\ op'[s] = op[s] /\ todo'[s] = todo[s]
          /\ cur'[s] = cur[s] /\ val'[s] = val[s] /\ got'[s] = got[s]
          /\ counterLock = s => counterLock' = s
          /\ \A k \in Keys : subjectLock[k] = s => subjectLock'[k] = s
      BY DEF OnlyMoves
    <2>2. QED
      BY <2>1, OthersStand
  <1>4. AnswersAreDurable'
    BY DEF IInv, AnswersAreDurable, Sound, tables
  <1>5. NeverReused' /\ NumbersBelowCounter' /\ AnnouncedInOrder'
    BY DEF IInv, tables, NeverReused, NumbersBelowCounter, AnnouncedInOrder
  <1>6. QED
    BY <1>1, <1>2, <1>3, <1>4, <1>5 DEF IInv

LEMMA MapSelectStep ==
  ASSUME IInv, NEW r \in Requests, MapSelect(r)
  PROVE  IInv'
  <1> DEFINE mapped == {<<Entity(k), ids[Entity(k)]>> :
                          k \in {x \in todo[r] : ids[Entity(x)] # NoNumber}}
             left == {k \in todo[r] : ids[Entity(k)] = NoNumber}
  <1>1. \A a \in mapped : Sound(a)
    BY RecordFacts DEF IInv, TypeOK, Sound
  <1>2. mapped \in SUBSET (Records \X Nat)
    BY <1>1 DEF Sound
  <1>3. UNCHANGED <<tables, locks>>
    BY DEF MapSelect
  <1>4. EndCall(r, mapped) \/ left # {}
    BY DEF MapSelect
  <1>5. CASE left # {} /\ ~EndCall(r, mapped)
    <2> HIDE DEF mapped
    <2>1. /\ Goto(r, "begin")
          /\ todo' = [todo EXCEPT ![r] = left]
          /\ got' = [got EXCEPT ![r] = mapped]
          /\ UNCHANGED <<op, cur, val, answers>>
      BY <1>5 DEF MapSelect, mapped
    <2>2. TypeOK'
      BY <1>2, <1>3, <2>1 DEF Goto, IInv, TypeOK, tables, locks, PCs
    <2>3. OnlyMoves(r)
      BY <1>3, <2>1 DEF OnlyMoves, Goto, IInv, TypeOK, locks
    <2>4. pc'[r] = "begin" /\ got'[r] = mapped
      BY <2>1 DEF Goto, IInv, TypeOK
    <2>5. QED
      BY <1>1, <1>3, <2>1, <2>2, <2>3, <2>4, DoneStep
  <1>6. CASE EndCall(r, mapped)
    <2> HIDE DEF mapped
    <2>1. TypeOK'
      BY <1>2, <1>3, <1>6, EndCallFacts DEF IInv, TypeOK, tables, locks
    <2>2. OnlyMoves(r)
      BY <1>2, <1>3, <1>6, EndCallFacts DEF OnlyMoves, locks
    <2>3. QED
      BY <1>1, <1>2, <1>3, <1>6, <2>1, <2>2, EndCallFacts, DoneStep
  <1>7. QED
    BY <1>4, <1>5, <1>6

LEMMA ReturnStep ==
  ASSUME IInv, NEW r \in Requests, Return(r)
  PROVE  IInv'
  <1>1. pc[r] \in InTx
    BY DEF Return, InTx
  <1>2. Target(r) \in Records /\ val[r] \in Nat
    BY <1>1, TargetFacts DEF IInv, TypeOK
  <1>3. Sound(<<Target(r), val[r]>>)
    BY <1>2 DEF Return, IInv, Transaction, Sound
  <1>4. Deliver(r, val[r]) /\ ReleaseLocks(r) /\ UNCHANGED tables
    BY DEF Return
  <1>5. TypeOK'
    BY <1>1, <1>2, <1>4, DeliverFacts, ReleaseFacts DEF IInv, TypeOK, tables
  <1>6. OnlyMoves(r)
    BY <1>1, <1>2, <1>4, DeliverFacts, ReleaseFacts DEF OnlyMoves
  <1>7. /\ pc'[r] \in {"idle", "begin"}
        /\ \A a \in got'[r] : Sound(a)
        /\ \A a \in answers' \ answers : Sound(a)
    BY <1>1, <1>2, <1>3, <1>4, DeliverFacts, CollectedIsSound
  <1>8. QED
    BY <1>4, <1>5, <1>6, <1>7, DoneStep

LEMMA RereadStep ==
  ASSUME IInv, NEW r \in Requests, Reread(r)
  PROVE  IInv'
  <1>1. pc[r] \in InTx
    BY DEF Reread, InTx
  <1>2. Target(r) = Entity(cur[r]) /\ Target(r) \in Records
    BY <1>1, TargetFacts DEF Reread, IInv, Transaction, Target
  <1>3. ids[Target(r)] \in Nat
    BY <1>2 DEF IInv, TypeOK
  <1>4. Sound(<<Target(r), ids[Target(r)]>>)
    BY <1>2, <1>3 DEF Reread, IInv, Transaction, Sound
  <1>5. Deliver(r, ids[Target(r)]) /\ UNCHANGED <<tables, locks>>
    BY <1>2 DEF Reread
  <1>6. TypeOK'
    BY <1>1, <1>3, <1>5, DeliverFacts DEF IInv, TypeOK, tables, locks
  <1>7. OnlyMoves(r)
    BY <1>1, <1>3, <1>5, DeliverFacts DEF OnlyMoves, locks
  <1>8. /\ pc'[r] \in {"idle", "begin"}
        /\ \A a \in got'[r] : Sound(a)
        /\ \A a \in answers' \ answers : Sound(a)
    BY <1>1, <1>3, <1>4, <1>5, DeliverFacts, CollectedIsSound
  <1>9. QED
    BY <1>5, <1>6, <1>7, <1>8, DoneStep

LEMMA FailsStep ==
  ASSUME IInv, NEW r \in Requests, Fails(r)
  PROVE  IInv'
  <1>1. ReleaseLocks(r) /\ EndCall(r, {}) /\ UNCHANGED tables
    BY DEF Fails
  <1>2. TypeOK'
    BY <1>1, EndCallFacts, ReleaseFacts DEF IInv, TypeOK, tables
  <1>3. OnlyMoves(r)
    BY <1>1, EndCallFacts, ReleaseFacts DEF OnlyMoves
  <1>4. QED
    BY <1>1, <1>2, <1>3, EndCallFacts, DoneStep

-----------------------------------------------------------------------------
(* The commit that mints *)

(* What the transaction at its commit writes: the next number, to records  *)
(* of one key that have none, its target among them.                       *)
LEMMA ApplyFacts ==
  ASSUME IInv, NEW r \in Requests, pc[r] = "commit", Apply(r)
  PROVE  /\ cur[r] \in Keys /\ Target(r) \in Records
         /\ val[r] = counter /\ counterLock = r
         /\ Target(r) \in Writes(r)
         /\ Writes(r) \subseteq {Entity(cur[r]), Identity(cur[r])}
         /\ \A p \in Writes(r) : p \in Records /\ p.key = cur[r] /\ ids[p] = NoNumber
         /\ ids' \in [Records -> Nat] /\ counter' = counter + 1
         /\ \A p \in Records : ids'[p] = IF p \in Writes(r) THEN counter ELSE ids[p]
         /\ \A p \in Records : ids[p] # NoNumber => ids'[p] = ids[p]
  <1>1. pc[r] \in InTx
    BY DEF InTx
  <1>2. cur[r] \in Keys /\ Target(r) \in Records
    BY <1>1, TargetFacts
  <1>3. val[r] = counter /\ counterLock = r /\ ids[Target(r)] = NoNumber
    BY DEF IInv, Transaction
  <1>4. Target(r) \in Writes(r)
    BY <1>3 DEF Target, Writes
  <1>5. Writes(r) \subseteq {Entity(cur[r]), Identity(cur[r])}
    BY DEF Writes
  <1>6. \A p \in Writes(r) : p \in Records /\ p.key = cur[r] /\ ids[p] = NoNumber
    BY <1>2, <1>5, RecordFacts DEF Writes
  <1>7. counter \in Nat /\ ids \in [Records -> Nat]
    BY DEF IInv, TypeOK
  <1>8. /\ ids' \in [Records -> Nat] /\ counter' = counter + 1
        /\ \A p \in Records : ids'[p] = IF p \in Writes(r) THEN counter ELSE ids[p]
    BY <1>3, <1>7 DEF Apply
  <1>9. QED
    BY <1>2, <1>3, <1>4, <1>5, <1>6, <1>8

(* What a commit does to the tables' own invariants. *)
LEMMA MintedTables ==
  ASSUME IInv, NEW r \in Requests, pc[r] = "commit", Apply(r),
         events' = Append(events, val[r])
  PROVE  NeverReused' /\ NumbersBelowCounter' /\ AnnouncedInOrder'
         /\ events' \in Seq(Nat) /\ counter' \in Nat \ {0}
  <1>1. counter \in Nat \ {0} /\ ids \in [Records -> Nat] /\ events \in Seq(Nat)
    BY DEF IInv, TypeOK
  <1>2. \A p \in Records : ids[p] < counter
    BY DEF IInv, NumbersBelowCounter
  <1>3. NeverReused'
    <2> SUFFICES ASSUME NEW p \in Records, NEW q \in Records,
                        ids'[p] = ids'[q], ids'[p] # NoNumber
                 PROVE  p.key = q.key
      BY DEF NeverReused
    <2>1. CASE p \in Writes(r)
      BY <1>1, <1>2, <2>1, ApplyFacts
    <2>2. CASE q \in Writes(r)
      BY <1>1, <1>2, <2>2, ApplyFacts
    <2>3. CASE p \notin Writes(r) /\ q \notin Writes(r)
      BY <2>3, ApplyFacts DEF IInv, NeverReused
    <2>4. QED
      BY <2>1, <2>2, <2>3
  <1>4. NumbersBelowCounter'
    BY <1>1, <1>2, ApplyFacts DEF NumbersBelowCounter
  <1>5. AnnouncedInOrder'
    <2>1. /\ Len(events) = counter - 1
          /\ \A i \in 1..Len(events) : events[i] = i /\ \E p \in Records : ids[p] = i
      BY DEF IInv, AnnouncedInOrder
    <2>2. val[r] = counter
      BY ApplyFacts
    <2>3. /\ Len(events') = counter
          /\ \A i \in 1..Len(events) : events'[i] = events[i]
          /\ events'[counter] = counter
      BY <1>1, <2>1, <2>2
    <2>4. \A i \in 1..Len(events) : \E p \in Records : ids'[p] = i
      <3> SUFFICES ASSUME NEW i \in 1..Len(events)
                   PROVE  \E p \in Records : ids'[p] = i
        OBVIOUS
      <3>1. PICK p \in Records : ids[p] = i
        BY <2>1
      <3>2. ids'[p] = i
        BY <3>1, ApplyFacts DEF NoNumber
      <3>3. QED
        BY <3>2
    <2>5. \E p \in Records : ids'[p] = counter
      BY ApplyFacts
    <2>6. counter' = counter + 1
      BY ApplyFacts
    <2>7. \A i \in 1..counter : i \in 1..Len(events) \/ i = counter
      BY <1>1, <2>1
    <2>8. QED
      BY <1>1, <2>1, <2>3, <2>4, <2>5, <2>6, <2>7 DEF AnnouncedInOrder
  <1>6. events' \in Seq(Nat) /\ counter' \in Nat \ {0}
    BY <1>1, ApplyFacts
  <1>7. QED
    BY <1>3, <1>4, <1>5, <1>6

(* Another request's knowledge survives a commit: the committer alone held *)
(* the counter row, and the subject's lock if it named an identity.        *)
LEMMA OthersSurviveCommit ==
  ASSUME IInv, NEW r \in Requests, pc[r] = "commit", Apply(r), OnlyMoves(r),
         NEW s \in Requests \ {r}
  PROVE  Transaction(s)' /\ SubjectHeld(s)' /\ Collected(s)'
  <1>1. /\ pc'[s] = pc[s] /\ op'[s] = op[s] /\ todo'[s] = todo[s]
        /\ cur'[s] = cur[s] /\ val'[s] = val[s] /\ got'[s] = got[s]
        /\ counterLock = s => counterLock' = s
        /\ \A k \in Keys : subjectLock[k] = s => subjectLock'[k] = s
    BY DEF OnlyMoves
  <1>2. pc[s] \notin {"insert", "event", "commit"}
    BY ApplyFacts DEF IInv, Transaction
  <1>3. Target(s)' = Target(s) /\ Entity(cur[s])' = Entity(cur[s])
    BY <1>1 DEF Target, Entity, Identity
  <1>4. pc[s] \in InTx => /\ cur[s] \in Keys /\ Target(s) \in Records
                          /\ Entity(cur[s]) \in Records
    BY TargetFacts, RecordFacts
  <1>5. Transaction(s)'
    BY <1>1, <1>2, <1>3, <1>4, ApplyFacts DEF IInv, Transaction, InTx
  <1>6. SubjectHeld(s)'
    <2> SUFFICES ASSUME op[s] = "identity"
                 PROVE  /\ pc[s] \in InTx \ {"locking"} => subjectLock'[cur[s]] = s
                        /\ pc[s] \in {"counter", "insert"} => ids'[Target(s)] = NoNumber
      BY <1>1, <1>3 DEF SubjectHeld
    <2>1. pc[s] \in InTx \ {"locking"} => subjectLock'[cur[s]] = s
      BY <1>1, <1>4 DEF IInv, SubjectHeld
    <2>2. ASSUME pc[s] = "counter" PROVE ids'[Target(s)] = NoNumber
      <3>1. pc[s] \in InTx /\ Target(s) = Identity(cur[s]) /\ ids[Target(s)] = NoNumber
            /\ subjectLock[cur[s]] = s
        BY <2>2 DEF InTx, Target, IInv, SubjectHeld
      <3>2. Target(s) \notin Writes(r)
        <4> SUFFICES ASSUME Target(s) \in Writes(r) PROVE FALSE
          OBVIOUS
        <4>1. cur[s] = cur[r] /\ op[r] = "identity"
          BY <1>4, <3>1, ApplyFacts, RecordFacts DEF Writes
        <4>2. subjectLock[cur[r]] = r
          BY <4>1 DEF IInv, SubjectHeld, InTx
        <4>3. QED
          BY <3>1, <4>1, <4>2
      <3>3. QED
        BY <1>4, <3>1, <3>2, ApplyFacts
    <2>3. QED
      BY <1>2, <2>1, <2>2
  <1>7. Collected(s)'
    <2>1. \A a \in got[s] : a[1] \in Records
      BY DEF IInv, TypeOK
    <2>2. QED
      BY <1>1, <2>1, ApplyFacts DEF IInv, Collected
  <1>8. QED
    BY <1>5, <1>6, <1>7

(* The commit and the commit whose acknowledgement is lost: the request    *)
(* is done or goes on, and gives away only pairs that hold afterwards.     *)
LEMMA MintStep ==
  ASSUME IInv, NEW r \in Requests, pc[r] = "commit", Apply(r),
         events' = Append(events, val[r]), ReleaseLocks(r),
         Deliver(r, val[r]) \/ EndCall(r, {})
  PROVE  IInv'
  <1>1. pc[r] \in InTx /\ val[r] \in Nat
    BY DEF InTx, IInv, TypeOK
  <1>2. /\ pc' \in [Requests -> PCs] /\ op' \in [Requests -> Ops]
        /\ todo' \in [Requests -> SUBSET Keys]
        /\ cur' \in [Requests -> Keys \union {NoKey}]
        /\ val' \in [Requests -> Nat]
        /\ got' \in [Requests -> SUBSET (Records \X Nat)]
        /\ answers' \subseteq Records \X Nat
        /\ answers' \subseteq answers \union got[r] \union {<<Target(r), val[r]>>}
        /\ pc'[r] \in {"idle", "begin"}
        /\ got'[r] \subseteq got[r] \union {<<Target(r), val[r]>>}
        /\ \A s \in Requests \ {r} :
             /\ pc'[s] = pc[s] /\ op'[s] = op[s] /\ todo'[s] = todo[s]
             /\ cur'[s] = cur[s] /\ val'[s] = val[s] /\ got'[s] = got[s]
    <2>1. CASE Deliver(r, val[r])
      BY <1>1, <2>1, DeliverFacts
    <2>2. CASE EndCall(r, {})
      BY <2>2, EndCallFacts
    <2>3. QED
      BY <2>1, <2>2
  <1>3. TypeOK'
    BY <1>2, ApplyFacts, MintedTables, ReleaseFacts DEF TypeOK
  <1>4. OnlyMoves(r)
    BY <1>2, ReleaseFacts DEF OnlyMoves
  <1>5. ids'[Target(r)] = val[r] /\ val[r] # NoNumber
    BY ApplyFacts DEF IInv, TypeOK, NoNumber
  <1>6. \A a \in answers \union got[r] : ids'[a[1]] = a[2] /\ a[2] # NoNumber
    BY ApplyFacts DEF IInv, TypeOK, Collected, AnswersAreDurable
  <1>7. Collected(r)' /\ AnswersAreDurable'
    BY <1>2, <1>5, <1>6 DEF Collected, AnswersAreDurable
  <1>8. Transaction(r)' /\ SubjectHeld(r)'
    BY <1>2 DEF Transaction, SubjectHeld, InTx
  <1>9. QED
    BY <1>3, <1>4, <1>7, <1>8, OthersSurviveCommit, MintedTables DEF IInv

LEMMA UnchangedStep ==
  ASSUME IInv, UNCHANGED vars
  PROVE  IInv'
  <1>1. TypeOK'
    BY DEF vars, tables, locks, request, IInv, TypeOK
  <1>2. \A s \in Requests : Transaction(s)' /\ SubjectHeld(s)' /\ Collected(s)'
    BY OthersStand DEF vars, tables, locks, request
  <1>3. QED
    BY <1>1, <1>2, TablesStand DEF vars, IInv

(* The invariant holds in every reachable state. *)
THEOREM Invariance == Spec => []IInv
  <1>1. IInv /\ [Next]_vars => IInv'
    <2> SUFFICES ASSUME IInv, [Next]_vars PROVE IInv'
      OBVIOUS
    <2>1. CASE UNCHANGED vars
      BY <2>1, UnchangedStep
    <2>2. ASSUME NEW r \in Requests, Call(r) \/ Proceed(r) \/ Fails(r) \/ CommitUnknown(r)
          PROVE  IInv'
      <3>1. CASE Commit(r)
        BY <3>1, MintStep DEF Commit
      <3>2. CASE CommitUnknown(r)
        BY <3>2, MintStep DEF CommitUnknown
      <3>3. QED
        BY <2>2, <3>1, <3>2, CallStep, MapSelectStep, BeginStep, LockSubjectStep,
           SelectStep, TakeNumberStep, InsertStep, QueueEventStep, ReturnStep,
           RereadStep, FailsStep DEF Proceed
    <2>3. QED
      BY <2>1, <2>2 DEF Next
  <1>2. QED
    BY <1>1, InitIInv, PTL DEF Spec

THEOREM TypeCorrect == Spec => []TypeOK
  <1>1. IInv => TypeOK
    BY DEF IInv
  <1>2. QED
    BY <1>1, Invariance, PTL

(* Whatever race a caller won or lost, the identifier it was given is the  *)
(* record's.                                                               *)
THEOREM AnswersHold == Spec => []AnswersAreDurable
  <1>1. IInv => AnswersAreDurable
    BY DEF IInv
  <1>2. QED
    BY <1>1, Invariance, PTL

(* No identifier names two source records. *)
THEOREM IdentifiersAreUnique == Spec => []NeverReused
  <1>1. IInv => NeverReused
    BY DEF IInv
  <1>2. QED
    BY <1>1, Invariance, PTL

(* Allocations are announced once each, in order and with no gap. *)
THEOREM AnnouncementsAreExact == Spec => []AnnouncedInOrder
  <1>1. IInv => AnnouncedInOrder
    BY DEF IInv
  <1>2. QED
    BY <1>1, Invariance, PTL

-----------------------------------------------------------------------------
(* Who waits for whom *)

(* The places of a transaction that may hold its subject, or the counter. *)
HoldsSubject == {"select", "counter", "insert", "event", "commit", "return"}
HoldsCounter == {"insert", "event", "commit"}

(* A step of one request gives no lock to another. *)
LEMMA LocksHeldStep ==
  ASSUME IInv, LocksHeld, NEW r \in Requests,
         Call(r) \/ Proceed(r) \/ Fails(r) \/ CommitUnknown(r)
  PROVE  LocksHeld'
  <1> USE DEF Goto, locks
  <1>1. /\ pc \in [Requests -> PCs] /\ r # NoRequest
        /\ counterLock \in Requests \union {NoRequest}
        /\ subjectLock \in [Keys -> Requests \union {NoRequest}]
    BY NobodyAssumption DEF IInv, TypeOK
  <1>2. /\ counterLock # NoRequest => pc[counterLock] \in HoldsCounter
        /\ \A k \in Keys : subjectLock[k] # NoRequest => pc[subjectLock[k]] \in HoldsSubject
    BY DEF LocksHeld, HoldsSubject, HoldsCounter
  <1>3. ASSUME NEW p, pc' = [pc EXCEPT ![r] = p], UNCHANGED locks,
               pc[r] \in HoldsCounter => p \in HoldsCounter,
               pc[r] \in HoldsSubject => p \in HoldsSubject
        PROVE  LocksHeld'
    <2>1. \A s \in Requests : pc'[s] = IF s = r THEN p ELSE pc[s]
      BY <1>1, <1>3
    <2>2. QED
      BY <1>1, <1>2, <1>3, <2>1 DEF LocksHeld, HoldsSubject, HoldsCounter
  <1>4. ASSUME NEW p, pc' = [pc EXCEPT ![r] = p], ReleaseLocks(r)
        PROVE  LocksHeld'
    <2>1. \A s \in Requests \ {r} : pc'[s] = pc[s]
      BY <1>1, <1>4
    <2>2. counterLock' # NoRequest => counterLock' = counterLock /\ counterLock # r
      BY <1>1, <1>4 DEF ReleaseLocks
    <2>3. \A k \in Keys : subjectLock'[k] # NoRequest =>
             subjectLock'[k] = subjectLock[k] /\ subjectLock[k] # r
      BY <1>1, <1>4 DEF ReleaseLocks
    <2>4. QED
      BY <1>1, <1>2, <2>1, <2>2, <2>3 DEF LocksHeld, HoldsSubject, HoldsCounter
  <1>5. CASE Call(r) \/ MapSelect(r) \/ Begin(r) \/ Reread(r)
    <2>1. PICK p : pc' = [pc EXCEPT ![r] = p] /\ UNCHANGED locks
      BY <1>5 DEF Call, MapSelect, Begin, Reread, Deliver, EndCall
    <2>2. pc[r] \in {"idle", "page", "begin", "lost"}
      BY <1>5 DEF Call, MapSelect, Begin, Reread
    <2>3. QED
      BY <1>3, <2>1, <2>2 DEF HoldsSubject, HoldsCounter
  <1>6. CASE LockSubject(r)
    <2>1. pc[r] = "locking" /\ cur[r] \in Keys
      BY <1>6 DEF LockSubject, IInv, TypeOK, Transaction, InTx
    <2>2. /\ pc'[r] = "select" /\ counterLock' = counterLock
          /\ \A s \in Requests \ {r} : pc'[s] = pc[s]
          /\ \A k \in Keys : subjectLock'[k] = IF k = cur[r] THEN r ELSE subjectLock[k]
      BY <1>1, <1>6 DEF LockSubject
    <2>3. QED
      BY <1>1, <1>2, <2>1, <2>2 DEF LocksHeld, HoldsSubject, HoldsCounter
  <1>7. CASE Select(r)
    <2>1. PICK p \in {"counter", "return"} : pc' = [pc EXCEPT ![r] = p]
      BY <1>7 DEF Select
    <2>2. pc[r] = "select" /\ UNCHANGED locks
      BY <1>7 DEF Select
    <2>3. QED
      BY <1>3, <2>1, <2>2 DEF HoldsSubject, HoldsCounter
  <1>8. CASE TakeNumber(r)
    <2>1. /\ pc[r] = "counter" /\ pc'[r] = "insert"
          /\ counterLock' = r /\ subjectLock' = subjectLock
          /\ \A s \in Requests \ {r} : pc'[s] = pc[s]
      BY <1>1, <1>8 DEF TakeNumber
    <2>2. QED
      BY <1>1, <1>2, <2>1 DEF LocksHeld, HoldsSubject, HoldsCounter
  <1>9. CASE Insert(r)
    <2>1. pc[r] = "insert"
      BY <1>9 DEF Insert
    <2>2. CASE pc' = [pc EXCEPT ![r] = "lost"] /\ ReleaseLocks(r)
      BY <1>4, <2>2
    <2>3. CASE pc' = [pc EXCEPT ![r] = "event"] /\ UNCHANGED locks
      BY <1>3, <2>1, <2>3 DEF HoldsSubject, HoldsCounter
    <2>4. QED
      BY <1>9, <2>2, <2>3 DEF Insert
  <1>10. CASE QueueEvent(r)
    BY <1>3, <1>10 DEF QueueEvent, HoldsSubject, HoldsCounter
  <1>11. CASE Commit(r) \/ CommitUnknown(r) \/ Return(r) \/ Fails(r)
    BY <1>4, <1>11 DEF Commit, CommitUnknown, Return, Fails, Deliver, EndCall
  <1>12. QED
    BY <1>5, <1>6, <1>7, <1>8, <1>9, <1>10, <1>11 DEF Proceed

(* Nobody who holds the counter row waits; so nobody waits for ever for    *)
(* it, nor for a subject, and what remains is to wait for connections.     *)
LEMMA WaitsForConnections ==
  ASSUME IInv, LocksHeld, NEW S \in SUBSET Requests, Deadlocked(S)
  PROVE  \A s \in S : pc[s] \in {"page", "begin", "lost"} /\ Holders(CoreOf[s]) \subseteq S
  <1>1. \A s \in S : pc[s] \in {"page", "begin", "lost", "locking", "counter"}
    BY DEF Deadlocked, Blockers
  <1>2. \A s \in S : pc[s] # "counter"
    <2> SUFFICES ASSUME NEW s \in S, pc[s] = "counter" PROVE FALSE
      OBVIOUS
    <2>1. Blockers(s) = {counterLock} \ {NoRequest}
      BY DEF Blockers
    <2>2. counterLock # NoRequest /\ counterLock \in S
      BY <2>1 DEF Deadlocked
    <2>3. QED
      BY <1>1, <2>2 DEF LocksHeld
  <1>3. \A s \in S : pc[s] # "locking"
    <2> SUFFICES ASSUME NEW s \in S, pc[s] = "locking" PROVE FALSE
      OBVIOUS
    <2>1. Blockers(s) = {subjectLock[cur[s]]} \ {NoRequest}
      BY DEF Blockers
    <2>2. subjectLock[cur[s]] # NoRequest /\ subjectLock[cur[s]] \in S
      BY <2>1 DEF Deadlocked
    <2>3. cur[s] \in Keys
      BY TargetFacts DEF InTx
    <2>4. QED
      BY <1>1, <1>2, <2>2, <2>3 DEF LocksHeld
  <1>4. ASSUME NEW s \in S
        PROVE  Holders(CoreOf[s]) \subseteq S
    <2>1. pc[s] \in {"page", "begin", "lost"} /\ Blockers(s) # {} /\ Blockers(s) \subseteq S
      BY <1>1, <1>2, <1>3 DEF Deadlocked
    <2>2. Blockers(s) = Holders(CoreOf[s])
      BY <2>1 DEF Blockers
    <2>3. QED
      BY <2>1, <2>2
  <1>5. QED
    BY <1>1, <1>2, <1>3, <1>4

(* Whatever requests wait for one another, in however many Cores with      *)
(* pools of whatever size: they wait for connections of a Core that has    *)
(* given all it has to callers that lost their race.  The code is          *)
(* CreateGlobalEntity's way of taking and giving up locks (db.go:362-427). *)
THEOREM WaitsAreConfined == Spec => []OnlyLosersStandStill
  <1>1. Init => LocksHeld
    BY DEF Init, LocksHeld
  <1>2. IInv /\ LocksHeld /\ [Next]_vars => LocksHeld'
    <2> SUFFICES ASSUME IInv, LocksHeld, [Next]_vars PROVE LocksHeld'
      OBVIOUS
    <2>1. CASE UNCHANGED vars
      BY <2>1 DEF vars, locks, request, LocksHeld
    <2>2. CASE Next
      BY <2>2, LocksHeldStep DEF Next
    <2>3. QED
      BY <2>1, <2>2
  <1>3. IInv /\ LocksHeld => OnlyLosersStandStill
    <2> SUFFICES ASSUME IInv, LocksHeld, NEW S \in SUBSET Requests, Deadlocked(S),
                        NEW r \in S, NEW h \in Holders(CoreOf[r])
                 PROVE  pc[h] = "lost"
      BY DEF OnlyLosersStandStill
    <2>1. h \in S /\ pc[h] \in {"page", "begin", "lost"}
      BY WaitsForConnections
    <2>2. pc[h] \in InTx
      BY DEF Holders
    <2>3. QED
      BY <2>1, <2>2 DEF InTx
  <1>4. QED
    BY <1>1, <1>2, <1>3, Invariance, PTL DEF Spec

-----------------------------------------------------------------------------
(* The implementation of the contract *)

(* Nothing is minted outside a commit, and no answer is taken back. *)
LEMMA StepTables ==
  ASSUME IInv, NEW r \in Requests,
         Call(r) \/ Proceed(r) \/ Fails(r) \/ CommitUnknown(r)
  PROVE  /\ answers \subseteq answers'
         /\ ~Commit(r) /\ ~CommitUnknown(r) => UNCHANGED <<ids, events>>
  BY DEF Call, Proceed, MapSelect, Begin, LockSubject, Select, TakeNumber, Insert,
     QueueEvent, Commit, Return, Reread, Fails, CommitUnknown, Deliver, EndCall, tables

(* A commit is the contract's Mint: the next number, which nothing has, to *)
(* the records of one key that it writes.                                  *)
LEMMA CommitMints ==
  ASSUME IInv, NEW r \in Requests, pc[r] = "commit", Apply(r),
         events' = Append(events, val[r])
  PROVE  Directory!Mint
  <1> DEFINE Announced == {events[i] : i \in 1..Len(events)}
  <1> DEFINE T == {t \in {"entity", "identity"} : [table |-> t, key |-> cur[r]] \in Writes(r)}
  <1>1. counter \in Nat \ {0} /\ ids \in [Records -> Nat] /\ events \in Seq(Nat)
    BY DEF IInv, TypeOK
  <1>2. Len(events) = counter - 1 /\ val[r] = counter
    BY ApplyFacts DEF IInv, AnnouncedInOrder
  <1>3. \A i \in 1..Len(events) : events[i] = i
    BY DEF IInv, AnnouncedInOrder
  <1>4. /\ Len(events') = counter /\ events'[counter] = counter
        /\ \A i \in 1..Len(events) : events'[i] = events[i]
    BY <1>1, <1>2
  <1>5. Announced' = Announced \union {counter} /\ counter \notin Announced
    BY <1>1, <1>2, <1>3, <1>4
  <1>6. counter \in Announced' \ Announced
    BY <1>5
  <1>7. counter \notin {NoNumber} \union {ids[p] : p \in Records}
    BY <1>1 DEF IInv, NumbersBelowCounter, NoNumber
  <1>8. cur[r] \in Keys /\ T \in SUBSET {"entity", "identity"}
    BY ApplyFacts
  <1>9. T # {}
    BY ApplyFacts DEF Entity, Identity
  <1>10. \A t \in T : ids[[table |-> t, key |-> cur[r]]] = NoNumber
    BY ApplyFacts
  <1>11. \A p \in Records : p \in Writes(r) <=> p.key = cur[r] /\ p.table \in T
    <2> SUFFICES ASSUME NEW p \in Records
                 PROVE  p \in Writes(r) <=> p.key = cur[r] /\ p.table \in T
      OBVIOUS
    <2>1. p.key \in Keys /\ p.table \in {"entity", "identity"}
          /\ p = [table |-> p.table, key |-> p.key]
      BY DEF Records
    <2>2. p \in Writes(r) => p.key = cur[r]
      BY ApplyFacts
    <2>3. QED
      BY <2>1, <2>2
  <1>12. ids' = [p \in Records |->
                  IF p.key = cur[r] /\ p.table \in T THEN counter ELSE ids[p]]
    <2> HIDE DEF T
    <2>1. QED
      BY <1>2, <1>11 DEF Apply
  <1>13. Directory!Records = Records /\ Directory!NoNumber = NoNumber
    BY DEF Records, Directory!Records, NoNumber, Directory!NoNumber
  <1> HIDE DEF T, Announced
  <1>14. \E k \in Keys : \E S \in SUBSET {"entity", "identity"} :
           /\ S # {}
           /\ \A t \in S : ids[[table |-> t, key |-> k]] = NoNumber
           /\ ids' = [p \in Records |->
                        IF p.key = k /\ p.table \in S THEN counter ELSE ids[p]]
    BY <1>8, <1>9, <1>10, <1>12
  <1>15. /\ counter \in Announced' \ Announced
         /\ counter \notin {Directory!NoNumber} \union {ids[p] : p \in Directory!Records}
         /\ Announced' = Announced \union {counter}
         /\ \E k \in Keys : \E S \in SUBSET {"entity", "identity"} :
              /\ S # {}
              /\ \A t \in S : ids[[table |-> t, key |-> k]] = Directory!NoNumber
              /\ ids' = [p \in Directory!Records |->
                           IF p.key = k /\ p.table \in S THEN counter ELSE ids[p]]
    BY <1>5, <1>6, <1>7, <1>13, <1>14
  <1> DEFINE Minted(n) ==
        /\ n \notin {Directory!NoNumber} \union {ids[p] : p \in Directory!Records}
        /\ Announced' = Announced \union {n}
        /\ \E k \in Keys : \E S \in SUBSET {"entity", "identity"} :
             /\ S # {}
             /\ \A t \in S : ids[[table |-> t, key |-> k]] = Directory!NoNumber
             /\ ids' = [p \in Directory!Records |->
                          IF p.key = k /\ p.table \in S THEN n ELSE ids[p]]
  <1>16. Minted(counter)
    BY <1>15
  <1> HIDE DEF Minted
  <1>17. \E n \in Announced' \ Announced : Minted(n)
    BY <1>6, <1>16
  <1>18. QED
    BY <1>17 DEF Directory!Mint, Minted, Announced

(* The transactions, locks and races together give callers the atomic      *)
(* directory of docs/GLOBAL-IDS.md.                                        *)
THEOREM Implementation == Spec => ImplementsDirectory
  <1>1. Init => Directory!Init
    <2> SUFFICES ASSUME Init PROVE Directory!Init
      OBVIOUS
    <2>1. {events[i] : i \in 1..Len(events)} = {}
      BY DEF Init
    <2>2. QED
      BY <2>1 DEF Init, Directory!Init, Records, Directory!Records, NoNumber,
         Directory!NoNumber
  <1>2. IInv /\ IInv' /\ [Next]_vars => [Directory!Next]_Directory!directoryVars
    <2> SUFFICES ASSUME IInv, IInv', [Next]_vars
                 PROVE  [Directory!Next]_Directory!directoryVars
      OBVIOUS
    <2>1. CASE UNCHANGED vars
      BY <2>1 DEF vars, tables, Directory!directoryVars
    <2>2. ASSUME NEW r \in Requests, Call(r) \/ Proceed(r) \/ Fails(r) \/ CommitUnknown(r)
          PROVE  Directory!Next
      <3>1. Directory!Answer
        <4>1. \A a \in answers' : a[1] \in Records /\ ids'[a[1]] # NoNumber
                                  /\ ids'[a[1]] = a[2]
          BY DEF IInv, TypeOK, AnswersAreDurable
        <4>2. answers \subseteq answers'
          BY <2>2, StepTables
        <4>3. QED
          BY <4>1, <4>2 DEF Directory!Answer, Records, Directory!Records, NoNumber,
             Directory!NoNumber
      <3>2. CASE Commit(r) \/ CommitUnknown(r)
        <4>1. Directory!Mint
          BY <3>2, CommitMints DEF Commit, CommitUnknown
        <4>2. QED
          BY <3>1, <4>1 DEF Directory!Next
      <3>3. CASE ~Commit(r) /\ ~CommitUnknown(r)
        <4>1. UNCHANGED <<ids, events>>
          BY <2>2, <3>3, StepTables
        <4>2. QED
          BY <3>1, <4>1 DEF Directory!Next
      <3>4. QED
        BY <3>2, <3>3
    <2>3. QED
      BY <2>1, <2>2 DEF Next
  <1>3. QED
    BY <1>1, <1>2, Invariance, PTL DEF Spec, ImplementsDirectory, Directory!Spec
=============================================================================
