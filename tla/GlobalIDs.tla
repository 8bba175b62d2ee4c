------------------------------ MODULE GlobalIDs ------------------------------
(***************************************************************************)
(* Allocation of Global IDs in PostgreSQL: CreateGlobalEntity and          *)
(* MapGlobalIDs (internal/platformdb/db.go), EnsureIdentity (identity.go)  *)
(* and EnsureServiceIdentity (service_identity.go).                        *)
(*                                                                         *)
(* Requests of several core processes run their transactions statement by  *)
(* statement at READ COMMITTED: a SELECT sees what is committed, the       *)
(* UPDATE of the counter row holds it until the transaction ends, and what *)
(* a transaction wrote takes effect at its commit.  Every process has its  *)
(* own connection pool; a transaction holds a connection, and a request    *)
(* that lost the race on the unique constraint asks for a second one.      *)
(*                                                                         *)
(* Abstractions.  One entity type: the counters of two types never meet.   *)
(* fmt.Sprintf("%s-%06d") is injective on the counter values of one type,  *)
(* so an identifier is its number.  Profile columns (name, groups,         *)
(* metadata, tenant) are left out.  EnsureIdentity and                     *)
(* EnsureServiceIdentity are the same steps on different tables, so one    *)
(* operation stands for both.                                              *)
(***************************************************************************)
EXTENDS Integers, Sequences, FiniteSets

CONSTANTS
  Requests,  \* concurrent requests
  Cores,     \* core processes that share the database
  CoreOf,    \* the process each request is served by
  Keys,      \* source records (OIDC subjects, for EnsureIdentity)
  Calls,     \* bound: what is asked for, operations with their keys
  PoolSize,  \* DATABASE_MAX_CONNS of every process
  NoRequest, \* nobody holds the lock
  NoKey      \* the request runs no transaction

ASSUME RequestsAssumption == IsFiniteSet(Requests)
ASSUME CoreOfAssumption == CoreOf \in [Requests -> Cores]
ASSUME PoolSizeAssumption == PoolSize \in Nat \ {0}
ASSUME NobodyAssumption == NoRequest \notin Requests /\ NoKey \notin Keys

NoNumber == 0

VARIABLES
  ids,          \* rows of global_entities and identities: each record's number
  counter,      \* global_id_counters.next_value
  counterLock,  \* the transaction that holds the counter row
  subjectLock,  \* the holder of each subject's advisory lock
  events,       \* numbers announced in outbox_events, in the order of its rows
  pc,           \* where each request is
  op,           \* the operation it runs
  todo,         \* keys it still has to map
  cur,          \* the key of the transaction it runs
  val,          \* the number that transaction read or took
  got,          \* the <<record, number>> pairs it collected
  answers       \* all pairs ever returned to a caller

tables == <<ids, counter, events>>
locks == <<counterLock, subjectLock>>
request == <<pc, op, todo, cur, val, got>>
vars == <<tables, locks, request, answers>>

Records == [table : {"entity", "identity"}, key : Keys]
Ops == {"create", "map", "identity"}
InTx == {"locking", "select", "counter", "insert", "event", "commit",
         "return", "lost"}
PCs == InTx \union {"idle", "page", "begin"}

ASSUME CallsAssumption ==
  /\ Calls \subseteq [op : Ops, keys : SUBSET Keys]
  /\ \A call \in Calls :
       call.keys # {} /\ (call.op # "map" => \E k \in Keys : call.keys = {k})

Entity(k) == [table |-> "entity", key |-> k]
Identity(k) == [table |-> "identity", key |-> k]

(* The record the transaction of r looks up. *)
Target(r) == IF op[r] = "identity" THEN Identity(cur[r]) ELSE Entity(cur[r])

Init ==
  /\ ids = [p \in Records |-> NoNumber]
  /\ counter = 1
  /\ counterLock = NoRequest
  /\ subjectLock = [k \in Keys |-> NoRequest]
  /\ events = <<>>
  /\ pc = [r \in Requests |-> "idle"]
  /\ op = [r \in Requests |-> "create"]
  /\ todo = [r \in Requests |-> {}]
  /\ cur = [r \in Requests |-> NoKey]
  /\ val = [r \in Requests |-> NoNumber]
  /\ got = [r \in Requests |-> {}]
  /\ answers = {}

-----------------------------------------------------------------------------
(* Connections, locks, and the end of a transaction *)

(* The connections of core c in use. *)
Holders(c) == {r \in Requests : CoreOf[r] = c /\ pc[r] \in InTx}

(* pgxpool.Acquire: a request waits while every connection is in use, for  *)
(* as long as its context lives; ConnectTimeout bounds only the dialling.  *)
FreeConn(r) == Cardinality(Holders(CoreOf[r])) < PoolSize

Goto(r, p) == pc' = [pc EXCEPT ![r] = p]

ReleaseLocks(r) ==
  /\ counterLock' = IF counterLock = r THEN NoRequest ELSE counterLock
  /\ subjectLock' = [k \in Keys |->
                       IF subjectLock[k] = r THEN NoRequest ELSE subjectLock[k]]

(* The request is over; what it collected goes to its caller, or not. *)
EndCall(r, given) ==
  /\ Goto(r, "idle")
  /\ op' = [op EXCEPT ![r] = "create"]
  /\ todo' = [todo EXCEPT ![r] = {}]
  /\ cur' = [cur EXCEPT ![r] = NoKey]
  /\ val' = [val EXCEPT ![r] = NoNumber]
  /\ got' = [got EXCEPT ![r] = {}]
  /\ answers' = answers \union given

(* The transaction of r yields number n: the loop of MapGlobalIDs goes on  *)
(* to the next record, the other operations have their answer.             *)
Deliver(r, n) ==
  LET mapped == got[r] \union {<<Target(r), n>>}
      left == todo[r] \ {cur[r]}
  IN  \/ left = {} /\ EndCall(r, mapped)
      \/ /\ left # {}
         /\ Goto(r, "begin")
         /\ todo' = [todo EXCEPT ![r] = left]
         /\ cur' = [cur EXCEPT ![r] = NoKey]
         /\ val' = [val EXCEPT ![r] = NoNumber]
         /\ got' = [got EXCEPT ![r] = mapped]
         /\ UNCHANGED <<op, answers>>

(* The rows the transaction of r writes: EnsureIdentity adds the mapping   *)
(* in global_entities unless one exists (ON CONFLICT DO NOTHING), and its  *)
(* upsert never changes an identity's number.                              *)
Writes(r) ==
  {p \in IF op[r] = "identity" THEN {Identity(cur[r]), Entity(cur[r])}
                               ELSE {Entity(cur[r])} : ids[p] = NoNumber}

(* Variant: the counter is stored with the number it returned. *)
ApplyStoresPrevious(r) ==
  /\ ids' = [p \in Records |-> IF p \in Writes(r) THEN val[r] ELSE ids[p]]
  /\ counter' = counter - 1

Apply(r) ==
  /\ ids' = [p \in Records |-> IF p \in Writes(r) THEN val[r] ELSE ids[p]]
  /\ counter' = counter + 1

-----------------------------------------------------------------------------
(* The operations *)

(* A handler asks for one record, a page of records, or an identity. *)
Call(r) ==
  /\ pc[r] = "idle"
  /\ \E call \in Calls :
       /\ Goto(r, IF call.op = "map" THEN "page" ELSE "begin")
       /\ op' = [op EXCEPT ![r] = call.op]
       /\ todo' = [todo EXCEPT ![r] = call.keys]
  /\ UNCHANGED <<tables, locks, cur, val, got, answers>>

(* MapGlobalIDs reads what is mapped already in one statement. *)
MapSelect(r) ==
  LET mapped == {<<Entity(k), ids[Entity(k)]>> :
                   k \in {x \in todo[r] : ids[Entity(x)] # NoNumber}}
      left == {k \in todo[r] : ids[Entity(k)] = NoNumber}
  IN  /\ pc[r] = "page"
      /\ FreeConn(r)
      /\ \/ left = {} /\ EndCall(r, mapped)
         \/ /\ left # {}
            /\ Goto(r, "begin")
            /\ todo' = [todo EXCEPT ![r] = left]
            /\ got' = [got EXCEPT ![r] = mapped]
            /\ UNCHANGED <<op, cur, val, answers>>
      /\ UNCHANGED <<tables, locks>>

Begin(r) ==
  /\ pc[r] = "begin"
  /\ FreeConn(r)
  /\ \E k \in todo[r] : cur' = [cur EXCEPT ![r] = k]
  /\ Goto(r, IF op[r] = "identity" THEN "locking" ELSE "select")
  /\ UNCHANGED <<tables, locks, op, todo, val, got, answers>>

(* Variant: first sightings of one subject are not serialized. *)
LockSubjectSkipped(r) ==
  /\ pc[r] = "locking"
  /\ Goto(r, "select")
  /\ UNCHANGED <<tables, locks, op, todo, cur, val, got, answers>>

LockSubject(r) ==
  /\ pc[r] = "locking"
  /\ subjectLock[cur[r]] = NoRequest
  /\ subjectLock' = [subjectLock EXCEPT ![cur[r]] = r]
  /\ Goto(r, "select")
  /\ UNCHANGED <<tables, counterLock, op, todo, cur, val, got, answers>>

(* Variant: an identity is looked up among the mapped entities. *)
SelectEntity(r) ==
  /\ pc[r] = "select"
  /\ Goto(r, IF ids[Entity(cur[r])] = NoNumber THEN "counter" ELSE "return")
  /\ val' = [val EXCEPT ![r] = ids[Entity(cur[r])]]
  /\ UNCHANGED <<tables, locks, op, todo, cur, got, answers>>

Select(r) ==
  /\ pc[r] = "select"
  /\ Goto(r, IF ids[Target(r)] = NoNumber THEN "counter" ELSE "return")
  /\ val' = [val EXCEPT ![r] = ids[Target(r)]]
  /\ UNCHANGED <<tables, locks, op, todo, cur, got, answers>>

(* Variant: the counter is read with a SELECT, which takes no row lock. *)
TakeNumberUnlocked(r) ==
  /\ pc[r] = "counter"
  /\ val' = [val EXCEPT ![r] = counter]
  /\ Goto(r, "insert")
  /\ UNCHANGED <<tables, locks, op, todo, cur, got, answers>>

TakeNumber(r) ==
  /\ pc[r] = "counter"
  /\ counterLock = NoRequest
  /\ counterLock' = r
  /\ val' = [val EXCEPT ![r] = counter]
  /\ Goto(r, "insert")
  /\ UNCHANGED <<tables, subjectLock, op, todo, cur, got, answers>>

(* Variant: INSERT ... ON CONFLICT DO NOTHING, and who inserted nothing     *)
(* asks for the winner's row in a transaction that goes on.                *)
InsertOnConflict(r) ==
  /\ pc[r] = "insert"
  /\ Goto(r, IF op[r] # "identity" /\ ids[Entity(cur[r])] # NoNumber THEN "lost" ELSE "event")
  /\ UNCHANGED <<tables, locks, op, todo, cur, val, got, answers>>

(* The unique constraint refuses a second mapping: the statement aborts    *)
(* the transaction, which gives up its locks and keeps its connection.     *)
(* isUniqueViolation would take a number already in use for a lost race as *)
(* well; NeverReused and AnnouncedInOrder say there is none.               *)
Insert(r) ==
  /\ pc[r] = "insert"
  /\ \/ /\ op[r] # "identity" /\ ids[Entity(cur[r])] # NoNumber
        /\ Goto(r, "lost")
        /\ ReleaseLocks(r)
     \/ /\ op[r] = "identity" \/ ids[Entity(cur[r])] = NoNumber
        /\ Goto(r, "event")
        /\ UNCHANGED locks
  /\ UNCHANGED <<tables, op, todo, cur, val, got, answers>>

(* Variant: the announcement does not join the transaction. *)
QueueEventOutsideTx(r) ==
  /\ pc[r] = "event"
  /\ events' = Append(events, val[r])
  /\ Goto(r, "commit")
  /\ UNCHANGED <<ids, counter, locks, op, todo, cur, val, got, answers>>

(* queueDurableEvent: the row joins the transaction. *)
QueueEvent(r) ==
  /\ pc[r] = "event"
  /\ Goto(r, "commit")
  /\ UNCHANGED <<tables, locks, op, todo, cur, val, got, answers>>

Commit(r) ==
  /\ pc[r] = "commit"
  /\ Apply(r)
  /\ events' = Append(events, val[r])
  /\ ReleaseLocks(r)
  /\ Deliver(r, val[r])

(* The record was mapped already: the transaction ends with no new number. *)
Return(r) ==
  /\ pc[r] = "return"
  /\ ReleaseLocks(r)
  /\ Deliver(r, val[r])
  /\ UNCHANGED tables

(* Variant: the loser answers with the number it took. *)
RereadSkipped(r) ==
  /\ pc[r] = "lost"
  /\ Deliver(r, val[r])
  /\ UNCHANGED <<tables, locks>>

(* globalEntityBySource: on a second connection, the first still held. *)
Reread(r) ==
  /\ pc[r] = "lost"
  /\ FreeConn(r)
  /\ Deliver(r, ids[Entity(cur[r])])
  /\ UNCHANGED <<tables, locks>>

(* A statement fails, the process dies or the caller goes away: rollback.  *)
(* What earlier transactions of the same page committed stays.             *)
Fails(r) ==
  /\ pc[r] # "idle"
  /\ ReleaseLocks(r)
  /\ EndCall(r, {})
  /\ UNCHANGED tables

(* The commit takes effect and its acknowledgement is lost. *)
CommitUnknown(r) ==
  /\ pc[r] = "commit"
  /\ Apply(r)
  /\ events' = Append(events, val[r])
  /\ ReleaseLocks(r)
  /\ EndCall(r, {})

Proceed(r) ==
  \/ MapSelect(r) \/ Begin(r) \/ LockSubject(r) \/ Select(r) \/ TakeNumber(r)
  \/ Insert(r) \/ QueueEvent(r) \/ Commit(r) \/ Return(r) \/ Reread(r)

Next ==
  \E r \in Requests :
    \/ Call(r)
    \/ Proceed(r)
    \/ Fails(r)
    \/ CommitUnknown(r)

Spec == Init /\ [][Next]_vars

(* PostgreSQL grants row and advisory locks, and the pool its connections, *)
(* in the order they were asked for: a request that waits for one that     *)
(* keeps becoming free gets it.  A request waits at one place at a time.   *)
Fairness == \A r \in Requests : SF_vars(Proceed(r))

FairSpec == Spec /\ Fairness

-----------------------------------------------------------------------------
(* Properties *)

(* Every variable has its type; the counter never runs back to zero.       *)
TypeOK ==
  /\ ids \in [Records -> Nat]
  /\ counter \in Nat \ {0}
  /\ counterLock \in Requests \union {NoRequest}
  /\ subjectLock \in [Keys -> Requests \union {NoRequest}]
  /\ events \in Seq(Nat)
  /\ pc \in [Requests -> PCs]
  /\ op \in [Requests -> Ops]
  /\ todo \in [Requests -> SUBSET Keys]
  /\ cur \in [Requests -> Keys \union {NoKey}]
  /\ val \in [Requests -> Nat]
  /\ got \in [Requests -> SUBSET (Records \X Nat)]
  /\ answers \subseteq Records \X Nat

(* An identifier returned to any caller, by any operation and whichever    *)
(* side of a race it was on, is the record's identifier for good.          *)
AnswersAreDurable ==
  \A a \in answers : ids[a[1]] = a[2] /\ a[2] # NoNumber

(* No identifier is ever given to a second source record. *)
NeverReused ==
  \A p, q \in Records : ids[p] = ids[q] /\ ids[p] # NoNumber => p.key = q.key

(* The outbox announces an allocation exactly once, only if it was         *)
(* committed, and in the order of the numbers; a rolled back allocation    *)
(* leaves no gap.                                                          *)
AnnouncedInOrder ==
  /\ Len(events) = counter - 1
  /\ \A i \in 1..Len(events) :
       events[i] = i /\ \E p \in Records : ids[p] = i

(* Those a request waits for: the holder of the row or lock it asks for,   *)
(* or, where its Core has no connection left, all who hold one.            *)
Blockers(r) ==
  CASE pc[r] \in {"page", "begin", "lost"} /\ ~FreeConn(r) -> Holders(CoreOf[r])
    [] pc[r] = "locking" -> {subjectLock[cur[r]]} \ {NoRequest}
    [] pc[r] = "counter" -> {counterLock} \ {NoRequest}
    [] OTHER -> {}

(* Requests that wait for one another and for nobody else. *)
Deadlocked(S) == \A r \in S : Blockers(r) # {} /\ Blockers(r) \subseteq S

(* There is one way to stand still and no other: in a Core whose           *)
(* connections are all held by callers that lost their race and want a     *)
(* second one.  They hold no row and no lock, so the other Cores go on,    *)
(* and no wait for a row or a lock, across whichever Cores, goes round in  *)
(* a circle.  (They do come to stand still: see PoolWaitEnds.)             *)
OnlyLosersStandStill ==
  \A S \in SUBSET Requests : Deadlocked(S) =>
    \A r \in S : \A h \in Holders(CoreOf[r]) : pc[h] = "lost"

(* The inductive invariant behind the properties above.  A number is taken *)
(* and committed under the counter row, so the holder's number is the next *)
(* one; what a transaction knows of the tables stays true because whoever  *)
(* could change it needs a lock the transaction holds.                     *)
Transaction(r) ==
  /\ pc[r] \in InTx => cur[r] \in todo[r]
  /\ pc[r] = "locking" => op[r] = "identity"
  /\ pc[r] = "lost" => op[r] # "identity" /\ ids[Entity(cur[r])] # NoNumber
  /\ pc[r] = "return" => ids[Target(r)] # NoNumber /\ val[r] = ids[Target(r)]
  /\ pc[r] \in {"insert", "event", "commit"} => counterLock = r /\ val[r] = counter
  /\ pc[r] \in {"event", "commit"} => ids[Target(r)] = NoNumber

SubjectHeld(r) ==
  op[r] = "identity" =>
    /\ pc[r] \in InTx \ {"locking"} => subjectLock[cur[r]] = r
    /\ pc[r] \in {"counter", "insert"} => ids[Target(r)] = NoNumber

Collected(r) ==
  \A a \in got[r] : ids[a[1]] = a[2] /\ a[2] # NoNumber

(* Locks are held by transactions that are past asking for them and have   *)
(* not ended: the counter row to the commit, a subject for its identity.   *)
LocksHeld ==
  /\ counterLock # NoRequest => pc[counterLock] \in {"insert", "event", "commit"}
  /\ \A k \in Keys : subjectLock[k] # NoRequest =>
        pc[subjectLock[k]] \in {"select", "counter", "insert", "event", "commit", "return"}

NumbersBelowCounter == \A p \in Records : ids[p] < counter

IInv ==
  /\ TypeOK
  /\ \A r \in Requests : Transaction(r) /\ SubjectHeld(r) /\ Collected(r)
  /\ AnswersAreDurable
  /\ NeverReused
  /\ NumbersBelowCounter
  /\ AnnouncedInOrder

(* Refinement of the contract callers rely on. *)
Directory == INSTANCE IdDirectory WITH
  announced <- {events[i] : i \in 1..Len(events)}
ImplementsDirectory == Directory!Spec

(* Every call ends, whatever it waits for. *)
CallsEnd == \A r \in Requests : pc[r] # "idle" ~> pc[r] = "idle"

(* internal/platformdb/db.go:562-564: a caller waiting for a connection is *)
(* not left waiting: "Bounding the wait turns pool exhaustion into a fast  *)
(* error that says so, rather than a queue".                               *)
PoolWaitEnds == \A r \in Requests :
  pc[r] \in {"page", "begin", "lost"} ~> pc[r] \notin {"page", "begin", "lost"}
=============================================================================
