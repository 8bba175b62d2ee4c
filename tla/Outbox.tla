------------------------------- MODULE Outbox -------------------------------
(***************************************************************************)
(* The transactional outbox: the event_outbox table                        *)
(* (internal/platformdb/outbox.go) and the delivery loop every Core runs   *)
(* over it (cmd/server/outbox.go), against a JetStream broker.             *)
(*                                                                         *)
(* One row per event.  A Core claims a batch of due rows in a transaction  *)
(* (FOR UPDATE SKIP LOCKED), which spends one attempt of every row and     *)
(* schedules the next one, then publishes the batch in occurred_at order   *)
(* and records each outcome in a statement of its own.                     *)
(*                                                                         *)
(* Abstractions.  Events are numbered by occurred_at.  next_attempt_at is  *)
(* reduced to whether the row is due: a claim makes it not due and         *)
(* BackoffElapses makes it due at an arbitrary later moment, also while a  *)
(* slow Core still holds the row.  MaxFaults bounds crashes, database      *)
(* errors and broker errors; it stands for no limit of the code.           *)
(***************************************************************************)
EXTENDS Integers, FiniteSets

CONSTANTS
  Cores,        \* Core processes sharing one database
  Events,       \* the events, numbered by occurred_at
  MaxAttempts,  \* MaxOutboxAttempts
  Batch,        \* outboxBatch
  MaxFaults     \* bound: faults the environment may inject

ASSUME EventsAssumption == Events \subseteq Nat
ASSUME MaxAttemptsAssumption == MaxAttempts \in Nat \ {0}
ASSUME BatchAssumption == Batch \in Nat \ {0}
ASSUME MaxFaultsAssumption == MaxFaults \in Nat

VARIABLES
  queued,     \* rows of event_outbox (committed)
  attempts,   \* attempts column
  due,        \* rows with next_attempt_at <= now
  failed,     \* rows with failed_at set
  delivered,  \* rows with delivered_at set
  errored,    \* rows with last_error set
  pc,         \* where each Core's delivery pass is
  held,       \* rows of the pass not yet settled by each Core
  ticket,     \* OutboxEvent.Attempts of the rows a Core holds
  ready,      \* jetStreamPublisher.ready of each Core
  stream,     \* whether the stream exists on the broker
  stored,     \* events the broker has stored
  tried,      \* attempt numbers for which a publish was made
  faults      \* faults injected so far

rowVars == <<queued, attempts, due, failed, delivered, errored>>
coreVars == <<pc, held, ticket, ready>>
brokerVars == <<stream, stored>>
vars == <<rowVars, coreVars, brokerVars, tried, faults>>

PCs == {"down", "idle", "selected", "delivering", "acked", "nacked"}

-----------------------------------------------------------------------------
(* Helpers *)

(* The rows a claim transaction has locked and not yet released. *)
LockedBy(c) == IF pc[c] = "selected" THEN held[c] ELSE {}
Locked == UNION {LockedBy(c) : c \in Cores}

(* The rows the claim query may return. *)
Claimable == (queued \cap due) \ (delivered \cup failed \cup Locked)

(* The batch is published in occurred_at order, so the row in hand is the  *)
(* oldest one left.                                                        *)
IsCurrent(c, e) == e \in held[c] /\ \A f \in held[c] : e <= f

(* The loop goes on with the rest of the batch, or waits for the tick. *)
AfterRow(rest) == IF rest = {} THEN "idle" ELSE "delivering"

Fault == faults < MaxFaults /\ faults' = faults + 1

-----------------------------------------------------------------------------
Init ==
  /\ queued = {} /\ due = {} /\ failed = {} /\ delivered = {} /\ errored = {}
  /\ attempts = [e \in Events |-> 0]
  /\ pc = [c \in Cores |-> "idle"]
  /\ held = [c \in Cores |-> {}]
  /\ ticket = [c \in Cores |-> [e \in Events |-> 0]]
  /\ ready = [c \in Cores |-> FALSE]
  /\ stream = FALSE
  /\ stored = {}
  /\ tried = [e \in Events |-> {}]
  /\ faults = 0

(* enqueueEvent, at the commit of the transaction it joined.  Commits are  *)
(* not ordered by occurred_at.                                             *)
Enqueue(e) ==
  /\ e \notin queued
  /\ queued' = queued \cup {e}
  /\ due' = due \cup {e}
  /\ UNCHANGED <<attempts, failed, delivered, errored, coreVars, brokerVars,
                 tried, faults>>

(* Variant: the retry is scheduled when the attempt fails, not when the    *)
(* row is claimed.                                                         *)
BackoffElapsesOnceRecorded(e) ==
  /\ e \in (queued \cap errored) \ (due \cup delivered \cup failed)
  /\ due' = due \cup {e}
  /\ UNCHANGED <<queued, attempts, failed, delivered, errored, coreVars,
                 brokerVars, tried, faults>>

(* next_attempt_at passes.  Settled rows are never read again. *)
BackoffElapses(e) ==
  /\ e \in queued \ (due \cup delivered \cup failed)
  /\ due' = due \cup {e}
  /\ UNCHANGED <<queued, attempts, failed, delivered, errored, coreVars,
                 brokerVars, tried, faults>>

-----------------------------------------------------------------------------
(* ClaimDueEvents: SELECT ... FOR UPDATE SKIP LOCKED, the UPDATE, COMMIT *)

(* The attempt number the rows of a batch are returned with. *)
NextAttempt(S) == [e \in Events |-> IF e \in S THEN attempts[e] + 1 ELSE 0]

(* Variant: the query forgets SKIP LOCKED and FOR UPDATE. *)
ClaimSelectUnlocked(c) ==
  /\ pc[c] = "idle"
  /\ LET rows == (queued \cap due) \ (delivered \cup failed) IN
     /\ rows # {}
     /\ held' = [held EXCEPT ![c] = rows]
     /\ ticket' = [ticket EXCEPT ![c] = NextAttempt(rows)]
  /\ pc' = [pc EXCEPT ![c] = "selected"]
  /\ UNCHANGED <<rowVars, ready, brokerVars, tried, faults>>

ClaimSelect(c) ==
  /\ pc[c] = "idle"
  /\ \E S \in SUBSET Claimable :
       /\ S # {}
       /\ Cardinality(S) <= Batch
       /\ Cardinality(S) < Batch => S = Claimable
       /\ \A e \in S, f \in Claimable \ S : e < f
       /\ held' = [held EXCEPT ![c] = S]
       /\ ticket' = [ticket EXCEPT ![c] = NextAttempt(S)]
  /\ pc' = [pc EXCEPT ![c] = "selected"]
  /\ UNCHANGED <<rowVars, ready, brokerVars, tried, faults>>

(* Variant: the budget is compared before the attempt is counted. *)
SpendAttemptLate(S) ==
  /\ attempts' = [e \in Events |-> IF e \in S THEN attempts[e] + 1 ELSE attempts[e]]
  /\ due' = due \ S
  /\ failed' = (failed \ S) \cup {e \in S : attempts[e] > MaxAttempts}
  /\ UNCHANGED <<queued, delivered, errored>>

(* The UPDATE: the attempt is counted, the next one scheduled and, when    *)
(* this was the last one, the row failed - all before anything is          *)
(* published.                                                              *)
SpendAttempt(S) ==
  /\ attempts' = [e \in Events |-> IF e \in S THEN attempts[e] + 1 ELSE attempts[e]]
  /\ due' = due \ S
  /\ failed' = (failed \ S) \cup {e \in S : attempts[e] + 1 >= MaxAttempts}
  /\ UNCHANGED <<queued, delivered, errored>>

ClaimCommit(c) ==
  /\ pc[c] = "selected"
  /\ SpendAttempt(held[c])
  /\ pc' = [pc EXCEPT ![c] = "delivering"]
  /\ UNCHANGED <<held, ticket, ready, brokerVars, tried, faults>>

(* A database error: the transaction rolled back, or it committed and the  *)
(* Core was not told.  Either way the pass ends.                           *)
ClaimFails(c) ==
  /\ pc[c] = "selected"
  /\ Fault
  /\ \/ UNCHANGED rowVars
     \/ SpendAttempt(held[c])
  /\ held' = [held EXCEPT ![c] = {}]
  /\ pc' = [pc EXCEPT ![c] = "idle"]
  /\ UNCHANGED <<ticket, ready, brokerVars, tried>>

-----------------------------------------------------------------------------
(* PublishEvent: ensure the stream, publish, wait for the acknowledgement *)

RecordTry(c, e) == tried' = [tried EXCEPT ![e] = @ \cup {ticket[c][e]}]

PublishAcked(c, e) ==
  /\ pc[c] = "delivering" /\ IsCurrent(c, e)
  /\ ready[c] => stream
  /\ stream' = TRUE
  /\ ready' = [ready EXCEPT ![c] = TRUE]
  /\ stored' = stored \cup {e}
  /\ RecordTry(c, e)
  /\ pc' = [pc EXCEPT ![c] = "acked"]
  /\ UNCHANGED <<rowVars, held, ticket, faults>>

(* Variant: a publish call that returned without an acknowledgement is     *)
(* taken for a delivery.                                                   *)
PublishRefusedTakenForAcked(c, e) ==
  /\ pc[c] = "delivering" /\ IsCurrent(c, e)
  /\ (ready[c] /\ ~stream /\ UNCHANGED faults) \/ Fault
  /\ ready' = [ready EXCEPT ![c] = FALSE]
  /\ RecordTry(c, e)
  /\ pc' = [pc EXCEPT ![c] = "acked"]
  /\ UNCHANGED <<rowVars, held, ticket, brokerVars>>

(* Variant: the handle of a broker that lost its stream is kept. *)
PublishRefusedKeepingHandle(c, e) ==
  /\ pc[c] = "delivering" /\ IsCurrent(c, e)
  /\ (ready[c] /\ ~stream /\ UNCHANGED faults) \/ Fault
  /\ RecordTry(c, e)
  /\ pc' = [pc EXCEPT ![c] = "nacked"]
  /\ UNCHANGED <<rowVars, held, ticket, ready, brokerVars>>

(* The broker is unreachable, before or after the stream was ensured, or   *)
(* it came back without the stream this Core's handle names: nothing is    *)
(* stored and the handle is dropped.                                       *)
PublishRefused(c, e) ==
  /\ pc[c] = "delivering" /\ IsCurrent(c, e)
  /\ (ready[c] /\ ~stream /\ UNCHANGED faults) \/ Fault
  /\ stream' \in IF ready[c] THEN {stream} ELSE {stream, TRUE}
  /\ ready' = [ready EXCEPT ![c] = FALSE]
  /\ RecordTry(c, e)
  /\ pc' = [pc EXCEPT ![c] = "nacked"]
  /\ UNCHANGED <<rowVars, held, ticket, stored>>

(* The broker stored the event and the acknowledgement was lost. *)
PublishAckLost(c, e) ==
  /\ pc[c] = "delivering" /\ IsCurrent(c, e)
  /\ ready[c] => stream
  /\ Fault
  /\ stream' = TRUE
  /\ ready' = [ready EXCEPT ![c] = FALSE]
  /\ stored' = stored \cup {e}
  /\ RecordTry(c, e)
  /\ pc' = [pc EXCEPT ![c] = "nacked"]
  /\ UNCHANGED <<rowVars, held, ticket>>

-----------------------------------------------------------------------------
(* MarkDelivered and MarkAttemptFailed.  Both are one UPDATE, which waits  *)
(* for the row lock of a claim in progress.                                *)

RecordDelivered(e) ==
  /\ delivered' = delivered \cup {e}
  /\ errored' = IF e \in delivered THEN errored ELSE errored \ {e}
  /\ UNCHANGED <<queued, attempts, due, failed>>

(* Variant: the guard on delivered_at is dropped. *)
RecordErrorUnguarded(e) ==
  /\ errored' = errored \cup {e}
  /\ UNCHANGED <<queued, attempts, due, failed, delivered>>

RecordError(e) ==
  /\ errored' = IF e \in delivered THEN errored ELSE errored \cup {e}
  /\ UNCHANGED <<queued, attempts, due, failed, delivered>>

Mark(c, e) ==
  /\ IsCurrent(c, e)
  /\ e \notin Locked
  /\ \/ pc[c] = "acked" /\ RecordDelivered(e)
     \/ pc[c] = "nacked" /\ RecordError(e)

MarkOK(c, e) ==
  /\ Mark(c, e)
  /\ held' = [held EXCEPT ![c] = @ \ {e}]
  /\ pc' = [pc EXCEPT ![c] = AfterRow(held[c] \ {e})]
  /\ UNCHANGED <<ticket, ready, brokerVars, tried, faults>>

(* The statement failed, or it succeeded and the Core was not told: the    *)
(* pass ends and the rest of the batch is dropped with it.                 *)
MarkFails(c, e) ==
  /\ pc[c] \in {"acked", "nacked"} /\ IsCurrent(c, e)
  /\ Fault
  /\ Mark(c, e) \/ UNCHANGED rowVars
  /\ held' = [held EXCEPT ![c] = {}]
  /\ pc' = [pc EXCEPT ![c] = "idle"]
  /\ UNCHANGED <<ticket, ready, brokerVars, tried>>

-----------------------------------------------------------------------------
(* Crashes, restarts and the loss of the stream *)

(* An open claim transaction rolls back with the connection. *)
Crash(c) ==
  /\ pc[c] # "down"
  /\ Fault
  /\ pc' = [pc EXCEPT ![c] = "down"]
  /\ held' = [held EXCEPT ![c] = {}]
  /\ ready' = [ready EXCEPT ![c] = FALSE]
  /\ UNCHANGED <<rowVars, ticket, brokerVars, tried>>

Restart(c) ==
  /\ pc[c] = "down"
  /\ pc' = [pc EXCEPT ![c] = "idle"]
  /\ UNCHANGED <<rowVars, held, ticket, ready, brokerVars, tried, faults>>

(* The broker is replaced by one without the stream.  "stored" remembers   *)
(* what was stored, not what a consumer can still read.                    *)
StreamLost ==
  /\ stream
  /\ Fault
  /\ stream' = FALSE
  /\ UNCHANGED <<rowVars, coreVars, stored, tried>>

-----------------------------------------------------------------------------
Publish(c, e) == PublishAcked(c, e) \/ PublishRefused(c, e) \/ PublishAckLost(c, e)

Deliver(c) ==
  \/ ClaimSelect(c)
  \/ ClaimCommit(c)
  \/ \E e \in Events : Publish(c, e) \/ MarkOK(c, e)

CoreFails(c) ==
  \/ ClaimFails(c)
  \/ \E e \in Events : MarkFails(c, e)
  \/ Crash(c)

Next ==
  \/ \E e \in Events : Enqueue(e) \/ BackoffElapses(e)
  \/ \E c \in Cores : Deliver(c) \/ CoreFails(c) \/ Restart(c)
  \/ StreamLost

Spec == Init /\ [][Next]_vars

(* runOutbox comes back on every tick, a stopped Core is restarted and     *)
(* time passes.  Nothing forces a transaction to enqueue.                  *)
Fairness ==
  /\ \A c \in Cores : WF_vars(Deliver(c)) /\ WF_vars(Restart(c))
  /\ \A e \in Events : WF_vars(BackoffElapses(e))

FairSpec == Spec /\ Fairness

-----------------------------------------------------------------------------
(* Properties *)

(* Every variable has its type; a row of no queued event is ever touched. *)
TypeOK ==
  /\ queued \subseteq Events
  /\ due \subseteq queued /\ failed \subseteq queued
  /\ delivered \subseteq queued /\ errored \subseteq queued
  /\ attempts \in [Events -> 0..MaxAttempts]
  /\ pc \in [Cores -> PCs]
  /\ held \in [Cores -> SUBSET queued]
  /\ ticket \in [Cores -> [Events -> 0..MaxAttempts]]
  /\ ready \in [Cores -> BOOLEAN]
  /\ stream \in BOOLEAN
  /\ stored \subseteq queued
  /\ tried \in [Events -> SUBSET (1..MaxAttempts)]
  /\ faults \in 0..MaxFaults

(* A delivery recorded in the table is one the broker made: whatever is    *)
(* lost, refused or repeated on the way, no row is marked delivered for an *)
(* event the stream never stored (MarkDelivered, "only an acknowledgement  *)
(* reaches here").                                                         *)
DeliveredWasStored == delivered \subseteq stored

(* The rows a Core has claimed and not yet published. *)
Unpublished(c) ==
  IF pc[c] = "delivering" THEN held[c]
  ELSE IF pc[c] \in {"acked", "nacked"} THEN {e \in held[c] : ~IsCurrent(c, e)}
  ELSE {}

(* Each attempt number of a row is handed to one Core only and is spent by *)
(* one publish call at most, with any number of Cores claiming at once and *)
(* a row claimed again while a slow Core still holds it (ClaimDueEvents).  *)
AttemptTriedOnce ==
  \A e \in Events, c \in Cores :
     e \in Unpublished(c) =>
       /\ ticket[c][e] \in (1..attempts[e]) \ tried[e]
       /\ \A d \in Cores \ {c} : e \in Unpublished(d) => ticket[d][e] # ticket[c][e]

(* Two claim transactions never hold the same row (SKIP LOCKED), and a     *)
(* locked row is never one already settled.                                *)
ClaimsDisjoint ==
  \A c \in Cores :
    /\ LockedBy(c) \cap (delivered \cup failed) = {}
    /\ \A d \in Cores \ {c} : LockedBy(c) \cap LockedBy(d) = {}

(* Once a row is delivered nothing a slow, crashed or repeated pass still  *)
(* does moves it: no attempt is spent on it, no error or failure is        *)
(* written over it (the delivered_at guards of MarkDelivered,              *)
(* MarkAttemptFailed and ClaimDueEvents).                                  *)
DeliveredIsFinal ==
  [][\A e \in delivered :
       /\ e \in delivered'
       /\ attempts'[e] = attempts[e]
       /\ e \in failed' <=> e \in failed
       /\ e \in errored' <=> e \in errored]_vars

(* A failed row has had its whole budget counted, and a failed row is      *)
(* never claimed again: retrying is bounded (MaxOutboxAttempts).           *)
RetryBounded ==
  /\ \A e \in Events : e \in failed <=> attempts[e] = MaxAttempts
  /\ \A c \in Cores, e \in Events : e \in LockedBy(c) => attempts[e] < MaxAttempts

(* The inductive invariant behind the safety properties above.  Besides    *)
(* them it says what a pass knows at each of its steps: an acknowledged    *)
(* row is in the stream, a locked row is unsettled and its number is the   *)
(* next one, and no number beyond the counted ones has been tried.         *)
AckedWasStored ==
  \A c \in Cores, e \in Events :
     pc[c] = "acked" /\ IsCurrent(c, e) => e \in stored

NextTicketLocked ==
  \A c \in Cores : \A e \in LockedBy(c) : ticket[c][e] = attempts[e] + 1

TriedWasCounted == \A e \in Events : tried[e] \subseteq 1..attempts[e]

IdleHoldsNothing == \A c \in Cores : pc[c] \in {"down", "idle"} => held[c] = {}

IInv ==
  /\ TypeOK
  /\ DeliveredWasStored
  /\ AckedWasStored
  /\ ClaimsDisjoint
  /\ NextTicketLocked
  /\ AttemptTriedOnce
  /\ TriedWasCounted
  /\ RetryBounded
  /\ IdleHoldsNothing

(* The queue drains: whatever fails, no row stays claimed, waiting or      *)
(* retried for ever.  Every queued event ends delivered or failed.         *)
QueueDrains ==
  \A e \in Events : (e \in queued) ~> (e \in delivered \cup failed)

(* A single fault never loses an event: it is stored by the broker and     *)
(* recorded as delivered, across a crash, a lost acknowledgement or a      *)
(* broker that lost its stream (ensure, PublishEvent).                     *)
FaultsAbsorbed ==
  \A e \in Events : (e \in queued) ~> (e \in delivered \/ faults > 1)

(* The table and the broker together implement the delivery contract. *)
Contract == INSTANCE DurableDelivery WITH
  accepted <- queued, inStream <- stored, confirmed <- delivered,
  givenUp <- failed

(* The outbox implements DurableDelivery: every claim, publish and mark is *)
(* one step of the contract or none of its business.                       *)
ImplementsContract == Contract!Spec

-----------------------------------------------------------------------------
(* What comments and documents say and the code does not do *)

(* docs/EVENTS.md:104-105: "A publisher that dies between claiming a row   *)
(* and delivering it leaves the row due again after its backoff."          *)
CrashLeavesRowDue ==
  [][\A c \in Cores :
       (pc[c] = "delivering" /\ pc'[c] = "down")
         => \A e \in held[c] : e \in delivered \/ e \notin failed']_vars
=============================================================================
