---------------------------- MODULE OutboxProofs ----------------------------
(***************************************************************************)
(* The safety of the outbox for any number of Cores, events, attempts and  *)
(* faults: IInv is inductive, it implies the invariants the runs check,    *)
(* and Outbox implements DurableDelivery.                                  *)
(***************************************************************************)
EXTENDS Outbox, TLAPS

(* A batch is published oldest first, so two current rows are one. *)
LEMMA CurrentIsUnique ==
  ASSUME NEW c \in Cores, NEW e \in Events, NEW f \in Events,
         IsCurrent(c, e), IsCurrent(c, f)
  PROVE  e = f
  BY EventsAssumption DEF IsCurrent

(* The initial state satisfies the invariant. *)
LEMMA InitIInv == Init => IInv
  <1> SUFFICES ASSUME Init PROVE IInv
    OBVIOUS
  <1>1. TypeOK
    <2>1. attempts \in [Events -> 0..MaxAttempts] /\ faults \in 0..MaxFaults
      BY MaxAttemptsAssumption, MaxFaultsAssumption DEF Init
    <2>2. ticket \in [Cores -> [Events -> 0..MaxAttempts]]
      BY MaxAttemptsAssumption DEF Init
    <2>3. pc \in [Cores -> PCs] /\ held \in [Cores -> SUBSET queued]
      BY DEF Init, PCs
    <2>4. tried \in [Events -> SUBSET (1..MaxAttempts)]
      BY DEF Init
    <2>5. QED
      BY <2>1, <2>2, <2>3, <2>4 DEF Init, TypeOK
  <1>2. DeliveredWasStored /\ AckedWasStored /\ IdleHoldsNothing
    BY DEF Init, DeliveredWasStored, AckedWasStored, IdleHoldsNothing
  <1>3. ClaimsDisjoint /\ NextTicketLocked
    BY DEF Init, ClaimsDisjoint, NextTicketLocked, LockedBy
  <1>4. AttemptTriedOnce /\ TriedWasCounted
    BY DEF Init, AttemptTriedOnce, TriedWasCounted, Unpublished
  <1>5. RetryBounded
    BY MaxAttemptsAssumption DEF Init, RetryBounded, LockedBy
  <1>6. QED
    BY <1>1, <1>2, <1>3, <1>4, <1>5 DEF IInv

(* Queueing a row disturbs nothing that is known of the others. *)
LEMMA EnqueueStep ==
  ASSUME IInv, NEW e \in Events, Enqueue(e)
  PROVE  IInv'
  <1>1. TypeOK'
    BY DEF IInv, TypeOK, Enqueue, coreVars, brokerVars
  <1>2. QED
    BY <1>1 DEF IInv, Enqueue, coreVars, brokerVars, DeliveredWasStored,
       AckedWasStored, ClaimsDisjoint, LockedBy, NextTicketLocked,
       AttemptTriedOnce, Unpublished, TriedWasCounted, RetryBounded,
       IdleHoldsNothing, IsCurrent

(* A backoff that elapses changes only what is due. *)
LEMMA BackoffStep ==
  ASSUME IInv, NEW e \in Events, BackoffElapses(e)
  PROVE  IInv'
  <1>1. TypeOK'
    BY DEF IInv, TypeOK, BackoffElapses, coreVars, brokerVars
  <1>2. QED
    BY <1>1 DEF IInv, BackoffElapses, coreVars, brokerVars, DeliveredWasStored,
       AckedWasStored, ClaimsDisjoint, LockedBy, NextTicketLocked,
       AttemptTriedOnce, Unpublished, TriedWasCounted, RetryBounded,
       IdleHoldsNothing, IsCurrent

(* Locking a batch of unlocked, unsettled rows. *)
LEMMA ClaimSelectStep ==
  ASSUME IInv, NEW c \in Cores, ClaimSelect(c)
  PROVE  IInv'
  <1> USE DEF brokerVars, rowVars
  <1>1. PICK S \in SUBSET Claimable :
          /\ held' = [held EXCEPT ![c] = S]
          /\ ticket' = [ticket EXCEPT ![c] = NextAttempt(S)]
    BY DEF ClaimSelect
  <1>2. /\ S \subseteq queued \ (delivered \cup failed)
        /\ \A d \in Cores : S \cap LockedBy(d) = {}
    BY DEF Claimable, Locked
  <1>3. /\ pc[c] = "idle" /\ pc' = [pc EXCEPT ![c] = "selected"]
        /\ UNCHANGED <<rowVars, ready, brokerVars, tried, faults>>
    BY DEF ClaimSelect
  <1>4. /\ pc'[c] = "selected" /\ held'[c] = S /\ ticket'[c] = NextAttempt(S)
        /\ \A d \in Cores \ {c} : /\ pc'[d] = pc[d] /\ held'[d] = held[d]
                                  /\ ticket'[d] = ticket[d]
    BY <1>1, <1>3 DEF IInv, TypeOK
  <1>5. \A e \in S : attempts[e] \in Nat /\ attempts[e] < MaxAttempts
    <2>1. S \subseteq Events
      BY <1>2 DEF IInv, TypeOK
    <2>2. \A e \in S : attempts[e] \in 0..MaxAttempts /\ attempts[e] # MaxAttempts
      BY <1>2, <2>1 DEF IInv, TypeOK, RetryBounded
    <2>3. QED
      BY <2>2, MaxAttemptsAssumption
  <1>6. TypeOK'
    <2>1. NextAttempt(S) \in [Events -> 0..MaxAttempts]
      BY <1>5, MaxAttemptsAssumption DEF NextAttempt
    <2>2. QED
      BY <1>1, <1>2, <1>3, <2>1 DEF IInv, TypeOK, PCs
  <1>7. LockedBy(c)' = S /\ \A d \in Cores \ {c} : LockedBy(d)' = LockedBy(d)
    BY <1>4 DEF LockedBy
  <1>8. ClaimsDisjoint'
    BY <1>2, <1>3, <1>7 DEF IInv, ClaimsDisjoint
  <1>9. NextTicketLocked'
    BY <1>2, <1>3, <1>4, <1>7 DEF IInv, TypeOK, NextTicketLocked, NextAttempt
  <1>10. Unpublished(c)' = {} /\ \A d \in Cores \ {c} : Unpublished(d)' = Unpublished(d)
    BY <1>4 DEF Unpublished, IsCurrent
  <1>11. AttemptTriedOnce'
    BY <1>3, <1>4, <1>10 DEF IInv, AttemptTriedOnce
  <1>12. RetryBounded'
    BY <1>2, <1>3, <1>5, <1>7 DEF IInv, RetryBounded
  <1>13. AckedWasStored' /\ IdleHoldsNothing'
    BY <1>3, <1>4 DEF IInv, AckedWasStored, IdleHoldsNothing, IsCurrent
  <1>14. DeliveredWasStored' /\ TriedWasCounted'
    BY <1>3 DEF IInv, DeliveredWasStored, TriedWasCounted
  <1>15. QED
    BY <1>6, <1>8, <1>9, <1>11, <1>12, <1>13, <1>14 DEF IInv

(* What the claim's UPDATE does to a batch of locked rows. *)
LEMMA SpendAttemptFacts ==
  ASSUME IInv, NEW c \in Cores, pc[c] = "selected", SpendAttempt(held[c])
  PROVE  /\ \A e \in held[c] : /\ attempts[e] < MaxAttempts
                               /\ attempts'[e] = attempts[e] + 1
                               /\ ticket[c][e] = attempts'[e]
         /\ \A e \in Events \ held[c] : attempts'[e] = attempts[e]
         /\ attempts' \in [Events -> 0..MaxAttempts]
         /\ due' \subseteq queued /\ failed' \subseteq queued
         /\ \A e \in Events : e \in failed' <=> attempts'[e] = MaxAttempts
         /\ failed \subseteq failed' /\ failed' \subseteq failed \cup held[c]
         /\ UNCHANGED <<queued, delivered, errored>>
  <1>1. held[c] \subseteq queued /\ queued \subseteq Events
    BY DEF IInv, TypeOK
  <1>2. LockedBy(c) = held[c]
    BY DEF LockedBy
  <1>3. \A e \in held[c] : /\ attempts[e] < MaxAttempts
                           /\ ticket[c][e] = attempts[e] + 1
                           /\ e \notin failed
    BY <1>1, <1>2 DEF IInv, RetryBounded, NextTicketLocked, ClaimsDisjoint
  <1>4. attempts \in [Events -> 0..MaxAttempts]
    BY DEF IInv, TypeOK
  <1>5. /\ \A e \in held[c] : attempts'[e] = attempts[e] + 1
        /\ \A e \in Events \ held[c] : attempts'[e] = attempts[e]
    BY <1>1, <1>4 DEF SpendAttempt
  <1>6. attempts' \in [Events -> 0..MaxAttempts]
    BY <1>3, <1>4, <1>5, MaxAttemptsAssumption DEF SpendAttempt
  <1>7. \A e \in Events : e \in failed' <=> attempts'[e] = MaxAttempts
    <2>1. \A e \in Events : e \in failed <=> attempts[e] = MaxAttempts
      BY DEF IInv, RetryBounded
    <2>2. \A e \in held[c] : e \in failed' <=> attempts[e] + 1 >= MaxAttempts
      BY <1>1 DEF SpendAttempt
    <2>3. \A e \in Events \ held[c] : e \in failed' <=> e \in failed
      BY DEF SpendAttempt
    <2>4. QED
      BY <1>1, <1>3, <1>4, <1>5, <2>1, <2>2, <2>3, MaxAttemptsAssumption
  <1>8. failed \subseteq failed' /\ failed' \subseteq failed \cup held[c]
    BY <1>3 DEF SpendAttempt
  <1>9. due' \subseteq queued /\ failed' \subseteq queued
    BY <1>1, <1>8 DEF SpendAttempt, IInv, TypeOK
  <1>10. QED
    BY <1>3, <1>5, <1>6, <1>7, <1>8, <1>9 DEF SpendAttempt

(* Whoever else holds a row has an older number than the claim hands out. *)
LEMMA OlderTickets ==
  ASSUME IInv, NEW c \in Cores, NEW e \in Unpublished(c)
  PROVE  e \in Events /\ ticket[c][e] <= attempts[e] /\ ticket[c][e] \in Nat
  BY MaxAttemptsAssumption DEF IInv, AttemptTriedOnce, TypeOK, Unpublished

(* The claim commits: every row of the batch takes the next number, which  *)
(* nobody holds and nobody has tried.                                      *)
LEMMA ClaimCommitStep ==
  ASSUME IInv, NEW c \in Cores, ClaimCommit(c)
  PROVE  IInv'
  <1>1. /\ pc[c] = "selected" /\ pc' = [pc EXCEPT ![c] = "delivering"]
        /\ SpendAttempt(held[c])
        /\ UNCHANGED <<held, ticket, ready, stream, stored, tried, faults>>
    BY DEF ClaimCommit, brokerVars
  <1>2. pc'[c] = "delivering" /\ \A d \in Cores \ {c} : pc'[d] = pc[d]
    BY <1>1 DEF IInv, TypeOK
  <1>3. LockedBy(c) = held[c] /\ LockedBy(c)' = {}
        /\ \A d \in Cores \ {c} : LockedBy(d)' = LockedBy(d)
    BY <1>1, <1>2 DEF LockedBy
  <1>4. Unpublished(c) = {} /\ Unpublished(c)' = held[c]
        /\ \A d \in Cores \ {c} : Unpublished(d)' = Unpublished(d)
    BY <1>1, <1>2 DEF Unpublished, IsCurrent
  <1>5. TypeOK'
    BY <1>1, SpendAttemptFacts DEF IInv, TypeOK, PCs
  <1>6. \A d \in Cores \ {c} : LockedBy(d) \cap held[c] = {}
    BY <1>3 DEF IInv, ClaimsDisjoint
  <1>7. ClaimsDisjoint'
    BY <1>1, <1>3, <1>6, SpendAttemptFacts DEF IInv, ClaimsDisjoint
  <1>8. \A d \in Cores \ {c} : LockedBy(d) \subseteq Events \ held[c]
    BY <1>6 DEF LockedBy, IInv, TypeOK
  <1>9. NextTicketLocked'
    BY <1>1, <1>3, <1>8, SpendAttemptFacts DEF IInv, NextTicketLocked
  <1>10. TriedWasCounted'
    <2> SUFFICES ASSUME NEW e \in Events
                 PROVE  tried[e] \subseteq 1..attempts'[e]
      BY <1>1 DEF TriedWasCounted
    <2>1. attempts[e] \in Nat /\ attempts'[e] \in {attempts[e], attempts[e] + 1}
      BY <1>1, SpendAttemptFacts DEF IInv, TypeOK
    <2>2. QED
      BY <2>1 DEF IInv, TriedWasCounted
  <1>11. AttemptTriedOnce'
    <2> SUFFICES ASSUME NEW e \in Events, NEW d \in Cores, e \in Unpublished(d)'
                 PROVE  /\ ticket[d][e] \in (1..attempts'[e]) \ tried[e]
                        /\ \A b \in Cores \ {d} :
                              e \in Unpublished(b)' => ticket[b][e] # ticket[d][e]
      BY <1>1 DEF AttemptTriedOnce
    <2>1. attempts[e] \in Nat /\ tried[e] \subseteq 1..attempts[e]
      BY DEF IInv, TypeOK, TriedWasCounted
    <2>2. e \in held[c] => /\ ticket[c][e] = attempts[e] + 1
                           /\ attempts'[e] = attempts[e] + 1
      BY <1>1, SpendAttemptFacts
    <2>3. \A b \in Cores \ {c} : e \in Unpublished(b)' =>
             /\ ticket[b][e] \in (1..attempts[e]) \ tried[e]
             /\ \A a \in Cores \ {b, c} :
                   e \in Unpublished(a)' => ticket[a][e] # ticket[b][e]
      BY <1>4 DEF IInv, AttemptTriedOnce
    <2>4. CASE d = c
      BY <1>4, <2>1, <2>2, <2>3, <2>4
    <2>5. CASE d # c
      <3>1. attempts'[e] \in {attempts[e], attempts[e] + 1}
        BY <1>1, SpendAttemptFacts
      <3>2. QED
        BY <1>4, <2>1, <2>2, <2>3, <2>5, <3>1
    <2>6. QED
      BY <2>4, <2>5
  <1>12. RetryBounded'
    BY <1>1, <1>3, <1>8, SpendAttemptFacts DEF IInv, RetryBounded
  <1>13. AckedWasStored' /\ IdleHoldsNothing'
    BY <1>1, <1>2 DEF IInv, AckedWasStored, IdleHoldsNothing, IsCurrent
  <1>14. DeliveredWasStored'
    BY <1>1, SpendAttemptFacts DEF IInv, DeliveredWasStored
  <1>15. QED
    BY <1>5, <1>7, <1>9, <1>10, <1>11, <1>12, <1>13, <1>14 DEF IInv

(* What another Core knows of its rows survives a claim that committed,    *)
(* whether the claiming Core was told or not.                              *)
LEMMA ClaimFailsStep ==
  ASSUME IInv, NEW c \in Cores, ClaimFails(c)
  PROVE  IInv'
  <1>1. /\ pc[c] = "selected" /\ pc' = [pc EXCEPT ![c] = "idle"]
        /\ held' = [held EXCEPT ![c] = {}]
        /\ UNCHANGED rowVars \/ SpendAttempt(held[c])
        /\ faults' \in 0..MaxFaults
        /\ UNCHANGED <<ticket, ready, stream, stored, tried>>
    BY MaxFaultsAssumption DEF ClaimFails, brokerVars, Fault, IInv, TypeOK
  <1>2. /\ pc'[c] = "idle" /\ held'[c] = {}
        /\ \A d \in Cores \ {c} : pc'[d] = pc[d] /\ held'[d] = held[d]
    BY <1>1 DEF IInv, TypeOK
  <1>3. LockedBy(c) = held[c] /\ LockedBy(c)' = {}
        /\ \A d \in Cores \ {c} : LockedBy(d)' = LockedBy(d)
    BY <1>1, <1>2 DEF LockedBy
  <1>4. Unpublished(c)' = {}
        /\ \A d \in Cores \ {c} : Unpublished(d)' = Unpublished(d)
    BY <1>1, <1>2 DEF Unpublished, IsCurrent
  <1>5. \A d \in Cores \ {c} : LockedBy(d) \subseteq Events \ held[c]
    BY <1>3 DEF IInv, ClaimsDisjoint, LockedBy, TypeOK
  <1>6. \A e \in Events : /\ attempts[e] \in Nat /\ attempts'[e] \in Nat
                          /\ attempts[e] <= attempts'[e]
                          /\ e \notin held[c] => attempts'[e] = attempts[e]
    <2>1. CASE UNCHANGED rowVars
      BY <2>1 DEF rowVars, IInv, TypeOK
    <2>2. CASE SpendAttempt(held[c])
      BY <1>1, <2>2, SpendAttemptFacts DEF IInv, TypeOK
    <2>3. QED
      BY <1>1, <2>1, <2>2
  <1>7. /\ UNCHANGED <<queued, delivered, errored>>
        /\ due' \subseteq queued /\ failed' \subseteq queued
        /\ attempts' \in [Events -> 0..MaxAttempts]
        /\ failed' \subseteq failed \cup held[c]
        /\ \A e \in Events : e \in failed' <=> attempts'[e] = MaxAttempts
    <2>1. CASE UNCHANGED rowVars
      BY <2>1 DEF rowVars, IInv, TypeOK, RetryBounded
    <2>2. CASE SpendAttempt(held[c])
      BY <1>1, <2>2, SpendAttemptFacts
    <2>3. QED
      BY <1>1, <2>1, <2>2
  <1>8. TypeOK'
    BY <1>1, <1>7 DEF IInv, TypeOK, PCs
  <1>9. ClaimsDisjoint'
    BY <1>3, <1>5, <1>7 DEF IInv, ClaimsDisjoint
  <1>10. NextTicketLocked'
    BY <1>1, <1>3, <1>5, <1>6 DEF IInv, NextTicketLocked
  <1>11. TriedWasCounted'
    <2> SUFFICES ASSUME NEW e \in Events PROVE tried[e] \subseteq 1..attempts'[e]
      BY <1>1 DEF TriedWasCounted
    <2>1. QED
      BY <1>6 DEF IInv, TriedWasCounted
  <1>12. AttemptTriedOnce'
    <2> SUFFICES ASSUME NEW e \in Events, NEW d \in Cores, e \in Unpublished(d)'
                 PROVE  /\ ticket[d][e] \in (1..attempts'[e]) \ tried[e]
                        /\ \A b \in Cores \ {d} :
                              e \in Unpublished(b)' => ticket[b][e] # ticket[d][e]
      BY <1>1 DEF AttemptTriedOnce
    <2>1. d # c /\ e \in Unpublished(d)
      BY <1>4
    <2>2. ticket[d][e] \in (1..attempts[e]) \ tried[e]
      BY <2>1 DEF IInv, AttemptTriedOnce
    <2>3. \A b \in Cores \ {d} : e \in Unpublished(b)' => ticket[b][e] # ticket[d][e]
      BY <1>4, <2>1 DEF IInv, AttemptTriedOnce
    <2>4. QED
      BY <1>6, <2>2, <2>3
  <1>13. RetryBounded'
    BY <1>3, <1>5, <1>6, <1>7 DEF IInv, RetryBounded
  <1>14. AckedWasStored' /\ IdleHoldsNothing'
    BY <1>1, <1>2 DEF IInv, AckedWasStored, IdleHoldsNothing, IsCurrent
  <1>15. DeliveredWasStored'
    BY <1>1, <1>7 DEF IInv, DeliveredWasStored
  <1>16. QED
    BY <1>8, <1>9, <1>10, <1>11, <1>12, <1>13, <1>14, <1>15 DEF IInv

(* A publish spends the number in hand, and stores the row if it is        *)
(* acknowledged.                                                           *)
LEMMA PublishStep ==
  ASSUME IInv, NEW c \in Cores, NEW e \in Events, Publish(c, e)
  PROVE  IInv'
  <1>1. /\ pc[c] = "delivering" /\ IsCurrent(c, e) /\ RecordTry(c, e)
        /\ pc' \in {[pc EXCEPT ![c] = "acked"], [pc EXCEPT ![c] = "nacked"]}
        /\ pc' = [pc EXCEPT ![c] = "acked"] => stored' = stored \cup {e}
        /\ stored' \in {stored, stored \cup {e}}
        /\ UNCHANGED <<queued, attempts, due, failed, delivered, errored, held, ticket>>
        /\ stream' \in BOOLEAN /\ ready' \in [Cores -> BOOLEAN]
        /\ faults' \in 0..MaxFaults
    <2>1. CASE PublishAcked(c, e)
      BY <2>1 DEF PublishAcked, rowVars, IInv, TypeOK
    <2>2. CASE PublishRefused(c, e)
      <3>1. faults' \in 0..MaxFaults
        BY <2>2, MaxFaultsAssumption DEF PublishRefused, Fault, IInv, TypeOK
      <3>2. pc' # [pc EXCEPT ![c] = "acked"]
        BY <2>2 DEF PublishRefused, IInv, TypeOK
      <3>3. stream' \in BOOLEAN /\ ready' \in [Cores -> BOOLEAN]
        BY <2>2 DEF PublishRefused, IInv, TypeOK
      <3>4. QED
        BY <2>2, <3>1, <3>2, <3>3 DEF PublishRefused, rowVars
    <2>3. CASE PublishAckLost(c, e)
      <3>1. faults' \in 0..MaxFaults
        BY <2>3, MaxFaultsAssumption DEF PublishAckLost, Fault, IInv, TypeOK
      <3>2. stream' \in BOOLEAN /\ ready' \in [Cores -> BOOLEAN]
        BY <2>3 DEF PublishAckLost, IInv, TypeOK
      <3>3. QED
        BY <2>3, <3>1, <3>2 DEF PublishAckLost, rowVars
    <2>4. QED
      BY <2>1, <2>2, <2>3 DEF Publish
  <1>2. /\ pc'[c] \in {"acked", "nacked"}
        /\ pc'[c] = "acked" => e \in stored'
        /\ \A d \in Cores \ {c} : pc'[d] = pc[d]
    BY <1>1 DEF IInv, TypeOK
  <1>3. \A d \in Cores : LockedBy(d)' = LockedBy(d)
    BY <1>1, <1>2 DEF LockedBy
  <1>4. Unpublished(c) = held[c] /\ Unpublished(c)' = held[c] \ {e}
    <2>1. \A f \in held[c] : IsCurrent(c, f) <=> f = e
      BY <1>1, CurrentIsUnique DEF IInv, TypeOK
    <2>2. Unpublished(c)' = {f \in held[c] : ~IsCurrent(c, f)}
      BY <1>1, <1>2 DEF Unpublished, IsCurrent
    <2>3. QED
      BY <1>1, <2>1, <2>2 DEF Unpublished
  <1>5. \A d \in Cores \ {c} : Unpublished(d)' = Unpublished(d)
    BY <1>1, <1>2 DEF Unpublished, IsCurrent
  <1>6. e \in held[c] /\ ticket[c][e] \in 1..attempts[e]
    BY <1>1, <1>4 DEF IsCurrent, IInv, AttemptTriedOnce
  <1>7. /\ tried' \in [Events -> SUBSET (1..MaxAttempts)]
        /\ tried'[e] = tried[e] \cup {ticket[c][e]}
        /\ \A f \in Events \ {e} : tried'[f] = tried[f]
    <2>1. ticket[c][e] \in 1..MaxAttempts
      BY <1>6, MaxAttemptsAssumption DEF IInv, TypeOK
    <2>2. QED
      BY <1>1, <2>1 DEF RecordTry, IInv, TypeOK
  <1>8. TypeOK'
    <2>1. pc' \in [Cores -> PCs]
      BY <1>1 DEF IInv, TypeOK, PCs
    <2>2. stored' \subseteq queued
      BY <1>1, <1>6 DEF IInv, TypeOK
    <2>3. QED
      BY <1>1, <1>7, <2>1, <2>2 DEF IInv, TypeOK
  <1>9. AttemptTriedOnce'
    <2> SUFFICES ASSUME NEW f \in Events, NEW d \in Cores, f \in Unpublished(d)'
                 PROVE  /\ ticket[d][f] \in (1..attempts[f]) \ tried'[f]
                        /\ \A b \in Cores \ {d} :
                              f \in Unpublished(b)' => ticket[b][f] # ticket[d][f]
      BY <1>1 DEF AttemptTriedOnce
    <2>1. f \in Unpublished(d) /\ \A b \in Cores : Unpublished(b)' \subseteq Unpublished(b)
      BY <1>4, <1>5
    <2>2. ticket[d][f] \in (1..attempts[f]) \ tried[f]
      BY <2>1 DEF IInv, AttemptTriedOnce
    <2>3. f = e => d # c /\ ticket[d][e] # ticket[c][e]
      BY <1>4, <1>6, <2>1 DEF IInv, AttemptTriedOnce
    <2>4. \A b \in Cores \ {d} : f \in Unpublished(b)' => ticket[b][f] # ticket[d][f]
      BY <2>1 DEF IInv, AttemptTriedOnce
    <2>5. QED
      BY <1>7, <2>2, <2>3, <2>4
  <1>10. TriedWasCounted'
    BY <1>1, <1>6, <1>7 DEF IInv, TriedWasCounted
  <1>11. ClaimsDisjoint' /\ NextTicketLocked' /\ RetryBounded'
    BY <1>1, <1>3 DEF IInv, ClaimsDisjoint, NextTicketLocked, RetryBounded
  <1>12. AckedWasStored'
    <2> SUFFICES ASSUME NEW d \in Cores, NEW f \in Events,
                        pc'[d] = "acked", IsCurrent(d, f)'
                 PROVE  f \in stored'
      BY DEF AckedWasStored
    <2>1. IsCurrent(d, f)
      BY <1>1 DEF IsCurrent
    <2>2. CASE d = c
      BY <1>1, <1>2, <2>1, <2>2, CurrentIsUnique
    <2>3. CASE d # c
      BY <1>1, <1>2, <2>1, <2>3 DEF IInv, AckedWasStored
    <2>4. QED
      BY <2>2, <2>3
  <1>13. DeliveredWasStored' /\ IdleHoldsNothing'
    BY <1>1, <1>2 DEF IInv, DeliveredWasStored, IdleHoldsNothing
  <1>14. QED
    BY <1>8, <1>9, <1>10, <1>11, <1>12, <1>13 DEF IInv

(* What recording an outcome does to the rows. *)
LEMMA MarkFacts ==
  ASSUME IInv, NEW c \in Cores, NEW e \in Events,
         Mark(c, e) \/ UNCHANGED rowVars
  PROVE  /\ UNCHANGED <<queued, attempts, due, failed>>
         /\ delivered' \subseteq stored /\ delivered' \subseteq queued
         /\ errored' \subseteq queued
         /\ \A d \in Cores : LockedBy(d) \cap delivered' = {}
  <1>1. CASE UNCHANGED rowVars
    BY <1>1 DEF rowVars, IInv, TypeOK, DeliveredWasStored, ClaimsDisjoint
  <1>2. CASE Mark(c, e)
    <2>1. e \in held[c] /\ e \notin Locked /\ IsCurrent(c, e)
      BY <1>2 DEF Mark, IsCurrent
    <2>2. e \in queued
      BY <2>1 DEF IInv, TypeOK
    <2>3. \A d \in Cores : e \notin LockedBy(d) /\ LockedBy(d) \cap delivered = {}
      BY <2>1 DEF Locked, IInv, ClaimsDisjoint
    <2>4. CASE pc[c] = "acked" /\ RecordDelivered(e)
      <3>1. e \in stored
        BY <2>1, <2>4 DEF IInv, AckedWasStored
      <3>2. QED
        BY <2>2, <2>3, <2>4, <3>1 DEF RecordDelivered, IInv, TypeOK, DeliveredWasStored
    <2>5. CASE pc[c] = "nacked" /\ RecordError(e)
      BY <2>2, <2>3, <2>5 DEF RecordError, IInv, TypeOK, DeliveredWasStored
    <2>6. QED
      BY <1>2, <2>4, <2>5 DEF Mark
  <1>3. QED
    BY <1>1, <1>2

(* A Core that lets go of all its rows - it crashed, restarted or gave its *)
(* pass up - disturbs nothing the others know.                             *)
LEMMA ReleaseStep ==
  ASSUME IInv, NEW c \in Cores,
         NEW p \in {"idle", "down"}, pc' = [pc EXCEPT ![c] = p],
         held' = [held EXCEPT ![c] = {}],
         UNCHANGED <<queued, attempts, due, failed, ticket, stream, stored, tried>>,
         delivered' \subseteq stored, delivered' \subseteq queued,
         errored' \subseteq queued,
         \A d \in Cores : LockedBy(d) \cap delivered' = {},
         ready' \in [Cores -> BOOLEAN], faults' \in 0..MaxFaults
  PROVE  IInv'
  <1>1. /\ pc'[c] \in {"idle", "down"} /\ held'[c] = {}
        /\ \A d \in Cores \ {c} : pc'[d] = pc[d] /\ held'[d] = held[d]
    BY DEF IInv, TypeOK
  <1>2. LockedBy(c)' = {} /\ \A d \in Cores \ {c} : LockedBy(d)' = LockedBy(d)
    BY <1>1 DEF LockedBy
  <1>3. Unpublished(c)' = {} /\ \A d \in Cores \ {c} : Unpublished(d)' = Unpublished(d)
    BY <1>1 DEF Unpublished, IsCurrent
  <1>4. TypeOK'
    BY DEF IInv, TypeOK, PCs
  <1>5. ClaimsDisjoint' /\ NextTicketLocked' /\ RetryBounded'
    BY <1>2 DEF IInv, ClaimsDisjoint, NextTicketLocked, RetryBounded
  <1>6. AttemptTriedOnce'
    BY <1>3 DEF IInv, AttemptTriedOnce
  <1>7. AckedWasStored' /\ IdleHoldsNothing'
    BY <1>1 DEF IInv, AckedWasStored, IdleHoldsNothing, IsCurrent
  <1>8. DeliveredWasStored' /\ TriedWasCounted'
    BY DEF IInv, DeliveredWasStored, TriedWasCounted
  <1>9. QED
    BY <1>4, <1>5, <1>6, <1>7, <1>8 DEF IInv

LEMMA MarkFailsStep ==
  ASSUME IInv, NEW c \in Cores, NEW e \in Events, MarkFails(c, e)
  PROVE  IInv'
  <1>1. faults' \in 0..MaxFaults
    BY MaxFaultsAssumption DEF MarkFails, Fault, IInv, TypeOK
  <1>2. QED
    BY <1>1, MarkFacts, ReleaseStep DEF MarkFails, brokerVars, IInv, TypeOK

LEMMA CrashStep ==
  ASSUME IInv, NEW c \in Cores, Crash(c)
  PROVE  IInv'
  <1>1. faults' \in 0..MaxFaults /\ ready' \in [Cores -> BOOLEAN]
    BY MaxFaultsAssumption DEF Crash, Fault, IInv, TypeOK
  <1>2. QED
    BY <1>1, ReleaseStep
       DEF Crash, rowVars, brokerVars, IInv, TypeOK, ClaimsDisjoint, DeliveredWasStored

LEMMA RestartStep ==
  ASSUME IInv, NEW c \in Cores, Restart(c)
  PROVE  IInv'
  <1>1. held' = [held EXCEPT ![c] = {}]
    BY DEF Restart, IInv, TypeOK, IdleHoldsNothing
  <1>2. QED
    BY <1>1, ReleaseStep
       DEF Restart, rowVars, brokerVars, IInv, TypeOK, ClaimsDisjoint, DeliveredWasStored

(* The outcome is recorded and the Core goes on with the rest of its batch. *)
LEMMA MarkOKStep ==
  ASSUME IInv, NEW c \in Cores, NEW e \in Events, MarkOK(c, e)
  PROVE  IInv'
  <1>1. /\ UNCHANGED <<queued, attempts, due, failed>>
        /\ delivered' \subseteq stored /\ delivered' \subseteq queued
        /\ errored' \subseteq queued
        /\ \A d \in Cores : LockedBy(d) \cap delivered' = {}
    BY MarkFacts DEF MarkOK
  <1>2. /\ pc[c] \in {"acked", "nacked"} /\ IsCurrent(c, e)
        /\ held' = [held EXCEPT ![c] = @ \ {e}]
        /\ pc' = [pc EXCEPT ![c] = AfterRow(held[c] \ {e})]
        /\ UNCHANGED <<ticket, ready, stream, stored, tried, faults>>
    BY DEF MarkOK, Mark, brokerVars
  <1>3. /\ held'[c] = held[c] \ {e}
        /\ held'[c] = {} => pc'[c] = "idle"
        /\ held'[c] # {} => pc'[c] = "delivering"
        /\ \A d \in Cores \ {c} : pc'[d] = pc[d] /\ held'[d] = held[d]
    BY <1>2 DEF IInv, TypeOK, AfterRow
  <1>4. LockedBy(c)' = {} /\ \A d \in Cores \ {c} : LockedBy(d)' = LockedBy(d)
    BY <1>3 DEF LockedBy
  <1>5. Unpublished(c)' = Unpublished(c)
    <2>1. \A f \in held[c] : IsCurrent(c, f) <=> f = e
      BY <1>2, CurrentIsUnique DEF IInv, TypeOK
    <2>2. Unpublished(c) = held[c] \ {e}
      BY <1>2, <2>1 DEF Unpublished
    <2>3. Unpublished(c)' = held[c] \ {e}
      BY <1>3 DEF Unpublished
    <2>4. QED
      BY <2>2, <2>3
  <1>6. \A d \in Cores \ {c} : Unpublished(d)' = Unpublished(d)
    BY <1>3 DEF Unpublished, IsCurrent
  <1>7. TypeOK'
    BY <1>1, <1>2 DEF IInv, TypeOK, PCs, AfterRow
  <1>8. ClaimsDisjoint' /\ NextTicketLocked' /\ RetryBounded'
    BY <1>1, <1>2, <1>4 DEF IInv, ClaimsDisjoint, NextTicketLocked, RetryBounded
  <1>9. AttemptTriedOnce'
    BY <1>1, <1>2, <1>5, <1>6 DEF IInv, AttemptTriedOnce
  <1>10. AckedWasStored' /\ IdleHoldsNothing'
    BY <1>2, <1>3 DEF IInv, AckedWasStored, IdleHoldsNothing, IsCurrent
  <1>11. DeliveredWasStored' /\ TriedWasCounted'
    BY <1>1, <1>2 DEF IInv, DeliveredWasStored, TriedWasCounted
  <1>12. QED
    BY <1>7, <1>8, <1>9, <1>10, <1>11 DEF IInv

(* Steps that touch no row and no Core's rows. *)
LEMMA QuietStep ==
  ASSUME IInv, StreamLost \/ UNCHANGED vars
  PROVE  IInv'
  <1>1. faults' \in 0..MaxFaults
    BY MaxFaultsAssumption DEF StreamLost, Fault, vars, IInv, TypeOK
  <1>2. /\ stream' \in BOOLEAN
        /\ UNCHANGED <<queued, attempts, due, failed, delivered, errored,
                       pc, held, ticket, ready, stored, tried>>
    BY DEF StreamLost, vars, rowVars, coreVars, brokerVars, IInv, TypeOK
  <1>3. TypeOK'
    BY <1>1, <1>2 DEF IInv, TypeOK
  <1>4. QED
    BY <1>2, <1>3 DEF IInv, DeliveredWasStored, AckedWasStored, ClaimsDisjoint,
       LockedBy, NextTicketLocked, AttemptTriedOnce, Unpublished, TriedWasCounted,
       RetryBounded, IdleHoldsNothing, IsCurrent

LEMMA NextIInv == IInv /\ [Next]_vars => IInv'
  <1> SUFFICES ASSUME IInv, [Next]_vars PROVE IInv'
    OBVIOUS
  <1>1. ASSUME NEW e \in Events, Enqueue(e) \/ BackoffElapses(e) PROVE IInv'
    BY <1>1, EnqueueStep, BackoffStep
  <1>2. ASSUME NEW c \in Cores, Deliver(c) PROVE IInv'
    BY <1>2, ClaimSelectStep, ClaimCommitStep, PublishStep, MarkOKStep DEF Deliver
  <1>3. ASSUME NEW c \in Cores, CoreFails(c) PROVE IInv'
    BY <1>3, ClaimFailsStep, MarkFailsStep, CrashStep DEF CoreFails
  <1>4. ASSUME NEW c \in Cores, Restart(c) PROVE IInv'
    BY <1>4, RestartStep
  <1>5. CASE StreamLost \/ UNCHANGED vars
    BY <1>5, QuietStep
  <1>6. QED
    BY <1>1, <1>2, <1>3, <1>4, <1>5 DEF Next

(* Whatever the number of Cores and whatever fails, the invariant holds.   *)
THEOREM Invariance == Spec => []IInv
  BY InitIInv, NextIInv, PTL DEF Spec

(* Every variable keeps its type. *)
THEOREM TypeCorrect == Spec => []TypeOK
  <1>1. IInv => TypeOK
    BY DEF IInv
  <1>2. QED
    BY <1>1, Invariance, PTL

(* A row is recorded as delivered only for an event the broker stored.     *)
THEOREM DeliveryIsTrue == Spec => []DeliveredWasStored
  <1>1. IInv => DeliveredWasStored
    BY DEF IInv
  <1>2. QED
    BY <1>1, Invariance, PTL

(* No attempt of a row is handed to two Cores or published twice.          *)
THEOREM AttemptsAreExclusive == Spec => []AttemptTriedOnce
  <1>1. IInv => AttemptTriedOnce
    BY DEF IInv
  <1>2. QED
    BY <1>1, Invariance, PTL

(* Concurrent claims never share a row. *)
THEOREM ClaimsAreDisjoint == Spec => []ClaimsDisjoint
  <1>1. IInv => ClaimsDisjoint
    BY DEF IInv
  <1>2. QED
    BY <1>1, Invariance, PTL

(* A row is failed exactly when its budget is spent, and never claimed     *)
(* after that.                                                             *)
THEOREM RetriesAreBounded == Spec => []RetryBounded
  <1>1. IInv => RetryBounded
    BY DEF IInv
  <1>2. QED
    BY <1>1, Invariance, PTL

-----------------------------------------------------------------------------
(* How each kind of step touches the rows; the action property and the     *)
(* refinement both follow from it.                                         *)
LEMMA RowSteps ==
  ASSUME IInv, [Next]_vars
  PROVE  \/ /\ \E e \in Events : Enqueue(e)
         \/ /\ \E c \in Cores : pc[c] = "selected" /\ SpendAttempt(held[c])
            /\ UNCHANGED stored
         \/ /\ \E e \in queued : stored' = stored \cup {e}
            /\ UNCHANGED <<queued, attempts, failed, delivered, errored>>
         \/ /\ \E e \in stored : RecordDelivered(e)
            /\ UNCHANGED stored
         \/ /\ \E e \in queued : RecordError(e)
            /\ UNCHANGED stored
         \/ UNCHANGED <<queued, attempts, failed, delivered, errored, stored>>
  <1> DEFINE Quiet == UNCHANGED <<queued, attempts, failed, delivered, errored, stored>>
             Spends == /\ \E c \in Cores : pc[c] = "selected" /\ SpendAttempt(held[c])
                       /\ UNCHANGED stored
             Stores == /\ \E e \in queued : stored' = stored \cup {e}
                       /\ UNCHANGED <<queued, attempts, failed, delivered, errored>>
             Confirms == (\E e \in stored : RecordDelivered(e)) /\ UNCHANGED stored
             Errs == (\E e \in queued : RecordError(e)) /\ UNCHANGED stored
  <1>1. ASSUME NEW e \in Events, BackoffElapses(e) PROVE Quiet
    BY <1>1 DEF BackoffElapses, brokerVars
  <1>2. ASSUME NEW c \in Cores, ClaimSelect(c) \/ Restart(c) \/ Crash(c) PROVE Quiet
    BY <1>2 DEF ClaimSelect, Restart, Crash, rowVars, brokerVars
  <1>3. ASSUME NEW c \in Cores, ClaimCommit(c) \/ ClaimFails(c) PROVE Spends \/ Quiet
    BY <1>3 DEF ClaimCommit, ClaimFails, rowVars, brokerVars
  <1>4. ASSUME NEW c \in Cores, NEW e \in Events, Publish(c, e) PROVE Stores \/ Quiet
    <2>1. e \in queued
      BY <1>4 DEF Publish, PublishAcked, PublishRefused, PublishAckLost, IsCurrent,
         IInv, TypeOK
    <2>2. QED
      BY <1>4, <2>1 DEF Publish, PublishAcked, PublishRefused, PublishAckLost, rowVars
  <1>5. ASSUME NEW c \in Cores, NEW e \in Events, MarkOK(c, e) \/ MarkFails(c, e)
        PROVE  Confirms \/ Errs \/ Quiet
    <2>1. UNCHANGED stored /\ (Mark(c, e) \/ UNCHANGED rowVars)
      BY <1>5 DEF MarkOK, MarkFails, brokerVars
    <2>2. CASE Mark(c, e)
      <3>1. e \in queued /\ (pc[c] = "acked" => e \in stored)
        BY <2>2 DEF Mark, IsCurrent, IInv, TypeOK, AckedWasStored
      <3>2. QED
        BY <2>1, <2>2, <3>1 DEF Mark
    <2>3. QED
      BY <2>1, <2>2 DEF rowVars
  <1>6. CASE StreamLost \/ UNCHANGED vars
    BY <1>6 DEF StreamLost, vars, rowVars, brokerVars
  <1>7. QED
    BY <1>1, <1>2, <1>3, <1>4, <1>5, <1>6 DEF Next, Deliver, CoreFails

(* Nothing a late, repeated or crashed pass does moves a delivered row.    *)
THEOREM DeliveryIsFinal == Spec => DeliveredIsFinal
  <1> DEFINE Final ==
        \A e \in delivered :
          /\ e \in delivered'
          /\ attempts'[e] = attempts[e]
          /\ e \in failed' <=> e \in failed
          /\ e \in errored' <=> e \in errored
  <1>1. ASSUME IInv, [Next]_vars PROVE Final
    <2>1. delivered \subseteq Events
      BY <1>1 DEF IInv, TypeOK
    <2>2. CASE \E e \in Events : Enqueue(e)
      BY <2>2 DEF Enqueue
    <2>3. CASE \E c \in Cores : pc[c] = "selected" /\ SpendAttempt(held[c])
      <3>1. PICK c \in Cores : pc[c] = "selected" /\ SpendAttempt(held[c])
        BY <2>3
      <3>2. held[c] \cap delivered = {}
        BY <1>1, <3>1 DEF IInv, ClaimsDisjoint, LockedBy
      <3>3. QED
        BY <2>1, <3>1, <3>2 DEF SpendAttempt
    <2>4. CASE \E e \in stored : RecordDelivered(e)
      BY <2>4 DEF RecordDelivered
    <2>5. CASE \E e \in queued : RecordError(e)
      BY <2>5 DEF RecordError
    <2>6. CASE UNCHANGED <<queued, attempts, failed, delivered, errored>>
      BY <2>6
    <2>7. QED
      BY <1>1, <2>2, <2>3, <2>4, <2>5, <2>6, RowSteps
  <1>2. IInv /\ [Next]_vars => [Final]_vars
    BY <1>1
  <1>3. QED
    BY <1>2, Invariance, PTL DEF Spec, DeliveredIsFinal

(* The table and its broker implement the delivery contract. *)
THEOREM Implementation == Spec => ImplementsContract
  <1>1. Init => Contract!Init
    BY DEF Init, Contract!Init
  <1>2. ASSUME IInv, [Next]_vars PROVE [Contract!Next]_(Contract!vars)
    <2> USE DEF Contract!Next, Contract!vars
    <2>1. queued \subseteq Events /\ stored \subseteq queued
      BY <1>2 DEF IInv, TypeOK
    <2>2. CASE \E e \in Events : Enqueue(e)
      BY <2>2 DEF Enqueue, Contract!Accept, brokerVars
    <2>3. CASE /\ \E c \in Cores : pc[c] = "selected" /\ SpendAttempt(held[c])
               /\ UNCHANGED stored
      <3>1. PICK c \in Cores : pc[c] = "selected" /\ SpendAttempt(held[c])
        BY <2>3
      <3>2. held[c] \subseteq queued \ (delivered \cup failed)
        BY <1>2, <3>1 DEF IInv, TypeOK, ClaimsDisjoint, LockedBy
      <3>3. PICK S \in SUBSET held[c] : failed' = failed \cup S
        BY <3>1, <3>2 DEF SpendAttempt
      <3>4. S \in SUBSET Events /\ S \subseteq queued \ delivered
        BY <2>1, <3>2, <3>3
      <3>5. Contract!GiveUp(S)
        BY <2>3, <3>1, <3>3, <3>4 DEF Contract!GiveUp, SpendAttempt
      <3>6. QED
        BY <3>4, <3>5
    <2>4. CASE /\ \E e \in queued : stored' = stored \cup {e}
               /\ UNCHANGED <<queued, attempts, failed, delivered, errored>>
      BY <2>1, <2>4 DEF Contract!Store
    <2>5. CASE (\E e \in stored : RecordDelivered(e)) /\ UNCHANGED stored
      BY <2>1, <2>5 DEF RecordDelivered, Contract!Confirm
    <2>6. CASE (\E e \in queued : RecordError(e)) /\ UNCHANGED stored
      BY <2>6 DEF RecordError
    <2>7. CASE UNCHANGED <<queued, attempts, failed, delivered, errored, stored>>
      BY <2>7
    <2>8. QED
      BY <1>2, <2>2, <2>3, <2>4, <2>5, <2>6, <2>7, RowSteps
  <1>3. IInv /\ [Next]_vars => [Contract!Next]_(Contract!vars)
    BY <1>2
  <1>4. QED
    BY <1>1, <1>3, Invariance, PTL DEF Spec, Contract!Spec, ImplementsContract
=============================================================================
