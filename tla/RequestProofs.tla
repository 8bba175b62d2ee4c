---------------------------- MODULE RequestProofs ----------------------------
(***************************************************************************)
(* The safety of what a request passes on its way through Core: the key    *)
(* cache that tells who asks, the rate limiter, the gate that tells what   *)
(* he may read, and the circuit breaker before an upstream.  Each is       *)
(* proved about on its own, for any number of requests and any settings    *)
(* its module admits.                                                      *)
(***************************************************************************)
EXTENDS Breaker, Verifier, RateLimit, Access, FiniteSetTheorems, TLAPS

-----------------------------------------------------------------------------
(* The circuit breaker. *)

(* The calls whose result the breaker is waiting for. *)
Waiting == {c \in Callers : Current(c)}

LEMMA WaitingFinite ==
  /\ IsFiniteSet(Waiting) /\ Cardinality(Waiting) \in Nat
  /\ IsFiniteSet(Waiting') /\ Cardinality(Waiting') \in Nat
  BY CallersAssumption, FS_Subset, FS_CardinalityType DEF Waiting

LEMMA InitIInv == Init => IInv
  <1> SUFFICES ASSUME Init PROVE IInv
    OBVIOUS
  <1> USE ThresholdAssumption, ProbesAssumption, AttemptsAssumption
  <1>1. TypeOK
    <2>1. up \in BOOLEAN /\ sawUp \in BOOLEAN /\ sawDown \in BOOLEAN
          /\ expired \in BOOLEAN
      BY Zenon DEF Init
    <2>2. /\ state \in States /\ failures \in 0..FailureThreshold
          /\ probes \in 0..HalfOpenProbes /\ successes \in 0..HalfOpenProbes - 1
      BY DEF Init, States
    <2>3. /\ pc \in [Callers -> PCs] /\ left \in [Callers -> 0..MaxAttempts]
          /\ ticket \in [Callers -> {"current", "stale"}]
      BY DEF Init, PCs
    <2>4. QED
      BY <2>1, <2>2, <2>3 DEF TypeOK
  <1>2. UpstreamSeen
    BY Zenon DEF Init, UpstreamSeen
  <1>3. QED
    BY <1>1, <1>2 DEF Init, IInv, EvidenceIsCurrent, OpenHasNoCurrentCall,
       ProbesCounted, AttemptsLeft, ClosedBelowThreshold

(* Admitting a call: it starts with no evidence; as a probe it takes a     *)
(* slot.                                                                   *)
LEMMA CallStep ==
  ASSUME IInv, NEW c \in Callers, Call(c)
  PROVE  IInv'
  <1> USE ThresholdAssumption, ProbesAssumption, AttemptsAssumption
  <1>1. /\ pc[c] = "idle" /\ pc' = [pc EXCEPT ![c] = "calling"]
        /\ left' \in [Callers -> 0..MaxAttempts] /\ up' = up
    BY DEF Call, Admit, IInv, TypeOK
  <1>2. c \notin Waiting
    BY <1>1 DEF Waiting, Current, InFlight
  <1>3. \A d \in Callers \ {c} : pc'[d] = pc[d]
    BY <1>1 DEF IInv, TypeOK
  <1> AttemptsLeft'
    BY <1>1 DEF Call, Admit, IInv, TypeOK, AttemptsLeft
  <1>4. CASE AllowClosed(c)
    <2>1. TypeOK'
      BY <1>1, <1>4 DEF AllowClosed, IInv, TypeOK, States, PCs
    <2>2. EvidenceIsCurrent'
      BY <1>1, <1>3, <1>4 DEF AllowClosed, IInv, TypeOK, EvidenceIsCurrent
    <2>3. QED
      BY <1>1, <1>4, <2>1, <2>2 DEF AllowClosed, IInv, UpstreamSeen,
         OpenHasNoCurrentCall, ProbesCounted, ClosedBelowThreshold
  <1>5. CASE AllowExpired(c)
    <2>1. TypeOK'
      BY <1>1, <1>5 DEF AllowExpired, IInv, TypeOK, States, PCs, StaleTickets
    <2>2. /\ ticket'[c] = "current" /\ pc'[c] = "calling"
          /\ \A d \in Callers \ {c} : ticket'[d] = "stale"
      BY <1>1, <1>5 DEF AllowExpired, StaleTickets, IInv, TypeOK
    <2>3. EvidenceIsCurrent'
      BY <2>2 DEF EvidenceIsCurrent
    <2>4. Waiting' = {c}
      BY <2>2 DEF Waiting, Current, InFlight
    <2>5. Cardinality(Waiting') = 1
      BY <2>4, FS_Singleton
    <2>6. ProbesCounted'
      BY <1>5, <2>5 DEF AllowExpired, ProbesCounted, Waiting
    <2>7. QED
      BY <1>1, <1>5, <2>1, <2>3, <2>6 DEF AllowExpired, IInv, UpstreamSeen,
         OpenHasNoCurrentCall, ClosedBelowThreshold
  <1>6. CASE AllowProbe(c)
    <2>1. TypeOK'
      BY <1>1, <1>6 DEF AllowProbe, IInv, TypeOK, States, PCs
    <2>2. /\ ticket'[c] = "current" /\ pc'[c] = "calling"
          /\ \A d \in Callers \ {c} : ticket'[d] = ticket[d]
      BY <1>1, <1>6 DEF AllowProbe, IInv, TypeOK
    <2>3. EvidenceIsCurrent'
      BY <1>3, <1>6, <2>2 DEF AllowProbe, IInv, EvidenceIsCurrent
    <2>4. Waiting' = Waiting \cup {c}
      BY <1>2, <1>3, <2>2 DEF Waiting, Current, InFlight
    <2>5. Cardinality(Waiting') = Cardinality(Waiting) + 1
      BY <1>2, <2>4, WaitingFinite, FS_AddElement
    <2>6. ProbesCounted'
      <3>1. Cardinality(Waiting) + successes <= probes
        BY <1>6 DEF AllowProbe, IInv, ProbesCounted, Waiting
      <3>2. QED
        BY <1>6, <2>5, <3>1, WaitingFinite
           DEF AllowProbe, ProbesCounted, Waiting, IInv, TypeOK
    <2>7. QED
      BY <1>1, <1>6, <2>1, <2>3, <2>6 DEF AllowProbe, IInv, UpstreamSeen,
         OpenHasNoCurrentCall, ClosedBelowThreshold
  <1>7. QED
    BY <1>4, <1>5, <1>6 DEF Call

(* An attempt ends, or the wait between two attempts: the call's evidence  *)
(* is of this moment, and nothing else moves.                              *)
LEMMA AttemptStep ==
  ASSUME IInv, NEW c \in Callers, Answer(c) \/ Retry(c)
  PROVE  IInv'
  <1> USE AttemptsAssumption
  <1>1. UNCHANGED <<breakerVars, ticket, upstreamVars>>
    BY DEF Answer, Retry
  <1>2. /\ pc[c] # "idle" /\ pc'[c] # "idle"
        /\ \A d \in Callers \ {c} : pc'[d] = pc[d]
    BY DEF Answer, Retry, IInv, TypeOK
  <1>3. Waiting' = Waiting
    BY <1>1, <1>2 DEF Waiting, Current, InFlight
  <1>4. TypeOK'
    <2>1. pc' \in [Callers -> PCs]
      BY DEF Answer, Retry, IInv, TypeOK, PCs
    <2>2. left' \in [Callers -> 0..MaxAttempts]
      <3>1. CASE UNCHANGED left
        BY <3>1 DEF IInv, TypeOK
      <3>2. CASE pc[c] = "backoff" /\ left' = [left EXCEPT ![c] = @ - 1]
        <4>1. left[c] > 1 /\ left[c] \in 0..MaxAttempts
          BY <3>2 DEF IInv, TypeOK, AttemptsLeft
        <4>2. left[c] - 1 \in 0..MaxAttempts
          BY <4>1
        <4>3. QED
          BY <3>2, <4>2 DEF IInv, TypeOK
      <3>3. QED
        BY <3>1, <3>2 DEF Answer, Retry
    <2>3. QED
      BY <1>1, <2>1, <2>2 DEF breakerVars, upstreamVars, IInv, TypeOK
  <1>5. /\ pc'[c] = "ok" => sawUp
        /\ pc'[c] \in {"backoff", "failed"} /\ ticket[c] = "current" => sawDown
    BY DEF Answer, Retry, IInv, TypeOK, UpstreamSeen, EvidenceIsCurrent
  <1>6. EvidenceIsCurrent'
    BY <1>1, <1>2, <1>5 DEF breakerVars, upstreamVars, IInv, EvidenceIsCurrent
  <1>7. ProbesCounted'
    BY <1>1, <1>3 DEF breakerVars, IInv, ProbesCounted, Waiting
  <1>8. OpenHasNoCurrentCall'
    BY <1>1, <1>2 DEF breakerVars, IInv, OpenHasNoCurrentCall, Current, InFlight
  <1>9. AttemptsLeft'
    BY <1>2 DEF Answer, Retry, IInv, TypeOK, AttemptsLeft
  <1>10. QED
    BY <1>1, <1>4, <1>6, <1>7, <1>8, <1>9 DEF breakerVars, upstreamVars, IInv,
       UpstreamSeen, ClosedBelowThreshold

(* A report that changes no state: the call leaves, its slot stays used.   *)
LEMMA QuietReport ==
  ASSUME IInv, NEW c \in Callers, Report(c), NoTransition,
         UNCHANGED <<probes, expired>>,
         failures' \in 0..FailureThreshold,
         state = "closed" => failures' < FailureThreshold,
         successes' \in 0..HalfOpenProbes - 1,
         \/ successes' = successes
         \/ successes' = successes + 1 /\ ticket[c] = "current"
  PROVE  IInv'
  <1>1. /\ pc[c] # "idle" /\ pc' = [pc EXCEPT ![c] = "idle"] /\ UNCHANGED <<left, up>>
    BY DEF Report
  <1>2. pc'[c] = "idle" /\ \A d \in Callers \ {c} : pc'[d] = pc[d]
    BY <1>1 DEF IInv, TypeOK
  <1>3. Waiting' = Waiting \ {c}
    BY <1>1, <1>2 DEF Waiting, Current, InFlight, NoTransition
  <1>4. Cardinality(Waiting') =
          IF c \in Waiting THEN Cardinality(Waiting) - 1 ELSE Cardinality(Waiting)
    BY <1>3, WaitingFinite, FS_RemoveElement
  <1>5. ticket[c] = "current" => c \in Waiting
    BY <1>1 DEF Waiting, Current, InFlight
  <1>6. TypeOK'
    BY <1>1 DEF NoTransition, IInv, TypeOK, PCs
  <1>7. ProbesCounted'
    <2> SUFFICES ASSUME state = "half_open"
                 PROVE  Cardinality(Waiting') + successes' <= probes
      BY DEF ProbesCounted, Waiting, NoTransition
    <2>1. Cardinality(Waiting) + successes <= probes
      BY DEF IInv, ProbesCounted, Waiting
    <2>2. QED
      BY <1>4, <1>5, <2>1, WaitingFinite, ProbesAssumption DEF IInv, TypeOK
  <1>8. EvidenceIsCurrent'
    BY <1>2 DEF NoTransition, IInv, EvidenceIsCurrent
  <1>9. OpenHasNoCurrentCall' /\ AttemptsLeft'
    BY <1>1, <1>2 DEF NoTransition, IInv, OpenHasNoCurrentCall, Current, InFlight,
       AttemptsLeft
  <1>10. QED
    BY <1>1, <1>6, <1>7, <1>8, <1>9 DEF NoTransition, IInv, UpstreamSeen,
       ClosedBelowThreshold

(* A report that ends the episode: every ticket outstanding turns stale.   *)
LEMMA DecidingReport ==
  ASSUME IInv, NEW c \in Callers, Report(c),
         NEW to \in {"open", "closed"}, Transition(to),
         failures' \in 0..FailureThreshold,
         to = "closed" => failures' = 0,
         probes' = 0, successes' = 0, expired' \in BOOLEAN
  PROVE  IInv'
  <1> USE ThresholdAssumption, ProbesAssumption
  <1>1. pc' = [pc EXCEPT ![c] = "idle"] /\ UNCHANGED <<left, up>>
    BY DEF Report
  <1>2. \A d \in Callers : ticket'[d] = "stale"
    BY DEF Transition, StaleTickets
  <1>3. TypeOK'
    BY <1>1 DEF Transition, StaleTickets, IInv, TypeOK, PCs, States
  <1>4. EvidenceIsCurrent' /\ OpenHasNoCurrentCall'
    BY <1>2 DEF EvidenceIsCurrent, OpenHasNoCurrentCall, Current
  <1>5. UpstreamSeen'
    BY <1>1 DEF Transition, IInv, UpstreamSeen, TypeOK
  <1>6. ProbesCounted' /\ ClosedBelowThreshold' /\ AttemptsLeft'
    BY <1>1 DEF Transition, ProbesCounted, ClosedBelowThreshold, IInv, TypeOK,
       AttemptsLeft
  <1>7. QED
    BY <1>3, <1>4, <1>5, <1>6 DEF IInv

LEMMA ReportStep ==
  ASSUME IInv, NEW c \in Callers, Report(c)
  PROVE  IInv'
  <1> USE ThresholdAssumption, ProbesAssumption
  <1>1. CASE NoTransition /\ UNCHANGED breakerVars
    BY <1>1, QuietReport DEF breakerVars, IInv, TypeOK, ClosedBelowThreshold
  <1>2. CASE Succeed(c)
    <2>1. CASE /\ ticket[c] = "current" /\ successes + 1 < HalfOpenProbes
               /\ successes' = successes + 1
               /\ NoTransition /\ UNCHANGED <<failures, probes, expired>>
      <3>1. successes' \in 0..HalfOpenProbes - 1
        BY <2>1 DEF IInv, TypeOK
      <3>2. QED
        BY <2>1, <3>1, QuietReport DEF IInv, TypeOK, ClosedBelowThreshold
    <2>2. CASE /\ Transition("closed")
               /\ failures' = 0 /\ probes' = 0 /\ successes' = 0
               /\ UNCHANGED expired
      BY <2>2, DecidingReport DEF IInv, TypeOK
    <2>3. CASE /\ failures' = 0
               /\ NoTransition /\ UNCHANGED <<probes, successes, expired>>
      BY <2>3, QuietReport DEF IInv, TypeOK
    <2>4. QED
      BY <1>1, <1>2, <2>1, <2>2, <2>3 DEF Succeed
  <1>3. CASE Fail(c) /\ pc[c] = "failed"
    <2>1. CASE Open /\ UNCHANGED failures
      BY <2>1, DecidingReport DEF Open, IInv, TypeOK
    <2>2. CASE /\ failures' = failures + 1 /\ failures + 1 < FailureThreshold
               /\ NoTransition /\ UNCHANGED <<probes, successes, expired>>
      <3>1. failures' \in 0..FailureThreshold
        BY <2>2 DEF IInv, TypeOK
      <3>2. QED
        BY <2>2, <3>1, QuietReport DEF IInv, TypeOK
    <2>3. CASE /\ failures' = failures + 1 /\ Open
               /\ ticket[c] = "current" /\ state # "half_open"
      <3>1. state = "closed"
        BY <1>3, <2>3 DEF IInv, TypeOK, States, OpenHasNoCurrentCall, Current, InFlight
      <3>2. failures' \in 0..FailureThreshold
        BY <2>3, <3>1 DEF IInv, TypeOK, ClosedBelowThreshold
      <3>3. QED
        BY <2>3, <3>2, DecidingReport DEF Open
    <2>4. QED
      BY <1>1, <1>3, <2>1, <2>2, <2>3 DEF Fail
  <1>4. QED
    BY <1>1, <1>2, <1>3 DEF Report, FailDeterministic

LEMMA EnvironmentStep ==
  ASSUME IInv, WindowElapses \/ UpstreamChanges \/ UNCHANGED vars
  PROVE  IInv'
  <1>1. CASE WindowElapses
    <2>1. TypeOK' /\ Waiting' = Waiting
      BY <1>1 DEF WindowElapses, callVars, upstreamVars, IInv, TypeOK, Waiting,
         Current, InFlight
    <2>2. QED
      BY <1>1, <2>1 DEF WindowElapses, callVars, upstreamVars, IInv, UpstreamSeen,
         EvidenceIsCurrent, OpenHasNoCurrentCall, ProbesCounted, Current, InFlight,
         AttemptsLeft, ClosedBelowThreshold
  <1>2. CASE UpstreamChanges
    <2>1. TypeOK' /\ UpstreamSeen'
      BY <1>2 DEF UpstreamChanges, callVars, breakerVars, IInv, TypeOK, UpstreamSeen
    <2>2. QED
      BY <1>2, <2>1 DEF UpstreamChanges, callVars, breakerVars, IInv,
         EvidenceIsCurrent, OpenHasNoCurrentCall, ProbesCounted, Current, InFlight,
         AttemptsLeft, ClosedBelowThreshold
  <1>3. CASE UNCHANGED vars
    BY <1>3 DEF vars, callVars, breakerVars, upstreamVars, IInv, TypeOK, UpstreamSeen,
       EvidenceIsCurrent, OpenHasNoCurrentCall, ProbesCounted, Current, InFlight,
       AttemptsLeft, ClosedBelowThreshold
  <1>4. QED
    BY <1>1, <1>2, <1>3

LEMMA NextIInv == IInv /\ [Next]_vars => IInv'
  BY CallStep, AttemptStep, ReportStep, EnvironmentStep DEF Next

(* Whatever the callers, the upstream and the clock do, IInv holds. *)
THEOREM Invariance == Spec => []IInv
  BY InitIInv, NextIInv, PTL DEF Spec

(* Counters keep their ranges. *)
THEOREM TypeCorrect == Spec => []TypeOK
  <1>1. IInv => TypeOK
    BY DEF IInv
  <1>2. QED
    BY <1>1, Invariance, PTL

(* Half-open never has more probes outstanding than it may. *)
THEOREM ProbesAreBounded == Spec => []ProbesBounded
  <1>1. IInv => ProbesBounded
    <2> SUFFICES ASSUME IInv, state = "half_open"
                 PROVE  Cardinality(Waiting) + successes <= HalfOpenProbes
      BY DEF ProbesBounded, Waiting
    <2>1. /\ Cardinality(Waiting) + successes <= probes
          /\ probes \in 0..HalfOpenProbes /\ successes \in 0..HalfOpenProbes - 1
      BY DEF IInv, TypeOK, ProbesCounted, Waiting
    <2>2. QED
      BY <2>1, WaitingFinite, ProbesAssumption
  <1>2. QED
    BY <1>1, Invariance, PTL

(* No stale success closes the circuit. *)
THEOREM ClosingIsJustified == Spec => ClosesOnlyOnRecovery
  <1>1. ASSUME IInv, Next, state # "closed", state' = "closed"
        PROVE  sawUp
    <2>1. PICK c \in Callers : Report(c)
      BY <1>1 DEF Next, Call, AllowClosed, AllowExpired, AllowProbe, Answer, Retry,
         WindowElapses, UpstreamChanges, breakerVars
    <2>2. pc[c] = "ok" /\ ticket[c] = "current" /\ state = "half_open"
      BY <1>1, <2>1 DEF Report, Succeed, Fail, FailDeterministic, NoTransition, Open,
         Transition, breakerVars
    <2>3. QED
      BY <1>1, <2>2 DEF IInv, EvidenceIsCurrent
  <1>2. IInv /\ [Next]_vars
          => [state # "closed" /\ state' = "closed" => sawUp]_vars
    BY <1>1
  <1>3. QED
    BY <1>2, Invariance, PTL DEF Spec, ClosesOnlyOnRecovery

(* No stale failure opens it. *)
THEOREM OpeningIsJustified == Spec => OpensOnlyOnOutage
  <1>1. ASSUME IInv, Next, state # "open", state' = "open"
        PROVE  sawDown
    <2>1. PICK c \in Callers : Report(c)
      BY <1>1 DEF Next, Call, AllowClosed, AllowExpired, AllowProbe, Answer, Retry,
         WindowElapses, UpstreamChanges, breakerVars
    <2>2. pc[c] = "failed" /\ ticket[c] = "current"
      BY <1>1, <2>1 DEF Report, Succeed, Fail, FailDeterministic, NoTransition, Open,
         Transition, breakerVars
    <2>3. QED
      BY <1>1, <2>2 DEF IInv, EvidenceIsCurrent
  <1>2. IInv /\ [Next]_vars
          => [state # "open" /\ state' = "open" => sawDown]_vars
    BY <1>1
  <1>3. QED
    BY <1>2, Invariance, PTL DEF Spec, OpensOnlyOnOutage

(* No late arrival extends the open period. *)
THEOREM OpenPeriodStands == Spec => OpenPeriodNotExtended
  <1>1. ASSUME IInv, Next, state = "open", state' = "open", expired
        PROVE  expired'
    <2>1. CASE WindowElapses \/ UpstreamChanges
      BY <1>1, <2>1 DEF WindowElapses, UpstreamChanges, breakerVars
    <2>2. ASSUME NEW c \in Callers, Call(c) \/ Answer(c) \/ Retry(c)
          PROVE  expired'
      BY <1>1, <2>2 DEF Call, AllowClosed, AllowExpired, AllowProbe, Answer, Retry,
         breakerVars
    <2>3. ASSUME NEW c \in Callers, Report(c)
          PROVE  expired'
      <3>1. pc[c] # "idle" => ticket[c] # "current"
        BY <1>1 DEF IInv, OpenHasNoCurrentCall, Current, InFlight
      <3>2. UNCHANGED expired
        BY <2>3, <3>1 DEF Report, Succeed, Fail, FailDeterministic, breakerVars
      <3>3. QED
        BY <1>1, <3>2
    <2>4. QED
      BY <1>1, <2>1, <2>2, <2>3 DEF Next
  <1>2. IInv /\ [Next]_vars
          => [state = "open" /\ state' = "open" => (expired => expired')]_vars
    BY <1>1
  <1>3. QED
    BY <1>2, Invariance, PTL DEF Spec, OpenPeriodNotExtended

-----------------------------------------------------------------------------
(* The key cache of the verifier. *)

LEMMA CacheSets ==
  /\ MaxTime \in Nat /\ Never \notin Nat /\ Times \subseteq Nat
  /\ CacheTTL \in Nat /\ CacheTTL > 0 /\ RefreshEvery \in Nat /\ RefreshEvery > 0
  /\ Timeout \in Nat /\ Timeout > 0
  /\ Never \notin Times /\ Presented \subseteq Tokens
  BY CacheAssumption DEF Times

(* A request in flight holds a fetch. *)
LEMMA FlightFacts ==
  ASSUME CacheTypeOK, NEW r \in Requests, Fetching(r)
  PROVE  /\ job[r] \in Fetches /\ job[r].token \in Tokens
         /\ job[r].began \in Nat /\ job[r].got \in SUBSET Keys
  BY CacheSets DEF CacheTypeOK, Fetching, Fetches

(* What a token is checked with is of the set, and its own key when it     *)
(* names one that the set has.                                             *)
LEMMA LookingUp ==
  ASSUME NEW set \in SUBSET Keys, NEW token \in Tokens
  PROVE  /\ Lookup(set, token) \subseteq set
         /\ LookupFetched(set, token) \subseteq set
         /\ token.named => /\ LookupFetched(set, token) = Lookup(set, token)
                           /\ Lookup(set, token) = set \intersect {token.key}
                           /\ token.key \notin Unnamed
  <1>1. token.key \in Keys /\ (token.named => token.key \notin Unnamed)
    BY DEF Tokens
  <1>2. Lookup(set, token) \subseteq set
    BY DEF Lookup
  <1>3. LookupFetched(set, token) \in {set, Lookup(set, token)}
    BY DEF LookupFetched
  <1>4. token.named => /\ LookupFetched(set, token) = Lookup(set, token)
                       /\ Lookup(set, token) = set \intersect {token.key}
    BY DEF LookupFetched, Lookup
  <1>5. QED
    BY <1>1, <1>2, <1>3, <1>4

LEMMA ParsedFacts ==
  ASSUME NEW served, NEW set \in Parsed(served)
  PROVE  set \subseteq served /\ served \ (Unusable \union Unnamed) \subseteq set
  BY DEF Parsed

LEMMA SayingFacts ==
  ASSUME NEW verdict, NEW token, NEW other, NEW word,
         [verdict |-> verdict, token |-> token] = [verdict |-> word, token |-> other]
  PROVE  verdict = word /\ token = other
  <1>1. /\ [verdict |-> verdict, token |-> token].verdict = verdict
        /\ [verdict |-> verdict, token |-> token].token = token
        /\ [verdict |-> word, token |-> other].verdict = word
        /\ [verdict |-> word, token |-> other].token = other
    OBVIOUS
  <1>2. QED
    BY <1>1

(* Who is told "accepted" has a sound token of a key found, and who is     *)
(* told "refused" has none.                                                *)
(* A token that names a key is checked with that key or with none. *)
LEMMA LookingUpNamed ==
  ASSUME NEW set \in SUBSET Keys, NEW token \in Tokens, token.named
  PROVE  /\ Lookup(set, token) = set \intersect {token.key}
         /\ LookupFetched(set, token) = set \intersect {token.key}
  BY LookingUp

LEMMA VerdictFacts ==
  ASSUME NEW token \in Tokens, NEW found_
  PROVE  LET verdict == Verdict(token, found_) IN
         /\ verdict \in Verdicts
         /\ verdict = "accepted" => token.key \in found_
         /\ (verdict = "refused" /\ token.sound) => token.key \notin found_
  BY DEF Verdict, Verdicts

LEMMA CacheStarts ==
  ASSUME CacheInit
  PROVE  CacheIInv
  <1>1. 0 \in Times
    BY CacheSets DEF Times
  <1>2. CacheTypeOK
    BY <1>1 DEF CacheInit, CacheTypeOK, Stamps
  <1>3. InTime
    BY CacheSets DEF CacheInit, InTime, Fetching
  <1>4. FetchedWasPublished /\ CachedWasPublished /\ FetchesAll /\ WindowKept
    BY DEF CacheInit, FetchedWasPublished, CachedWasPublished, FetchesAll,
           WindowKept, Fetching, Phase
  <1>5. \A verdict, token : answer # [verdict |-> verdict, token |-> token]
    BY DEF CacheInit, Nothing
  <1>6. WithdrawnKeysDie /\ RotationsTake
    BY <1>5 DEF WithdrawnKeysDie, RotationsTake, Turned
  <1>7. QED
    BY <1>2, <1>3, <1>4, <1>6 DEF CacheIInv

(* What the steps do to the requests: one begins its fetch, goes on with   *)
(* it or is done, and its fetch keeps its token and when it began.         *)
LEMMA JobMoves ==
  ASSUME CacheTypeOK, NEW r \in Requests
  PROVE  /\ \A token \in Tokens : BeginsFetch(r, token) =>
               \E e \in Fetches :
                  /\ job' = [job EXCEPT ![r] = e] /\ e.began = now /\ e.got = {} /\ e.phase # "served"
         /\ Discovers(r) =>
               \E e \in Fetches :
                  /\ job' = [job EXCEPT ![r] = e] /\ e.began = job[r].began /\ e.got = job[r].got
                  /\ e.phase # "served"
         /\ Serves(r) =>
               \E e \in Fetches :
                  /\ job' = [job EXCEPT ![r] = e] /\ e.began = job[r].began
                  /\ e.got \in Parsed(Published)
  <1>1. ASSUME NEW token \in Tokens, BeginsFetch(r, token)
        PROVE  \E e \in Fetches :
                  /\ job' = [job EXCEPT ![r] = e] /\ e.began = now /\ e.got = {} /\ e.phase # "served"
    <2> DEFINE phase == IF found THEN "fetching" ELSE "discovering"
    <2> DEFINE e == [phase |-> phase, token |-> token, began |-> now, got |-> {}]
    <2>1. phase \in {"discovering", "fetching", "served"} /\ phase # "served"
      OBVIOUS
    <2>2. job' = [job EXCEPT ![r] = e]
      BY <1>1 DEF BeginsFetch
    <2> HIDE DEF phase
    <2>3. now \in Times
      BY DEF CacheTypeOK
    <2>4. e \in Fetches /\ e.began = now /\ e.got = {} /\ e.phase = phase
      BY <2>1, <2>3 DEF Fetches
    <2>5. QED
      BY <2>1, <2>2, <2>4
  <1>2. ASSUME Discovers(r)
        PROVE  \E e \in Fetches :
                  /\ job' = [job EXCEPT ![r] = e] /\ e.began = job[r].began /\ e.got = job[r].got
                  /\ e.phase # "served"
    <2> DEFINE e == [job[r] EXCEPT !.phase = "fetching"]
    <2>1. job[r] \in Fetches
      BY <1>2, FlightFacts DEF Discovers, Phase
    <2>2. /\ e \in Fetches /\ e.began = job[r].began /\ e.got = job[r].got
          /\ e.phase = "fetching"
      BY <2>1 DEF Fetches
    <2>3. job' = [job EXCEPT ![r] = e]
      BY <1>2 DEF Discovers, CacheTypeOK
    <2> HIDE DEF e
    <2>4. QED
      BY <2>2, <2>3
  <1>3. ASSUME Serves(r)
        PROVE  \E e \in Fetches :
                  /\ job' = [job EXCEPT ![r] = e] /\ e.began = job[r].began
                  /\ e.got \in Parsed(Published)
    <2>1. PICK set \in Parsed(Published) :
             job' = [job EXCEPT ![r].phase = "served", ![r].got = set]
      BY <1>3 DEF Serves
    <2>2. job[r] \in Fetches
      BY <1>3, FlightFacts DEF Serves, Phase
    <2>3. set \in SUBSET Keys
      BY ParsedFacts DEF Published
    <2> DEFINE e == [job[r] EXCEPT !.phase = "served", !.got = set]
    <2>4. e \in Fetches /\ e.began = job[r].began /\ e.got = set
      BY <2>2, <2>3 DEF Fetches
    <2>5. job' = [job EXCEPT ![r] = e]
      BY <2>1 DEF CacheTypeOK
    <2> HIDE DEF e
    <2>6. QED
      BY <2>4, <2>5
  <1>4. QED
    BY <1>1, <1>2, <1>3

LEMMA CacheType ==
  ASSUME CacheTypeOK, [CacheNext]_cacheVars
  PROVE  CacheTypeOK'
  <1> USE CacheSets DEF core, provider, Stamps
  <1>1. CASE UNCHANGED cacheVars
    BY <1>1 DEF cacheVars, CacheTypeOK
  <1>2. /\ now \in Times
        /\ \A verdict \in Verdicts, token \in Tokens :
              [verdict |-> verdict, token |-> token] \in Answers
    BY DEF CacheTypeOK, Answers
  <1>3. CASE Tick
    <2>1. now' \in Times
      BY <1>3 DEF Tick, CacheTypeOK, Times
    <2>2. QED
      BY <1>3, <2>1 DEF Tick, CacheTypeOK
  <1>4. ASSUME NEW k \in Keys, Publish(k) \/ Withdraw(k)
        PROVE  CacheTypeOK'
    BY <1>4 DEF Publish, Withdraw, CacheTypeOK
  <1>5. ASSUME NEW r \in Requests, NEW token \in Tokens, Hits(token) \/ Refuses(token)
        PROVE  CacheTypeOK'
    <2>1. answer' \in Answers
      BY <1>2, <1>5, VerdictFacts DEF Hits, Refuses, Says, Verdicts
    <2>2. QED
      BY <1>5, <2>1 DEF Hits, Refuses, CacheTypeOK
  <1>6. ASSUME NEW r \in Requests, NEW token \in Tokens, BeginsFetch(r, token)
        PROVE  CacheTypeOK'
    <2>1. job' \in [Requests -> Fetches \union {NoJob}]
      BY <1>6, JobMoves DEF CacheTypeOK
    <2>2. lastKid' \in Stamps
      BY <1>6 DEF BeginsFetch, CacheTypeOK
    <2>3. QED
      BY <1>6, <2>1, <2>2 DEF BeginsFetch, CacheTypeOK
  <1>7. ASSUME NEW r \in Requests, Discovers(r) \/ Serves(r)
        PROVE  CacheTypeOK'
    <2>1. job' \in [Requests -> Fetches \union {NoJob}]
      BY <1>7, JobMoves DEF CacheTypeOK
    <2>2. QED
      BY <1>7, <2>1 DEF Discovers, Serves, CacheTypeOK
  <1>8. ASSUME NEW r \in Requests, Stores(r) \/ Fails(r)
        PROVE  CacheTypeOK'
    <2>1. job[r].token \in Tokens /\ job[r].got \in SUBSET Keys
      BY <1>8, FlightFacts DEF Stores, Fails, Phase
    <2>2. answer' \in Answers
      BY <1>2, <1>8, <2>1, VerdictFacts DEF Stores, Fails, Says, Verdicts
    <2>3. trouble' \in Stamps
      BY <1>8 DEF Stores, Fails, CacheTypeOK
    <2>4. QED
      BY <1>8, <2>1, <2>2, <2>3 DEF Stores, Fails, CacheTypeOK
  <1>9. QED
    BY <1>1, <1>3, <1>4, <1>5, <1>6, <1>7, <1>8 DEF CacheNext, Asks

(* A request stays as it is, is done, begins its fetch now, or goes on     *)
(* with the fetch it began and has got, or gets what is published.         *)
LEMMA FetchMoves ==
  ASSUME CacheTypeOK, [CacheNext]_cacheVars, NEW r \in Requests
  PROVE  \/ job'[r] = job[r] \/ job'[r] = NoJob
         \/ /\ job'[r] \in Fetches /\ UNCHANGED <<now, since, gone>>
            /\ \/ job'[r].began = now /\ job'[r].got = {} /\ job'[r].phase # "served"
               \/ /\ Fetching(r) /\ job'[r].began = job[r].began
                  /\ \/ job'[r].got = job[r].got /\ job'[r].phase # "served"
                     \/ job'[r].got \in Parsed(Published)
  <1> USE DEF core, provider
  <1> DEFINE Moves ==
         \/ job'[r] = job[r] \/ job'[r] = NoJob
         \/ /\ job'[r] \in Fetches /\ UNCHANGED <<now, since, gone>>
            /\ \/ job'[r].began = now /\ job'[r].got = {} /\ job'[r].phase # "served"
               \/ /\ Fetching(r) /\ job'[r].began = job[r].began
                  /\ \/ job'[r].got = job[r].got /\ job'[r].phase # "served"
                     \/ job'[r].got \in Parsed(Published)
  <1>1. CASE job' = job
    BY <1>1
  <1>2. ASSUME NEW o \in Requests, NEW e, job' = [job EXCEPT ![o] = e]
        PROVE  job'[r] = IF r = o THEN e ELSE job[r]
    BY <1>2 DEF CacheTypeOK
  <1>3. ASSUME NEW o \in Requests, NEW token \in Tokens, BeginsFetch(o, token)
        PROVE  Moves
    <2>1. PICK e \in Fetches :
             /\ job' = [job EXCEPT ![o] = e] /\ e.began = now /\ e.got = {} /\ e.phase # "served"
      BY <1>3, JobMoves
    <2>2. UNCHANGED <<now, since, gone>>
      BY <1>3 DEF BeginsFetch
    <2>3. QED
      BY <1>2, <2>1, <2>2
  <1>4. ASSUME NEW o \in Requests, Discovers(o)
        PROVE  Moves
    <2>1. PICK e \in Fetches :
             /\ job' = [job EXCEPT ![o] = e] /\ e.began = job[o].began /\ e.got = job[o].got
             /\ e.phase # "served"
      BY <1>4, JobMoves
    <2>2. UNCHANGED <<now, since, gone>> /\ Fetching(o)
      BY <1>4 DEF Discovers, Phase
    <2>3. QED
      BY <1>2, <2>1, <2>2
  <1>5. ASSUME NEW o \in Requests, Serves(o)
        PROVE  Moves
    <2>1. PICK e \in Fetches :
             /\ job' = [job EXCEPT ![o] = e] /\ e.began = job[o].began
             /\ e.got \in Parsed(Published)
      BY <1>5, JobMoves
    <2>2. UNCHANGED <<now, since, gone>> /\ Fetching(o)
      BY <1>5 DEF Serves, Phase
    <2>3. QED
      BY <1>2, <2>1, <2>2
  <1>6. ASSUME NEW o \in Requests, Stores(o) \/ Fails(o)
        PROVE  Moves
    BY <1>2, <1>6 DEF Stores, Fails
  <1>7. ASSUME NEW o \in Requests, Asks(o)
        PROVE  Moves
    BY <1>1, <1>3, <1>7, CacheSets DEF Asks, Hits, Refuses
  <1>8. CASE Tick \/ (\E k \in Keys : Publish(k) \/ Withdraw(k))
             \/ UNCHANGED cacheVars
    BY <1>1, <1>8 DEF Tick, Publish, Withdraw, cacheVars
  <1>9. QED
    BY <1>4, <1>5, <1>6, <1>7, <1>8 DEF CacheNext

(* The provider and the clock move on their own. *)
LEMMA WorldMoves ==
  ASSUME CacheTypeOK, [CacheNext]_cacheVars
  PROVE  \/ UNCHANGED <<now, since, gone>>
         \/ /\ UNCHANGED <<keys, fetchedAt, lastKid, found, job, trouble>> /\ answer' = Nothing
            /\ \/ /\ now' = now + 1 /\ UNCHANGED <<since, gone>>
                  /\ \A r \in Requests : Fetching(r) => now < job[r].began + Timeout
               \/ /\ now' = now /\ gone' = gone
                  /\ \E k \in Keys : since[k] = Never /\ since' = [since EXCEPT ![k] = now]
               \/ /\ now' = now /\ since' = since
                  /\ \E k \in Keys : k \in Published /\ gone' = [gone EXCEPT ![k] = now]
  <1> USE DEF core, provider
  <1>1. CASE Tick
    BY <1>1 DEF Tick
  <1>2. CASE \E k \in Keys : Publish(k)
    BY <1>2 DEF Publish
  <1>3. CASE \E k \in Keys : Withdraw(k)
    BY <1>3 DEF Withdraw
  <1>4. ASSUME NEW r \in Requests,
               Asks(r) \/ Discovers(r) \/ Serves(r) \/ Stores(r) \/ Fails(r)
        PROVE  UNCHANGED <<now, since, gone>>
    BY <1>4 DEF Asks, Hits, Refuses, BeginsFetch,
                Discovers, Serves, Stores, Fails
  <1>5. CASE UNCHANGED cacheVars
    BY <1>5 DEF cacheVars
  <1>6. QED
    BY <1>1, <1>2, <1>3, <1>4, <1>5 DEF CacheNext

(* Moments are moments of the clock. *)
LEMMA MomentFacts ==
  ASSUME CacheTypeOK
  PROVE  /\ now \in Nat
         /\ fetchedAt \in Nat \union {Never} /\ lastKid \in Nat \union {Never} /\ trouble \in Nat \union {Never}
         /\ \A k \in Keys : since[k] \in Nat \union {Never} /\ gone[k] \in Nat \union {Never}
  BY CacheSets DEF CacheTypeOK, Stamps

(* The cache's own moments are set to what the clock says. *)
LEMMA CacheMoves ==
  ASSUME CacheTypeOK, [CacheNext]_cacheVars
  PROVE  /\ \A m \in {fetchedAt', lastKid', trouble'} : m \in {fetchedAt, lastKid, trouble, now}
         /\ lastKid' = lastKid \/ lastKid' = now
         /\ trouble' = trouble \/ trouble' = now
         /\ \/ keys' = keys /\ fetchedAt' = fetchedAt
            \/ \E r \in Requests : Stores(r)
  <1> USE DEF core, provider
  <1>1. \/ fetchedAt' = fetchedAt /\ keys' = keys
        \/ \E r \in Requests : Stores(r)
    BY DEF CacheNext, cacheVars, Tick, Publish, Withdraw, Asks,
           Hits, Refuses, BeginsFetch, Discovers, Serves, Fails
  <1>2. lastKid' = lastKid \/ lastKid' = now
    BY DEF CacheNext, cacheVars, Tick, Publish, Withdraw, Asks,
           Hits, Refuses, BeginsFetch, Discovers, Serves,
           Fails, Stores
  <1>3. trouble' = trouble \/ trouble' = now
    BY DEF CacheNext, cacheVars, Tick, Publish, Withdraw, Asks,
           Hits, Refuses, BeginsFetch, Discovers, Serves,
           Fails, Stores
  <1>4. fetchedAt' = fetchedAt \/ fetchedAt' = now
    BY <1>1 DEF Stores
  <1>5. QED
    BY <1>1, <1>2, <1>3, <1>4

LEMMA InTimeStep ==
  ASSUME CacheTypeOK, InTime, [CacheNext]_cacheVars
  PROVE  InTime'
  <1>1. now \in Nat /\ now' \in Nat /\ now =< now' /\ Timeout \in Nat
    <2>1. now \in Nat
      BY MomentFacts
    <2>2. now' = now \/ now' = now + 1
      BY WorldMoves
    <2>3. QED
      BY <2>1, <2>2, CacheSets
  <1>2. ASSUME NEW m \in {fetchedAt', lastKid', trouble'}, m # Never
        PROVE  m =< now'
    <2>1. m \in {fetchedAt, lastKid, trouble, now}
      BY CacheMoves
    <2>2. m =< now /\ m \in Nat
      BY <1>1, <1>2, <2>1, MomentFacts DEF InTime
    <2>3. QED
      BY <1>1, <2>2
  <1>3. ASSUME NEW k \in Keys, NEW m \in {since'[k], gone'[k]}, m # Never
        PROVE  m =< now'
    <2>1. m \in {since[k], gone[k], now}
      BY <1>3, WorldMoves DEF CacheTypeOK
    <2>2. m =< now /\ m \in Nat
      BY <1>1, <1>3, <2>1, MomentFacts DEF InTime
    <2>3. QED
      BY <1>1, <2>2
  <1>4. ASSUME NEW r \in Requests, job'[r] # NoJob
        PROVE  job'[r].began =< now' /\ now' =< job'[r].began + Timeout
    <2>1. CASE job'[r] = job[r]
      <3>1. Fetching(r)
        BY <1>4, <2>1 DEF Fetching
      <3>2. job[r].began \in Nat /\ job[r].began =< now /\ now =< job[r].began + Timeout
        BY <3>1, FlightFacts DEF InTime
      <3>3. now' = now \/ (now' = now + 1 /\ now < job[r].began + Timeout)
        BY <3>1, WorldMoves
      <3>4. QED
        BY <1>1, <2>1, <3>2, <3>3
    <2>2. CASE job'[r] # job[r]
      <3>1. /\ now' = now
            /\ job'[r].began = now \/ (Fetching(r) /\ job'[r].began = job[r].began)
        BY <1>4, <2>2, FetchMoves
      <3>2. Fetching(r) => job[r].began =< now /\ now =< job[r].began + Timeout
        BY DEF InTime
      <3>3. QED
        BY <1>1, <3>1, <3>2
    <2>3. QED
      BY <2>1, <2>2
  <1>5. QED
    BY <1>2, <1>3, <1>4 DEF InTime, Fetching

(* When the provider ceases to publish a key, the clock says when. *)
LEMMA GoneMoves ==
  ASSUME CacheTypeOK, [CacheNext]_cacheVars, NEW k \in Keys
  PROVE  /\ gone'[k] = gone[k] \/ (gone'[k] = now /\ now' = now)
         /\ since'[k] = since[k] \/ (since[k] = Never /\ since'[k] = now /\ now' = now)
         /\ k \in Published' => k \in Published \/ since'[k] = now
  <1>1. gone'[k] = gone[k] \/ (gone'[k] = now /\ now' = now /\ k \in Published)
    BY WorldMoves DEF CacheTypeOK
  <1>2. since'[k] = since[k] \/ (since[k] = Never /\ since'[k] = now /\ now' = now)
    BY WorldMoves DEF CacheTypeOK
  <1>3. now # Never
    BY MomentFacts, CacheSets
  <1>4. QED
    BY <1>1, <1>2, <1>3 DEF Published

LEMMA PublishedStep ==
  ASSUME CacheTypeOK, InTime,
         FetchedWasPublished, CachedWasPublished, [CacheNext]_cacheVars
  PROVE  FetchedWasPublished' /\ CachedWasPublished'
  <1>1. ASSUME NEW r \in Requests, job'[r] # NoJob, NEW k \in job'[r].got, gone'[k] # Never
        PROVE  job'[r].began =< gone'[k]
    <2>1. CASE \/ job'[r] = job[r]
               \/ Fetching(r) /\ job'[r].began = job[r].began /\ job'[r].got = job[r].got
      <3>1. Fetching(r) /\ job'[r].began = job[r].began /\ k \in job[r].got
        BY <1>1, <2>1 DEF Fetching
      <3>2. k \in Keys /\ job[r].began =< now
        BY <3>1, FlightFacts DEF InTime
      <3>3. gone'[k] = gone[k] \/ gone'[k] = now
        BY <3>2, GoneMoves
      <3>4. QED
        BY <1>1, <3>1, <3>2, <3>3 DEF FetchedWasPublished
    <2>2. CASE job'[r].got = {}
      BY <1>1, <2>2
    <2>3. CASE job'[r].got \in Parsed(Published) /\ UNCHANGED gone
      <3>1. k \in Published
        BY <2>3, ParsedFacts
      <3>2. QED
        BY <1>1, <2>3, <3>1 DEF Published
    <2>4. QED
      BY <1>1, <2>1, <2>2, <2>3, FetchMoves
  <1>2. ASSUME NEW k \in keys'
        PROVE  fetchedAt' # Never /\ (gone'[k] # Never => fetchedAt' =< gone'[k] + Timeout)
    <2>1. CASE keys' = keys /\ fetchedAt' = fetchedAt
      <3>1. /\ k \in keys /\ k \in Keys /\ fetchedAt # Never
            /\ gone[k] # Never => fetchedAt =< gone[k] + Timeout
        BY <1>2, <2>1 DEF CachedWasPublished, CacheTypeOK
      <3>2. fetchedAt \in Nat /\ fetchedAt =< now /\ now \in Nat /\ Timeout \in Nat
        BY <3>1, MomentFacts, CacheSets DEF InTime
      <3>3. gone'[k] = gone[k] \/ gone'[k] = now
        BY <3>1, GoneMoves
      <3>4. QED
        BY <2>1, <3>1, <3>2, <3>3
    <2>2. ASSUME NEW r \in Requests, Stores(r)
          PROVE  fetchedAt' # Never /\ (gone'[k] # Never => fetchedAt' =< gone'[k] + Timeout)
      <3>1. /\ Fetching(r) /\ keys' = job[r].got /\ fetchedAt' = now /\ gone' = gone
        BY <2>2 DEF Stores, Phase, provider
      <3>2. /\ k \in Keys /\ job[r].began \in Nat /\ now =< job[r].began + Timeout
            /\ gone[k] # Never => job[r].began =< gone[k]
        BY <1>2, <3>1, FlightFacts DEF InTime, FetchedWasPublished
      <3>3. now \in Nat /\ Timeout \in Nat /\ gone[k] \in Nat \union {Never} /\ Never \notin Nat
        BY <3>2, MomentFacts, CacheSets
      <3>4. QED
        BY <3>1, <3>2, <3>3
    <2>3. QED
      BY <2>1, <2>2, CacheMoves
  <1>3. QED
    BY <1>1, <1>2 DEF FetchedWasPublished, CachedWasPublished, Fetching

LEMMA FetchesAllStep ==
  ASSUME CacheTypeOK, InTime, FetchesAll,
         [CacheNext]_cacheVars
  PROVE  FetchesAll'
  <1>1. SUFFICES ASSUME NEW r \in Requests, job'[r] # NoJob, job'[r].phase = "served",
                        NEW k \in Published', k \notin Unusable, k \notin Unnamed, k \notin job'[r].got
                 PROVE  job'[r].began =< since'[k]
    BY DEF FetchesAll, Phase, Fetching, Nameable
  <1>2. k \in Keys /\ (k \in Published \/ since'[k] = now)
    BY GoneMoves DEF Published
  <1>3. CASE job'[r] = job[r]
    <2>1. Phase(r, "served") /\ job[r].began =< now
      BY <1>1, <1>3 DEF Phase, Fetching, InTime
    <2>2. CASE k \in Published
      <3>1. since'[k] = since[k]
        BY <1>2, <2>2, GoneMoves DEF Published
      <3>2. job[r].began =< since[k]
        BY <1>1, <1>3, <2>1, <2>2 DEF FetchesAll, Nameable
      <3>3. QED
        BY <1>3, <3>1, <3>2
    <2>3. QED
      BY <1>2, <1>3, <2>1, <2>2
  <1>4. CASE job'[r].got \in Parsed(Published) /\ UNCHANGED <<since, gone>>
    <2>1. k \in Published
      BY <1>1, <1>4 DEF Published
    <2>2. k \in job'[r].got
      BY <1>1, <1>4, <2>1, ParsedFacts
    <2>3. QED
      BY <1>1, <2>2
  <1>5. QED
    BY <1>1, <1>3, <1>4, FetchMoves

(* The window starts with a fetch, and a fetch ends stored or failed. *)
LEMMA WindowMoves ==
  ASSUME CacheTypeOK, [CacheNext]_cacheVars
  PROVE  /\ \/ lastKid' = lastKid
            \/ lastKid' = now /\ \E r \in Requests : Fetching(r)' /\ job'[r].began = now
         /\ \A r \in Requests :
               (Fetching(r) /\ job'[r] = NoJob) => Stores(r) \/ Fails(r)
  <1> USE DEF core, provider
  <1>1. \/ lastKid' = lastKid
        \/ \E r \in Requests : \E token \in Presented : BeginsFetch(r, token)
    BY DEF CacheNext, cacheVars, Tick, Publish, Withdraw, Asks,
           Hits, Refuses, Discovers, Serves, Fails, Stores
  <1>2. ASSUME NEW r \in Requests, NEW token \in Presented, BeginsFetch(r, token)
        PROVE  /\ lastKid' \in {lastKid, now} /\ Fetching(r)' /\ job'[r].began = now
               /\ \A o \in Requests : o # r => job'[o] = job[o]
    <2>1. PICK e \in Fetches : job' = [job EXCEPT ![r] = e] /\ e.began = now
      BY <1>2, JobMoves, CacheSets
    <2>2. job'[r] = e /\ \A o \in Requests : o # r => job'[o] = job[o]
      BY <2>1 DEF CacheTypeOK
    <2>3. e # NoJob
      BY <2>1 DEF Fetches, NoJob
    <2>4. Fetching(r)'
      BY <2>2, <2>3 DEF Fetching, NoJob
    <2>5. lastKid' \in {lastKid, now}
      BY <1>2 DEF BeginsFetch
    <2>6. QED
      BY <2>1, <2>2, <2>4, <2>5
  <1>3. ASSUME NEW r \in Requests, NEW o \in Requests, r # o, NEW e, job' = [job EXCEPT ![o] = e]
        PROVE  job'[r] = job[r]
    BY <1>3 DEF CacheTypeOK
  <1>4. ASSUME NEW r \in Requests, Fetching(r), job'[r] = NoJob
        PROVE  Stores(r) \/ Fails(r)
    <2>1. job'[r] # job[r]
      BY <1>4 DEF Fetching
    <2>2. ASSUME NEW o \in Requests, Stores(o) \/ Fails(o)
          PROVE  r = o
      BY <1>3, <2>1, <2>2 DEF Stores, Fails
    <2>3. ASSUME NEW o \in Requests, Discovers(o) \/ Serves(o)
          PROVE  FALSE
      <3>1. PICK e \in Fetches : job' = [job EXCEPT ![o] = e]
        BY <2>3, JobMoves
      <3>2. r = o /\ job'[r] = e
        BY <1>3, <2>1, <3>1 DEF CacheTypeOK
      <3>3. e # NoJob
        BY <3>1 DEF Fetches, NoJob
      <3>4. QED
        BY <1>4, <3>2, <3>3
    <2>4. ASSUME NEW o \in Requests, Asks(o)
          PROVE  FALSE
      <3>1. PICK token \in Presented : Hits(token) \/ Refuses(token) \/ BeginsFetch(o, token)
        BY <2>4 DEF Asks
      <3>2. job' # job
        BY <2>1
      <3>3. BeginsFetch(o, token)
        BY <3>1, <3>2 DEF Hits, Refuses
      <3>4. QED
        BY <1>2, <1>4, <2>1, <3>3 DEF Fetching, NoJob
    <2>5. job' # job
      BY <2>1
    <2>6. QED
      BY <2>2, <2>3, <2>4, <2>5 DEF CacheNext, cacheVars, Tick, Publish, Withdraw
  <1>5. QED
    BY <1>1, <1>2, <1>4

LEMMA WindowStep ==
  ASSUME CacheTypeOK, InTime, FetchesAll, WindowKept,
         [CacheNext]_cacheVars
  PROVE  WindowKept'
  <1>1. SUFFICES ASSUME lastKid' # Never
                 PROVE  \/ \E r \in Requests : job'[r] # NoJob /\ lastKid' =< job'[r].began
                        \/ trouble' # Never /\ lastKid' =< trouble'
                        \/ \A k \in Published' \ (Unusable \union Unnamed \union keys') :
                              lastKid' =< since'[k]
    BY DEF WindowKept, Nameable, Fetching, NoJob
  <1>2. now \in Nat /\ now # Never
    BY MomentFacts, CacheSets
  <1>3. CASE lastKid' # lastKid
    BY <1>2, <1>3, WindowMoves DEF Fetching, NoJob
  <1>4. CASE lastKid' = lastKid
    <2>1. lastKid \in Nat /\ lastKid =< now
      BY <1>1, <1>4, MomentFacts DEF InTime
    <2>2. ASSUME NEW r \in Requests, Fetching(r), lastKid =< job[r].began
          PROVE  \/ job'[r] # NoJob /\ lastKid' =< job'[r].began
                 \/ trouble' # Never /\ lastKid' =< trouble'
                 \/ \A k \in Published' \ (Unusable \union Unnamed \union keys') :
                       lastKid' =< since'[k]
      <3>1. CASE job'[r] # NoJob
        <4>1. job'[r].began = job[r].began \/ job'[r].began = now
          BY <3>1, FetchMoves
        <4>2. QED
          BY <1>4, <2>1, <2>2, <3>1, <4>1
      <3>2. CASE Fails(r)
        <4>1. trouble' = now
          BY <3>2 DEF Fails
        <4>2. QED
          BY <1>2, <1>4, <2>1, <4>1
      <3>3. CASE Stores(r)
        <4>1. /\ Phase(r, "served") /\ keys' = job[r].got /\ UNCHANGED <<since, gone>>
          BY <3>3 DEF Stores, provider
        <4>2. ASSUME NEW k \in Published' \ (Unusable \union Unnamed \union keys')
              PROVE  lastKid =< since[k]
          <5>1. k \in Nameable /\ k \in Keys /\ since[k] # Never
            BY <4>1, <4>2 DEF Nameable, Published
          <5>2. job[r].began =< since[k]
            BY <4>1, <4>2, <5>1 DEF FetchesAll
          <5>3. job[r].began \in Nat /\ since[k] \in Nat
            BY <2>2, <5>1, FlightFacts, MomentFacts
          <5>4. QED
            BY <2>1, <2>2, <5>2, <5>3
        <4>3. QED
          BY <1>4, <4>1, <4>2
      <3>4. QED
        BY <2>2, <3>1, <3>2, <3>3, WindowMoves
    <2>3. ASSUME trouble # Never, lastKid =< trouble
          PROVE  trouble' # Never /\ lastKid' =< trouble'
      BY <1>2, <1>4, <2>1, <2>3, CacheMoves
    <2>4. ASSUME \A k \in Nameable \ keys : lastKid =< since[k]
          PROVE  \/ trouble' # Never /\ lastKid' =< trouble'
                 \/ \A k \in Published' \ (Unusable \union Unnamed \union keys') :
                       lastKid' =< since'[k]
      <3>1. ASSUME NEW k \in Published' \ (Unusable \union Unnamed), k \notin keys
            PROVE  lastKid =< since'[k]
        <4>1. k \in Keys /\ (k \in Published \/ since'[k] = now)
          BY <3>1, GoneMoves DEF Published
        <4>2. CASE k \in Published
          <5>1. since'[k] = since[k]
            BY <4>1, <4>2, GoneMoves DEF Published
          <5>2. QED
            BY <2>4, <3>1, <4>2, <5>1 DEF Nameable
        <4>3. QED
          BY <2>1, <4>1, <4>2
      <3>2. CASE keys' = keys
        BY <1>4, <3>1, <3>2
      <3>3. ASSUME NEW r \in Requests, Stores(r)
            PROVE  \/ trouble' # Never /\ lastKid' =< trouble'
                   \/ \A k \in Published' \ (Unusable \union Unnamed \union keys') :
                         lastKid' =< since'[k]
        <4>1. /\ keys' = job[r].got /\ UNCHANGED <<since, gone>>
              /\ (keys \intersect Published) \subseteq job[r].got \/ trouble' = now
          BY <3>3 DEF Stores, provider
        <4>2. Published' = Published
          BY <4>1 DEF Published
        <4>3. CASE trouble' = now
          BY <1>2, <1>4, <2>1, <4>3
        <4>4. CASE (keys \intersect Published) \subseteq job[r].got
          BY <1>4, <3>1, <4>1, <4>2, <4>4
        <4>5. QED
          BY <4>1, <4>3, <4>4
      <3>4. QED
        BY <3>2, <3>3, CacheMoves
    <2>5. QED
      BY <1>1, <1>4, <2>2, <2>3, <2>4 DEF WindowKept
  <1>5. QED
    BY <1>3, <1>4

(* Who answers. *)
LEMMA AnswerMoves ==
  ASSUME [CacheNext]_cacheVars
  PROVE  \/ answer' = Nothing
         \/ UNCHANGED cacheVars
         \/ \E token \in Tokens : Hits(token) \/ Refuses(token)
         \/ \E r \in Requests : Stores(r) \/ Fails(r)
  <1>1. ASSUME NEW r \in Requests, Asks(r)
        PROVE  \/ answer' = Nothing
               \/ \E token \in Tokens : Hits(token) \/ Refuses(token)
    <2>1. PICK token \in Presented : Hits(token) \/ Refuses(token) \/ BeginsFetch(r, token)
      BY <1>1 DEF Asks
    <2>2. BeginsFetch(r, token) => answer' = Nothing
      BY DEF BeginsFetch
    <2>3. token \in Tokens
      BY CacheSets
    <2>4. QED
      BY <2>1, <2>2, <2>3
  <1>2. ASSUME Tick \/ (\E k \in Keys : Publish(k) \/ Withdraw(k))
               \/ (\E r \in Requests : Discovers(r) \/ Serves(r))
        PROVE  answer' = Nothing
    BY <1>2 DEF Tick, Publish, Withdraw, Discovers, Serves
  <1>3. QED
    BY <1>1, <1>2 DEF CacheNext

LEMMA NothingSaid ==
  ASSUME NEW verdict, NEW token, Nothing = [verdict |-> verdict, token |-> token]
  PROVE  FALSE
  BY DEF Nothing

LEMMA WithdrawnStep ==
  ASSUME CacheTypeOK, InTime, FetchedWasPublished,
         CachedWasPublished, WithdrawnKeysDie, [CacheNext]_cacheVars
  PROVE  WithdrawnKeysDie'
  <1>1. SUFFICES ASSUME NEW t \in Tokens,
                        answer' = [verdict |-> "accepted", token |-> t], gone'[t.key] # Never
                 PROVE  now' < gone'[t.key] + CacheTTL + Timeout
    BY DEF WithdrawnKeysDie
  <1>2. t.key \in Keys
    BY DEF Tokens
  <1>3. /\ now \in Nat /\ gone[t.key] \in Nat \union {Never}
        /\ CacheTTL \in Nat /\ CacheTTL > 0 /\ Timeout \in Nat
    BY <1>2, MomentFacts, CacheSets
  <1>4. CASE UNCHANGED cacheVars
    <2>1. answer' = answer /\ gone' = gone /\ now' = now
      BY <1>4 DEF cacheVars, provider
    <2>2. QED
      BY <1>1, <2>1 DEF WithdrawnKeysDie
  <1>5. ASSUME NEW token \in Tokens, Hits(token)
        PROVE  now' < gone'[t.key] + CacheTTL + Timeout
    <2>1. /\ Verdict(token, Lookup(keys, token)) = "accepted" /\ token = t
          /\ now' = now /\ gone' = gone
      BY <1>1, <1>5, SayingFacts DEF Hits, Says, provider
    <2>2. keys \in SUBSET Keys
      BY DEF CacheTypeOK
    <2>3. t.key \in keys
      BY <2>1, <2>2, VerdictFacts, LookingUp
    <2>4. /\ fetchedAt # Never /\ now - fetchedAt < CacheTTL /\ fetchedAt =< gone[t.key] + Timeout
      BY <1>1, <1>5, <2>1, <2>3 DEF Hits, Fresh, CachedWasPublished
    <2>5. fetchedAt \in Nat /\ gone[t.key] \in Nat
      BY <1>1, <1>3, <2>1, <2>4, MomentFacts
    <2>6. QED
      BY <1>3, <2>1, <2>4, <2>5
  <1>6. ASSUME NEW r \in Requests, Stores(r)
        PROVE  now' < gone'[t.key] + CacheTTL + Timeout
    <2>1. /\ Verdict(job[r].token, LookupFetched(job[r].got, job[r].token)) = "accepted"
          /\ job[r].token = t /\ now' = now /\ gone' = gone /\ Fetching(r)
      BY <1>1, <1>6, SayingFacts DEF Stores, Says, provider, Phase
    <2>2. job[r].got \in SUBSET Keys /\ job[r].began \in Nat
      BY <2>1, FlightFacts
    <2>3. t.key \in job[r].got
      BY <2>1, <2>2, VerdictFacts, LookingUp
    <2>4. job[r].began =< gone[t.key] /\ now =< job[r].began + Timeout /\ gone[t.key] \in Nat
      BY <1>1, <1>3, <2>1, <2>3 DEF FetchedWasPublished, InTime
    <2>5. QED
      BY <1>3, <2>1, <2>2, <2>4
  <1>7. ASSUME NEW token, answer' = [verdict |-> "refused", token |-> token]
               \/ answer' = [verdict |-> "unavailable", token |-> token]
        PROVE  FALSE
    BY <1>1, <1>7, SayingFacts
  <1>8. ASSUME (\E token \in Tokens : Refuses(token)) \/ (\E r \in Requests : Fails(r))
        PROVE  FALSE
    BY <1>7, <1>8 DEF Refuses, Fails, Says
  <1>9. QED
    BY <1>1, <1>4, <1>5, <1>6, <1>8, AnswerMoves, NothingSaid

(* A token that names a published key Core can use is not turned away but  *)
(* for a reason.                                                           *)
LEMMA RotationsStep ==
  ASSUME CacheTypeOK, InTime, FetchesAll, WindowKept,
         RotationsTake, [CacheNext]_cacheVars
  PROVE  RotationsTake'
  <1>1. SUFFICES ASSUME NEW t \in Tokens,
                        answer' = [verdict |-> "refused", token |-> t], t.sound, t.named,
                        t.key \in Published', t.key \notin Unusable
                 PROVE  Excused(t)'
    BY DEF RotationsTake, Turned
  <1>2. t.key \in Keys /\ t.key \notin Unnamed
    BY <1>1 DEF Tokens
  <1>3. /\ now \in Nat /\ since[t.key] \in Nat \union {Never} /\ Never \notin Nat
        /\ RefreshEvery \in Nat /\ Timeout \in Nat
    BY <1>2, MomentFacts, CacheSets
  <1>4. CASE UNCHANGED cacheVars
    <2>1. answer' = answer /\ since' = since /\ gone' = gone /\ now' = now /\ job' = job /\ trouble' = trouble
      BY <1>4 DEF cacheVars, provider
    <2>2. t.key \in Published
      BY <1>1, <2>1 DEF Published
    <2>3. Excused(t)
      BY <1>1, <2>1, <2>2 DEF RotationsTake, Turned
    <2>4. QED
      BY <2>1, <2>3 DEF Excused, Fetching, NoJob
  <1>5. ASSUME UNCHANGED <<now, since, gone>>
        PROVE  /\ t.key \in Nameable /\ since[t.key] \in Nat
               /\ now' = now /\ since'[t.key] = since[t.key]
    BY <1>1, <1>2, <1>3, <1>5 DEF Nameable, Published
  <1>6. ASSUME NEW token \in Tokens, Hits(token)
        PROVE  FALSE
    <2>1. /\ Verdict(token, Lookup(keys, token)) = "refused" /\ token = t
          /\ Lookup(keys, token) # {}
      BY <1>1, <1>6, SayingFacts DEF Hits, Says
    <2>2. keys \in SUBSET Keys
      BY DEF CacheTypeOK
    <2>3. Lookup(keys, t) = keys \intersect {t.key}
      BY <1>1, <2>2, LookingUpNamed
    <2>4. t.key \notin Lookup(keys, t)
      BY <1>1, <2>1, VerdictFacts
    <2>5. QED
      BY <2>1, <2>3, <2>4
  <1>7. ASSUME NEW token \in Tokens, Refuses(token)
        PROVE  Excused(t)'
    <2>1. /\ token = t /\ Lookup(keys, token) = {} /\ Throttled
          /\ UNCHANGED <<now, since, gone>> /\ job' = job /\ trouble' = trouble
      BY <1>1, <1>7, SayingFacts DEF Refuses, Says, provider
    <2>2. keys \in SUBSET Keys
      BY DEF CacheTypeOK
    <2>3. t.key \in Nameable \ keys
      <3>1. t.key \in Nameable
        BY <1>5, <2>1
      <3>2. Lookup(keys, t) = keys \intersect {t.key}
        BY <1>1, <2>2, LookingUpNamed
      <3>3. QED
        BY <2>1, <3>1, <3>2
    <2>4. lastKid \in Nat /\ lastKid # Never /\ now - lastKid < RefreshEvery
      BY <2>1, MomentFacts DEF Throttled
    <2>5. CASE \E r \in Requests : Fetching(r) /\ lastKid =< job[r].began
      BY <2>1, <2>5 DEF Excused, Fetching, NoJob
    <2>6. CASE trouble # Never /\ lastKid =< trouble
      <3>1. trouble \in Nat /\ now < trouble + RefreshEvery
        BY <1>3, <2>4, <2>6, MomentFacts
      <3>2. QED
        BY <2>1, <2>6, <3>1 DEF Excused
    <2>7. CASE \A k \in Nameable \ keys : lastKid =< since[k]
      <3>1. lastKid =< since[t.key] /\ since[t.key] \in Nat /\ now' = now /\ since'[t.key] = since[t.key]
        BY <1>5, <2>1, <2>3, <2>7
      <3>2. now' < since'[t.key] + RefreshEvery
        BY <1>3, <2>4, <3>1
      <3>3. QED
        BY <3>2 DEF Excused
    <2>8. QED
      BY <2>4, <2>5, <2>6, <2>7 DEF WindowKept
  <1>8. ASSUME NEW r \in Requests, Stores(r)
        PROVE  Excused(t)'
    <2>1. /\ Verdict(job[r].token, LookupFetched(job[r].got, job[r].token)) = "refused"
          /\ job[r].token = t /\ UNCHANGED <<now, since, gone>> /\ Phase(r, "served")
          /\ Fetching(r)
      BY <1>1, <1>8, SayingFacts DEF Stores, Says, provider, Phase
    <2>2. job[r].got \in SUBSET Keys /\ job[r].began \in Nat /\ now =< job[r].began + Timeout
      BY <2>1, FlightFacts DEF InTime
    <2>3. LookupFetched(job[r].got, t) = job[r].got \intersect {t.key}
      BY <1>1, <2>2, LookingUpNamed
    <2>4. t.key \notin LookupFetched(job[r].got, t)
      BY <1>1, <2>1, VerdictFacts
    <2>5. t.key \in Nameable \ job[r].got
      BY <1>5, <2>1, <2>3, <2>4
    <2>6. job[r].began =< since[t.key] /\ since[t.key] \in Nat /\ now' = now /\ since'[t.key] = since[t.key]
      BY <1>5, <2>1, <2>5 DEF FetchesAll
    <2>7. now' =< since'[t.key] + Timeout
      BY <1>3, <2>2, <2>6
    <2>8. QED
      BY <2>7 DEF Excused
  <1>9. ASSUME NEW r \in Requests, Fails(r)
        PROVE  FALSE
    BY <1>1, <1>9, SayingFacts DEF Fails, Says
  <1>10. QED
    BY <1>1, <1>4, <1>6, <1>7, <1>8, <1>9, AnswerMoves, NothingSaid

LEMMA CacheStep ==
  ASSUME CacheIInv, [CacheNext]_cacheVars
  PROVE  CacheIInv'
  <1>1. /\ CacheTypeOK /\ InTime /\ FetchedWasPublished /\ CachedWasPublished
        /\ FetchesAll /\ WindowKept /\ WithdrawnKeysDie /\ RotationsTake
    BY DEF CacheIInv
  <1>2. CacheTypeOK' /\ InTime'
    BY <1>1, CacheType, InTimeStep
  <1>3. FetchedWasPublished' /\ CachedWasPublished'
    BY <1>1, PublishedStep
  <1>4. FetchesAll' /\ WindowKept'
    BY <1>1, FetchesAllStep, WindowStep
  <1>5. WithdrawnKeysDie' /\ RotationsTake'
    BY <1>1, WithdrawnStep, RotationsStep
  <1>6. QED
    BY <1>2, <1>3, <1>4, <1>5 DEF CacheIInv

(* However fetches overlap, fail and end, and whatever tokens arrive: a    *)
(* fetch under way has what was published since it began and lacks only    *)
(* newer keys, what is cached was published at most a fetch before it was  *)
(* stored, and within a window either the cache lacks only keys newer than *)
(* it, or a fetch is under way, or one failed or undid another (keyFor and *)
(* refresh of internal/oidc/verifier.go).                                  *)
THEOREM CacheInvariance == CacheSpec => []CacheIInv
  <1>1. CacheInit => CacheIInv
    BY CacheStarts
  <1>2. CacheIInv /\ [CacheNext]_cacheVars => CacheIInv'
    BY CacheStep
  <1>3. QED
    BY <1>1, <1>2, PTL DEF CacheSpec

(* No token of a key the provider has withdrawn is accepted once CacheTTL  *)
(* and the time of one fetch have passed (keyFor, fresh).                  *)
THEOREM WithdrawnKeysAreOfNoUse == CacheSpec => []WithdrawnKeysDie
  <1>1. CacheIInv => WithdrawnKeysDie
    BY DEF CacheIInv
  <1>2. QED
    BY <1>1, CacheInvariance, PTL

(* A sound token that names a published key is refused only while the key  *)
(* is new, a fetch is under way, or one failed or undid another within the *)
(* window (keyFor, lastKidRefresh).                                        *)
THEOREM RotationsDoTake == CacheSpec => []RotationsTake
  <1>1. CacheIInv => RotationsTake
    BY DEF CacheIInv
  <1>2. QED
    BY <1>1, CacheInvariance, PTL

-----------------------------------------------------------------------------
(* The rate limiter. *)

LEMMA LimiterSets ==
  /\ Watched \in Principals
  /\ Cost \in Nat /\ Cost > 0 /\ Rate \in Nat /\ Rate > 0 /\ Idle \in Nat
  /\ Burst \in Nat /\ MaxLag \in Nat /\ MaxClock \in Nat
  /\ Burst >= Cost
  /\ Absent \notin Buckets /\ Absent \notin Calls /\ Absent \notin Refusals
  /\ Instants \subseteq Nat
  BY LimiterAssumption DEF Instants

(* What a bucket holds. *)
LEMMA BucketFacts ==
  ASSUME NEW b \in Buckets
  PROVE  b.tokens \in Nat /\ b.tokens =< Burst /\ b.tokens \in 0 .. Burst /\ b.seen \in Nat /\ Burst \in Nat
  <1> DEFINE tokens == b.tokens
  <1> DEFINE seen == b.seen
  <1>1. tokens \in 0 .. Burst /\ seen \in Instants
    BY DEF Buckets
  <1> HIDE DEF tokens, seen
  <1>2. Burst \in Nat
    BY LimiterSets
  <1>3. tokens \in Nat /\ tokens =< Burst
    BY <1>1, <1>2
  <1>4. seen \in Nat
    BY <1>1, LimiterSets
  <1>5. QED
    BY <1>1, <1>2, <1>3, <1>4 DEF tokens, seen

LEMMA RateGives ==
  ASSUME NEW rate \in Nat, NEW span \in Nat
  PROVE  rate * span \in Nat
  OBVIOUS

(* What the rate gives over a time, and over a longer one. *)
LEMMA RateGrows ==
  ASSUME NEW rate \in Nat, NEW a \in Int, NEW b \in Int
  PROVE  /\ rate * a \in Int /\ rate * b \in Int /\ rate * (a + b) = rate * a + rate * b
         /\ a =< b => rate * a =< rate * b
         /\ b >= 0 => rate * b >= 0
  <1>1. rate * a \in Int /\ rate * b \in Int /\ rate * (a + b) = rate * a + rate * b
    OBVIOUS
  <1>2. b >= 0 => rate * b >= 0
    OBVIOUS
  <1>3. a =< b => rate * a =< rate * b
    <2>1. SUFFICES ASSUME a =< b
                   PROVE  rate * a =< rate * b
      OBVIOUS
    <2> DEFINE more == b - a
    <2>2. more \in Int /\ more >= 0 /\ b = a + more
      BY <2>1
    <2> HIDE DEF more
    <2>3. rate * more \in Int /\ rate * more >= 0 /\ rate * b = rate * a + rate * more
      BY <2>2
    <2>4. QED
      BY <1>1, <2>3
  <1>4. QED
    BY <1>1, <1>2, <1>3

LEMMA OneMore ==
  ASSUME NEW cost \in Nat, NEW n \in Int
  PROVE  cost * (n + 1) = cost * n + cost /\ cost * n \in Int
  OBVIOUS

LEMMA Division ==
  ASSUME NEW n \in Nat, NEW d \in Nat, d > 0
  PROVE  /\ n \div d \in Int
         /\ d * (n \div d) =< n /\ n < d * (n \div d) + d
  <1>1. n \div d \in Int
    BY SMT
  <1>2. n = d * (n \div d) + (n % d)
    BY Z3
  <1>3. n % d \in 0 .. d - 1
    BY Z3
  <1> DEFINE part == d * (n \div d)
  <1>4. part \in Int
    BY <1>1
  <1> HIDE DEF part
  <1>5. part =< n /\ n < part + d
    BY <1>2, <1>3, <1>4 DEF part
  <1>6. QED
    BY <1>1, <1>5 DEF part

(* Ten minutes, less the wait for the mutex, fill a bucket. *)
LEMMA IdleFills ==
  Burst =< Rate * (Idle - MaxLag)
  BY LimiterAssumption

(* The wait is long enough for what is lacking. *)
LEMMA WaitSuffices ==
  ASSUME NEW tokens \in Nat, tokens < Cost
  PROVE  Wait(tokens) \in Nat /\ Wait(tokens) > 0 /\ tokens + Rate * Wait(tokens) >= Cost
  <1> DEFINE n == Cost - tokens + Rate - 1
  <1> DEFINE w == n \div Rate
  <1>1. n \in Nat /\ Rate \in Nat /\ Rate > 0 /\ n >= Rate
    BY LimiterSets
  <1>2. w \in Int /\ Rate * w =< n /\ n < Rate * w + Rate
    <2> HIDE DEF n
    <2>1. QED
      BY <1>1, Division
  <1>3. w = Wait(tokens)
    BY DEF Wait
  <1> HIDE DEF w
  <1>4. tokens + Rate * w >= Cost
    BY <1>1, <1>2, LimiterSets
  <1>5. w > 0
    <2>1. CASE w =< 0
      <3>1. Rate * w =< 0
        BY <1>1, <1>2, <2>1, RateGrows
      <3>2. QED
        BY <1>1, <1>2, <3>1
    <2>2. QED
      BY <1>2, <2>1
  <1>6. QED
    BY <1>2, <1>3, <1>4, <1>5

LEMMA LimiterStarts ==
  ASSUME LimiterInit
  PROVE  LimiterIInv
  <1>1. 0 \in Instants
    BY LimiterSets DEF Instants
  <1>2. << >> \in Seq(Entries) /\ DOMAIN << >> = {}
    OBVIOUS
  <1>3. LimiterTypeOK
    BY <1>1, <1>2 DEF LimiterInit, LimiterTypeOK
  <1>4. Punctual /\ NeverTooLittle /\ Promised
    BY LimiterSets DEF LimiterInit, Punctual, NeverTooLittle, Promised
  <1>5. NeverTooMuch /\ WindowsBounded
    BY <1>2 DEF LimiterInit, NeverTooMuch, WindowsBounded
  <1>6. RefusalsEarned /\ RetryHonoured
    BY DEF LimiterInit, RefusalsEarned, RetryHonoured
  <1>7. QED
    BY <1>3, <1>4, <1>5, <1>6 DEF LimiterIInv

(* What Filled makes of a bucket: it is of the time that was read, it is   *)
(* full or has all that the rate gave since, and never more than that.     *)
LEMMA FilledFacts ==
  ASSUME LimiterTypeOK, NEW p \in Principals, NEW time \in Instants
  PROVE  /\ Filled(p, time) \in Buckets /\ Filled(p, time).seen = time
         /\ bucket[p] = Absent => Filled(p, time).tokens = Burst
         /\ bucket[p] # Absent =>
               /\ bucket[p] \in Buckets
               /\ \/ Filled(p, time).tokens = Burst
                  \/ Filled(p, time).tokens
                        = bucket[p].tokens + Rate * Positive(time - bucket[p].seen)
               /\ Filled(p, time).tokens
                     =< bucket[p].tokens + Rate * Positive(time - bucket[p].seen)
  <1>1. Burst \in Nat /\ time \in Nat /\ Rate \in Nat
    BY LimiterSets
  <1>2. CASE bucket[p] = Absent
    <2>1. Filled(p, time) = [tokens |-> Burst, seen |-> time]
      BY <1>2 DEF Filled
    <2>2. QED
      BY <1>1, <1>2, <2>1 DEF Buckets
  <1>3. CASE bucket[p] # Absent
    <2> DEFINE old == bucket[p]
    <2> DEFINE span == Positive(time - old.seen)
    <2> DEFINE gained == Rate * span
    <2>0. old \in Buckets
      BY <1>3 DEF LimiterTypeOK
    <2>1. old.tokens \in Nat /\ old.seen \in Nat /\ old.tokens =< Burst
      BY <1>1, <2>0, LimiterSets, BucketFacts
    <2>2. span \in Nat
      BY <1>1, <2>1 DEF Positive
    <2> HIDE DEF span
    <2>3. gained \in Nat
      BY <1>1, <2>2, RateGives
    <2>4. Filled(p, time) = [tokens |-> Least(Burst, old.tokens + gained), seen |-> time]
      BY <1>3 DEF Filled, Refilled, span
    <2> HIDE DEF gained
    <2>5. /\ Least(Burst, old.tokens + gained) \in 0 .. Burst
          /\ Least(Burst, old.tokens + gained) \in {Burst, old.tokens + gained}
          /\ Least(Burst, old.tokens + gained) =< old.tokens + gained
      BY <1>1, <2>1, <2>3 DEF Least
    <2>6. QED
      BY <1>3, <2>0, <2>1, <2>4, <2>5 DEF Buckets, gained, span
  <1>4. QED
    BY <1>2, <1>3

(* Who enters is a principal with a time he has read, and what is evicted  *)
(* for his entry is a bucket that is kept and does not idle.               *)
LEMMA EnteringFacts ==
  ASSUME LimiterTypeOK, NEW r \in Arrivals, Enters(r)
  PROVE  /\ \E p \in Principals, time \in Instants, out \in SUBSET Principals :
               /\ p = call[r].principal /\ time = call[r].read /\ out \in Evictions(p, time)
               /\ Settles(p, time, out) /\ Remembers(p, time, out)
         /\ call[r] # Absent /\ call' = [call EXCEPT ![r] = Absent] /\ clock' = clock
  <1>1. /\ call[r] # Absent /\ call' = [call EXCEPT ![r] = Absent] /\ clock' = clock
        /\ \E out \in Evictions(call[r].principal, call[r].read) :
              /\ Settles(call[r].principal, call[r].read, out)
              /\ Remembers(call[r].principal, call[r].read, out)
    BY DEF Enters
  <1>2. call[r] \in Calls
    BY <1>1 DEF LimiterTypeOK
  <1>3. call[r].principal \in Principals /\ call[r].read \in Instants
    BY <1>2 DEF Calls
  <1>4. Evictions(call[r].principal, call[r].read) \subseteq SUBSET Principals
    BY DEF Evictions, Evicted, Kept
  <1>5. QED
    BY <1>1, <1>3, <1>4

(* Of one bucket may be had what it holds. *)
LEMMA DecidingFacts ==
  ASSUME LimiterTypeOK, NEW p \in Principals, NEW time \in Instants, NEW out,
         Settles(p, time, out)
  PROVE  /\ bucket' \in [Principals -> Buckets \union {Absent}]
         /\ bucket'[p] # Absent /\ bucket'[p].seen = time
         /\ Allows(p, time) => bucket'[p].tokens = Filled(p, time).tokens - Cost
         /\ ~Allows(p, time) => bucket'[p].tokens = Filled(p, time).tokens
         /\ \A q \in Principals : q # p =>
               bucket'[q] = IF q \in Swept(p, time, out) THEN Absent ELSE bucket[q]
  <1> DEFINE filled == Filled(p, time)
  <1> DEFINE taken == IF Allows(p, time) THEN Cost ELSE 0
  <1> DEFINE mine == [filled EXCEPT !.tokens = @ - taken]
  <1>1. filled \in Buckets /\ filled.seen = time
    BY FilledFacts
  <1>2. filled.tokens \in 0 .. Burst /\ Burst \in Nat
    BY <1>1, LimiterSets, BucketFacts
  <1>3. taken \in Nat /\ filled.tokens - taken \in 0 .. Burst
    BY <1>2, LimiterSets DEF Allows
  <1>4. \A q \in Principals :
           bucket'[q] = IF q = p THEN mine ELSE IF q \in Swept(p, time, out) THEN Absent ELSE bucket[q]
    BY DEF Settles
  <1>5. bucket' \in [Principals -> {bucket'[q] : q \in Principals}]
    BY DEF Settles
  <1> HIDE DEF filled, taken
  <1>6. mine \in Buckets /\ mine.seen = time /\ mine.tokens = filled.tokens - taken
    BY <1>1, <1>3 DEF Buckets
  <1> HIDE DEF mine
  <1>7. \A q \in Principals : bucket'[q] \in Buckets \union {Absent}
    BY <1>4, <1>6 DEF LimiterTypeOK
  <1>8. bucket' \in [Principals -> Buckets \union {Absent}]
    BY <1>5, <1>7
  <1>9. /\ Allows(p, time) => taken = Cost
        /\ ~Allows(p, time) => taken = 0
    BY DEF taken
  <1>10. bucket'[p] = mine /\ mine # Absent
    BY <1>4, <1>6, LimiterSets
  <1>11. filled.tokens \in Nat
    BY <1>2
  <1>12. filled = Filled(p, time)
    BY DEF filled
  <1>13. QED
    BY <1>4, <1>6, <1>8, <1>9, <1>10, <1>11, <1>12

LEMMA RememberingFacts ==
  ASSUME LimiterTypeOK, NEW p \in Principals, NEW time \in Instants, NEW out,
         Remembers(p, time, out)
  PROVE  /\ allowed' \in Seq(Entries) /\ refused' \in Refusals \union {Absent}
         /\ forgot' \in Nat /\ back' \in Nat /\ forgot' >= forgot
  <1>1. forgot' \in Nat /\ forgot' >= forgot
    BY DEF Remembers, LimiterTypeOK
  <1>2. back' \in Nat
    <2>1. CASE p = Watched /\ bucket[p] # Absent
      <3>1. bucket[p] \in Buckets
        BY <2>1 DEF LimiterTypeOK
      <3>2. bucket[p].seen \in Nat /\ time \in Nat
        BY <3>1, LimiterSets, BucketFacts
      <3>3. Positive(bucket[p].seen - time) \in Nat
        BY <3>2 DEF Positive
      <3>4. back' = back + Positive(bucket[p].seen - time)
        BY <2>1 DEF Remembers
      <3>5. QED
        BY <3>3, <3>4 DEF LimiterTypeOK
    <2>2. CASE ~(p = Watched /\ bucket[p] # Absent)
      BY <2>2 DEF Remembers, LimiterTypeOK
    <2>3. QED
      BY <2>1, <2>2
  <1>3. allowed' \in Seq(Entries)
    <2>1. allowed' = allowed \/ allowed' = Append(allowed, [at |-> time, forgot |-> forgot', back |-> back'])
      BY DEF Remembers
    <2>2. [at |-> time, forgot |-> forgot', back |-> back'] \in Entries
      BY <1>1, <1>2 DEF Entries
    <2>3. allowed \in Seq(Entries)
      BY DEF LimiterTypeOK
    <2>4. QED
      BY <2>1, <2>2, <2>3
  <1>4. refused' \in Refusals \union {Absent}
    <2>1. CASE p # Watched \/ Allows(p, time)
      BY <2>1 DEF Remembers, LimiterTypeOK
    <2>2. CASE p = Watched /\ ~Allows(p, time)
      <3> DEFINE due == time + Wait(Filled(p, time).tokens)
      <3> DEFINE best == IF refused = Absent THEN due ELSE Least(refused.due, due)
      <3>1. Filled(p, time).tokens \in Nat /\ Filled(p, time).tokens < Cost
        BY <2>2, FilledFacts, LimiterSets, BucketFacts DEF Allows
      <3>2. due \in Nat
        BY <3>1, WaitSuffices, LimiterSets
      <3>3. refused' = [at |-> time, due |-> best]
        BY <2>2 DEF Remembers
      <3> HIDE DEF due
      <3>4. refused = Absent \/ refused.due \in Nat
        BY DEF LimiterTypeOK, Refusals
      <3>5. best \in Nat
        BY <3>2, <3>4 DEF Least
      <3> HIDE DEF best
      <3>6. QED
        BY <3>3, <3>5 DEF Refusals
    <2>3. QED
      BY <2>1, <2>2
  <1>5. QED
    BY <1>1, <1>2, <1>3, <1>4

LEMMA LimiterType ==
  ASSUME LimiterTypeOK, [LimiterNext]_limiterVars
  PROVE  LimiterTypeOK'
  <1>1. CASE UNCHANGED limiterVars
    BY <1>1 DEF limiterVars, history, LimiterTypeOK
  <1>2. CASE ClockTicks
    <2>1. clock' \in Instants
      BY <1>2, LimiterSets DEF ClockTicks, LimiterTypeOK, Instants
    <2>2. QED
      BY <1>2, <2>1 DEF ClockTicks, history, LimiterTypeOK
  <1>3. ASSUME NEW r \in Arrivals, NEW p \in Principals, Arrives(r, p)
        PROVE  LimiterTypeOK'
    <2>1. [principal |-> p, read |-> clock] \in Calls
      BY DEF Calls, LimiterTypeOK
    <2>2. call' \in [Arrivals -> Calls \union {Absent}]
      BY <1>3, <2>1 DEF Arrives, LimiterTypeOK
    <2>3. QED
      BY <1>3, <2>2 DEF Arrives, history, LimiterTypeOK
  <1>4. ASSUME NEW r \in Arrivals, Enters(r)
        PROVE  LimiterTypeOK'
    <2>1. PICK p \in Principals, time \in Instants, out \in SUBSET Principals :
             Settles(p, time, out) /\ Remembers(p, time, out)
      BY <1>4, EnteringFacts
    <2>2. call' = [call EXCEPT ![r] = Absent] /\ clock' = clock
      BY <1>4, EnteringFacts
    <2>3. call' \in [Arrivals -> Calls \union {Absent}]
      BY <2>2 DEF LimiterTypeOK
    <2>4. bucket' \in [Principals -> Buckets \union {Absent}]
      BY <2>1, DecidingFacts
    <2>5. /\ allowed' \in Seq(Entries) /\ refused' \in Refusals \union {Absent}
          /\ forgot' \in Nat /\ back' \in Nat
      BY <2>1, RememberingFacts
    <2>6. QED
      BY <2>2, <2>3, <2>4, <2>5 DEF LimiterTypeOK
  <1>5. QED
    BY <1>1, <1>2, <1>3, <1>4 DEF LimiterNext

LEMMA PunctualStep ==
  ASSUME LimiterTypeOK, Punctual, [LimiterNext]_limiterVars
  PROVE  Punctual' /\ clock' \in Nat /\ clock \in Nat /\ clock =< clock'
  <1>1. clock \in Nat /\ MaxLag \in Nat
    BY LimiterSets DEF LimiterTypeOK
  <1>2. clock' = clock \/ clock' = clock + 1
    <2>1. \A r \in Arrivals : Enters(r) => clock' = clock
      BY EnteringFacts
    <2>2. QED
      BY <2>1 DEF LimiterNext, limiterVars, ClockTicks, Arrives
  <1>3. ASSUME NEW r \in Arrivals, call[r] # Absent
        PROVE  call[r].read \in Nat
    BY <1>3, LimiterSets DEF LimiterTypeOK, Calls
  <1>4. CASE ClockTicks
    BY <1>1, <1>2, <1>3, <1>4 DEF ClockTicks, Punctual
  <1>5. ASSUME NEW r \in Arrivals, NEW p \in Principals, Arrives(r, p)
        PROVE  Punctual'
    <2>1. clock' = clock /\ \A o \in Arrivals : call'[o] = IF o = r THEN [principal |-> p, read |-> clock] ELSE call[o]
      BY <1>5 DEF Arrives, LimiterTypeOK
    <2>2. QED
      BY <1>1, <2>1 DEF Punctual
  <1>6. ASSUME NEW r \in Arrivals, Enters(r)
        PROVE  Punctual'
    <2>1. clock' = clock /\ call' = [call EXCEPT ![r] = Absent]
      BY <1>6, EnteringFacts
    <2>2. \A o \in Arrivals : call'[o] = IF o = r THEN Absent ELSE call[o]
      BY <2>1 DEF LimiterTypeOK
    <2>3. QED
      BY <2>1, <2>2 DEF Punctual
  <1>7. CASE UNCHANGED limiterVars
    BY <1>1, <1>2, <1>7 DEF limiterVars, Punctual
  <1>8. Punctual'
    BY <1>4, <1>5, <1>6, <1>7 DEF LimiterNext
  <1>9. QED
    BY <1>1, <1>2, <1>8

(* What a step does to the bucket of Watched: nothing; it drops or evicts  *)
(* it for another's entry; or a request of his enters.                     *)
LEMMA WatchedMoves ==
  ASSUME LimiterTypeOK, Punctual, [LimiterNext]_limiterVars
  PROVE  \/ bucket'[Watched] = bucket[Watched] /\ UNCHANGED history
         \/ /\ bucket'[Watched] = Absent /\ UNCHANGED <<allowed, back, refused>>
            /\ \/ forgot' = forgot + 1
               \/ forgot' = forgot /\ bucket[Watched] # Absent /\ bucket[Watched].seen + Idle < clock
         \/ \E time \in Instants, out \in SUBSET Principals :
               /\ time =< clock /\ clock =< time + MaxLag /\ forgot' = forgot
               /\ Settles(Watched, time, out) /\ Remembers(Watched, time, out)
  <1>1. CASE ClockTicks \/ UNCHANGED limiterVars \/ (\E r \in Arrivals, p \in Principals : Arrives(r, p))
    BY <1>1 DEF ClockTicks, limiterVars, history, Arrives
  <1>2. ASSUME NEW r \in Arrivals, Enters(r), NEW p \in Principals, NEW time \in Instants,
               NEW out \in SUBSET Principals, p = call[r].principal, time = call[r].read,
               out \in Evictions(p, time),
               Settles(p, time, out), Remembers(p, time, out)
        PROVE  \/ bucket'[Watched] = bucket[Watched] /\ UNCHANGED history
               \/ /\ bucket'[Watched] = Absent /\ UNCHANGED <<allowed, back, refused>>
                  /\ \/ forgot' = forgot + 1
                     \/ forgot' = forgot /\ bucket[Watched] # Absent /\ bucket[Watched].seen + Idle < clock
               \/ /\ time =< clock /\ clock =< time + MaxLag /\ forgot' = forgot
                  /\ Settles(Watched, time, out) /\ Remembers(Watched, time, out)
    <2>1. time =< clock /\ clock =< time + MaxLag
      BY <1>2, EnteringFacts DEF Punctual
    <2>2. clock \in Nat /\ time \in Nat /\ back \in Nat /\ forgot \in Nat /\ Idle \in Nat /\ Watched \in Principals
      BY LimiterSets DEF LimiterTypeOK
    <2>3. forgot' = IF Watched \in out THEN forgot + 1 ELSE forgot
      BY <1>2, <2>2 DEF Remembers
    <2>4. CASE p = Watched
      <3>1. Watched \notin out
        BY <1>2, <2>4 DEF Evictions, Evicted, Kept
      <3>2. QED
        BY <1>2, <2>1, <2>3, <2>4, <3>1
    <2>5. CASE p # Watched
      <3>1. back' = back /\ UNCHANGED <<allowed, refused>>
        BY <1>2, <2>2, <2>5 DEF Remembers
      <3>2. bucket'[Watched] = IF Watched \in Swept(p, time, out) THEN Absent ELSE bucket[Watched]
        BY <1>2, <2>2, <2>5, DecidingFacts
      <3>3. CASE Watched \in out
        <4>1. Watched \in Swept(p, time, out)
          BY <1>2, <3>3 DEF Evictions, Swept
        <4>2. QED
          BY <2>3, <3>1, <3>2, <3>3, <4>1
      <3>4. CASE Watched \notin out /\ Watched \in Swept(p, time, out)
        <4>1. Watched \in Stale(time)
          BY <3>4 DEF Swept
        <4>2. bucket[Watched] # Absent /\ time - bucket[Watched].seen > Idle
          BY <4>1 DEF Stale, Kept
        <4>3. bucket[Watched].seen \in Nat
          BY <2>2, <4>2, LimiterSets, BucketFacts DEF LimiterTypeOK
        <4>4. bucket[Watched].seen + Idle < clock
          BY <2>1, <2>2, <4>2, <4>3
        <4>5. QED
          BY <2>3, <3>1, <3>2, <3>4, <4>2, <4>4
      <3>5. CASE Watched \notin out /\ Watched \notin Swept(p, time, out)
        BY <2>3, <3>1, <3>2, <3>5 DEF history
      <3>6. QED
        BY <3>3, <3>4, <3>5
    <2>6. QED
      BY <2>4, <2>5
  <1>3. ASSUME NEW r \in Arrivals, Enters(r)
        PROVE  \/ bucket'[Watched] = bucket[Watched] /\ UNCHANGED history
               \/ /\ bucket'[Watched] = Absent /\ UNCHANGED <<allowed, back, refused>>
                  /\ \/ forgot' = forgot + 1
                     \/ forgot' = forgot /\ bucket[Watched] # Absent /\ bucket[Watched].seen + Idle < clock
               \/ \E time \in Instants, out \in SUBSET Principals :
                     /\ time =< clock /\ clock =< time + MaxLag /\ forgot' = forgot
                     /\ Settles(Watched, time, out) /\ Remembers(Watched, time, out)
    <2>1. PICK p \in Principals, time \in Instants, out \in SUBSET Principals :
             /\ p = call[r].principal /\ time = call[r].read /\ out \in Evictions(p, time)
             /\ Settles(p, time, out) /\ Remembers(p, time, out)
      BY <1>3, EnteringFacts
    <2>2. QED
      BY <1>2, <1>3, <2>1
  <1>4. QED
    BY <1>1, <1>3 DEF LimiterNext

(* The requests allowed of Watched, and his bucket. *)
LEMMA HistoryFacts ==
  ASSUME LimiterTypeOK
  PROVE  /\ Len(allowed) \in Nat /\ DOMAIN allowed = 1 .. Len(allowed) /\ allowed \in Seq(Entries)
         /\ \A i \in DOMAIN allowed :
               /\ allowed[i].at \in Nat /\ allowed[i].back \in Nat /\ allowed[i].forgot \in Nat
               /\ Spent(i) \in Int /\ Mark(i) \in Nat
         /\ bucket[Watched] # Absent =>
               bucket[Watched].seen \in Nat /\ bucket[Watched].tokens \in Nat /\ bucket[Watched].tokens =< Burst
         /\ refused # Absent => refused.at \in Nat /\ refused.due \in Nat
         /\ clock \in Nat /\ back \in Nat /\ forgot \in Nat
  <1>1. Len(allowed) \in Nat /\ DOMAIN allowed = 1 .. Len(allowed) /\ allowed \in Seq(Entries)
    BY DEF LimiterTypeOK
  <1>2. ASSUME NEW i \in DOMAIN allowed
        PROVE  /\ allowed[i].at \in Nat /\ allowed[i].back \in Nat /\ allowed[i].forgot \in Nat
               /\ Spent(i) \in Int /\ Mark(i) \in Nat
    <2>1. allowed[i] \in Entries
      BY <1>1
    <2>2. allowed[i].at \in Nat /\ allowed[i].back \in Nat /\ allowed[i].forgot \in Nat
      BY <2>1, LimiterSets DEF Entries
    <2> DEFINE n == Len(allowed) - i + 1
    <2>3. n \in Int
      BY <1>1
    <2> HIDE DEF n
    <2>4. Cost * n \in Int
      BY <2>3, LimiterSets
    <2>5. Spent(i) = Cost * n
      BY DEF Spent, n
    <2>6. Mark(i) \in Nat
      BY <2>2 DEF Mark
    <2>7. QED
      BY <2>2, <2>4, <2>5, <2>6
  <1>3. ASSUME bucket[Watched] # Absent
        PROVE  bucket[Watched].seen \in Nat /\ bucket[Watched].tokens \in Nat /\ bucket[Watched].tokens =< Burst
    <2>1. bucket[Watched] \in Buckets
      BY <1>3, LimiterSets DEF LimiterTypeOK
    <2>2. QED
      BY <2>1, BucketFacts
  <1>4. refused # Absent => refused.at \in Nat /\ refused.due \in Nat
    BY LimiterSets DEF LimiterTypeOK, Refusals
  <1>5. clock \in Nat /\ back \in Nat /\ forgot \in Nat
    BY LimiterSets DEF LimiterTypeOK
  <1>6. QED
    BY <1>1, <1>2, <1>3, <1>4, <1>5

(* With what the rate has given meanwhile, a bucket of Watched never holds *)
(* more than NeverTooMuch says, at any time he can enter with.             *)
LEMMA NeverCreditedTooMuch ==
  ASSUME LimiterTypeOK, NeverTooMuch,
         NEW time \in Instants, clock =< time + MaxLag, NEW out, Remembers(Watched, time, out),
         NEW i \in DOMAIN allowed, allowed[i].forgot = forgot, NEW b \in Nat, b = back'
  PROVE  Spent(i) + Filled(Watched, time).tokens =< Burst + Rate * (time + b - Mark(i))
  <1> DEFINE filled == Filled(Watched, time)
  <1> DEFINE spent == Spent(i)
  <1> DEFINE mark == Mark(i)
  <1>1. /\ spent \in Int /\ mark \in Nat /\ clock \in Nat /\ back \in Nat /\ time \in Nat
        /\ Rate \in Nat /\ MaxLag \in Nat /\ Burst \in Nat
    BY HistoryFacts, LimiterSets
  <1>2. filled.tokens \in Nat
    BY FilledFacts, LimiterSets, BucketFacts
  <1>3. CASE bucket[Watched] = Absent
    <2>1. filled.tokens = Burst
      BY <1>3, FilledFacts, LimiterSets
    <2>2. back' = back
      BY <1>1, <1>3 DEF Remembers
    <2> DEFINE early == clock - MaxLag + back - mark
    <2> DEFINE late == time + b - mark
    <2>3. early \in Int /\ late \in Int /\ early =< late
      BY <1>1, <2>2
    <2>4. spent =< Rate * early
      BY <1>3 DEF NeverTooMuch
    <2> HIDE DEF early, late, spent, mark, filled
    <2>5. Rate * early =< Rate * late /\ Rate * early \in Int /\ Rate * late \in Int
      BY <1>1, <2>3, RateGrows
    <2> DEFINE few == Rate * early
    <2> DEFINE many == Rate * late
    <2>6. few \in Int /\ many \in Int /\ few =< many /\ spent =< few
      BY <2>4, <2>5
    <2> HIDE DEF few, many
    <2>7. spent + filled.tokens =< Burst + many
      BY <1>1, <2>1, <2>6
    <2>8. QED
      BY <2>7 DEF many, late, spent, mark, filled
  <1>4. CASE bucket[Watched] # Absent
    <2> DEFINE seen == bucket[Watched].seen
    <2> DEFINE tokens == bucket[Watched].tokens
    <2> DEFINE on == Positive(time - seen)
    <2>1. seen \in Nat /\ tokens \in Nat
      BY <1>4, HistoryFacts
    <2>2. filled.tokens =< tokens + Rate * on
      BY <1>4, FilledFacts, LimiterSets
    <2>3. back' = back + Positive(seen - time)
      BY <1>4 DEF Remembers
    <2> DEFINE before == seen + back - mark
    <2> DEFINE after == time + b - mark
    <2>4. spent + tokens =< Burst + Rate * before
      BY <1>4 DEF NeverTooMuch
    <2> HIDE DEF seen, tokens, spent, mark, filled
    <2>5. on \in Int /\ before \in Int /\ after = before + on
      BY <1>1, <2>1, <2>3 DEF Positive
    <2> HIDE DEF on, before, after
    <2>6. Rate * after = Rate * before + Rate * on /\ Rate * before \in Int /\ Rate * on \in Int
      BY <1>1, <2>5, RateGrows
    <2> DEFINE had == Rate * before
    <2> DEFINE gained == Rate * on
    <2> DEFINE has == Rate * after
    <2>7. /\ had \in Int /\ gained \in Int /\ has = had + gained
          /\ spent + tokens =< Burst + had /\ filled.tokens =< tokens + gained
      BY <2>2, <2>4, <2>6
    <2> HIDE DEF had, gained, has
    <2>8. spent + filled.tokens =< Burst + has
      BY <1>1, <1>2, <2>1, <2>7 DEF filled
    <2>9. QED
      BY <2>8 DEF has, after, spent, mark, filled
  <1>5. QED
    BY <1>3, <1>4

(* A request that passes: those before it are as they were, and it is the  *)
(* last.                                                                   *)
LEMMA PassingFacts ==
  ASSUME LimiterTypeOK, NEW time \in Instants, NEW out,
         Remembers(Watched, time, out), Allows(Watched, time),
         NEW n \in Nat, n = Len(allowed) + 1
  PROVE  /\ Len(allowed') = n /\ DOMAIN allowed' = 1 .. n
         /\ \A i \in DOMAIN allowed :
               allowed'[i] = allowed[i] /\ Spent(i)' = Spent(i) + Cost /\ Mark(i)' = Mark(i)
         /\ allowed'[n].at = time /\ allowed'[n].forgot = forgot' /\ allowed'[n].back = back'
         /\ Spent(n)' = Cost /\ Mark(n)' = time + back'
         /\ refused' = Absent
  <1> DEFINE entry == [at |-> time, forgot |-> forgot', back |-> back']
  <1>1. allowed' = Append(allowed, entry) /\ refused' = Absent
    BY DEF Remembers
  <1>2. entry.at = time /\ entry.forgot = forgot' /\ entry.back = back'
    OBVIOUS
  <1> HIDE DEF entry
  <1>3. allowed \in Seq(Entries) /\ Len(allowed) \in Nat /\ DOMAIN allowed = 1 .. Len(allowed)
    BY HistoryFacts
  <1>4. /\ Len(allowed') = n /\ DOMAIN allowed' = 1 .. n /\ allowed'[n] = entry
        /\ \A i \in DOMAIN allowed : allowed'[i] = allowed[i]
    BY <1>1, <1>3
  <1>5. ASSUME NEW i \in DOMAIN allowed
        PROVE  Spent(i)' = Spent(i) + Cost /\ Mark(i)' = Mark(i)
    <2> DEFINE old == Len(allowed) - i + 1
    <2>1. old \in Int /\ Len(allowed') - i + 1 = old + 1
      BY <1>3, <1>4
    <2>2. Spent(i) = Cost * old /\ Spent(i)' = Cost * (old + 1)
      BY <2>1 DEF Spent
    <2> HIDE DEF old
    <2>3. Cost * (old + 1) = Cost * old + Cost
      <3>1. Cost \in Nat
        BY LimiterSets
      <3>2. QED
        BY <2>1, <3>1, OneMore
    <2>4. Mark(i)' = Mark(i)
      BY <1>4 DEF Mark
    <2>5. QED
      BY <2>2, <2>3, <2>4
  <1>6. Spent(n)' = Cost
    <2>1. Len(allowed') - n + 1 = 1
      BY <1>3, <1>4
    <2>2. Spent(n)' = Cost * 1
      BY <2>1 DEF Spent
    <2>3. QED
      BY <2>2, LimiterSets
  <1>7. Mark(n)' = time + back'
    BY <1>2, <1>4 DEF Mark
  <1>8. QED
    BY <1>1, <1>2, <1>3, <1>4, <1>5, <1>6, <1>7

(* What was taken does not depend on anything but the requests allowed.    *)
LEMMA SpentStays ==
  ASSUME allowed' = allowed
  PROVE  \A i : Spent(i)' = Spent(i) /\ Mark(i)' = Mark(i)
  BY DEF Spent, Mark

LEMMA NeverTooMuchStep ==
  ASSUME LimiterTypeOK, Punctual, NeverTooMuch, [LimiterNext]_limiterVars
  PROVE  NeverTooMuch'
  <1> DEFINE Bounded(i) ==
         /\ allowed'[i].forgot =< forgot'
         /\ allowed'[i].forgot = forgot' =>
               IF bucket'[Watched] = Absent
               THEN Spent(i)' =< Rate * (clock' - MaxLag + back' - Mark(i)')
               ELSE Spent(i)' + bucket'[Watched].tokens =<
                       Burst + Rate * (bucket'[Watched].seen + back' - Mark(i)')
  <1>1. SUFFICES ASSUME NEW i \in DOMAIN allowed'
                 PROVE  Bounded(i)
    BY DEF NeverTooMuch
  <1>2. clock \in Nat /\ clock' \in Nat /\ clock =< clock' /\ back \in Nat /\ forgot \in Nat
    BY PunctualStep, HistoryFacts
  <1>3. Rate \in Nat /\ MaxLag \in Nat /\ Idle \in Nat /\ Burst \in Nat
    BY LimiterSets
  <1>4. CASE bucket'[Watched] = bucket[Watched] /\ UNCHANGED history
    <2>1. UNCHANGED <<allowed, forgot, back>>
      BY <1>4 DEF history
    <2>2. /\ i \in DOMAIN allowed /\ Spent(i) \in Int /\ Mark(i) \in Nat
          /\ Spent(i)' = Spent(i) /\ Mark(i)' = Mark(i)
      BY <1>1, <2>1, SpentStays, HistoryFacts
    <2>3. CASE bucket[Watched] = Absent /\ allowed[i].forgot = forgot
      <3> DEFINE early == clock - MaxLag + back - Mark(i)
      <3> DEFINE late == clock' - MaxLag + back - Mark(i)
      <3>1. early \in Int /\ late \in Int /\ early =< late
        BY <1>2, <1>3, <2>2
      <3>2. Spent(i) =< Rate * early
        BY <2>2, <2>3 DEF NeverTooMuch
      <3>3. late = clock' - MaxLag + back' - Mark(i)'
        BY <2>1, <2>2
      <3> HIDE DEF early, late
      <3>4. Rate * early =< Rate * late /\ Rate * early \in Int /\ Rate * late \in Int
        BY <1>3, <3>1, RateGrows
      <3> DEFINE few == Rate * early
      <3> DEFINE many == Rate * late
      <3> HIDE DEF few, many
      <3>5. Spent(i) =< many
        <4>1. few \in Int /\ many \in Int /\ few =< many /\ Spent(i) =< few
          BY <3>2, <3>4 DEF few, many
        <4>2. QED
          BY <2>2, <4>1
      <3>6. Spent(i)' =< Rate * (clock' - MaxLag + back' - Mark(i)')
        BY <2>2, <3>3, <3>5 DEF many
      <3>7. allowed'[i].forgot =< forgot' /\ bucket'[Watched] = Absent
        BY <1>2, <1>4, <2>1, <2>3
      <3>8. QED
        BY <3>6, <3>7
    <2>4. CASE ~(bucket[Watched] = Absent /\ allowed[i].forgot = forgot)
      BY <1>4, <2>1, <2>2, <2>4 DEF NeverTooMuch
    <2>5. QED
      BY <2>3, <2>4
  <1>5. CASE /\ bucket'[Watched] = Absent /\ UNCHANGED <<allowed, back, refused>>
             /\ \/ forgot' = forgot + 1
                \/ forgot' = forgot /\ bucket[Watched] # Absent /\ bucket[Watched].seen + Idle < clock
    <2>1. /\ i \in DOMAIN allowed /\ Spent(i) \in Int /\ Mark(i) \in Nat
          /\ Spent(i)' = Spent(i) /\ Mark(i)' = Mark(i)
          /\ allowed'[i].forgot = allowed[i].forgot /\ allowed[i].forgot \in Nat
      BY <1>1, <1>5, SpentStays, HistoryFacts
    <2>2. allowed[i].forgot =< forgot
      BY <2>1 DEF NeverTooMuch
    <2>3. CASE allowed'[i].forgot # forgot'
      BY <1>2, <1>5, <2>1, <2>2, <2>3
    <2>4. CASE allowed'[i].forgot = forgot'
      <3>1. forgot' = forgot /\ bucket[Watched] # Absent /\ bucket[Watched].seen + Idle < clock
        BY <1>2, <1>5, <2>1, <2>2, <2>4
      <3> DEFINE seen == bucket[Watched].seen
      <3> DEFINE tokens == bucket[Watched].tokens
      <3> DEFINE mark == Mark(i)
      <3> DEFINE before == seen + back - mark
      <3> DEFINE later == clock' - MaxLag + back' - Mark(i)'
      <3>2. seen \in Nat /\ tokens \in Nat
        BY <3>1, HistoryFacts
      <3>3. Spent(i) + tokens =< Burst + Rate * before
        BY <2>1, <2>4, <3>1 DEF NeverTooMuch
      <3>4. before \in Int /\ Idle - MaxLag \in Int /\ later \in Int /\ before + (Idle - MaxLag) =< later
        BY <1>2, <1>3, <1>5, <2>1, <3>1, <3>2
      <3> HIDE DEF seen, tokens, mark, before, later
      <3> DEFINE idle == Idle - MaxLag
      <3> DEFINE both == before + idle
      <3>5. idle \in Int /\ both \in Int /\ both =< later
        BY <3>4
      <3> HIDE DEF idle
      <3>6. Rate * both = Rate * before + Rate * idle /\ Rate * before \in Int /\ Rate * idle \in Int
        BY <1>3, <3>4, <3>5, RateGrows
      <3> HIDE DEF both
      <3>7. Rate * both =< Rate * later /\ Rate * both \in Int /\ Rate * later \in Int
        BY <1>3, <3>4, <3>5, RateGrows
      <3>8. Burst =< Rate * idle
        BY IdleFills DEF idle
      <3> DEFINE x == Rate * before
      <3> DEFINE y == Rate * idle
      <3> DEFINE z == Rate * both
      <3> DEFINE w == Rate * later
      <3>9. /\ x \in Int /\ y \in Int /\ z = x + y /\ w \in Int /\ z =< w /\ Burst =< y
            /\ Spent(i) + tokens =< Burst + x
        BY <3>3, <3>6, <3>7, <3>8
      <3> HIDE DEF x, y, z, w
      <3>10. Spent(i) =< w
        <4>1. tokens \in Nat
          BY <3>2
        <4>2. QED
          BY <1>3, <2>1, <3>9, <4>1
      <3>11. Spent(i)' =< Rate * (clock' - MaxLag + back' - Mark(i)')
        BY <2>1, <3>10 DEF w, later
      <3>12. allowed'[i].forgot =< forgot'
        BY <1>2, <2>4, <3>1
      <3>13. QED
        BY <1>5, <3>11, <3>12
    <2>5. QED
      BY <2>3, <2>4
  <1>6. ASSUME NEW time \in Instants, NEW out, time =< clock, clock =< time + MaxLag, forgot' = forgot,
               Settles(Watched, time, out), Remembers(Watched, time, out)
        PROVE  Bounded(i)
    <2> DEFINE tokens == Filled(Watched, time).tokens
    <2>1. /\ bucket'[Watched] # Absent /\ bucket'[Watched].seen = time
          /\ Allows(Watched, time) => bucket'[Watched].tokens = tokens - Cost
          /\ ~Allows(Watched, time) => bucket'[Watched].tokens = tokens
      BY <1>6, DecidingFacts, LimiterSets
    <2>2. /\ tokens \in Nat /\ tokens =< Burst /\ time \in Nat /\ Cost \in Nat
      BY FilledFacts, LimiterSets, BucketFacts
    <2>3. PICK b \in Nat : b = back'
      BY <1>6, RememberingFacts, LimiterSets
    <2>4. ASSUME i \in DOMAIN allowed
          PROVE  /\ allowed[i].forgot \in Nat /\ allowed[i].forgot =< forgot
                 /\ Spent(i) \in Int /\ Mark(i) \in Nat
                 /\ allowed[i].forgot = forgot =>
                       Spent(i) + tokens =< Burst + Rate * (time + b - Mark(i))
      BY <1>6, <2>3, <2>4, HistoryFacts, NeverCreditedTooMuch DEF NeverTooMuch
    <2> HIDE DEF tokens
    <2>5. CASE ~Allows(Watched, time)
      <3>1. allowed' = allowed
        BY <1>6, <2>5 DEF Remembers
      <3>2. i \in DOMAIN allowed /\ Spent(i)' = Spent(i) /\ Mark(i)' = Mark(i)
        BY <1>1, <3>1, SpentStays
      <3>3. QED
        BY <1>6, <2>1, <2>3, <2>4, <2>5, <3>1, <3>2
    <2>6. CASE Allows(Watched, time)
      <3>1. PICK n \in Nat : n = Len(allowed) + 1
        BY HistoryFacts
      <3>2. DOMAIN allowed' = 1 .. n /\ DOMAIN allowed = 1 .. n - 1
        BY <1>6, <2>6, <3>1, PassingFacts, HistoryFacts
      <3>3. CASE i = n
        <4>1. allowed'[i].forgot = forgot' /\ Spent(i)' = Cost /\ Mark(i)' = time + back'
          BY <1>6, <2>6, <3>1, <3>3, PassingFacts
        <4> HIDE DEF Bounded
        <4>2. Mark(i)' = time + b
          BY <2>3, <4>1
        <4>3. (time + b) - (time + b) = 0
          BY <2>2
        <4>4. Rate * (time + b - Mark(i)') = 0 /\ Cost + (tokens - Cost) =< Burst + 0
          BY <1>3, <2>2, <4>2, <4>3
        <4>5. bucket'[Watched].tokens = tokens - Cost /\ bucket'[Watched].seen = time /\ bucket'[Watched] # Absent
          BY <2>1, <2>6
        <4>6. allowed'[i].forgot =< forgot'
          BY <1>2, <1>6, <4>1
        <4>7. QED
          BY <2>3, <4>1, <4>4, <4>5, <4>6 DEF Bounded
      <3>4. CASE i # n
        <4>1. i \in DOMAIN allowed
          BY <1>1, <3>1, <3>2, <3>4
        <4>2. /\ allowed'[i] = allowed[i]
              /\ Spent(i)' = Spent(i) + Cost /\ Mark(i)' = Mark(i)
          BY <1>6, <2>6, <3>1, <4>1, PassingFacts
        <4> DEFINE more == Rate * (time + b - Mark(i))
        <4>3. /\ allowed[i].forgot =< forgot /\ Spent(i) \in Int
              /\ allowed[i].forgot = forgot => Spent(i) + tokens =< Burst + more
          BY <2>4, <4>1
        <4> HIDE DEF more, Bounded
        <4>4. allowed[i].forgot = forgot => Spent(i) + Cost + (tokens - Cost) =< Burst + more
          BY <2>2, <4>3
        <4>5. /\ bucket'[Watched].tokens = tokens - Cost /\ bucket'[Watched].seen = time
              /\ bucket'[Watched] # Absent
          BY <2>1, <2>6
        <4>6. QED
          BY <1>6, <2>3, <4>2, <4>3, <4>4, <4>5 DEF Bounded, more
      <3>5. QED
        BY <3>3, <3>4
    <2>7. QED
      BY <2>5, <2>6
  <1>7. QED
    BY <1>4, <1>5, <1>6, WatchedMoves

(* The requests allowed are bounded as the last of them enters.            *)
LEMMA WindowsStep ==
  ASSUME LimiterTypeOK, Punctual, NeverTooMuch, WindowsBounded,
         [LimiterNext]_limiterVars
  PROVE  WindowsBounded'
  <1>1. CASE allowed' = allowed
    BY <1>1 DEF WindowsBounded
  <1>2. CASE allowed' # allowed
    <2>1. PICK time \in Instants, out \in SUBSET Principals :
             /\ clock =< time + MaxLag /\ forgot' = forgot
             /\ Settles(Watched, time, out) /\ Remembers(Watched, time, out)
      BY <1>2, WatchedMoves DEF history
    <2>2. Allows(Watched, time)
      BY <1>2, <2>1 DEF Remembers
    <2>3. PICK n \in Nat : n = Len(allowed) + 1
      BY HistoryFacts
    <2>4. /\ DOMAIN allowed' = 1 .. n /\ DOMAIN allowed = 1 .. n - 1
          /\ \A i \in DOMAIN allowed : allowed'[i] = allowed[i] /\ Spent(i)' = Spent(i) + Cost
          /\ allowed'[n].at = time /\ allowed'[n].forgot = forgot' /\ allowed'[n].back = back'
      BY <2>1, <2>2, <2>3, PassingFacts, HistoryFacts
    <2> DEFINE tokens == Filled(Watched, time).tokens
    <2>5. /\ tokens \in Nat /\ Cost =< tokens /\ tokens =< Burst /\ time \in Nat /\ Cost \in Nat /\ Burst \in Nat
      BY <2>2, FilledFacts, LimiterSets, BucketFacts DEF Allows
    <2>6. PICK b \in Nat : b = back'
      BY <2>1, RememberingFacts, LimiterSets
    <2>7. ASSUME NEW j \in DOMAIN allowed', NEW i \in 1 .. j, allowed'[i].forgot = allowed'[j].forgot
          PROVE  Cost * (j - i + 1) =<
                    Burst + Rate * ((allowed'[j].at + allowed'[j].back) - (allowed'[i].at + allowed'[i].back))
      <3>1. CASE j # n
        <4>1. j \in DOMAIN allowed /\ i \in DOMAIN allowed
          BY <2>3, <2>4, <2>7, <3>1
        <4>2. allowed'[i] = allowed[i] /\ allowed'[j] = allowed[j]
          BY <2>4, <4>1
        <4>3. QED
          BY <2>7, <4>1, <4>2 DEF WindowsBounded
      <3>2. CASE j = n /\ i = n
        <4>1. j - i + 1 = 1
          BY <3>2
        <4>2. Cost * (j - i + 1) = Cost
          BY <2>5, <4>1
        <4> DEFINE span == (allowed'[j].at + allowed'[j].back) - (allowed'[i].at + allowed'[i].back)
        <4>3. span = 0
          <5>1. allowed'[j].at + allowed'[j].back = time + b /\ allowed'[i].at + allowed'[i].back = time + b
            BY <2>4, <2>6, <3>2
          <5>2. (time + b) - (time + b) = 0
            BY <2>5
          <5>3. QED
            BY <5>1, <5>2
        <4> HIDE DEF span
        <4>4. Rate * span = 0
          BY <4>3, LimiterSets
        <4>5. Cost =< Burst + 0
          BY <2>5
        <4>6. QED
          BY <4>2, <4>4, <4>5 DEF span
      <3>3. CASE j = n /\ i # n
        <4>1. i \in DOMAIN allowed
          BY <2>3, <2>4, <2>7, <3>3
        <4>2. allowed'[i] = allowed[i] /\ allowed[i].forgot = forgot
          BY <2>1, <2>4, <2>7, <3>3, <4>1
        <4> DEFINE more == Rate * (time + b - Mark(i))
        <4>3. Spent(i) + tokens =< Burst + more
          BY <2>1, <2>6, <4>1, <4>2, NeverCreditedTooMuch
        <4>4. Spent(i) \in Int /\ Mark(i) \in Nat
          BY <4>1, HistoryFacts
        <4>5. more \in Int
          <5> DEFINE span == time + b - Mark(i)
          <5>1. span \in Int
            BY <2>5, <2>6, <4>4
          <5> HIDE DEF span
          <5>2. Rate * span \in Int
            BY <5>1, LimiterSets
          <5>3. QED
            BY <5>2 DEF span
        <4> HIDE DEF more, tokens
        <4>6. Spent(i) + Cost =< Burst + more
          BY <2>5, <4>3, <4>4, <4>5
        <4>7. Spent(i)' = Cost * (j - i + 1)
          BY <2>1, <2>2, <2>3, <3>3, PassingFacts DEF Spent
        <4>8. Mark(i) = allowed'[i].at + allowed'[i].back
          BY <4>2 DEF Mark
        <4>9. Spent(i)' = Spent(i) + Cost /\ allowed'[j].at + allowed'[j].back = time + b
          BY <2>4, <2>6, <3>3, <4>1
        <4>10. Cost * (j - i + 1) =< Burst + more
          BY <4>6, <4>7, <4>9
        <4> DEFINE here == allowed'[i].at + allowed'[i].back
        <4> DEFINE there == allowed'[j].at + allowed'[j].back
        <4>11. here = Mark(i) /\ there = time + b
          BY <4>8, <4>9
        <4> HIDE DEF here, there
        <4>12. there - here = time + b - Mark(i)
          BY <2>5, <4>4, <4>11
        <4>13. Rate * (there - here) = more
          BY <4>12, Zenon DEF more
        <4>14. QED
          BY <4>10, <4>13 DEF here, there
      <3>4. QED
        BY <3>1, <3>2, <3>3
    <2>8. QED
      BY <2>7 DEF WindowsBounded
  <1>3. QED
    BY <1>1, <1>2

(* A bucket as a request of Watched finds it is full, or has lost no more  *)
(* than what the requests allowed took.                                    *)
LEMMA NeverCreditedTooLittle ==
  ASSUME LimiterTypeOK, NeverTooLittle, NEW time \in Instants
  PROVE  \/ Filled(Watched, time).tokens = Burst
         \/ \E i \in DOMAIN allowed :
               Spent(i) + Filled(Watched, time).tokens >= Burst + Rate * (time - allowed[i].at)
  <1> DEFINE tokens == Filled(Watched, time).tokens
  <1>1. SUFFICES ASSUME tokens # Burst
                 PROVE  \E i \in DOMAIN allowed : Spent(i) + tokens >= Burst + Rate * (time - allowed[i].at)
    OBVIOUS
  <1> DEFINE held_ == bucket[Watched].tokens
  <1> DEFINE seen == bucket[Watched].seen
  <1> DEFINE on == Positive(time - seen)
  <1>2. bucket[Watched] # Absent /\ tokens = held_ + Rate * on /\ tokens =< Burst /\ tokens \in Nat
    BY <1>1, FilledFacts, LimiterSets, BucketFacts
  <1>3. seen \in Nat /\ held_ \in Nat /\ time \in Nat /\ Rate \in Nat /\ Burst \in Nat
    BY <1>2, HistoryFacts, LimiterSets
  <1>4. on \in Nat /\ time - seen =< on
    BY <1>3 DEF Positive
  <1> HIDE DEF on, held_, seen, tokens
  <1>5. Rate * on \in Nat
    BY <1>3, <1>4, RateGives
  <1>6. held_ # Burst
    BY <1>1, <1>2, <1>3, <1>5
  <1>7. PICK i \in DOMAIN allowed : Spent(i) + held_ >= Burst + Rate * (seen - allowed[i].at)
    BY <1>2, <1>6 DEF NeverTooLittle, held_, seen
  <1>8. Spent(i) \in Int /\ allowed[i].at \in Nat
    BY HistoryFacts
  <1> DEFINE before == seen - allowed[i].at
  <1> DEFINE after == time - allowed[i].at
  <1> DEFINE both == before + on
  <1>9. before \in Int /\ after \in Int /\ both \in Int /\ after =< both
    BY <1>3, <1>4, <1>8
  <1> HIDE DEF before, after
  <1>10. Rate * both = Rate * before + Rate * on /\ Rate * before \in Int
    BY <1>3, <1>4, <1>9, RateGrows
  <1> HIDE DEF both
  <1>11. Rate * after =< Rate * both /\ Rate * after \in Int /\ Rate * both \in Int
    BY <1>3, <1>9, RateGrows
  <1> DEFINE x == Rate * before
  <1> DEFINE y == Rate * on
  <1> DEFINE z == Rate * both
  <1> DEFINE w == Rate * after
  <1>12. /\ x \in Int /\ y \in Nat /\ z = x + y /\ w \in Int /\ w =< z
         /\ tokens = held_ + y /\ Spent(i) + held_ >= Burst + x
    BY <1>2, <1>5, <1>7, <1>10, <1>11 DEF before
  <1> HIDE DEF x, y, z, w
  <1>13. Spent(i) + tokens >= Burst + w
    BY <1>3, <1>8, <1>12
  <1>14. QED
    BY <1>13 DEF w, after

LEMMA NeverTooLittleStep ==
  ASSUME LimiterTypeOK, Punctual, NeverTooLittle, [LimiterNext]_limiterVars
  PROVE  NeverTooLittle'
  <1>1. SUFFICES ASSUME bucket'[Watched] # Absent
                 PROVE  \/ bucket'[Watched].tokens = Burst
                        \/ \E i \in DOMAIN allowed' :
                              Spent(i)' + bucket'[Watched].tokens
                                 >= Burst + Rate * (bucket'[Watched].seen - allowed'[i].at)
    BY DEF NeverTooLittle
  <1>2. CASE bucket'[Watched] = bucket[Watched] /\ UNCHANGED history
    <2>1. allowed' = allowed
      BY <1>2 DEF history
    <2>2. \A i : Spent(i)' = Spent(i)
      BY <2>1, SpentStays
    <2>3. QED
      BY <1>1, <1>2, <2>1, <2>2 DEF NeverTooLittle
  <1>3. ASSUME NEW time \in Instants, NEW out,
               Settles(Watched, time, out), Remembers(Watched, time, out)
        PROVE  \/ bucket'[Watched].tokens = Burst
               \/ \E i \in DOMAIN allowed' :
                     Spent(i)' + bucket'[Watched].tokens
                        >= Burst + Rate * (bucket'[Watched].seen - allowed'[i].at)
    <2> DEFINE tokens == Filled(Watched, time).tokens
    <2>1. /\ bucket'[Watched].seen = time
          /\ Allows(Watched, time) => bucket'[Watched].tokens = tokens - Cost
          /\ ~Allows(Watched, time) => bucket'[Watched].tokens = tokens
      BY <1>3, DecidingFacts, LimiterSets
    <2>2. /\ tokens \in Nat /\ time \in Nat /\ Cost \in Nat /\ Burst \in Nat /\ Rate \in Nat
      BY FilledFacts, LimiterSets, BucketFacts
    <2>3. \/ tokens = Burst
          \/ \E i \in DOMAIN allowed : Spent(i) + tokens >= Burst + Rate * (time - allowed[i].at)
      BY NeverCreditedTooLittle
    <2> HIDE DEF tokens
    <2>4. CASE ~Allows(Watched, time)
      <3>1. allowed' = allowed
        BY <1>3, <2>4 DEF Remembers
      <3>2. \A i : Spent(i)' = Spent(i)
        BY <3>1, SpentStays
      <3>3. QED
        BY <2>1, <2>3, <2>4, <3>1, <3>2
    <2>5. CASE Allows(Watched, time) /\ tokens = Burst
      <3>1. PICK n \in Nat : n = Len(allowed) + 1
        BY HistoryFacts
      <3>2. n \in DOMAIN allowed' /\ Spent(n)' = Cost /\ allowed'[n].at = time
        BY <1>3, <2>5, <3>1, PassingFacts, HistoryFacts
      <3>3. time - allowed'[n].at = 0
        BY <2>2, <3>2
      <3>4. Rate * (time - allowed'[n].at) = 0 /\ Cost + (tokens - Cost) >= Burst + 0
        BY <2>2, <2>5, <3>3
      <3>5. QED
        BY <2>1, <2>5, <3>2, <3>4
    <2>6. CASE Allows(Watched, time) /\ tokens # Burst
      <3>1. PICK i \in DOMAIN allowed : Spent(i) + tokens >= Burst + Rate * (time - allowed[i].at)
        BY <2>3, <2>6
      <3>2. PICK n \in Nat : n = Len(allowed) + 1
        BY HistoryFacts
      <3>3. DOMAIN allowed' = 1 .. n /\ allowed'[i] = allowed[i] /\ Spent(i)' = Spent(i) + Cost
        BY <1>3, <2>6, <3>2, PassingFacts
      <3>4. i \in DOMAIN allowed' /\ Spent(i) \in Int
        BY <3>2, <3>3, HistoryFacts
      <3> DEFINE more == Rate * (time - allowed[i].at)
      <3>5. Spent(i) + tokens >= Burst + more
        BY <3>1
      <3> HIDE DEF more
      <3>6. (Spent(i) + Cost) + (tokens - Cost) = Spent(i) + tokens
        BY <2>2, <3>4
      <3>7. Spent(i)' + bucket'[Watched].tokens >= Burst + more
        BY <2>1, <2>6, <3>3, <3>5, <3>6
      <3>8. QED
        BY <2>1, <3>3, <3>4, <3>7 DEF more
    <2>7. QED
      BY <2>4, <2>5, <2>6
  <1>4. QED
    BY <1>1, <1>2, <1>3, WatchedMoves

(* Who is refused is told to come back later, and then his bucket will     *)
(* hold a request, whatever he was told before.                            *)
LEMMA RefusingFacts ==
  ASSUME LimiterTypeOK, Promised, NEW time \in Instants, NEW out,
         Remembers(Watched, time, out), ~Allows(Watched, time)
  PROVE  /\ allowed' = allowed
         /\ \E due \in Nat :
               /\ refused' = [at |-> time, due |-> due] /\ time < due
               /\ Filled(Watched, time).tokens + Rate * (due - time) >= Cost
  <1> DEFINE tokens == Filled(Watched, time).tokens
  <1> DEFINE Keeps(due) == time < due /\ tokens + Rate * (due - time) >= Cost
  <1>1. tokens \in Nat /\ tokens < Cost /\ time \in Nat /\ Cost \in Nat /\ Rate \in Nat /\ Cost =< Burst /\ Burst \in Nat
    BY FilledFacts, LimiterSets, BucketFacts DEF Allows
  <1> DEFINE wait == Wait(tokens)
  <1> DEFINE new == time + wait
  <1>2. allowed' = allowed /\ refused' = [at |-> time, due |-> IF refused = Absent THEN new ELSE Least(refused.due, new)]
    BY DEF Remembers
  <1>3. Keeps(new) /\ new \in Nat
    <2>1. wait \in Nat /\ wait > 0 /\ tokens + Rate * wait >= Cost
      BY <1>1, WaitSuffices
    <2> HIDE DEF wait, tokens
    <2>2. new - time = wait /\ new \in Nat /\ time < new
      BY <1>1, <2>1
    <2>3. QED
      BY <2>1, <2>2
  <1>4. ASSUME refused # Absent
        PROVE  Keeps(refused.due) /\ refused.due \in Nat
    <2> DEFINE had == bucket[Watched].tokens
    <2> DEFINE seen == bucket[Watched].seen
    <2> DEFINE due == refused.due
    <2> DEFINE on == Positive(time - seen)
    <2>1. bucket[Watched] # Absent /\ tokens = had + Rate * on
      BY <1>1, FilledFacts, LimiterSets
    <2>2. had \in Nat /\ seen \in Nat /\ due \in Nat
      BY <1>4, <2>1, HistoryFacts
    <2>3. had + Rate * (due - seen) >= Cost
      BY <1>4, <2>1 DEF Promised
    <2> DEFINE rest == due - time
    <2> DEFINE before == due - seen
    <2> DEFINE both == on + rest
    <2>4. on \in Int /\ rest \in Int /\ before \in Int /\ both \in Int /\ before =< both
      BY <1>1, <2>2 DEF Positive
    <2> HIDE DEF on, had, before, tokens, due
    <2>5. Rate * both = Rate * on + Rate * rest /\ Rate * on \in Int /\ Rate * rest \in Int
      BY <1>1, <2>4, RateGrows
    <2> HIDE DEF both
    <2>6. Rate * before =< Rate * both /\ Rate * before \in Int /\ Rate * both \in Int
      BY <1>1, <2>4, RateGrows
    <2> DEFINE x == Rate * on
    <2> DEFINE y == Rate * rest
    <2> DEFINE z == Rate * both
    <2> DEFINE w == Rate * before
    <2>7. /\ x \in Int /\ y \in Int /\ z = x + y /\ w \in Int /\ w =< z
          /\ tokens = had + x /\ had + w >= Cost
      BY <2>1, <2>3, <2>5, <2>6 DEF before
    <2> HIDE DEF x, y, z, w
    <2>8. tokens + y >= Cost /\ y > 0
      BY <1>1, <2>2, <2>7
    <2>9. rest > 0
      <3> HIDE DEF rest
      <3>1. CASE rest =< 0
        <4>1. Rate * rest =< Rate * 0 /\ Rate * 0 = 0
          BY <1>1, <2>4, <3>1, RateGrows
        <4>2. QED
          BY <2>7, <2>8, <4>1 DEF y
      <3>2. QED
        BY <2>4, <3>1
    <2>10. time < due
      BY <1>1, <2>2, <2>9
    <2>11. QED
      BY <2>2, <2>8, <2>10 DEF y, due
  <1> HIDE DEF Keeps, new, tokens
  <1> DEFINE best == IF refused = Absent THEN new ELSE Least(refused.due, new)
  <1>5. best = new \/ (refused # Absent /\ best = refused.due)
    BY DEF Least
  <1>6. Keeps(best) /\ best \in Nat /\ refused' = [at |-> time, due |-> best]
    BY <1>2, <1>3, <1>4, <1>5
  <1> HIDE DEF best
  <1>7. QED
    BY <1>2, <1>6 DEF Keeps, tokens

LEMMA RefusalStep ==
  ASSUME LimiterTypeOK, Punctual, NeverTooLittle, Promised,
         RefusalsEarned, RetryHonoured, [LimiterNext]_limiterVars
  PROVE  Promised' /\ RefusalsEarned' /\ RetryHonoured'
  <1>1. CASE bucket'[Watched] = bucket[Watched] /\ UNCHANGED history
    BY <1>1 DEF history, Promised, RefusalsEarned, RetryHonoured
  <1>2. CASE bucket'[Watched] = Absent /\ UNCHANGED <<allowed, back, refused>>
    BY <1>2 DEF Promised, RefusalsEarned, RetryHonoured
  <1>3. ASSUME NEW time \in Instants, NEW out,
               Settles(Watched, time, out), Remembers(Watched, time, out)
        PROVE  Promised' /\ RefusalsEarned' /\ RetryHonoured'
    <2>1. CASE Allows(Watched, time)
      <3>1. refused' = Absent
        BY <1>3, <2>1 DEF Remembers
      <3>2. QED
        BY <3>1 DEF Promised, RefusalsEarned, RetryHonoured
    <2>2. CASE ~Allows(Watched, time)
      <3> DEFINE tokens == Filled(Watched, time).tokens
      <3>1. PICK due \in Nat :
               /\ refused' = [at |-> time, due |-> due] /\ time < due
               /\ tokens + Rate * (due - time) >= Cost
        BY <1>3, <2>2, RefusingFacts
      <3>2. refused'.at = time /\ refused'.due = due /\ allowed' = allowed
        BY <1>3, <2>2, <3>1, RefusingFacts
      <3>3. bucket'[Watched].tokens = tokens /\ bucket'[Watched].seen = time
        BY <1>3, <2>2, DecidingFacts, LimiterSets
      <3>4. Promised'
        BY <3>1, <3>2, <3>3 DEF Promised
      <3>5. RetryHonoured'
        BY <3>1, <3>2 DEF RetryHonoured
      <3>6. /\ tokens \in Nat /\ tokens < Cost /\ Cost \in Nat /\ Cost =< Burst /\ Burst \in Nat
            /\ time \in Nat /\ Rate \in Nat
        BY <2>2, FilledFacts, LimiterSets, BucketFacts DEF Allows
      <3>7. PICK i \in DOMAIN allowed : Spent(i) + tokens >= Burst + Rate * (time - allowed[i].at)
        BY <3>6, NeverCreditedTooLittle
      <3> HIDE DEF tokens
      <3>8. Spent(i) \in Int /\ allowed[i].at \in Nat /\ Len(allowed) \in Nat /\ i \in Nat
        BY HistoryFacts
      <3> DEFINE n == Len(allowed) - i + 1
      <3> DEFINE more == time - allowed[i].at
      <3>9. n \in Int /\ more \in Int /\ Len(allowed) - i + 2 = n + 1
        BY <3>6, <3>8
      <3>10. Spent(i) = Cost * n
        BY DEF Spent
      <3> HIDE DEF n
      <3>11. Cost * (n + 1) = Cost * n + Cost /\ Cost * n \in Int
        BY <3>6, <3>9, OneMore
      <3> HIDE DEF more
      <3>12. Rate * more \in Int
        BY <3>6, <3>9
      <3> DEFINE x == Rate * more
      <3> DEFINE y == Cost * n
      <3> DEFINE z == Cost * (n + 1)
      <3>13. x \in Int /\ y \in Int /\ z = y + Cost /\ y + tokens >= Burst + x
        BY <3>7, <3>10, <3>11, <3>12 DEF more
      <3> HIDE DEF x, y, z
      <3>14. z > Burst + x
        BY <3>6, <3>13
      <3>15. Cost * (Len(allowed) - i + 2) > Burst + Rate * (time - allowed[i].at)
        BY <3>9, <3>14 DEF x, z, more
      <3>16. RefusalsEarned'
        BY <3>2, <3>15 DEF RefusalsEarned
      <3>17. QED
        BY <3>4, <3>5, <3>16
    <2>3. QED
      BY <2>1, <2>2
  <1>4. QED
    BY <1>1, <1>2, <1>3, WatchedMoves

LEMMA LimiterStep ==
  ASSUME LimiterIInv, [LimiterNext]_limiterVars
  PROVE  LimiterIInv'
  <1>1. /\ LimiterTypeOK /\ Punctual /\ NeverTooMuch /\ NeverTooLittle
        /\ Promised /\ WindowsBounded /\ RefusalsEarned /\ RetryHonoured
    BY DEF LimiterIInv
  <1>2. LimiterTypeOK' /\ Punctual'
    BY <1>1, LimiterType, PunctualStep
  <1>3. NeverTooMuch' /\ WindowsBounded'
    BY <1>1, NeverTooMuchStep, WindowsStep
  <1>4. NeverTooLittle'
    BY <1>1, NeverTooLittleStep
  <1>5. Promised' /\ RefusalsEarned' /\ RetryHonoured'
    BY <1>1, RefusalStep
  <1>6. QED
    BY <1>2, <1>3, <1>4, <1>5 DEF LimiterIInv

(* In whatever order the requests of a principal enter, whoever else calls *)
(* and whichever buckets are dropped: what the requests allowed took and   *)
(* what is left is no more, and no less, than Burst and the rate gave, and *)
(* when an advised retry is due the bucket holds a request (Allow and      *)
(* sweepLocked of internal/ratelimit/limiter.go).                          *)
THEOREM LimiterInvariance == LimiterSpec => []LimiterIInv
  <1>1. LimiterInit => LimiterIInv
    BY LimiterStarts
  <1>2. LimiterIInv /\ [LimiterNext]_limiterVars => LimiterIInv'
    BY LimiterStep
  <1>3. QED
    BY <1>1, <1>2, PTL DEF LimiterSpec

(* In no stretch of requests are more allowed than Burst and the rate over *)
(* its time admit, but for the time the bucket moved back (Allow).         *)
THEOREM WindowsAreBounded == LimiterSpec => []WindowsBounded
  <1>1. LimiterIInv => WindowsBounded
    BY DEF LimiterIInv
  <1>2. QED
    BY <1>1, LimiterInvariance, PTL

(* Whoever is refused has, since some request of his, been allowed as much *)
(* as Burst and the rate admit (Allow).                                    *)
THEOREM RefusalsAreEarned == LimiterSpec => []RefusalsEarned
  <1>1. LimiterIInv => RefusalsEarned
    BY DEF LimiterIInv
  <1>2. QED
    BY <1>1, LimiterInvariance, PTL

(* Who was told to wait and waited is not refused again, unless a request  *)
(* of his was allowed in the meantime (the Retry-After of Allow).          *)
THEOREM RetryIsHonoured == LimiterSpec => []RetryHonoured
  <1>1. LimiterIInv => RetryHonoured
    BY DEF LimiterIInv
  <1>2. QED
    BY <1>1, LimiterInvariance, PTL

-----------------------------------------------------------------------------
(* The gate: who may read what. *)

LEMMA GateSets ==
  /\ Global \in Scopes /\ Global.id = Wild /\ Global.type = "global"
  /\ Grantable \subseteq Grants
  /\ None \notin Reads /\ None \notin Walks
  /\ None \notin Edits /\ None \notin Nat /\ None \notin Scopes
  /\ None \notin Records /\ None \notin Clients
  BY GateAssumption DEF Scopes, Global

LEMMA PermissionsTyped ==
  ASSUME NEW roles \in SUBSET Roles
  PROVE  PermissionsOf(roles) \in SUBSET {Read, All}
  BY GateAssumption DEF PermissionsOf

(* What Evaluator.scoped asks for is the scope itself and then wider ones: *)
(* the first is the scope, and a grant that covers any covers the scope.   *)
LEMMA WiderInTurn ==
  ASSUME NEW scope \in Scopes
  PROVE  /\ CandidatesFor(scope) \in Seq(Scopes)
         /\ CandidatesFor(scope) # << >> /\ Head(CandidatesFor(scope)) = scope
         /\ \A c \in ToSet(CandidatesFor(scope)) :
               \A g \in Grants : \A caller : Covers(g, caller, c) => Covers(g, caller, scope)
  <1> DEFINE wild == [scope EXCEPT !.id = Wild]
  <1> DEFINE second == IF scope.id # Wild THEN <<wild>> ELSE << >>
  <1> DEFINE third == IF scope.type # "global" THEN <<Global>> ELSE << >>
  <1>1. wild \in Scopes /\ wild.type = scope.type /\ wild.id = Wild /\ Global \in Scopes
    BY DEF Scopes, Global
  <1>2. ASSUME NEW g \in Grants, NEW caller
        PROVE  /\ Covers(g, caller, wild) => Covers(g, caller, scope)
               /\ Covers(g, caller, Global) => Covers(g, caller, scope)
    <2>1. Covers(g, caller, wild) => Covers(g, caller, scope)
      BY <1>1 DEF Covers
    <2>2. g.scope \in Scopes
      BY DEF Grants
    <2>3. g.scope.type = "global" => g.scope = Global
      BY <2>2 DEF Scopes, Global
    <2>4. Covers(g, caller, Global) => Covers(g, caller, scope)
      BY <2>3 DEF Covers, Global
    <2>5. QED
      BY <2>1, <2>4
  <1> HIDE DEF wild
  <1>3. second \in Seq(Scopes) /\ third \in Seq(Scopes)
        /\ (\A n \in DOMAIN second : second[n] = wild) /\ (\A n \in DOMAIN third : third[n] = Global)
    BY <1>1
  <1> HIDE DEF second, third
  <1> DEFINE both == <<scope>> \o second
  <1>4. /\ both \in Seq(Scopes) /\ Len(both) = 1 + Len(second) /\ both[1] = scope
        /\ \A n \in DOMAIN both : both[n] \in {scope, wild}
    BY <1>3
  <1> HIDE DEF both
  <1> DEFINE all == both \o third
  <1>5. /\ all \in Seq(Scopes) /\ Len(all) = Len(both) + Len(third) /\ all[1] = scope
        /\ \A n \in DOMAIN all : all[n] \in {scope, wild, Global}
    BY <1>3, <1>4
  <1>6. CandidatesFor(scope) = all
    BY DEF CandidatesFor, all, both, second, third, wild
  <1> HIDE DEF all
  <1>7. all # << >> /\ Head(all) = scope
    BY <1>3, <1>4, <1>5
  <1>8. ASSUME NEW c \in ToSet(all), NEW g \in Grants, NEW caller, Covers(g, caller, c)
        PROVE  Covers(g, caller, scope)
    <2>1. c \in {scope, wild, Global}
      BY <1>5 DEF ToSet
    <2>2. QED
      BY <1>2, <1>8, <2>1
  <1>9. QED
    BY <1>5, <1>6, <1>7, <1>8

(* What a search finds is each document that is indexed, once. *)
LEMMA Finds ==
  ASSUME NEW permissions
  PROVE  LET reach == Found(permissions) IN
         /\ reach \in Seq(Records)
         /\ \A m, n \in DOMAIN reach : reach[m] = reach[n] => m = n
         /\ \A n \in DOMAIN reach : index[reach[n]] # None
         /\ permissions # {} =>
               \A x \in Records : index[x] # None => \E n \in DOMAIN reach : reach[n] = x
  <1> DEFINE indexed == {record \in Records : index[record] # None}
  <1> DEFINE ranked == Ranking[indexed]
  <1>1. /\ ranked \in Seq(Records)
        /\ ToSet(ranked) = indexed /\ IsInjective(ranked)
    BY GateAssumption
  <1> HIDE DEF ranked
  <1>2. (\A n \in DOMAIN ranked : ranked[n] \in indexed) /\ \A x \in indexed : \E n \in DOMAIN ranked : ranked[n] = x
    BY <1>1 DEF ToSet
  <1>3. \A m, n \in DOMAIN ranked : ranked[m] = ranked[n] => m = n
    BY <1>1 DEF IsInjective
  <1>4. Found(permissions) = IF permissions = {} THEN << >> ELSE ranked
    BY DEF Found, ranked
  <1>5. CASE permissions = {}
    BY <1>4, <1>5
  <1>6. CASE permissions # {}
    BY <1>1, <1>2, <1>3, <1>4, <1>6
  <1>7. QED
    BY <1>5, <1>6

LEMMA ScopesTyped ==
  ASSUME GateTypeOK, NEW record \in Records
  PROVE  ScopeOf(record) \in Scopes /\ GatewayScope(record) \in Scopes
  <1>1. owner[record] \in Clients \union {None} /\ record \in Servers \union Incidents
    BY DEF GateTypeOK, Records
  <1>2. ScopeOf(record) \in Scopes
    BY <1>1 DEF ScopeOf, Scopes
  <1>3. GatewayScope(record) \in Scopes
    BY <1>1 DEF GatewayScope, GatewayType, Scopes, Records
  <1>4. QED
    BY <1>2, <1>3

(* What the history of a request keeps. *)
LEMMA Witnessing ==
  ASSUME GateTypeOK, Witness,
         held' \in [Users -> SUBSET Roles], grants' \subseteq Grantable,
         req' \in Reads \union {None}
  PROVE  /\ saw' \subseteq Moments
         /\ req' # None => saw \subseteq saw' /\ Moment(req'.caller) \in saw'
  <1>1. CASE req' = None
    BY <1>1 DEF Witness
  <1>2. CASE req' # None
    <2> DEFINE c == req'.caller
    <2> DEFINE given == {g \in grants' : g.caller = c}
    <2>1. c \in Users /\ given \in SUBSET Grants
      BY <1>2, GateSets DEF Reads
    <2>2. held'[c] \in SUBSET Roles
      BY <2>1
    <2>3. Moment(c) \in Moments
      <3> DEFINE roles == held'[c]
      <3>1. Moment(c) = [roles |-> roles, grants |-> given]
        BY DEF Moment
      <3>2. roles \in SUBSET Roles
        BY <2>2
      <3> HIDE DEF given, roles
      <3>3. QED
        BY <2>1, <3>1, <3>2 DEF Moments
    <2>4. saw' = saw \union {Moment(c)}
      BY <1>2 DEF Witness
    <2>5. QED
      BY <2>3, <2>4 DEF GateTypeOK
  <1>3. QED
    BY <1>1, <1>2

(* A step aside leaves the request alone, and of the walk where it is. *)
LEMMA SteppingAside ==
  ASSUME GateTypeOK, InItsPhase, Aside,
         held' \in [Users -> SUBSET Roles], grants' \subseteq Grantable
  PROVE  /\ req' = req /\ judged' = NoVerdict /\ Witness
         /\ saw' \subseteq Moments /\ walk' \in Walks \union {None}
         /\ InItsPhase'
         /\ walk = None => walk' = None
         /\ walk # None =>
               /\ walk' # None /\ walk'.caller = walk.caller /\ walk'.offset = walk.offset
               /\ walk'.shown = walk.shown
               /\ walk'.owed = walk.owed \intersect (Findable(walk.caller) \union ToSet(walk.shown))
               /\ walk'.stirred <=> (walk.stirred \/ held' # held \/ index' # index)
  <1>1. req' = req /\ judged' = NoVerdict /\ Witness
    BY DEF Aside
  <1>2. saw' \subseteq Moments
    BY <1>1, Witnessing DEF GateTypeOK
  <1>3. walk = None => walk' = None
    BY DEF Aside
  <1>4. ASSUME walk # None
        PROVE  /\ walk' \in Walks /\ walk'.caller = walk.caller /\ walk'.offset = walk.offset
               /\ walk'.shown = walk.shown
               /\ walk'.owed = walk.owed \intersect (Findable(walk.caller) \union ToSet(walk.shown))
               /\ walk'.stirred <=> (walk.stirred \/ held' # held \/ index' # index)
    <2> DEFINE owed == walk.owed \intersect (Findable(walk.caller) \union ToSet(walk.shown))
    <2> DEFINE stirred == walk.stirred \/ held' # held \/ index' # index
    <2>1. walk \in Walks
      BY <1>4 DEF GateTypeOK
    <2>2. walk' = [walk EXCEPT !.owed = owed, !.stirred = stirred]
      BY <1>4, Zenon DEF Aside
    <2>3. owed \in SUBSET Records /\ stirred \in BOOLEAN
      BY <2>1 DEF Walks
    <2>4. stirred <=> (walk.stirred \/ held' # held \/ index' # index)
      OBVIOUS
    <2> HIDE DEF owed, stirred
    <2>5. /\ walk' \in Walks /\ walk'.caller = walk.caller /\ walk'.offset = walk.offset
          /\ walk'.shown = walk.shown /\ walk'.owed = owed
      BY <2>1, <2>2, <2>3 DEF Walks
    <2>6. walk'.stirred = stirred
      BY <2>1, <2>2, <2>3 DEF Walks
    <2>7. QED
      BY <2>4, <2>5, <2>6 DEF owed
  <1>5. walk' \in Walks \union {None} /\ (walk # None => walk' # None)
    BY <1>3, <1>4, GateSets
  <1>6. InItsPhase'
    BY <1>1, <1>2, <1>4, <1>5 DEF InItsPhase, Fits, CandidatesFor, Global
  <1>7. QED
    BY <1>1, <1>2, <1>3, <1>4, <1>5, <1>6

(* Evaluate begins on a scope. *)
LEMMA JudgingFacts ==
  ASSUME NEW r \in Reads, NEW scope \in Scopes
  PROVE  LET n == Judging(r, scope) IN
         /\ n \in Reads /\ n.phase = "judging" /\ n.scope = scope
         /\ n.left = CandidatesFor(scope) /\ n.left # << >>
         /\ n.caller = r.caller /\ n.door = r.door /\ n.record = r.record
         /\ n.roles = r.roles /\ n.permissions = r.permissions
         /\ n.hits = r.hits /\ n.used = r.used /\ n.page = r.page /\ n.total = r.total
  <1> DEFINE left_ == CandidatesFor(scope)
  <1>1. left_ \in Seq(Scopes) /\ left_ # << >>
    BY WiderInTurn
  <1> HIDE DEF left_
  <1>2. Judging(r, scope) = [r EXCEPT !.phase = "judging", !.scope = scope, !.left = left_]
    BY DEF Judging, left_
  <1>3. "judging" \in Phases
    BY DEF Phases
  <1>4. Judging(r, scope) \in Reads
    BY <1>1, <1>2, <1>3 DEF Reads
  <1>5. QED
    BY <1>1, <1>2, <1>4 DEF Reads, left_

(* A search goes on to its next hit, or to its page. *)
LEMMA NextHitFacts ==
  ASSUME NEW r \in Reads
  PROVE  LET n == NextHit(r) IN
         /\ n \in Reads /\ n.caller = r.caller /\ n.door = r.door /\ n.record = r.record
         /\ n.roles = r.roles /\ n.permissions = r.permissions
         /\ n.hits = r.hits /\ n.used = r.used /\ n.page = r.page /\ n.total = r.total
         /\ \/ n.phase = "paging"
            \/ /\ n.phase = "judging" /\ r.used < Len(r.hits)
               /\ r.used + 1 \in DOMAIN r.hits
               /\ n.scope = r.hits[r.used + 1].scope
               /\ n.left = CandidatesFor(n.scope) /\ n.left # << >>
  <1>1. r.hits \in Seq(Results) /\ r.used \in Nat
    BY DEF Reads
  <1>2. CASE r.used < Len(r.hits) /\ Len(r.page) < Limit
    <2> DEFINE scope == r.hits[r.used + 1].scope
    <2>1. r.used + 1 \in DOMAIN r.hits
      BY <1>1, <1>2
    <2>2. scope \in Scopes
      <3>1. r.hits[r.used + 1] \in Results
        BY <1>1, <2>1
      <3>2. QED
        BY <3>1 DEF Results
    <2>3. NextHit(r) = Judging(r, scope)
      BY <1>2 DEF NextHit
    <2> DEFINE n == NextHit(r)
    <2> HIDE DEF scope
    <2>4. /\ n \in Reads /\ n.phase = "judging" /\ n.scope = scope
          /\ n.left = CandidatesFor(scope) /\ n.left # << >>
          /\ n.caller = r.caller /\ n.door = r.door /\ n.record = r.record
          /\ n.roles = r.roles /\ n.permissions = r.permissions
          /\ n.hits = r.hits /\ n.used = r.used /\ n.page = r.page /\ n.total = r.total
      BY <2>2, <2>3, JudgingFacts
    <2> HIDE DEF n
    <2>5. QED
      BY <1>2, <2>1, <2>4 DEF scope, n
  <1>3. CASE ~(r.used < Len(r.hits) /\ Len(r.page) < Limit)
    <2>1. NextHit(r) = [r EXCEPT !.phase = "paging"]
      BY <1>3 DEF NextHit
    <2>2. "paging" \in Phases
      BY DEF Phases
    <2>3. QED
      BY <2>1, <2>2 DEF Reads
  <1>4. QED
    BY <1>2, <1>3

(* The hits of a search: what is found from the cursor on. *)
LEMMA SearchFacts ==
  ASSUME GateTypeOK, NEW permissions, NEW offset \in Nat
  PROVE  LET reach == Found(permissions)
             hits == HitsFrom(reach, offset)
         IN
         /\ hits \in Seq(Results) /\ Len(reach) \in Nat
         /\ offset =< Len(reach) => offset + Len(hits) =< Len(reach)
         /\ \A k \in DOMAIN hits :
               LET x == reach[offset + k] IN hits[k] = [record |-> x, scope |-> index[x]]
  <1> DEFINE reach == Found(permissions)
  <1> DEFINE last == Lesser(offset + Candidates, Len(reach))
  <1> DEFINE window == SubSeq(reach, offset + 1, last)
  <1> DEFINE hits == [i \in DOMAIN window |-> [record |-> window[i], scope |-> index[window[i]]]]
  <1>1. reach \in Seq(Records) /\ \A n \in DOMAIN reach : index[reach[n]] # None
    BY Finds
  <1> HIDE DEF reach
  <1>2. Candidates \in Nat /\ Len(reach) \in Nat /\ DOMAIN reach = 1 .. Len(reach)
    BY <1>1, GateAssumption
  <1>3. last \in Nat /\ last =< Len(reach)
    BY <1>2 DEF Lesser
  <1> HIDE DEF last
  <1>4. /\ DOMAIN window = 1 .. Len(window) /\ Len(window) \in Nat
        /\ Len(window) = IF offset + 1 <= last THEN last - offset ELSE 0
        /\ \A k \in 1 .. Len(window) : window[k] = reach[offset + k]
    <2> DEFINE from == offset + 1
    <2>1. from \in Nat /\ reach \in Seq(Records)
      BY <1>1
    <2> HIDE DEF from
    <2>2. window = SubSeq(reach, from, last)
      BY DEF from
    <2> HIDE DEF window
    <2>3. /\ DOMAIN window = 1 .. Len(window) /\ Len(window) \in Nat
          /\ Len(window) = IF from <= last THEN last - from + 1 ELSE 0
      BY <1>3, <2>1, <2>2
    <2>4. ASSUME NEW k \in 1 .. Len(window)
          PROVE  window[k] = reach[from + k - 1]
      BY <1>3, <2>1, <2>2, <2>3
    <2>5. \A k \in 1 .. Len(window) : offset + k = from + k - 1
      BY <2>3 DEF from
    <2>6. Len(window) = IF offset + 1 <= last THEN last - offset ELSE 0
      BY <1>3, <2>3 DEF from
    <2>7. QED
      BY <2>3, <2>4, <2>5, <2>6
  <1> HIDE DEF window
  <1>5. ASSUME NEW k \in 1 .. Len(window)
        PROVE  /\ offset + k \in DOMAIN reach /\ window[k] \in Records
               /\ index[window[k]] \in Scopes
    <2>1. offset + k \in DOMAIN reach
      BY <1>2, <1>3, <1>4
    <2>2. window[k] \in Records /\ index[window[k]] # None
      BY <1>1, <1>4, <2>1
    <2>3. QED
      BY <2>1, <2>2 DEF GateTypeOK
  <1>6. hits \in [1 .. Len(window) -> Results]
    BY <1>4, <1>5 DEF Results
  <1>7. hits \in Seq(Results) /\ Len(hits) = Len(window)
    BY <1>4, <1>6
  <1>8. \A k \in DOMAIN hits :
           LET x == reach[offset + k] IN hits[k] = [record |-> x, scope |-> index[x]]
    BY <1>4
  <1>9. offset =< Len(reach) => offset + Len(hits) =< Len(reach)
    BY <1>2, <1>3, <1>4, <1>7
  <1>10. HitsFrom(reach, offset) = hits
    BY DEF HitsFrom, window, last
  <1> HIDE DEF hits
  <1>11. QED
    BY <1>2, <1>7, <1>8, <1>9, <1>10 DEF reach

(* What a step of the request has to show. *)
LEMMA Proceeding ==
  ASSUME GateTypeOK, InItsPhase, Witness,
         UNCHANGED <<held, grants, owner, index, edit, trail, muddled>>,
         req' = None \/ (req' \in Reads /\ Fits(req', walk')),
         walk' \in Walks \union {None}
  PROVE  GateTypeOK' /\ InItsPhase'
  <1>1. saw' \subseteq Moments
    BY Witnessing DEF GateTypeOK
  <1>2. GateTypeOK'
    BY <1>1 DEF GateTypeOK
  <1>3. InItsPhase'
    BY <1>1 DEF InItsPhase, Fits, CandidatesFor, Global
  <1>4. QED
    BY <1>2, <1>3

LEMMA Beginning ==
  ASSUME GateTypeOK, InItsPhase, NEW caller \in Users,
         NEW door \in Doors, NEW record \in Records \union {None},
         door \in {"record", "gateway"} => record # None, Begins(caller, door, record)
  PROVE  GateTypeOK' /\ InItsPhase'
  <1> DEFINE asked == Asked(caller, door, record)
  <1>1. /\ req' = asked /\ Witness /\ req = None
        /\ UNCHANGED <<held, grants, owner, index, edit, trail, muddled>>
    BY DEF Begins, tables, audits
  <1>2. /\ asked \in Reads /\ asked.phase = "roles"
        /\ asked.door = door /\ asked.record = record /\ asked.caller = caller
    <2>1. Global \in Scopes /\ "roles" \in Phases
      BY GateSets DEF Phases
    <2>2. QED
      BY <2>1 DEF Asked, Reads
  <1>3. /\ walk' \in Walks \union {None}
        /\ door = "search" => walk' # None /\ walk'.caller = caller /\ walk'.offset # None
    <2>1. CASE door # "search" \/ walk # None
      BY <2>1 DEF Begins, GateTypeOK
    <2>2. CASE door = "search" /\ walk = None
      <3> DEFINE new == [caller |-> caller, offset |-> 0, shown |-> << >>, stirred |-> FALSE,
                         owed |-> Findable(caller)]
      <3>1. walk' = new
        BY <2>2 DEF Begins
      <3>2. Findable(caller) \in SUBSET Records
        BY DEF Findable
      <3>3. new \in Walks
        BY <3>2 DEF Walks
      <3>4. new.caller = caller /\ new.offset = 0
        OBVIOUS
      <3> HIDE DEF new
      <3>5. QED
        BY <3>1, <3>3, <3>4, GateSets
    <2>3. QED
      BY <2>1, <2>2
  <1> HIDE DEF asked
  <1>4. Fits(req', walk')
    BY <1>1, <1>2, <1>3 DEF Fits
  <1>5. QED
    BY <1>1, <1>2, <1>3, <1>4, Proceeding

(* A decision. *)
LEMMA Deciding ==
  ASSUME GateTypeOK, InItsPhase, Reading("judging"),
         NEW ok \in BOOLEAN, Decides(ok)
  PROVE  GateTypeOK' /\ InItsPhase'
  <1>1. /\ req' = After(ok) /\ Witness /\ walk' = walk
        /\ UNCHANGED <<held, grants, owner, index, edit, trail, muddled>>
    BY DEF Decides, tables, audits
  <1>2. req \in Reads /\ req # None /\ Fits(req, walk) /\ walk \in Walks \union {None}
    BY DEF GateTypeOK, InItsPhase, Reading
  <1>3. ASSUME req' # None
        PROVE  req' \in Reads /\ Fits(req', walk)
    <2>1. CASE req.door = "record"
      <3>1. req' = [req EXCEPT !.phase = "admitted"]
        BY <1>1, <1>3, <2>1 DEF After
      <3>2. "admitted" \in Phases
        BY DEF Phases
      <3>3. /\ req' \in Reads /\ req'.phase = "admitted"
            /\ req'.door = req.door /\ req'.record = req.record
        BY <1>2, <3>1, <3>2 DEF Reads
      <3>4. QED
        BY <1>2, <2>1, <3>3 DEF Fits
    <2>2. CASE req.door = "search"
      <3> DEFINE page == IF ok THEN Append(req.page, req.hits[req.used + 1].record) ELSE req.page
      <3> DEFINE r == [req EXCEPT !.used = req.used + 1, !.page = page]
      <3>1. req' = NextHit(r)
        BY <1>1, <2>2 DEF After
      <3>2. page \in Seq(Records)
        <4>1. /\ req.page \in Seq(Records) /\ req.hits \in Seq(Results) /\ req.used \in Nat
              /\ req.used < Len(req.hits)
          BY <1>2, <2>2 DEF Reads, Fits, Reading
        <4>2. req.hits[req.used + 1] \in Results
          BY <4>1
        <4>3. QED
          BY <4>1, <4>2 DEF Results
      <3> HIDE DEF page
      <3>3. r \in Reads /\ r.door = req.door /\ r.caller = req.caller /\ r.record = req.record
        <4> DEFINE used == req.used + 1
        <4>1. used \in Nat
          BY <1>2 DEF Reads
        <4> HIDE DEF used
        <4>2. r = [req EXCEPT !.used = used, !.page = page]
          BY DEF used
        <4> HIDE DEF r
        <4>3. QED
          BY <1>2, <3>2, <4>1, <4>2 DEF Reads
      <3> HIDE DEF r
      <3>4. /\ req' \in Reads /\ req'.door = "search" /\ req'.caller = req.caller
            /\ \/ req'.phase = "paging"
               \/ /\ req'.phase = "judging" /\ req'.used < Len(req'.hits)
                  /\ req'.left = CandidatesFor(req'.scope) /\ req'.left # << >>
        BY <2>2, <3>1, <3>3, NextHitFacts
      <3>5. QED
        BY <1>2, <2>2, <3>4 DEF Fits
    <2>3. QED
      BY <1>1, <1>3, <2>1, <2>2 DEF After
  <1>4. QED
    BY <1>1, <1>2, <1>3, Proceeding

LEMMA TailFacts ==
  ASSUME NEW S, NEW l \in Seq(S), l # << >>
  PROVE  /\ Tail(l) \in Seq(S) /\ (Len(l) # 1 => Tail(l) # << >>)
         /\ \A k \in DOMAIN Tail(l) : k + 1 \in DOMAIN l /\ Tail(l)[k] = l[k + 1]
  <1>1. Len(l) \in Nat /\ Len(l) > 0 /\ DOMAIN l = 1 .. Len(l)
    OBVIOUS
  <1>2. Tail(l) \in Seq(S) /\ Len(Tail(l)) = Len(l) - 1 /\ DOMAIN Tail(l) = 1 .. Len(l) - 1
    BY <1>1
  <1>3. \A k \in 1 .. Len(l) - 1 : Tail(l)[k] = l[k + 1]
    BY <1>1
  <1> DEFINE t == Tail(l)
  <1>4. t \in Seq(S) /\ Len(t) = Len(l) - 1
    BY <1>2
  <1> HIDE DEF t
  <1>5. Len(l) # 1 => t # << >>
    BY <1>1, <1>4
  <1>6. QED
    BY <1>1, <1>2, <1>3, <1>5 DEF t

LEMMA GateType ==
  ASSUME GateTypeOK, InItsPhase, [GateNext]_gateVars
  PROVE  GateTypeOK' /\ InItsPhase'
  <1> USE DEF tables, audits
  <1>1. CASE UNCHANGED gateVars
    BY <1>1 DEF gateVars, GateTypeOK, InItsPhase, Fits, CandidatesFor, Global
  (* Steps aside. *)
  <1>2. ASSUME Aside, held' \in [Users -> SUBSET Roles], grants' \subseteq Grantable,
               owner' \in [Records -> Clients \union {None}],
               index' \in [Records -> Scopes \union {None}],
               edit' \in [Administrators -> Edits \union {None}],
               trail' \in [Grantable -> {"granted", "revoked", None}], muddled' \subseteq Grantable
        PROVE  GateTypeOK' /\ InItsPhase'
    BY <1>2, SteppingAside DEF GateTypeOK
  <1>3. ASSUME NEW caller \in Users, RolesChange(caller)
        PROVE  GateTypeOK' /\ InItsPhase'
    <2>1. held' \in [Users -> SUBSET Roles]
      BY <1>3, GateAssumption DEF RolesChange, GateTypeOK
    <2>2. QED
      BY <1>2, <1>3, <2>1 DEF RolesChange, GateTypeOK
  <1>4. ASSUME NEW server \in Servers, OwnerChanges(server)
        PROVE  GateTypeOK' /\ InItsPhase'
    <2>1. owner' \in [Records -> Clients \union {None}]
      BY <1>4 DEF OwnerChanges, GateTypeOK
    <2>2. QED
      BY <1>2, <1>4, <2>1 DEF OwnerChanges, GateTypeOK
  <1>5. ASSUME NEW record \in Records, Indexes(record)
        PROVE  GateTypeOK' /\ InItsPhase'
    <2>1. ScopeOf(record) \in Scopes
      BY ScopesTyped
    <2>2. index' \in [Records -> Scopes \union {None}]
      BY <1>5, <2>1 DEF Indexes, GateTypeOK
    <2>3. QED
      BY <1>2, <1>5, <2>2 DEF Indexes, GateTypeOK
  <1>6. ASSUME NEW a \in Administrators, NEW op \in {"granted", "revoked"}, NEW grant \in Grantable,
               AsksEdit(a, op, grant)
        PROVE  GateTypeOK' /\ InItsPhase'
    <2>1. [op |-> op, grant |-> grant, phase |-> "writing", news |-> FALSE] \in Edits
      BY DEF Edits
    <2>2. edit' \in [Administrators -> Edits \union {None}] /\ muddled' \subseteq Grantable
      BY <1>6, <2>1 DEF AsksEdit, GateTypeOK
    <2>3. QED
      BY <1>2, <1>6, <2>2 DEF AsksEdit, GateTypeOK
  <1>7. ASSUME NEW a \in Administrators, Writes(a) \/ Audits(a)
        PROVE  GateTypeOK' /\ InItsPhase'
    <2>1. edit[a] \in Edits
      BY <1>7 DEF Writes, Audits, InPhase, GateTypeOK
    <2>2. \E e \in Edits : edit' = [edit EXCEPT ![a] = e]
      <3>1. CASE Writes(a)
        <4> DEFINE news == (edit[a].op = "granted") # (edit[a].grant \in grants)
        <4>1. news \in BOOLEAN
          OBVIOUS
        <4>2. edit' = [edit EXCEPT ![a].phase = "recording", ![a].news = news]
          BY <3>1 DEF Writes
        <4> HIDE DEF news
        <4> DEFINE e == [edit[a] EXCEPT !.phase = "recording", !.news = news]
        <4>3. e \in Edits
          BY <2>1, <4>1 DEF Edits
        <4>4. edit' = [edit EXCEPT ![a] = e]
          BY <4>2 DEF GateTypeOK
        <4>5. QED
          BY <4>3, <4>4
      <3>2. CASE Audits(a)
        <4> DEFINE e == [edit[a] EXCEPT !.phase = "committing"]
        <4>1. e \in Edits
          BY <2>1 DEF Edits
        <4>2. edit' = [edit EXCEPT ![a] = e]
          BY <3>2 DEF Audits, GateTypeOK
        <4>3. QED
          BY <4>1, <4>2
      <3>3. QED
        BY <1>7, <3>1, <3>2
    <2>3. edit' \in [Administrators -> Edits \union {None}]
      BY <2>2 DEF GateTypeOK
    <2>4. QED
      BY <1>2, <1>7, <2>3 DEF Writes, Audits, GateTypeOK
  <1>8. ASSUME NEW a \in Administrators, Commits(a) \/ Refused(a)
        PROVE  GateTypeOK' /\ InItsPhase'
    <2>1. edit[a] \in Edits
      BY <1>8 DEF Commits, Refused, InPhase, GateTypeOK
    <2>2. edit[a].grant \in Grantable /\ edit[a].op \in {"granted", "revoked"}
      BY <2>1 DEF Edits
    <2>3. edit' \in [Administrators -> Edits \union {None}]
      BY <1>8 DEF Commits, Refused, GateTypeOK
    <2>4. grants' \subseteq Grantable /\ trail' \in [Grantable -> {"granted", "revoked", None}]
      BY <1>8, <2>2 DEF Commits, Refused, GrantsAfter, GateTypeOK
    <2>5. QED
      BY <1>2, <1>8, <2>3, <2>4 DEF Commits, Refused, GateTypeOK
  (* Steps of the request. *)
  <1>9. ASSUME NEW caller \in Users, NEW record \in Records, NEW door \in {"record", "gateway"},
               Begins(caller, door, record)
        PROVE  GateTypeOK' /\ InItsPhase'
    BY <1>9, Beginning, GateSets DEF Doors
  <1>10. ASSUME NEW caller \in Users, NEW door \in {"collection", "search"},
                Begins(caller, door, None)
         PROVE  GateTypeOK' /\ InItsPhase'
    BY <1>10, Beginning DEF Doors
  <1>11. ASSUME NEW next, Goes(next),
                next = None \/ (next \in Reads /\ Fits(next, walk))
         PROVE  GateTypeOK' /\ InItsPhase'
    BY <1>11, Proceeding DEF Goes, GateTypeOK
  <1>12. req # None => req \in Reads /\ Fits(req, walk)
    BY DEF GateTypeOK, InItsPhase
  <1>13. CASE ReadsRoles
    <2> DEFINE n == [req EXCEPT !.phase = "permissions", !.roles = held[req.caller]]
    <2>1. req \in Reads /\ Fits(req, walk)
      BY <1>12, <1>13 DEF ReadsRoles, Reading
    <2>2. held[req.caller] \in SUBSET Roles /\ "permissions" \in Phases
      BY <2>1 DEF GateTypeOK, Reads, Phases
    <2>3. n \in Reads /\ Fits(n, walk)
      BY <2>1, <2>2 DEF Reads, Fits
    <2>4. QED
      BY <1>11, <1>13, <2>3 DEF ReadsRoles
  <1>14. CASE LosesGroups
    <2>1. req \in Reads /\ Fits(req, walk)
      BY <1>12, <1>14 DEF LosesGroups, Reading
    <2>2. /\ req' = [req EXCEPT !.phase = "resolved"] /\ Witness
          /\ walk' = IF req.door = "search" THEN [walk EXCEPT !.stirred = TRUE] ELSE walk
          /\ UNCHANGED <<held, grants, owner, index, edit, trail, muddled>>
      BY <1>14 DEF LosesGroups
    <2>3. /\ walk' \in Walks \union {None}
          /\ req.door = "search" => walk' # None /\ walk'.caller = walk.caller /\ walk'.offset = walk.offset
      <3>1. CASE req.door = "search"
        <4>1. walk \in Walks
          BY <2>1, <3>1 DEF Fits, GateTypeOK
        <4>2. /\ walk' \in Walks /\ walk'.caller = walk.caller /\ walk'.offset = walk.offset
          BY <2>2, <3>1, <4>1 DEF Walks
        <4>3. QED
          BY <4>2, GateSets
      <3>2. CASE req.door # "search"
        BY <2>2, <3>2 DEF GateTypeOK
      <3>3. QED
        BY <3>1, <3>2
    <2>4. "resolved" \in Phases
      BY DEF Phases
    <2>5. /\ req' \in Reads /\ req'.phase = "resolved" /\ req'.door = req.door
          /\ req'.record = req.record /\ req'.caller = req.caller
      BY <2>1, <2>2, <2>4 DEF Reads
    <2>6. Fits(req', walk')
      BY <2>1, <2>3, <2>5 DEF Fits
    <2>7. QED
      BY <2>2, <2>3, <2>5, <2>6, Proceeding
  <1>15. CASE ReadsPermissions
    <2> DEFINE may == PermissionsOf(held[req.caller])
    <2> DEFINE n == [req EXCEPT !.phase = "resolved", !.permissions = may]
    <2>1. req \in Reads /\ Fits(req, walk)
      BY <1>12, <1>15 DEF ReadsPermissions, Reading
    <2>2. may \in SUBSET {Read, All} /\ "resolved" \in Phases
      <3>1. held[req.caller] \in SUBSET Roles
        BY <2>1 DEF GateTypeOK, Reads
      <3>2. QED
        BY <3>1, PermissionsTyped DEF Phases
    <2>3. Goes(n)
      BY <1>15 DEF ReadsPermissions
    <2> HIDE DEF may
    <2>4. n \in Reads /\ Fits(n, walk)
      BY <2>1, <2>2 DEF Reads, Fits
    <2>5. QED
      BY <1>11, <2>3, <2>4
  <1>16. ASSUME NEW scope \in Scopes, req # None, Goes(Judging(req, scope)),
                req.door # "search"
         PROVE  GateTypeOK' /\ InItsPhase'
    <2>1. req \in Reads /\ Fits(req, walk)
      BY <1>12, <1>16
    <2> DEFINE n == Judging(req, scope)
    <2>2. /\ n \in Reads /\ n.phase = "judging" /\ n.scope = scope
          /\ n.left = CandidatesFor(scope) /\ n.left # << >>
          /\ n.caller = req.caller /\ n.door = req.door /\ n.record = req.record
      BY <2>1, JudgingFacts
    <2> HIDE DEF n
    <2>3. Fits(n, walk)
      BY <1>16, <2>1, <2>2 DEF Fits
    <2>4. QED
      BY <1>11, <1>16, <2>2, <2>3 DEF n
  <1>17. CASE Authorizes \/ MeetsGate
    BY <1>16, <1>17, GateSets DEF Authorizes, MeetsGate, Reading
  <1>18. CASE LooksUp \/ Assembles
    <2>1. req # None /\ req \in Reads /\ Fits(req, walk) /\ req.door \in {"record", "gateway"}
      BY <1>12, <1>18 DEF LooksUp, Assembles, Reading, Fits
    <2>2. req.record \in Records
      BY <2>1 DEF Reads, Fits
    <2>3. ScopeOf(req.record) \in Scopes /\ GatewayScope(req.record) \in Scopes
      BY <2>2, ScopesTyped
    <2>4. QED
      BY <1>16, <1>18, <2>1, <2>3 DEF LooksUp, Assembles
  <1>19. CASE Searches
    <2> DEFINE reach == Found(req.permissions)
    <2> DEFINE hits == HitsFrom(reach, walk.offset)
    <2> DEFINE r == [req EXCEPT !.hits = hits, !.total = Len(reach)]
    <2>1. /\ req \in Reads /\ Fits(req, walk) /\ req.door = "search" /\ req.phase = "resolved"
      BY <1>12, <1>19 DEF Searches, Reading
    <2>2. walk.offset \in Nat
      BY <2>1 DEF Fits, GateTypeOK, Walks
    <2>3. hits \in Seq(Results) /\ Len(reach) \in Nat
      BY <2>2, SearchFacts
    <2>4. Goes(NextHit(r))
      BY <1>19 DEF Searches
    <2> HIDE DEF hits, reach
    <2>5. r \in Reads /\ r.door = "search" /\ r.caller = req.caller /\ r.record = req.record
      BY <2>1, <2>3 DEF Reads
    <2> HIDE DEF r
    <2> DEFINE n == NextHit(r)
    <2>6. /\ n \in Reads /\ n.door = "search" /\ n.caller = req.caller
          /\ \/ n.phase = "paging"
             \/ /\ n.phase = "judging" /\ n.used < Len(n.hits)
                /\ n.left = CandidatesFor(n.scope) /\ n.left # << >>
      BY <2>5, NextHitFacts
    <2> HIDE DEF n
    <2>7. Fits(n, walk)
      BY <2>1, <2>6 DEF Fits
    <2>8. QED
      BY <1>11, <2>4, <2>6, <2>7 DEF n
  <1>20. CASE PassesAtOnce
    BY <1>20, Deciding DEF PassesAtOnce
  <1>21. CASE AsksGrants
    <2>1. /\ req \in Reads /\ Fits(req, walk) /\ req.phase = "judging"
      BY <1>12, <1>21 DEF AsksGrants, Reading
    <2>2. CASE Decides(TRUE) \/ Decides(FALSE)
      BY <1>21, <2>2, Deciding DEF AsksGrants
    <2>3. CASE Len(req.left) # 1 /\ Goes([req EXCEPT !.left = Tail(req.left)])
      <3> DEFINE n == [req EXCEPT !.left = Tail(req.left)]
      <3>1. req.left \in Seq(Scopes) /\ req.left # << >>
        BY <2>1 DEF Reads, Fits
      <3>2. /\ Tail(req.left) \in Seq(Scopes) /\ Tail(req.left) # << >>
            /\ \A k \in DOMAIN Tail(req.left) : k + 1 \in DOMAIN req.left /\ Tail(req.left)[k] = req.left[k + 1]
        BY <2>3, <3>1, TailFacts
      <3>3. ToSet(Tail(req.left)) \subseteq ToSet(req.left)
        BY <3>2 DEF ToSet
      <3>4. /\ n \in Reads /\ n.phase = "judging" /\ n.door = req.door /\ n.record = req.record
            /\ n.caller = req.caller /\ n.scope = req.scope /\ n.left = Tail(req.left)
            /\ n.used = req.used /\ n.hits = req.hits
        BY <2>1, <3>2 DEF Reads
      <3> HIDE DEF n
      <3>5. Fits(n, walk)
        BY <2>1, <3>2, <3>3, <3>4 DEF Fits
      <3>6. QED
        BY <1>11, <2>3, <3>4, <3>5 DEF n
    <2>4. QED
      BY <1>21, <2>2, <2>3 DEF AsksGrants
  <1>22. CASE Pages
    <2>1. req \in Reads /\ Fits(req, walk) /\ req.door = "search"
      BY <1>12, <1>22 DEF Pages, Reading, Fits
    <2>2. /\ walk \in Walks /\ walk.offset \in Nat /\ walk.shown \in Seq(Records)
          /\ req.page \in Seq(Records) /\ req.used \in Nat
      BY <2>1 DEF Fits, GateTypeOK, Walks, Reads
    <2> DEFINE shown == walk.shown \o req.page
    <2> DEFINE offset == IF OffsetAfter < req.total THEN OffsetAfter ELSE None
    <2>3. shown \in Seq(Records) /\ offset \in Nat \union {None}
      BY <2>2 DEF OffsetAfter
    <2>4. walk' = [walk EXCEPT !.shown = shown, !.offset = offset]
      BY <1>22 DEF Pages
    <2> HIDE DEF shown, offset
    <2>5. walk' \in Walks
      BY <2>2, <2>3, <2>4 DEF Walks
    <2>6. QED
      BY <1>22, <2>5, Proceeding DEF Pages
  <1>23. CASE Forgets
    BY <1>23, Proceeding DEF Forgets
  <1>24. CASE BreaksOff
    BY <1>11, <1>24 DEF BreaksOff
  <1>25. QED
    BY <1>1, <1>3, <1>4, <1>5, <1>6, <1>7, <1>8, <1>9, <1>10, <1>13, <1>14, <1>15, <1>17, <1>18, <1>19,
       <1>20, <1>21, <1>22, <1>23, <1>24 DEF GateNext

(* A transaction's own grant is all that its steps change, unless two have *)
(* the grant in hand.                                                      *)
LEMMA TrailStep ==
  ASSUME GateTypeOK, InOneHand, NewsIsTrue, TrailTells,
         [GateNext]_gateVars
  PROVE  InOneHand' /\ NewsIsTrue' /\ TrailTells'
  <1> USE DEF tables, audits
  <1>1. ASSUME UNCHANGED <<grants, edit, trail, muddled>>
        PROVE  InOneHand' /\ NewsIsTrue' /\ TrailTells'
    BY <1>1 DEF InOneHand, NewsIsTrue, TrailTells
  <1>2. ASSUME NEW a \in Administrators, NEW op \in {"granted", "revoked"}, NEW grant \in Grantable,
               AsksEdit(a, op, grant)
        PROVE  InOneHand' /\ NewsIsTrue' /\ TrailTells'
    <2> DEFINE e == [op |-> op, grant |-> grant, phase |-> "writing", news |-> FALSE]
    <2>1. /\ grants' = grants /\ trail' = trail /\ edit' = [edit EXCEPT ![a] = e]
          /\ muddled' = IF \E b \in Administrators : edit[b] # None /\ edit[b].grant = grant
                        THEN muddled \union {grant} ELSE muddled
      BY <1>2 DEF AsksEdit
    <2>2. e.grant = grant /\ e.phase = "writing"
      OBVIOUS
    <2> HIDE DEF e
    <2>3. edit'[a] = e /\ \A b \in Administrators \ {a} : edit'[b] = edit[b]
      BY <2>1 DEF GateTypeOK
    <2>4. muddled \subseteq muddled'
      BY <2>1
    <2>5. InOneHand'
      <3>1. ASSUME NEW b \in Administrators, b # a, edit[b] # None, edit[b].grant = grant
            PROVE  grant \in muddled'
        BY <2>1, <3>1
      <3>2. QED
        BY <2>2, <2>3, <2>4, <3>1 DEF InOneHand
    <2>6. NewsIsTrue'
      BY <2>1, <2>2, <2>3, <2>4 DEF NewsIsTrue
    <2>7. TrailTells'
      BY <2>1, <2>4 DEF TrailTells
    <2>8. QED
      BY <2>5, <2>6, <2>7
  <1>3. ASSUME NEW a \in Administrators, Writes(a)
        PROVE  InOneHand' /\ NewsIsTrue' /\ TrailTells'
    <2> DEFINE news == (edit[a].op = "granted") # (edit[a].grant \in grants)
    <2>1. /\ edit[a] \in Edits /\ edit[a] # None
          /\ UNCHANGED <<grants, trail, muddled>>
          /\ edit' = [edit EXCEPT ![a].phase = "recording", ![a].news = news]
      BY <1>3 DEF Writes, InPhase, GateTypeOK
    <2>2. news \in BOOLEAN
      OBVIOUS
    <2>3. news = ((edit[a].op = "granted") # (edit[a].grant \in grants))
      OBVIOUS
    <2> HIDE DEF news
    <2>4. edit'[a] = [edit[a] EXCEPT !.phase = "recording", !.news = news]
          /\ \A b \in Administrators \ {a} : edit'[b] = edit[b]
      BY <2>1 DEF GateTypeOK
    <2> DEFINE e == [edit[a] EXCEPT !.phase = "recording", !.news = news]
    <2>5. e.op = edit[a].op /\ e.grant = edit[a].grant /\ e.news = news
      <3>1. e.op = edit[a].op /\ e.grant = edit[a].grant
        BY <2>1, <2>2 DEF Edits
      <3>2. e.news = news
        BY <2>1, <2>2 DEF Edits
      <3>3. QED
        BY <3>1, <3>2
    <2> HIDE DEF e
    <2>6. InOneHand'
      <3>1. ASSUME NEW b \in Administrators, edit'[b] # None
            PROVE  edit[b] # None /\ edit'[b].grant = edit[b].grant
        BY <2>1, <2>4, <2>5, <3>1 DEF e
      <3>2. muddled' = muddled
        BY <2>1
      <3>3. QED
        BY <3>1, <3>2 DEF InOneHand
    <2>7. NewsIsTrue'
      <3>1. ASSUME NEW b \in Administrators, edit'[b] # None, edit'[b].phase # "writing",
                   edit'[b].grant \notin muddled'
            PROVE  edit'[b].news = ((edit'[b].op = "granted") # (edit'[b].grant \in grants'))
        <4>1. CASE b = a
          <5>1. edit'[b] = e
            BY <2>4, <4>1 DEF e
          <5>2. grants' = grants
            BY <2>1
          <5>3. e.news = ((e.op = "granted") # (e.grant \in grants'))
            BY <2>3, <2>5, <5>2, Zenon
          <5>4. QED
            BY <5>1, <5>3
        <4>2. CASE b # a
          <5>1. edit'[b] = edit[b] /\ grants' = grants /\ muddled' = muddled
            BY <2>1, <2>4, <4>2
          <5>2. QED
            BY <3>1, <5>1 DEF NewsIsTrue
        <4>3. QED
          BY <4>1, <4>2
      <3>2. QED
        BY <3>1 DEF NewsIsTrue
    <2>8. QED
      BY <2>1, <2>6, <2>7 DEF TrailTells
  <1>4. ASSUME NEW a \in Administrators, Audits(a)
        PROVE  InOneHand' /\ NewsIsTrue' /\ TrailTells'
    <2>1. /\ edit[a] \in Edits /\ edit[a] # None /\ edit[a].phase = "recording"
          /\ UNCHANGED <<grants, trail, muddled>>
          /\ edit' = [edit EXCEPT ![a].phase = "committing"]
      BY <1>4 DEF Audits, InPhase, GateTypeOK
    <2>2. edit'[a] = [edit[a] EXCEPT !.phase = "committing"]
          /\ \A b \in Administrators \ {a} : edit'[b] = edit[b]
      BY <2>1 DEF GateTypeOK
    <2>3. edit'[a].op = edit[a].op /\ edit'[a].grant = edit[a].grant /\ edit'[a].news = edit[a].news
      BY <2>1, <2>2 DEF Edits
    <2>4. InOneHand'
      BY <2>1, <2>2, <2>3 DEF InOneHand
    <2>5. NewsIsTrue'
      <3>1. ASSUME NEW b \in Administrators, edit'[b] # None, edit'[b].phase # "writing",
                   edit'[b].grant \notin muddled'
            PROVE  edit'[b].news = ((edit'[b].op = "granted") # (edit'[b].grant \in grants'))
        <4>1. CASE b = a
          <5>1. edit[a].news = ((edit[a].op = "granted") # (edit[a].grant \in grants))
            BY <2>1, <2>3, <3>1, <4>1 DEF NewsIsTrue
          <5>2. QED
            BY <2>1, <2>3, <4>1, <5>1
        <4>2. CASE b # a
          BY <2>1, <2>2, <3>1, <4>2 DEF NewsIsTrue
        <4>3. QED
          BY <4>1, <4>2
      <3>2. QED
        BY <3>1 DEF NewsIsTrue
    <2>6. QED
      BY <2>1, <2>4, <2>5 DEF TrailTells
  <1>5. ASSUME NEW a \in Administrators, Refused(a)
        PROVE  InOneHand' /\ NewsIsTrue' /\ TrailTells'
    <2>1. /\ UNCHANGED <<grants, trail, muddled>>
          /\ edit'[a] = None /\ \A b \in Administrators \ {a} : edit'[b] = edit[b]
      BY <1>5 DEF Refused, GateTypeOK
    <2>2. QED
      BY <2>1 DEF InOneHand, NewsIsTrue, TrailTells
  <1>6. ASSUME NEW a \in Administrators, Commits(a)
        PROVE  InOneHand' /\ NewsIsTrue' /\ TrailTells'
    <2> DEFINE g == edit[a].grant
    <2>1. /\ edit[a] \in Edits /\ edit[a] # None /\ edit[a].phase = "committing"
          /\ muddled' = muddled /\ grants' = GrantsAfter(a)
          /\ trail' = [trail EXCEPT ![g] = edit[a].op]
          /\ edit'[a] = None /\ \A b \in Administrators \ {a} : edit'[b] = edit[b]
      BY <1>6 DEF Commits, InPhase, GateTypeOK
    <2>2. g \in Grantable /\ edit[a].op \in {"granted", "revoked"} /\ edit[a].news \in BOOLEAN
      BY <2>1 DEF Edits
    <2>3. trail'[g] = edit[a].op /\ \A h \in Grantable \ {g} : trail'[h] = trail[h] /\ (h \in grants' <=> h \in grants)
      BY <2>1, <2>2 DEF GateTypeOK, GrantsAfter
    <2>4. g \notin muddled => edit[a].news = ((edit[a].op = "granted") # (g \in grants))
      BY <2>1 DEF NewsIsTrue
    <2>5. g \notin muddled => (g \in grants' <=> edit[a].op = "granted")
      BY <2>1, <2>2, <2>4 DEF GrantsAfter
    <2>6. ASSUME NEW b \in Administrators \ {a}, edit[b] # None, edit[b].grant \notin muddled
          PROVE  edit[b].grant \in grants' <=> edit[b].grant \in grants
      <3>1. edit[b].grant # g
        BY <2>1, <2>6 DEF InOneHand
      <3>2. edit[b] \in Edits
        BY <2>6 DEF GateTypeOK
      <3>3. QED
        BY <2>3, <3>1, <3>2 DEF Edits
    <2>7. InOneHand'
      BY <2>1 DEF InOneHand
    <2>8. NewsIsTrue'
      <3>1. ASSUME NEW b \in Administrators, edit'[b] # None, edit'[b].phase # "writing",
                   edit'[b].grant \notin muddled'
            PROVE  edit'[b].news = ((edit'[b].op = "granted") # (edit'[b].grant \in grants'))
        <4>1. b # a /\ edit'[b] = edit[b]
          BY <2>1, <3>1
        <4>2. edit[b].news = ((edit[b].op = "granted") # (edit[b].grant \in grants))
          BY <2>1, <3>1, <4>1 DEF NewsIsTrue
        <4>3. edit[b].grant \in grants' <=> edit[b].grant \in grants
          BY <2>1, <2>6, <3>1, <4>1
        <4>4. QED
          BY <4>1, <4>2, <4>3
      <3>2. QED
        BY <3>1 DEF NewsIsTrue
    <2>9. TrailTells'
      <3>1. ASSUME NEW h \in Grantable, h \notin muddled
            PROVE  h \in grants' <=> trail'[h] = "granted"
        BY <2>2, <2>3, <2>5, <3>1 DEF TrailTells
      <3>2. QED
        BY <2>1, <3>1 DEF TrailTells
    <2>10. QED
      BY <2>7, <2>8, <2>9
  <1>7. CASE UNCHANGED <<grants, edit, trail, muddled>>
    BY <1>1, <1>7
  <1>8. ASSUME GateNext
        PROVE  \/ UNCHANGED <<grants, edit, trail, muddled>>
               \/ \E a \in Administrators :
                     \/ \E op \in {"granted", "revoked"} : \E grant \in Grantable : AsksEdit(a, op, grant)
                     \/ Writes(a) \/ Audits(a) \/ Commits(a) \/ Refused(a)
    BY <1>8 DEF GateNext, RolesChange, OwnerChanges, Indexes, Begins, Goes,
       ReadsRoles, LosesGroups, ReadsPermissions, Authorizes, MeetsGate,
       LooksUp, Assembles, Searches, PassesAtOnce, AsksGrants, Decides,
       Pages, Forgets, BreaksOff
  <1>9. CASE UNCHANGED gateVars
    BY <1>1, <1>9 DEF gateVars
  <1>10. QED
    BY <1>2, <1>3, <1>4, <1>5, <1>6, <1>7, <1>8, <1>9

(* What a step does to what the request holds of its caller's rights. *)
LEMMA RequestMoves ==
  ASSUME GateTypeOK, InItsPhase, GateNext
  PROVE  /\ Witness
         /\ \/ req' = None
            \/ req = None /\ req'.permissions = {} /\ req'.phase = "roles"
            \/ /\ req # None /\ req' # None
               /\ req'.caller = req.caller /\ req'.door = req.door
               /\ \/ /\ req'.roles = req.roles /\ req'.permissions = req.permissions
                     /\ req'.phase = req.phase \/ req'.phase # "permissions"
                  \/ req'.roles = held[req.caller] /\ req'.permissions = req.permissions
                  \/ /\ req.phase = "permissions" /\ req'.roles = req.roles
                     /\ req'.permissions = PermissionsOf(held[req.caller])
  <1> DEFINE Moves ==
        \/ req' = None
        \/ req = None /\ req'.permissions = {} /\ req'.phase = "roles"
        \/ /\ req # None /\ req' # None
           /\ req'.caller = req.caller /\ req'.door = req.door
           /\ \/ /\ req'.roles = req.roles /\ req'.permissions = req.permissions
                 /\ req'.phase = req.phase \/ req'.phase # "permissions"
              \/ req'.roles = held[req.caller] /\ req'.permissions = req.permissions
              \/ /\ req.phase = "permissions" /\ req'.roles = req.roles
                 /\ req'.permissions = PermissionsOf(held[req.caller])
  <1>1. CASE Aside
    BY <1>1 DEF Aside
  <1>2. ASSUME NEW caller, NEW door, NEW record, Begins(caller, door, record)
        PROVE  Witness /\ Moves
    BY <1>2 DEF Begins, Asked
  <1>3. req # None => req \in Reads /\ Fits(req, walk)
    BY DEF GateTypeOK, InItsPhase
  <1>4. CASE ReadsRoles \/ LosesGroups \/ ReadsPermissions
    <2>1. req # None /\ req \in Reads /\ Witness
      BY <1>3, <1>4 DEF ReadsRoles, LosesGroups, ReadsPermissions, Reading, Goes
    <2>2. CASE ReadsRoles
      <3>1. req' = [req EXCEPT !.phase = "permissions", !.roles = held[req.caller]]
        BY <2>2 DEF ReadsRoles, Goes
      <3>2. /\ req'.caller = req.caller /\ req'.door = req.door
            /\ req'.roles = held[req.caller] /\ req'.permissions = req.permissions
        BY <2>1, <3>1 DEF Reads
      <3>3. QED
        BY <2>1, <3>2
    <2>3. CASE LosesGroups
      <3>1. req' = [req EXCEPT !.phase = "resolved"]
        BY <2>3 DEF LosesGroups
      <3>2. /\ req'.caller = req.caller /\ req'.door = req.door /\ req'.phase = "resolved"
            /\ req'.roles = req.roles /\ req'.permissions = req.permissions
        BY <2>1, <3>1 DEF Reads
      <3>3. QED
        BY <2>1, <3>2
    <2>4. CASE ReadsPermissions
      <3> DEFINE may == PermissionsOf(held[req.caller])
      <3>1. req.phase = "permissions" /\ req' = [req EXCEPT !.phase = "resolved", !.permissions = may]
        BY <2>4 DEF ReadsPermissions, Goes, Reading
      <3> HIDE DEF may
      <3>2. /\ req'.caller = req.caller /\ req'.door = req.door
            /\ req'.roles = req.roles /\ req'.permissions = may
        BY <2>1, <3>1 DEF Reads
      <3>3. QED
        BY <2>1, <3>1, <3>2 DEF may
    <2>5. QED
      BY <1>4, <2>2, <2>3, <2>4
  <1>5. ASSUME NEW scope \in Scopes, req # None, Goes(Judging(req, scope))
        PROVE  Witness /\ Moves
    <2>1. req' = Judging(req, scope) /\ Witness
      BY <1>5 DEF Goes
    <2>2. /\ req'.caller = req.caller /\ req'.door = req.door /\ req'.phase = "judging"
          /\ req'.roles = req.roles /\ req'.permissions = req.permissions
      BY <1>3, <1>5, <2>1, JudgingFacts
    <2>3. QED
      BY <1>5, <2>1, <2>2
  <1>6. CASE Authorizes \/ MeetsGate
    BY <1>5, <1>6, GateSets DEF Authorizes, MeetsGate, Reading
  <1>7. CASE LooksUp \/ Assembles
    <2>1. req # None /\ req \in Reads /\ Fits(req, walk) /\ req.door \in {"record", "gateway"}
      BY <1>3, <1>7 DEF LooksUp, Assembles, Reading, Fits
    <2>2. req.record \in Records
      BY <2>1 DEF Reads, Fits
    <2>3. ScopeOf(req.record) \in Scopes /\ GatewayScope(req.record) \in Scopes
      BY <2>2, ScopesTyped
    <2>4. QED
      BY <1>5, <1>7, <2>1, <2>3 DEF LooksUp, Assembles
  <1>8. ASSUME NEW r \in Reads, req # None, req' = NextHit(r),
               r.caller = req.caller, r.door = req.door, r.roles = req.roles, r.permissions = req.permissions
        PROVE  Moves
    <2>1. /\ req'.caller = req.caller /\ req'.door = req.door /\ req'.phase \in {"judging", "paging"}
          /\ req'.roles = req.roles /\ req'.permissions = req.permissions
      BY <1>8, NextHitFacts
    <2>2. QED
      BY <1>8, <2>1
  <1>9. CASE Searches
    <2> DEFINE reach == Found(req.permissions)
    <2> DEFINE hits == HitsFrom(reach, walk.offset)
    <2> DEFINE r == [req EXCEPT !.hits = hits, !.total = Len(reach)]
    <2>1. req # None /\ req \in Reads /\ Fits(req, walk) /\ req.door = "search"
      BY <1>3, <1>9 DEF Searches, Reading
    <2>2. walk.offset \in Nat
      BY <2>1 DEF Fits, GateTypeOK, Walks
    <2>3. hits \in Seq(Results) /\ Len(reach) \in Nat
      BY <2>2, SearchFacts
    <2>4. req' = NextHit(r) /\ Witness
      BY <1>9 DEF Searches, Goes
    <2> HIDE DEF hits, reach
    <2>5. /\ r \in Reads /\ r.door = req.door /\ r.caller = req.caller
          /\ r.roles = req.roles /\ r.permissions = req.permissions
      BY <2>1, <2>3 DEF Reads
    <2> HIDE DEF r
    <2>6. QED
      BY <1>8, <2>1, <2>4, <2>5
  <1>10. ASSUME NEW ok \in BOOLEAN, Reading("judging"), Decides(ok)
         PROVE  Witness /\ Moves
    <2>1. req # None /\ req \in Reads /\ req' = After(ok) /\ Witness
          /\ Fits(req, walk) /\ req.phase = "judging"
      BY <1>3, <1>10 DEF Decides, Reading
    <2>2. CASE req' = None
      BY <2>1, <2>2
    <2>3. CASE req.door = "record" /\ req' # None
      <3>1. req' = [req EXCEPT !.phase = "admitted"]
        BY <2>1, <2>3 DEF After
      <3>2. /\ req'.caller = req.caller /\ req'.door = req.door /\ req'.phase = "admitted"
            /\ req'.roles = req.roles /\ req'.permissions = req.permissions
        BY <2>1, <3>1 DEF Reads
      <3>3. QED
        BY <2>1, <2>3, <3>2
    <2>4. CASE req.door = "search"
      <3> DEFINE page == IF ok THEN Append(req.page, req.hits[req.used + 1].record) ELSE req.page
      <3> DEFINE used == req.used + 1
      <3> DEFINE r == [req EXCEPT !.used = used, !.page = page]
      <3>1. req' = NextHit(r)
        BY <2>1, <2>4 DEF After
      <3>2. page \in Seq(Records) /\ used \in Nat
        <4>1. /\ req.page \in Seq(Records) /\ req.hits \in Seq(Results) /\ req.used \in Nat
              /\ req.used < Len(req.hits)
          BY <2>1, <2>4 DEF Reads, Fits
        <4>2. req.hits[req.used + 1] \in Results
          BY <4>1
        <4>3. QED
          BY <4>1, <4>2 DEF Results
      <3> HIDE DEF page, used
      <3>3. /\ r \in Reads /\ r.door = req.door /\ r.caller = req.caller
            /\ r.roles = req.roles /\ r.permissions = req.permissions
        BY <2>1, <3>2 DEF Reads
      <3> HIDE DEF r
      <3>4. QED
        BY <1>8, <2>1, <3>1, <3>3
    <2>5. QED
      BY <2>1, <2>2, <2>3, <2>4 DEF After
  <1>11. CASE PassesAtOnce
    BY <1>10, <1>11 DEF PassesAtOnce
  <1>12. CASE AsksGrants
    <2>1. /\ req # None /\ req \in Reads /\ Reading("judging")
      BY <1>3, <1>12 DEF AsksGrants, Reading
    <2>2. CASE Decides(TRUE) \/ Decides(FALSE)
      BY <1>10, <2>1, <2>2
    <2>3. CASE Goes([req EXCEPT !.left = Tail(req.left)])
      <3> DEFINE l == Tail(req.left)
      <3>1. req' = [req EXCEPT !.left = l] /\ Witness
        BY <2>3 DEF Goes
      <3> HIDE DEF l
      <3>2. /\ req'.caller = req.caller /\ req'.door = req.door /\ req'.phase = req.phase
            /\ req'.roles = req.roles /\ req'.permissions = req.permissions
        BY <2>1, <3>1 DEF Reads
      <3>3. QED
        BY <2>1, <3>1, <3>2
    <2>4. QED
      BY <1>12, <2>2, <2>3 DEF AsksGrants
  <1>13. CASE Pages \/ Forgets \/ BreaksOff
    BY <1>13 DEF Pages, Forgets, BreaksOff, Goes
  <1>14. ASSUME ~Aside,
                ~\E caller, door, record : Begins(caller, door, record)
         PROVE  \/ ReadsRoles \/ LosesGroups \/ ReadsPermissions
                \/ Authorizes \/ MeetsGate \/ LooksUp \/ Assembles
                \/ Searches \/ PassesAtOnce \/ AsksGrants
                \/ Pages \/ Forgets \/ BreaksOff
    BY <1>14 DEF GateNext, RolesChange, OwnerChanges, Indexes, AsksEdit,
                 Writes, Audits, Commits, Refused
  <1>15. QED
    BY <1>1, <1>2, <1>4, <1>6, <1>7, <1>9, <1>11, <1>12, <1>13, <1>14

(* Rights are read while they are held, and what was seen stays seen. *)
LEMMA WitnessedStep ==
  ASSUME GateTypeOK, InItsPhase, Witnessed, [GateNext]_gateVars
  PROVE  Witnessed'
  <1> USE DEF tables, audits
  <1>1. CASE UNCHANGED gateVars
    BY <1>1 DEF gateVars, Witnessed, PermissionsOf
  <1>2. CASE GateNext
    <2>1. GateTypeOK' /\ Witness
      BY <1>2, GateType, RequestMoves
    <2>2. SUFFICES ASSUME req' # None
                   PROVE  /\ req'.phase = "permissions" => \E m \in saw' : m.roles = req'.roles
                          /\ req'.permissions # {} =>
                                /\ \E m \in saw' : m.roles = req'.roles
                                /\ \E m \in saw' : PermissionsOf(m.roles) = req'.permissions
      <3>1. req' # None => Moment(req'.caller) \in saw'
        BY <2>1, Witnessing DEF GateTypeOK
      <3>2. QED
        BY <3>1 DEF Witnessed, Moment, PermissionsOf
    <2>3. saw \subseteq saw' /\ Moment(req'.caller) \in saw'
      BY <2>1, <2>2, Witnessing DEF GateTypeOK
    <2>4. CASE req = None
      <3>1. req'.permissions = {} /\ req'.phase = "roles"
        BY <1>2, <2>2, <2>4, RequestMoves
      <3>2. QED
        BY <3>1
    <2>5. CASE req # None
      <3> DEFINE now_ == [roles |-> held[req.caller], grants |-> {g \in grants : g.caller = req.caller}]
      <3>1. now_ \in saw /\ now_.roles = held[req.caller]
        BY <2>5 DEF Witnessed
      <3> HIDE DEF now_
      <3>2. /\ req.phase = "permissions" => \E m \in saw : m.roles = req.roles
            /\ req.permissions # {} =>
                  /\ \E m \in saw : m.roles = req.roles
                  /\ \E m \in saw : PermissionsOf(m.roles) = req.permissions
        BY <2>5 DEF Witnessed
      <3>3. \/ /\ req'.roles = req.roles /\ req'.permissions = req.permissions
               /\ req'.phase = req.phase \/ req'.phase # "permissions"
            \/ req'.roles = held[req.caller] /\ req'.permissions = req.permissions
            \/ /\ req.phase = "permissions" /\ req'.roles = req.roles
               /\ req'.permissions = PermissionsOf(held[req.caller])
        BY <1>2, <2>2, <2>5, RequestMoves
      <3>4. CASE /\ req'.roles = req.roles /\ req'.permissions = req.permissions
                 /\ req'.phase = req.phase \/ req'.phase # "permissions"
        BY <2>3, <3>2, <3>4, Zenon
      <3>5. CASE req'.roles = held[req.caller] /\ req'.permissions = req.permissions
        BY <2>3, <3>1, <3>2, <3>5, Zenon
      <3>6. CASE /\ req.phase = "permissions" /\ req'.roles = req.roles
                 /\ req'.permissions = PermissionsOf(held[req.caller])
        <4>1. PermissionsOf(now_.roles) = req'.permissions
          BY <3>1, <3>6
        <4>2. QED
          BY <2>3, <3>1, <3>2, <3>6, <4>1, Zenon
      <3>7. QED
        BY <3>3, <3>4, <3>5, <3>6
    <2>6. QED
      BY <2>4, <2>5
  <1>3. QED
    BY <1>1, <1>2

(* What the profile passes, a state of the request allows by itself, unless *)
(* the permissions are more than the roles give: the wildcard in the state  *)
(* the permissions come from, read in the one the roles come from.          *)
LEMMA ProfileEntitles ==
  ASSUME GateTypeOK, Witnessed, req # None, Passes(req.roles, req.permissions),
         NEW scope
  PROVE  \/ ~(req.permissions \subseteq PermissionsOf(req.roles))
         \/ \E m \in saw : Entitles(m, req.caller, scope)
  <1>1. req.permissions # {}
    BY DEF Passes
  <1>2. CASE All \in req.permissions
    <2>1. PICK m \in saw : PermissionsOf(m.roles) = req.permissions
      BY <1>1 DEF Witnessed
    <2>2. Entitles(m, req.caller, scope)
      BY <1>2, <2>1 DEF Entitles
    <2>3. QED
      BY <2>2
  <1>3. CASE /\ Read \in req.permissions /\ ~IsConfined(req.roles)
             /\ req.permissions \subseteq PermissionsOf(req.roles)
    <2>1. PICK m \in saw : m.roles = req.roles
      BY <1>1 DEF Witnessed
    <2>2. Read \in PermissionsOf(m.roles) /\ ~IsConfined(m.roles)
      BY <1>3, <2>1
    <2>3. Entitles(m, req.caller, scope)
      BY <2>2 DEF Entitles
    <2>4. QED
      BY <2>3
  <1>4. QED
    BY <1>2, <1>3 DEF Passes

(* A decision to show rests on the profile, or on a grant of this moment. *)
LEMMA EntitledStep ==
  ASSUME GateTypeOK, InItsPhase, Witnessed, ReadsEntitled,
         [GateNext]_gateVars
  PROVE  ReadsEntitled'
  <1> USE DEF NoVerdict
  <1>1. CASE UNCHANGED gateVars
    BY <1>1 DEF gateVars, ReadsEntitled, Entitles, PermissionsOf, IsConfined, Covers, Global
  <1>2. CASE judged' = NoVerdict
    BY <1>2 DEF ReadsEntitled
  <1>3. ASSUME NEW ok \in BOOLEAN, Decides(ok), Reading("judging"),
               ok => \/ Passes(req.roles, req.permissions)
                     \/ HasScopedPermission(req.caller, Head(req.left))
        PROVE  ReadsEntitled'
    <2> DEFINE torn == ~(req.permissions \subseteq PermissionsOf(req.roles))
    <2>1. /\ req # None /\ req.phase = "judging" /\ req \in Reads /\ Fits(req, walk)
      BY <1>3 DEF Reading, GateTypeOK, InItsPhase
    <2>2. /\ judged'.ok = ok /\ judged'.caller = req.caller /\ judged'.scope = req.scope
          /\ judged'.torn = torn /\ judged'.saw = saw
      <3>1. PICK x : judged' = [ok |-> ok, door |-> req.door, caller |-> req.caller, scope |-> req.scope,
                                record |-> x, torn |-> torn, saw |-> saw]
        BY <1>3 DEF Decides
      <3> HIDE DEF torn
      <3>2. judged'.caller = req.caller /\ judged'.scope = req.scope /\ judged'.saw = saw
        BY <3>1
      <3>3. judged'.ok = ok
        BY <3>1
      <3>4. judged'.torn = torn
        BY <3>1
      <3>5. QED
        BY <3>2, <3>3, <3>4
    <2>3. ASSUME ok
          PROVE  torn \/ \E m \in saw : Entitles(m, req.caller, req.scope)
      <3>1. CASE Passes(req.roles, req.permissions)
        BY <2>1, <3>1, ProfileEntitles
      <3>2. CASE HasScopedPermission(req.caller, Head(req.left))
        <4>1. PICK g \in grants : Covers(g, req.caller, Head(req.left))
          BY <3>2 DEF HasScopedPermission
        <4> DEFINE m == [roles |-> held[req.caller], grants |-> {h \in grants : h.caller = req.caller}]
        <4>2. m \in saw /\ g \in m.grants /\ g \in Grants
          BY <2>1, <4>1, GateSets DEF Witnessed, Covers, GateTypeOK
        <4>3. req.left \in Seq(Scopes) /\ req.left # << >> /\ req.scope \in Scopes
          BY <2>1 DEF Reads, Fits
        <4>4. Head(req.left) \in ToSet(req.left)
          <5>1. 1 \in DOMAIN req.left /\ Head(req.left) = req.left[1]
            BY <4>3
          <5>2. QED
            BY <5>1 DEF ToSet
        <4>5. Head(req.left) \in ToSet(CandidatesFor(req.scope))
          BY <2>1, <4>4 DEF Fits
        <4>6. Covers(g, req.caller, req.scope)
          BY <4>1, <4>2, <4>3, <4>5, WiderInTurn
        <4> HIDE DEF m
        <4>7. Entitles(m, req.caller, req.scope)
          BY <4>2, <4>6 DEF Entitles
        <4>8. QED
          BY <4>2, <4>7
      <3>3. QED
        BY <1>3, <2>3, <3>1, <3>2
    <2> HIDE DEF torn
    <2>4. judged'.ok => \/ judged'.torn
                        \/ \E m \in judged'.saw : Entitles(m, judged'.caller, judged'.scope)
      BY <2>2, <2>3
    <2>5. QED
      BY <2>4 DEF ReadsEntitled, Entitles, PermissionsOf, IsConfined, Covers, Global
  <1>4. CASE PassesAtOnce \/ AsksGrants
    BY <1>2, <1>3, <1>4 DEF PassesAtOnce, AsksGrants, Goes
  <1>5. ASSUME GateNext, ~PassesAtOnce, ~AsksGrants
        PROVE  judged' = NoVerdict
    BY <1>5 DEF GateNext, RolesChange, OwnerChanges, Indexes, AsksEdit,
                Writes, Audits, Commits, Refused, Aside, Begins, Goes,
                ReadsRoles, LosesGroups, ReadsPermissions, Authorizes, MeetsGate,
                LooksUp, Assembles, Searches, Pages, Forgets, BreaksOff
  <1>6. QED
    BY <1>1, <1>2, <1>4, <1>5

-----------------------------------------------------------------------------
(* A walk through the pages of a search. *)

(* One hit more is examined, and goes to the page or was not owed. *)
LEMMA PageGrows ==
  ASSUME NEW S, NEW reach \in Seq(S), \A m, n \in DOMAIN reach : reach[m] = reach[n] => m = n,
         NEW offset \in Nat, NEW used \in Nat, offset + used + 1 =< Len(reach),
         NEW page \in Seq(S), IsInjective(page), NEW owed,
         ToSet(page) \subseteq Examined(reach, offset, used),
         owed \intersect Examined(reach, offset, used) \subseteq ToSet(page)
  PROVE  LET x == reach[offset + used + 1]
             done == Examined(reach, offset, used + 1)
             longer == Append(page, x)
         IN
         /\ x \in S
         /\ ToSet(page) \subseteq done
         /\ x \notin owed => owed \intersect done \subseteq ToSet(page)
         /\ longer \in Seq(S) /\ IsInjective(longer)
         /\ ToSet(longer) \subseteq done /\ owed \intersect done \subseteq ToSet(longer)
  <1> DEFINE here == offset + used + 1
  <1> DEFINE x == reach[here]
  <1> DEFINE before == Examined(reach, offset, used)
  <1> DEFINE done == Examined(reach, offset, used + 1)
  <1> DEFINE longer == Append(page, x)
  <1>1. here \in DOMAIN reach /\ x \in S /\ \A k \in offset + 1 .. offset + used : k \in DOMAIN reach /\ k # here
    OBVIOUS
  <1>2. x \notin before
    BY <1>1 DEF Examined
  <1>3. done = before \union {x}
    BY <1>1 DEF Examined
  <1>4. ToSet(page) \subseteq before /\ owed \intersect before \subseteq ToSet(page)
    OBVIOUS
  <1> HIDE DEF x, before, done
  <1>5. longer \in Seq(S) /\ Len(longer) = Len(page) + 1
        /\ (\A n \in 1 .. Len(page) : longer[n] = page[n]) /\ longer[Len(page) + 1] = x
    BY <1>1
  <1>6. Len(page) \in Nat /\ DOMAIN page = 1 .. Len(page) /\ DOMAIN longer = 1 .. Len(page) + 1
    BY <1>5
  <1> HIDE DEF longer
  <1>7. ToSet(longer) = ToSet(page) \union {x}
    BY <1>5, <1>6 DEF ToSet
  <1>8. \A n \in 1 .. Len(page) : page[n] # x
    BY <1>2, <1>4, <1>6 DEF ToSet
  <1>9. IsInjective(longer)
    <2>1. ASSUME NEW m \in 1 .. Len(page) + 1, NEW n \in 1 .. Len(page) + 1, longer[m] = longer[n]
          PROVE  m = n
      <3>1. CASE m \in 1 .. Len(page) /\ n \in 1 .. Len(page)
        BY <1>5, <1>6, <2>1, <3>1 DEF IsInjective
      <3>2. CASE m = Len(page) + 1 \/ n = Len(page) + 1
        BY <1>5, <1>6, <1>8, <2>1, <3>2
      <3>3. QED
        BY <1>6, <3>1, <3>2
    <2>2. QED
      BY <1>6, <2>1 DEF IsInjective
  <1>10. QED
    BY <1>1, <1>3, <1>4, <1>5, <1>7, <1>9 DEF x, done, longer

(* The page is added to what has been shown. *)
LEMMA PageShown ==
  ASSUME NEW S, NEW reach \in Seq(S), \A m, n \in DOMAIN reach : reach[m] = reach[n] => m = n,
         NEW offset \in Nat, NEW used \in Nat, offset + used =< Len(reach),
         NEW shown \in Seq(S), IsInjective(shown),
         ToSet(shown) \subseteq Before(reach, offset),
         NEW page \in Seq(S), IsInjective(page),
         ToSet(page) \subseteq Examined(reach, offset, used)
  PROVE  LET all == shown \o page IN
         /\ IsInjective(all) /\ ToSet(all) = ToSet(shown) \union ToSet(page)
         /\ Before(reach, offset + used) =
               Before(reach, offset) \union Examined(reach, offset, used)
         /\ ToSet(all) \subseteq Before(reach, offset + used)
  <1> DEFINE before == Before(reach, offset)
  <1> DEFINE done == Examined(reach, offset, used)
  <1> DEFINE all == shown \o page
  <1>1. /\ \A k \in 1 .. offset : k \in DOMAIN reach
        /\ \A k \in offset + 1 .. offset + used : k \in DOMAIN reach /\ k \notin 1 .. offset
    OBVIOUS
  <1>2. before \intersect done = {}
    BY <1>1 DEF Before, Examined
  <1>3. Before(reach, offset + used) = before \union done
    BY DEF Before, Examined
  <1>4. ToSet(shown) \subseteq before /\ ToSet(page) \subseteq done
    OBVIOUS
  <1> HIDE DEF before, done
  <1>5. /\ all \in Seq(S) /\ Len(all) = Len(shown) + Len(page)
        /\ \A n \in 1 .. Len(shown) : all[n] = shown[n]
        /\ \A n \in 1 .. Len(page) : all[Len(shown) + n] = page[n]
    OBVIOUS
  <1>6. /\ Len(shown) \in Nat /\ Len(page) \in Nat
        /\ DOMAIN shown = 1 .. Len(shown) /\ DOMAIN page = 1 .. Len(page)
        /\ DOMAIN all = 1 .. Len(shown) + Len(page)
    BY <1>5
  <1> HIDE DEF all
  <1>7. \A n \in 1 .. Len(shown) + Len(page) :
           n \notin 1 .. Len(shown) => n - Len(shown) \in 1 .. Len(page) /\ all[n] = page[n - Len(shown)]
    <2>1. TAKE n \in 1 .. Len(shown) + Len(page)
    <2>2. HAVE n \notin 1 .. Len(shown)
    <2>3. n - Len(shown) \in 1 .. Len(page) /\ Len(shown) + (n - Len(shown)) = n
      BY <1>6, <2>2
    <2>4. QED
      BY <1>5, <2>3
  <1>8. ToSet(all) = ToSet(shown) \union ToSet(page)
    <2>1. ToSet(all) \subseteq ToSet(shown) \union ToSet(page)
      <3>1. ASSUME NEW n \in DOMAIN all
            PROVE  all[n] \in ToSet(shown) \union ToSet(page)
        <4>1. CASE n \in 1 .. Len(shown)
          BY <1>5, <1>6, <4>1 DEF ToSet
        <4>2. CASE n \notin 1 .. Len(shown)
          <5>1. n - Len(shown) \in DOMAIN page /\ all[n] = page[n - Len(shown)]
            BY <1>6, <1>7, <3>1, <4>2
          <5>2. QED
            BY <5>1 DEF ToSet
        <4>3. QED
          BY <4>1, <4>2
      <3>2. QED
        BY <3>1 DEF ToSet
    <2>2. ToSet(shown) \subseteq ToSet(all)
      BY <1>5, <1>6 DEF ToSet
    <2>3. ToSet(page) \subseteq ToSet(all)
      <3>1. ASSUME NEW n \in DOMAIN page
            PROVE  page[n] \in ToSet(all)
        <4>1. Len(shown) + n \in DOMAIN all
          BY <1>6
        <4>2. page[n] = all[Len(shown) + n]
          BY <1>5, <1>6
        <4>3. QED
          BY <4>1, <4>2 DEF ToSet
      <3>2. QED
        BY <3>1 DEF ToSet
    <2>4. QED
      BY <2>1, <2>2, <2>3
  <1>9. IsInjective(all)
    <2>1. /\ \A n \in 1 .. Len(shown) : all[n] \in before
          /\ \A n \in 1 .. Len(shown) + Len(page) : n \notin 1 .. Len(shown) => all[n] \in done
      BY <1>4, <1>5, <1>6, <1>7 DEF ToSet
    <2>2. ASSUME NEW m \in DOMAIN all, NEW n \in DOMAIN all, all[m] = all[n]
          PROVE  m = n
      <3>1. CASE m \in 1 .. Len(shown) /\ n \in 1 .. Len(shown)
        BY <1>5, <1>6, <2>2, <3>1 DEF IsInjective
      <3>2. CASE m \notin 1 .. Len(shown) /\ n \notin 1 .. Len(shown)
        <4>1. m - Len(shown) = n - Len(shown)
          BY <1>6, <1>7, <2>2, <3>2 DEF IsInjective
        <4>2. QED
          BY <1>6, <4>1
      <3>3. QED
        BY <1>2, <1>6, <2>1, <2>2, <3>1, <3>2
    <2>3. QED
      BY <2>2 DEF IsInjective
  <1>10. QED
    BY <1>3, <1>4, <1>8, <1>9 DEF all, before, done

LEMMA WalkStays ==
  ASSUME WalkPays, UNCHANGED <<held, grants, index, walk>>
  PROVE  WalkPays'
  <1> DEFINE reach == Found(PermissionsOf(held[walk.caller]))
  <1> DEFINE may == Shows(walk.caller)
  <1>1. reach' = reach /\ may' = may
    BY DEF Found, Shows, PermissionsOf, Records
  <1>2. QED
    BY <1>1 DEF WalkPays

LEMMA PageStays ==
  ASSUME PagePays, UNCHANGED <<held, index, walk, req>>
  PROVE  PagePays'
  <1> DEFINE reach == Found(PermissionsOf(held[req.caller]))
  <1>1. reach' = reach
    BY DEF Found, PermissionsOf, Records
  <1>2. QED
    BY <1>1 DEF PagePays

(* What is owed may grow less, and what may be read change meanwhile. *)
LEMMA OwesLess ==
  ASSUME NEW w, NEW v, NEW reach, NEW may, NEW now_,
         v.offset = w.offset, v.shown = w.shown,
         v.owed \subseteq w.owed, v.owed \subseteq now_ \union ToSet(w.shown),
         Paid(w, reach, may)
  PROVE  Paid(v, reach, now_)
  BY DEF Paid

LEMMA CollectsStill ==
  ASSUME NEW r, NEW w, NEW v, NEW reach, NEW scopes,
         v.offset = w.offset, v.owed \subseteq w.owed, Collects(r, w, reach, scopes)
  PROVE  Collects(r, v, reach, scopes)
  BY DEF Collects

(* A step aside leaves the walk stirred, or what it finds as it was. *)
LEMMA AsidePays ==
  ASSUME GateTypeOK, InItsPhase, WalkPays, PagePays, Aside,
         held' \in [Users -> SUBSET Roles], grants' \subseteq Grantable
  PROVE  WalkPays' /\ PagePays'
  <1>1. /\ req' = req /\ (walk = None => walk' = None)
        /\ walk # None =>
               /\ walk' # None /\ walk'.caller = walk.caller /\ walk'.offset = walk.offset
               /\ walk'.shown = walk.shown
               /\ walk'.owed = walk.owed \intersect (Findable(walk.caller) \union ToSet(walk.shown))
               /\ walk'.stirred <=> (walk.stirred \/ held' # held \/ index' # index)
    BY SteppingAside
  <1>2. req # None => Fits(req, walk)
    BY DEF InItsPhase
  <1>3. WalkPays'
    <2>1. SUFFICES ASSUME walk # None, ~walk.stirred, held' = held, index' = index
                   PROVE  WalkPays'
      BY <1>1 DEF WalkPays
    <2> DEFINE reach == Found(PermissionsOf(held[walk.caller]))
    <2> DEFINE may == Shows(walk.caller)
    <2>2. walk'.caller = walk.caller
      BY <1>1, <2>1
    <2>3. reach' = reach
      BY <2>1, <2>2 DEF Found, PermissionsOf, Records
    <2>4. may' = Findable(walk.caller)
      BY <2>2 DEF Shows, Findable, PermissionsOf, Records
    <2>5. Paid(walk, reach, may)
      BY <2>1 DEF WalkPays
    <2> HIDE DEF reach, may
    <2>6. Paid(walk', reach, may')
      BY <1>1, <2>1, <2>4, <2>5, OwesLess
    <2>7. QED
      BY <2>3, <2>6 DEF WalkPays, reach, may
  <1>4. PagePays'
    <2>1. SUFFICES ASSUME req # None, req.door = "search", ~walk.stirred, held' = held, index' = index
                   PROVE  PagePays'
      BY <1>1, <1>2 DEF PagePays, Fits
    <2>2. walk'.offset = walk.offset /\ walk'.owed \subseteq walk.owed
      BY <1>1, <1>2, <2>1 DEF Fits
    <2> DEFINE reach == Found(PermissionsOf(held[req.caller]))
    <2>3. reach' = reach
      BY <1>1, <2>1 DEF Found, PermissionsOf, Records
    <2>4. Collects(req, walk, reach, index) => Collects(req, walk', reach, index)
      BY <2>2, CollectsStill
    <2>5. Judges(req, walk) => Judges(req, walk')
      BY <2>2 DEF Judges
    <2>6. QED
      BY <1>1, <2>1, <2>3, <2>4, <2>5 DEF PagePays, Pays
  <1>5. QED
    BY <1>3, <1>4

(* A step that leaves walk, roles and index pays for its request alone. *)
LEMMA Pursuing ==
  ASSUME WalkPays, UNCHANGED <<held, grants, index, walk>>, NEW n, req' = n,
         (n # None /\ n.door = "search" /\ ~walk.stirred) =>
            Pays(n, walk, held[n.caller], Found(PermissionsOf(held[n.caller])), index)
  PROVE  WalkPays' /\ PagePays'
  <1> DEFINE reach == Found(PermissionsOf(held[n.caller]))
  <1>1. reach' = reach
    BY DEF Found, PermissionsOf, Records
  <1>2. Found(PermissionsOf(held[req.caller]))' = reach'
    BY DEF Found, PermissionsOf, Records
  <1>3. PagePays'
    BY <1>1, <1>2 DEF PagePays
  <1>4. QED
    BY <1>3, WalkStays

LEMMA BeginningPays ==
  ASSUME GateTypeOK, WalkPays, NEW caller \in Users,
         NEW door \in Doors, NEW record, Begins(caller, door, record)
  PROVE  WalkPays' /\ PagePays'
  <1> DEFINE asked == Asked(caller, door, record)
  <1>1. /\ req' = asked /\ UNCHANGED <<held, grants, owner, index>>
    BY DEF Begins, tables
  <1>2. /\ asked.phase = "roles" /\ asked.door = door /\ asked.used = 0 /\ asked.page = << >>
        /\ asked.caller = caller
    BY DEF Asked
  <1> HIDE DEF asked
  <1>3. PagePays'
    BY <1>1, <1>2 DEF PagePays, Pays
  <1>4. WalkPays'
    <2>1. CASE door # "search" \/ walk # None
      BY <1>1, <2>1, WalkStays DEF Begins
    <2>2. CASE door = "search" /\ walk = None
      <3> DEFINE may == Shows(caller)
      <3> DEFINE reach == Found(PermissionsOf(held[caller]))
      <3>1. walk' = [caller |-> caller, offset |-> 0, shown |-> << >>, stirred |-> FALSE,
                     owed |-> Findable(caller)]
        BY <2>2 DEF Begins
      <3>2. /\ walk'.caller = caller /\ walk'.offset = 0 /\ walk'.shown = << >>
            /\ walk'.owed = Findable(caller)
        BY <3>1
      <3>3. Shows(walk.caller)' = Findable(caller)
        BY <3>2 DEF Shows, Findable, PermissionsOf, Records
      <3>4. Found(PermissionsOf(held[walk.caller]))' = reach
        BY <1>1, <3>2 DEF Found, PermissionsOf, Records
      <3>5. reach \in Seq(Records)
        BY Finds
      <3> HIDE DEF reach
      <3>6. 0 # None
        BY GateSets
      <3>7. /\ ToSet(<< >>) = {} /\ IsInjective(<< >>) /\ Before(reach, 0) = {}
            /\ 0 =< Len(reach)
        BY <3>5 DEF ToSet, IsInjective, Before
      <3>8. Paid(walk', reach, Findable(caller))
        BY <3>2, <3>6, <3>7 DEF Paid
      <3>9. QED
        BY <3>3, <3>4, <3>8 DEF WalkPays
    <2>3. QED
      BY <2>1, <2>2
  <1>5. QED
    BY <1>3, <1>4

(* The profile is read as it is. *)
LEMMA ResolvingPays ==
  ASSUME GateTypeOK, InItsPhase, WalkPays, PagePays,
         ReadsRoles \/ ReadsPermissions \/ LosesGroups
  PROVE  WalkPays' /\ PagePays'
  <1>1. /\ req # None /\ req \in Reads /\ Fits(req, walk)
        /\ UNCHANGED <<held, grants, owner, index>>
    BY DEF ReadsRoles, ReadsPermissions, LosesGroups, Reading, Goes,
           tables, GateTypeOK, InItsPhase
  <1> DEFINE roles_ == held[req.caller]
  <1> DEFINE may == PermissionsOf(roles_)
  <1> DEFINE reach == Found(may)
  <1>2. (req.door = "search" /\ ~walk.stirred) => Pays(req, walk, roles_, reach, index)
    BY <1>1 DEF PagePays
  <1>3. CASE ReadsRoles
    <2> DEFINE n == [req EXCEPT !.phase = "permissions", !.roles = roles_]
    <2>1. req' = n /\ walk' = walk /\ req.phase = "roles"
      BY <1>3 DEF ReadsRoles, Goes, Reading
    <2>2. /\ n.phase = "permissions" /\ n.roles = roles_ /\ n.caller = req.caller /\ n.door = req.door
          /\ n.used = req.used /\ n.page = req.page
      BY <1>1 DEF Reads
    <2> HIDE DEF n, reach
    <2>3. (n # None /\ n.door = "search" /\ ~walk.stirred) => Pays(n, walk, roles_, reach, index)
      BY <1>2, <2>1, <2>2 DEF Pays
    <2>4. QED
      BY <1>1, <2>1, <2>2, <2>3, Pursuing DEF reach
  <1>4. CASE ReadsPermissions
    <2>1. req' = [req EXCEPT !.phase = "resolved", !.permissions = may] /\ walk' = walk
          /\ req.phase = "permissions"
      BY <1>4 DEF ReadsPermissions, Goes, Reading
    <2> HIDE DEF may
    <2> DEFINE n == [req EXCEPT !.phase = "resolved", !.permissions = may]
    <2>2. /\ n.phase = "resolved" /\ n.roles = req.roles /\ n.caller = req.caller /\ n.door = req.door
          /\ n.used = req.used /\ n.page = req.page /\ n.permissions = may
      BY <1>1 DEF Reads
    <2> HIDE DEF n, reach
    <2>3. (n # None /\ n.door = "search" /\ ~walk.stirred) => Pays(n, walk, roles_, reach, index)
      BY <1>2, <2>1, <2>2 DEF Pays, may
    <2>4. QED
      BY <1>1, <2>1, <2>2, <2>3, Pursuing DEF reach, may, n
  <1>5. CASE LosesGroups
    <2>1. req' = [req EXCEPT !.phase = "resolved"]
          /\ walk' = IF req.door = "search" THEN [walk EXCEPT !.stirred = TRUE] ELSE walk
      BY <1>5 DEF LosesGroups
    <2>2. req'.door = req.door
      BY <1>1, <2>1 DEF Reads
    <2>3. CASE req.door = "search"
      <3>1. walk \in Walks
        BY <1>1, <2>3 DEF Fits, GateTypeOK
      <3>2. walk' = [walk EXCEPT !.stirred = TRUE]
        BY <2>1, <2>3
      <3>3. walk'.stirred = TRUE
        BY <3>1, <3>2 DEF Walks
      <3>4. QED
        BY <3>3 DEF WalkPays, PagePays
    <2>4. CASE req.door # "search"
      <3>1. walk' = walk
        BY <2>1, <2>4
      <3>2. QED
        BY <1>1, <2>2, <2>4, <3>1, WalkStays DEF PagePays
    <2>5. QED
      BY <2>3, <2>4
  <1>6. QED
    BY <1>3, <1>4, <1>5

LEMMA NextHitPays ==
  ASSUME NEW r \in Reads, NEW w, NEW roles_, NEW reach, NEW scopes,
         r.roles = roles_, r.permissions = PermissionsOf(roles_),
         Collects(r, w, reach, scopes)
  PROVE  Pays(NextHit(r), w, roles_, reach, scopes)
  <1> DEFINE n == NextHit(r)
  <1>1. /\ n.roles = r.roles /\ n.permissions = r.permissions
        /\ n.hits = r.hits /\ n.used = r.used /\ n.page = r.page /\ n.total = r.total
        /\ \/ n.phase = "paging"
           \/ /\ n.phase = "judging" /\ n.scope = r.hits[r.used + 1].scope
              /\ n.left = CandidatesFor(n.scope)
    BY NextHitFacts
  <1> HIDE DEF n
  <1>2. Collects(n, w, reach, scopes)
    BY <1>1 DEF Collects
  <1>3. n.phase = "judging" => Judges(n, w)
    BY <1>1 DEF Judges
  <1>4. QED
    BY <1>1, <1>2, <1>3 DEF Pays, n

(* A search begins with nothing examined, at the cursor. *)
LEMMA SearchingPays ==
  ASSUME GateTypeOK, InItsPhase, WalkPays, PagePays, Searches
  PROVE  WalkPays' /\ PagePays'
  <1> DEFINE reach == Found(req.permissions)
  <1> DEFINE hits == HitsFrom(reach, walk.offset)
  <1> DEFINE r == [req EXCEPT !.hits = hits, !.total = Len(reach)]
  <1> DEFINE n == NextHit(r)
  <1>1. /\ req \in Reads /\ req # None /\ Fits(req, walk) /\ req.door = "search"
        /\ req.phase = "resolved" /\ UNCHANGED <<held, grants, index, walk>> /\ req' = n
    BY DEF Searches, Goes, Reading, GateTypeOK, InItsPhase, tables
  <1>2. walk # None /\ walk \in Walks /\ walk.offset \in Nat /\ walk.offset # None
        /\ walk.caller = req.caller
    BY <1>1 DEF Fits, GateTypeOK, Walks
  <1>3. /\ hits \in Seq(Results) /\ Len(reach) \in Nat
        /\ walk.offset =< Len(reach) => walk.offset + Len(hits) =< Len(reach)
        /\ \A k \in DOMAIN hits :
              LET x == reach[walk.offset + k] IN hits[k] = [record |-> x, scope |-> index[x]]
    BY <1>2, SearchFacts
  <1> HIDE DEF hits, reach
  <1>4. /\ r \in Reads /\ r.caller = req.caller /\ r.door = req.door /\ r.roles = req.roles
        /\ r.permissions = req.permissions /\ r.hits = hits /\ r.total = Len(reach)
        /\ r.used = req.used /\ r.page = req.page
    <2> DEFINE total == Len(reach)
    <2>1. hits \in Seq(Results) /\ total \in Nat /\ req \in Reads
      BY <1>1, <1>3
    <2> HIDE DEF total
    <2>2. r = [req EXCEPT !.hits = hits, !.total = total]
      BY DEF total
    <2> HIDE DEF r
    <2>3. r \in Reads
      BY <2>1, <2>2 DEF Reads
    <2>4. /\ r.caller = req.caller /\ r.door = req.door /\ r.roles = req.roles
          /\ r.permissions = req.permissions /\ r.hits = hits /\ r.total = total
          /\ r.used = req.used /\ r.page = req.page
      BY <2>1, <2>2 DEF Reads
    <2>5. QED
      BY <2>3, <2>4 DEF total
  <1> HIDE DEF r
  <1>5. n.caller = req.caller /\ n.door = req.door
    BY <1>4, NextHitFacts
  <1>6. ASSUME ~walk.stirred
        PROVE  Pays(n, walk, held[n.caller], Found(PermissionsOf(held[n.caller])), index)
    <2>1. /\ req.roles = held[req.caller] /\ req.permissions = PermissionsOf(held[req.caller])
          /\ req.used = 0 /\ req.page = << >>
      BY <1>1, <1>6 DEF PagePays, Pays
    <2>2. walk.offset =< Len(reach)
      BY <1>2, <1>6, <2>1 DEF WalkPays, Paid, reach
    <2>3. /\ ToSet(<< >>) = {} /\ IsInjective(<< >>)
          /\ Examined(reach, walk.offset, 0) = {}
      BY <1>2 DEF ToSet, IsInjective, Examined
    <2>4. Len(hits) \in Nat
      BY <1>3
    <2>5. Collects(r, walk, reach, index)
      BY <1>3, <1>4, <2>1, <2>2, <2>3, <2>4 DEF Collects
    <2>6. Pays(n, walk, held[req.caller], reach, index)
      BY <1>4, <2>1, <2>5, NextHitPays
    <2>7. QED
      BY <1>5, <2>1, <2>6 DEF reach
  <1> HIDE DEF n
  <1>7. QED
    BY <1>1, <1>6, Pursuing

(* What is known of a hit that is being judged. *)
LEMMA HitFacts ==
  ASSUME GateTypeOK, InItsPhase, WalkPays, PagePays,
         Reading("judging"), req.door = "search", ~walk.stirred
  PROVE  LET reach == Found(PermissionsOf(held[req.caller]))
             hit == req.hits[req.used + 1]
         IN
         /\ req \in Reads /\ walk \in Walks /\ walk # None /\ walk.caller = req.caller
         /\ walk.offset \in Nat /\ walk.offset # None /\ req.used \in Nat
         /\ req.roles = held[req.caller] /\ req.permissions = PermissionsOf(held[req.caller])
         /\ Collects(req, walk, reach, index) /\ Judges(req, walk)
         /\ Paid(walk, reach, Shows(req.caller))
         /\ req.used < Len(req.hits) /\ Len(req.hits) \in Nat /\ Len(reach) \in Nat
         /\ walk.offset + req.used + 1 =< Len(reach)
         /\ hit.record = reach[walk.offset + req.used + 1] /\ hit.scope = index[hit.record]
         /\ hit.record \in Records
  <1> DEFINE reach == Found(PermissionsOf(held[req.caller]))
  <1> DEFINE hit == req.hits[req.used + 1]
  <1>1. /\ req \in Reads /\ req # None /\ Fits(req, walk) /\ req.phase = "judging"
    BY DEF Reading, GateTypeOK, InItsPhase
  <1>2. /\ walk # None /\ walk \in Walks /\ walk.offset \in Nat /\ walk.offset # None
        /\ walk.caller = req.caller /\ req.used < Len(req.hits)
    BY <1>1 DEF Fits, GateTypeOK, Walks
  <1>3. req.used \in Nat /\ req.hits \in Seq(Results)
    BY <1>1 DEF Reads
  <1>4. /\ req.roles = held[req.caller] /\ req.permissions = PermissionsOf(held[req.caller])
        /\ Collects(req, walk, reach, index) /\ Judges(req, walk)
    BY <1>1 DEF PagePays, Pays
  <1>5. Paid(walk, reach, Shows(req.caller))
    BY <1>2 DEF WalkPays
  <1>6. reach \in Seq(Records)
    BY Finds
  <1> HIDE DEF reach
  <1>7. Len(req.hits) \in Nat /\ Len(reach) \in Nat /\ req.used + 1 \in DOMAIN req.hits
    BY <1>2, <1>3, <1>6
  <1>8. walk.offset + Len(req.hits) =< Len(reach)
    BY <1>4 DEF Collects
  <1>9. walk.offset + req.used + 1 =< Len(reach)
    BY <1>2, <1>3, <1>7, <1>8
  <1>10. walk.offset + (req.used + 1) = walk.offset + req.used + 1
    BY <1>2, <1>3
  <1>11. hit = [record |-> reach[walk.offset + (req.used + 1)],
                scope |-> index[reach[walk.offset + (req.used + 1)]]]
    BY <1>4, <1>7 DEF Collects
  <1>12. hit.record = reach[walk.offset + req.used + 1] /\ hit.scope = index[hit.record]
    BY <1>10, <1>11
  <1>13. hit.record \in Records
    BY <1>2, <1>3, <1>6, <1>9, <1>12
  <1>14. QED
    BY <1>1, <1>2, <1>3, <1>4, <1>5, <1>7, <1>9, <1>12, <1>13 DEF reach

(* A hit that is owed is let through by the profile or by a grant that     *)
(* covers its own scope, which is asked for first.                         *)
LEMMA NotOwed ==
  ASSUME GateTypeOK, InItsPhase, WalkPays, PagePays,
         Reading("judging"), req.door = "search", ~walk.stirred,
         ~Passes(req.roles, req.permissions),
         ~HasScopedPermission(req.caller, Head(req.left))
  PROVE  req.hits[req.used + 1].record \notin walk.owed
  <1> DEFINE reach == Found(PermissionsOf(held[req.caller]))
  <1> DEFINE hit == req.hits[req.used + 1]
  <1> DEFINE x == hit.record
  <1> DEFINE here == walk.offset + req.used + 1
  <1>1. /\ req \in Reads /\ walk.offset \in Nat /\ walk.offset # None /\ req.used \in Nat
        /\ req.roles = held[req.caller] /\ req.permissions = PermissionsOf(held[req.caller])
        /\ Judges(req, walk) /\ Paid(walk, reach, Shows(req.caller))
        /\ Len(reach) \in Nat /\ here =< Len(reach) /\ x = reach[here] /\ hit.scope = index[x]
    BY HitFacts
  <1>2. reach \in Seq(Records) /\ \A m, n \in DOMAIN reach : reach[m] = reach[n] => m = n
    BY Finds
  <1> HIDE DEF reach, hit
  <1>3. SUFFICES ASSUME x \in walk.owed
                 PROVE  FALSE
    BY DEF hit
  <1>4. x \notin ToSet(walk.shown)
    <2>1. here \in DOMAIN reach /\ \A k \in 1 .. walk.offset : k \in DOMAIN reach /\ k # here
      BY <1>1, <1>2
    <2>2. x \notin Before(reach, walk.offset)
      BY <1>1, <1>2, <2>1 DEF Before
    <2>3. QED
      BY <1>1, <2>2 DEF Paid
  <1>5. x \in Shows(req.caller)
    BY <1>1, <1>3, <1>4 DEF Paid
  <1>6. May(held[req.caller], grants, req.caller, index[x])
    BY <1>5 DEF Shows
  <1>7. \E g \in grants : Covers(g, req.caller, index[x])
    BY <1>1, <1>6 DEF May
  <1>8. req.scope = index[x] /\ req.left = CandidatesFor(req.scope)
    BY <1>1, <1>3 DEF Judges, hit
  <1>9. req.scope \in Scopes
    BY <1>1 DEF Reads
  <1>10. Head(req.left) = index[x]
    BY <1>8, <1>9, WiderInTurn
  <1>11. QED
    BY <1>7, <1>10 DEF HasScopedPermission

(* A hit that is shown goes to the page; one that is not was not owed. *)
LEMMA DecidingPays ==
  ASSUME GateTypeOK, InItsPhase, WalkPays, PagePays,
         NEW ok \in BOOLEAN, Reading("judging"), Decides(ok),
         (req.door = "search" /\ ~walk.stirred) => ok \/ req.hits[req.used + 1].record \notin walk.owed
  PROVE  WalkPays' /\ PagePays'
  <1> DEFINE n == After(ok)
  <1>1. /\ req # None /\ req \in Reads /\ req.phase = "judging" /\ Fits(req, walk)
        /\ UNCHANGED <<held, grants, index, walk>> /\ req' = n
    BY DEF Decides, Reading, GateTypeOK, InItsPhase, tables
  <1>2. CASE req.door # "search"
    <2>1. n = None \/ n = [req EXCEPT !.phase = "admitted"]
      BY <1>2 DEF After
    <2>2. n # None => n.door = req.door
      BY <1>1, <2>1 DEF Reads
    <2> HIDE DEF n
    <2>3. QED
      BY <1>1, <1>2, <2>2, Pursuing
  <1>3. CASE req.door = "search" /\ walk.stirred
    <2> HIDE DEF n
    <2>1. QED
      BY <1>1, <1>3, Pursuing
  <1>4. CASE req.door = "search" /\ ~walk.stirred
    <2> DEFINE reach == Found(PermissionsOf(held[req.caller]))
    <2> DEFINE x == req.hits[req.used + 1].record
    <2> DEFINE page == IF ok THEN Append(req.page, x) ELSE req.page
    <2> DEFINE used == req.used + 1
    <2> DEFINE r == [req EXCEPT !.used = used, !.page = page]
    <2>1. n = NextHit(r)
      BY <1>4 DEF After
    <2>2. /\ walk # None /\ walk.caller = req.caller /\ walk.offset \in Nat /\ walk.offset # None
          /\ req.used \in Nat /\ req.page \in Seq(Records)
          /\ req.roles = held[req.caller] /\ req.permissions = PermissionsOf(held[req.caller])
          /\ Collects(req, walk, reach, index)
          /\ req.used < Len(req.hits) /\ Len(req.hits) \in Nat
          /\ walk.offset + req.used + 1 =< Len(reach)
          /\ x = reach[walk.offset + req.used + 1] /\ x \in Records
      BY <1>1, <1>4, HitFacts DEF Reads
    <2>3. reach \in Seq(Records) /\ \A m, k \in DOMAIN reach : reach[m] = reach[k] => m = k
      BY Finds
    <2> HIDE DEF n, reach, x
    <2>4. ok \/ x \notin walk.owed
      BY <1>4 DEF x
    <2>5. /\ IsInjective(req.page)
          /\ ToSet(req.page) \subseteq Examined(reach, walk.offset, req.used)
          /\ walk.owed \intersect Examined(reach, walk.offset, req.used) \subseteq ToSet(req.page)
      BY <2>2 DEF Collects
    <2>6. /\ ToSet(req.page) \subseteq Examined(reach, walk.offset, used)
          /\ x \notin walk.owed =>
                walk.owed \intersect Examined(reach, walk.offset, used) \subseteq ToSet(req.page)
          /\ Append(req.page, x) \in Seq(Records) /\ IsInjective(Append(req.page, x))
          /\ ToSet(Append(req.page, x)) \subseteq Examined(reach, walk.offset, used)
          /\ walk.owed \intersect Examined(reach, walk.offset, used)
                \subseteq ToSet(Append(req.page, x))
      <3> DEFINE offset == walk.offset
      <3> DEFINE have == req.used
      <3> DEFINE paged == req.page
      <3> DEFINE owed == walk.owed
      <3>1. /\ offset \in Nat /\ have \in Nat /\ offset + have + 1 =< Len(reach)
            /\ paged \in Seq(Records) /\ IsInjective(paged)
        BY <2>2, <2>5
      <3>2. /\ ToSet(paged) \subseteq Examined(reach, offset, have)
            /\ owed \intersect Examined(reach, offset, have) \subseteq ToSet(paged)
            /\ x = reach[offset + have + 1] /\ used = have + 1
        BY <2>2, <2>5
      <3> HIDE DEF offset, have, paged, owed, used
      <3>3. LET y == reach[offset + have + 1]
                done == Examined(reach, offset, have + 1)
                longer == Append(paged, y)
            IN
            /\ ToSet(paged) \subseteq done
            /\ y \notin owed => owed \intersect done \subseteq ToSet(paged)
            /\ longer \in Seq(Records) /\ IsInjective(longer)
            /\ ToSet(longer) \subseteq done /\ owed \intersect done \subseteq ToSet(longer)
        BY <2>3, <3>1, <3>2, PageGrows
      <3>4. QED
        BY <3>2, <3>3 DEF offset, paged, owed
    <2>7. /\ page \in Seq(Records) /\ IsInjective(page)
          /\ ToSet(page) \subseteq Examined(reach, walk.offset, used)
          /\ walk.owed \intersect Examined(reach, walk.offset, used) \subseteq ToSet(page)
      BY <2>2, <2>4, <2>5, <2>6
    <2>8. used \in Nat /\ used =< Len(req.hits)
      BY <2>2
    <2> HIDE DEF page, used
    <2>9. /\ r \in Reads /\ r.caller = req.caller /\ r.door = req.door /\ r.roles = req.roles
          /\ r.permissions = req.permissions /\ r.hits = req.hits /\ r.total = req.total
          /\ r.used = used /\ r.page = page
      BY <1>1, <2>7, <2>8 DEF Reads
    <2> HIDE DEF r
    <2>10. Collects(r, walk, reach, index)
      BY <2>2, <2>7, <2>8, <2>9 DEF Collects
    <2>11. Pays(n, walk, held[req.caller], reach, index)
      BY <2>1, <2>2, <2>9, <2>10, NextHitPays
    <2>12. n.caller = req.caller
      BY <2>1, <2>9, NextHitFacts
    <2>13. QED
      BY <1>1, <2>11, <2>12, Pursuing DEF reach
  <1>5. QED
    BY <1>2, <1>3, <1>4

(* The candidates of a hit are asked for in turn. *)
LEMMA AskingPays ==
  ASSUME GateTypeOK, InItsPhase, WalkPays, PagePays,
         PassesAtOnce \/ AsksGrants
  PROVE  WalkPays' /\ PagePays'
  <1>1. Reading("judging") /\ req # None /\ req \in Reads /\ req.phase = "judging"
    BY DEF PassesAtOnce, AsksGrants, Reading, GateTypeOK
  <1>2. CASE Decides(TRUE)
    BY <1>1, <1>2, DecidingPays
  <1>3. ASSUME ~Decides(TRUE)
        PROVE  /\ ~Passes(req.roles, req.permissions)
               /\ ~HasScopedPermission(req.caller, Head(req.left))
               /\ Decides(FALSE) \/ Goes([req EXCEPT !.left = Tail(req.left)])
    BY <1>3 DEF PassesAtOnce, AsksGrants
  <1>4. CASE ~Decides(TRUE) /\ Decides(FALSE)
    BY <1>1, <1>3, <1>4, NotOwed, DecidingPays
  <1>5. CASE ~Decides(TRUE) /\ Goes([req EXCEPT !.left = Tail(req.left)])
    <2> DEFINE left_ == Tail(req.left)
    <2> DEFINE n == [req EXCEPT !.left = left_]
    <2>1. req' = n /\ UNCHANGED <<held, grants, index, walk>>
      BY <1>5 DEF Goes, tables
    <2> HIDE DEF left_
    <2>2. /\ n.caller = req.caller /\ n.door = req.door /\ n.phase = req.phase /\ n.scope = req.scope
          /\ n.roles = req.roles /\ n.permissions = req.permissions
          /\ n.hits = req.hits /\ n.used = req.used /\ n.page = req.page /\ n.total = req.total
      BY <1>1 DEF Reads
    <2> HIDE DEF n
    <2> DEFINE reach == Found(PermissionsOf(held[req.caller]))
    <2>3. ASSUME req.door = "search", ~walk.stirred
          PROVE  Pays(n, walk, held[req.caller], reach, index)
      <3>1. Pays(req, walk, held[req.caller], reach, index)
        BY <1>1, <2>3 DEF PagePays
      <3>2. n.hits[n.used + 1].record \notin walk.owed
        BY <1>1, <1>3, <1>5, <2>2, <2>3, NotOwed
      <3> HIDE DEF reach
      <3>3. Collects(n, walk, reach, index)
        BY <1>1, <2>2, <3>1 DEF Pays, Collects
      <3>4. Judges(n, walk)
        BY <1>1, <2>2, <3>1, <3>2 DEF Pays, Judges
      <3>5. QED
        BY <1>1, <2>2, <3>1, <3>3, <3>4 DEF Pays
    <2>4. (n # None /\ n.door = "search" /\ ~walk.stirred) =>
             Pays(n, walk, held[n.caller], Found(PermissionsOf(held[n.caller])), index)
      BY <2>2, <2>3
    <2>5. QED
      BY <2>1, <2>4, Pursuing
  <1>6. QED
    BY <1>2, <1>3, <1>4, <1>5

(* The last page leaves nothing of what is found, and so of what is owed. *)
LEMMA PagingPays ==
  ASSUME GateTypeOK, InItsPhase, WalkPays, PagePays, Pages
  PROVE  WalkPays' /\ PagePays'
  <1> DEFINE all == walk.shown \o req.page
  <1> DEFINE after == walk.offset + req.used
  <1> DEFINE next == IF after < req.total THEN after ELSE None
  <1>1. /\ req # None /\ req \in Reads /\ req.phase = "paging" /\ req.door = "search"
        /\ walk # None /\ walk \in Walks /\ walk.offset \in Nat /\ walk.offset # None
        /\ walk.caller = req.caller
    BY DEF Pages, Reading, GateTypeOK, InItsPhase, Fits, Walks
  <1>2. /\ walk.shown \in Seq(Records) /\ req.page \in Seq(Records) /\ req.used \in Nat
        /\ req.total \in Nat
    BY <1>1 DEF Walks, Reads
  <1>3. req' = None /\ UNCHANGED <<held, grants, index>>
        /\ walk' = [walk EXCEPT !.shown = all, !.offset = next]
    BY DEF Pages, tables, OffsetAfter
  <1>4. all \in Seq(Records) /\ after \in Nat /\ next \in Nat \union {None}
    BY <1>1, <1>2
  <1> HIDE DEF all, next
  <1>5. /\ walk'.caller = walk.caller /\ walk'.shown = all /\ walk'.offset = next
        /\ walk'.owed = walk.owed /\ walk'.stirred = walk.stirred
    BY <1>1, <1>3 DEF Walks
  <1> DEFINE reach == Found(PermissionsOf(held[walk.caller]))
  <1> DEFINE may == Shows(walk.caller)
  <1>6. reach' = reach /\ may' = may
    BY <1>3, <1>5 DEF Found, Shows, PermissionsOf, Records
  <1>7. ASSUME ~walk.stirred
        PROVE  Paid(walk', reach, may)
    <2>1. Paid(walk, reach, may) /\ Collects(req, walk, reach, index)
      BY <1>1, <1>7 DEF WalkPays, PagePays, Pays
    <2>2. /\ reach \in Seq(Records)
          /\ \A m, n \in DOMAIN reach : reach[m] = reach[n] => m = n
      BY Finds
    <2>3. may \subseteq ToSet(reach)
      <3>1. ASSUME NEW x \in may
            PROVE  \E n \in DOMAIN reach : reach[n] = x
        BY <3>1, Finds DEF Shows
      <3>2. QED
        BY <3>1 DEF ToSet
    <2> HIDE DEF reach, may
    <2> DEFINE seen == Before(reach, walk.offset)
    <2> DEFINE done == Examined(reach, walk.offset, req.used)
    <2>4. /\ walk.owed \subseteq may \union ToSet(walk.shown) /\ IsInjective(walk.shown)
          /\ ToSet(walk.shown) \subseteq seen
          /\ walk.owed \intersect seen \subseteq ToSet(walk.shown)
      BY <1>1, <2>1 DEF Paid
    <2>5. /\ req.total = Len(reach) /\ after =< Len(reach)
          /\ IsInjective(req.page) /\ ToSet(req.page) \subseteq done
          /\ walk.owed \intersect done \subseteq ToSet(req.page)
      <3>1. Len(req.hits) \in Nat /\ Len(reach) \in Nat
        BY <1>1, <2>2 DEF Reads
      <3>2. req.used =< Len(req.hits) /\ walk.offset + Len(req.hits) =< Len(reach)
        BY <2>1 DEF Collects
      <3>3. after =< Len(reach)
        BY <1>1, <1>2, <3>1, <3>2
      <3>4. QED
        BY <2>1, <3>3 DEF Collects
    <2>6. /\ IsInjective(all)
          /\ ToSet(all) = ToSet(walk.shown) \union ToSet(req.page)
          /\ Before(reach, after) = seen \union done
          /\ ToSet(all) \subseteq Before(reach, after)
      <3> DEFINE offset == walk.offset
      <3> DEFINE have == req.used
      <3> DEFINE page == req.page
      <3> DEFINE shown == walk.shown
      <3>1. /\ offset \in Nat /\ have \in Nat /\ offset + have =< Len(reach)
            /\ shown \in Seq(Records) /\ page \in Seq(Records)
        BY <1>1, <1>2, <2>5
      <3>2. /\ IsInjective(shown) /\ ToSet(shown) \subseteq Before(reach, offset)
            /\ IsInjective(page)
            /\ ToSet(page) \subseteq Examined(reach, offset, have)
        BY <2>4, <2>5
      <3>3. all = shown \o page /\ after = offset + have /\ seen = Before(reach, offset)
            /\ done = Examined(reach, offset, have)
        BY DEF all
      <3> HIDE DEF offset, have, page, shown, seen, done, after
      <3>4. LET both == shown \o page IN
            /\ IsInjective(both) /\ ToSet(both) = ToSet(shown) \union ToSet(page)
            /\ Before(reach, offset + have) =
                  Before(reach, offset) \union Examined(reach, offset, have)
            /\ ToSet(both) \subseteq Before(reach, offset + have)
        BY <2>2, <3>1, <3>2, PageShown
      <3>5. /\ IsInjective(all) /\ ToSet(all) = ToSet(shown) \union ToSet(page)
            /\ Before(reach, after) = seen \union done
            /\ ToSet(all) \subseteq Before(reach, after)
        BY <3>3, <3>4, Zenon
      <3>6. QED
        BY <3>5 DEF shown, page
    <2>7. CASE after < req.total
      <3>1. next = after /\ next # None
        BY <1>4, <2>7, GateSets DEF next
      <3>2. QED
        BY <1>5, <2>4, <2>5, <2>6, <2>7, <3>1 DEF Paid
    <2>8. CASE ~(after < req.total)
      <3>1. next = None
        BY <2>8 DEF next
      <3>2. Len(reach) \in Nat /\ after = Len(reach)
        BY <1>4, <2>2, <2>5, <2>8
      <3>3. ToSet(reach) = Before(reach, after)
        BY <2>2, <3>2 DEF ToSet, Before
      <3>4. walk.owed \subseteq ToSet(all)
        BY <2>3, <2>4, <2>5, <2>6, <3>3
      <3>5. QED
        BY <1>5, <2>6, <3>1, <3>4 DEF Paid
    <2>9. QED
      BY <2>7, <2>8
  <1>8. WalkPays'
    BY <1>5, <1>6, <1>7 DEF WalkPays
  <1>9. PagePays'
    BY <1>3 DEF PagePays
  <1>10. QED
    BY <1>8, <1>9

LEMMA PayStep ==
  ASSUME GateTypeOK, InItsPhase, WalkPays, PagePays,
         [GateNext]_gateVars
  PROVE  WalkPays' /\ PagePays'
  <1> USE DEF tables, audits
  <1>1. CASE UNCHANGED gateVars
    BY <1>1, WalkStays, PageStays DEF gateVars
  <1>2. held' \in [Users -> SUBSET Roles] /\ grants' \subseteq Grantable
    BY GateType DEF GateTypeOK
  <1>3. CASE Aside
    BY <1>2, <1>3, AsidePays
  <1>4. ASSUME NEW caller \in Users, NEW door \in Doors, NEW record,
               Begins(caller, door, record)
        PROVE  WalkPays' /\ PagePays'
    BY <1>4, BeginningPays
  <1>5. CASE ReadsRoles \/ ReadsPermissions \/ LosesGroups
    BY <1>5, ResolvingPays
  <1>6. ASSUME NEW scope, req # None, req.door # "search", Goes(Judging(req, scope))
        PROVE  WalkPays' /\ PagePays'
    <2>1. req \in Reads
      BY <1>6 DEF GateTypeOK
    <2> DEFINE n == Judging(req, scope)
    <2>2. n.door = req.door
      BY <2>1 DEF Judging, Reads
    <2>3. req' = n /\ UNCHANGED <<held, grants, index, walk>>
      BY <1>6 DEF Goes
    <2> HIDE DEF n
    <2>4. QED
      BY <1>6, <2>2, <2>3, Pursuing
  <1>7. CASE Authorizes \/ MeetsGate \/ LooksUp \/ Assembles
    <2>1. req # None /\ (req.phase = "admitted" => req.door = "record")
      BY <1>7 DEF Authorizes, MeetsGate, LooksUp, Assembles, Reading,
                  InItsPhase, Fits
    <2>2. req.door # "search"
      BY <1>7, <2>1 DEF Authorizes, MeetsGate, LooksUp, Assembles, Reading
    <2>3. QED
      BY <1>6, <1>7, <2>1, <2>2 DEF Authorizes, MeetsGate, LooksUp, Assembles
  <1>8. CASE Searches
    BY <1>8, SearchingPays
  <1>9. CASE PassesAtOnce \/ AsksGrants
    BY <1>9, AskingPays
  <1>10. CASE Pages
    BY <1>10, PagingPays
  <1>11. CASE Forgets
    BY <1>11 DEF Forgets, WalkPays, PagePays
  <1>12. CASE BreaksOff
    BY <1>12, Pursuing DEF BreaksOff, Goes
  <1>13. ASSUME GateNext, ~Aside,
                ~\E caller \in Users, door \in Doors : \E record : Begins(caller, door, record)
         PROVE  \/ ReadsRoles \/ LosesGroups \/ ReadsPermissions
                \/ Authorizes \/ MeetsGate \/ LooksUp \/ Assembles
                \/ Searches \/ PassesAtOnce \/ AsksGrants
                \/ Pages \/ Forgets \/ BreaksOff
    BY <1>13 DEF GateNext, RolesChange, OwnerChanges, Indexes, AsksEdit,
                 Writes, Audits, Commits, Refused, Doors
  <1>14. QED
    BY <1>1, <1>3, <1>4, <1>5, <1>7, <1>8, <1>9, <1>10, <1>11, <1>12, <1>13

LEMMA GateStarts ==
  ASSUME GateInit
  PROVE  GateIInv
  <1>1. /\ held \in [Users -> Holdings] /\ grants \in SUBSET Grantable
        /\ owner \in [Records -> Clients \union {None}]
        /\ index = [record \in Records |-> ScopeOf(record)]
        /\ edit = [a \in Administrators |-> None]
        /\ trail = [g \in Grantable |-> IF g \in grants THEN "granted" ELSE None]
        /\ muddled = {} /\ req = None /\ saw = {} /\ judged = NoVerdict /\ walk = None
    BY DEF GateInit
  <1>2. held \in [Users -> SUBSET Roles] /\ None # "granted"
    BY <1>1, GateAssumption
  <1>3. index \in [Records -> Scopes \union {None}]
    <2>1. ASSUME NEW record \in Records
          PROVE  ScopeOf(record) \in Scopes
      BY <1>1 DEF ScopeOf, Scopes, Records
    <2>2. QED
      BY <1>1, <2>1
  <1>4. GateTypeOK
    BY <1>1, <1>2, <1>3 DEF GateTypeOK
  <1>5. InOneHand /\ NewsIsTrue
    BY <1>1 DEF InOneHand, NewsIsTrue
  <1>6. TrailTells
    BY <1>1, <1>2 DEF TrailTells
  <1>7. InItsPhase /\ Witnessed /\ WalkPays /\ PagePays /\ SearchesComplete
    BY <1>1 DEF InItsPhase, Witnessed, WalkPays, PagePays, SearchesComplete
  <1>8. ReadsEntitled
    BY <1>1 DEF ReadsEntitled
  <1>9. QED
    BY <1>4, <1>5, <1>6, <1>7, <1>8 DEF GateIInv

LEMMA GateStep ==
  ASSUME GateIInv, [GateNext]_gateVars
  PROVE  GateIInv'
  <1>1. /\ GateTypeOK /\ InItsPhase /\ InOneHand /\ NewsIsTrue /\ Witnessed
        /\ WalkPays /\ PagePays /\ TrailTells /\ ReadsEntitled
    BY DEF GateIInv
  <1>2. GateTypeOK' /\ InItsPhase'
    BY <1>1, GateType
  <1>3. InOneHand' /\ NewsIsTrue' /\ TrailTells'
    BY <1>1, TrailStep
  <1>4. Witnessed' /\ ReadsEntitled'
    BY <1>1, WitnessedStep, EntitledStep
  <1>5. WalkPays' /\ PagePays'
    BY <1>1, PayStep
  <1>6. SearchesComplete'
    BY <1>5 DEF WalkPays, SearchesComplete, Paid
  <1>7. QED
    BY <1>2, <1>3, <1>4, <1>5, <1>6 DEF GateIInv

(* Whatever changes under a request or a walk and whatever fails, the      *)
(* invariant behind the gate's properties holds: the request is in a phase *)
(* of its door, what it holds of its caller's rights has been true since   *)
(* it began, what an administrator has in hand is all that his record and  *)
(* the table differ by, and what a walk owes is ahead of its cursor or     *)
(* shown.  The code is internal/platformdb/rbac.go and internal/authz.     *)
THEOREM GateInvariance == GateSpec => []GateIInv
  <1>1. GateInit => GateIInv
    BY GateStarts
  <1>2. GateIInv /\ [GateNext]_gateVars => GateIInv'
    BY GateStep
  <1>3. QED
    BY <1>1, <1>2, PTL DEF GateSpec

(* A grant is in force exactly when the last record about it says so,      *)
(* unless two administrators had it in hand at once (AddScopeGrant and     *)
(* DeleteScopeGrant, each one transaction with its audit record).          *)
THEOREM TrailDoesTell == GateSpec => []TrailTells
  <1>1. GateIInv => TrailTells
    BY DEF GateIInv
  <1>2. QED
    BY <1>1, GateInvariance, PTL

(* What a request is shown, through whichever door, was allowed by one     *)
(* state of roles, permissions and grants that the request lived through,  *)
(* unless the permissions it read are more than the roles it read before   *)
(* them give (ResolveAccess, Evaluate and HasScopedPermission).            *)
THEOREM ReadsAreEntitled == GateSpec => []ReadsEntitled
  <1>1. GateIInv => ReadsEntitled
    BY DEF GateIInv
  <1>2. QED
    BY <1>1, GateInvariance, PTL

(* When the cursors of a search have come to an end under unchanged roles  *)
(* and index, all that the caller might read throughout has been shown,    *)
(* and nothing twice (handleSearch of search.go).                          *)
THEOREM SearchesAreComplete == GateSpec => []SearchesComplete
  <1>1. GateIInv => SearchesComplete
    BY DEF GateIInv
  <1>2. QED
    BY <1>1, GateInvariance, PTL
=============================================================================
