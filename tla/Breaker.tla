------------------------------- MODULE Breaker -------------------------------
(***************************************************************************)
(* The per-adapter circuit breaker (internal/adapters/httpx/breaker.go)    *)
(* under the concurrent calls of httpx.Client.Do (client.go).              *)
(*                                                                         *)
(* Every call is admitted by Allow, makes one or more attempts, and        *)
(* reports its outcome once.  Calls overlap freely with each other and     *)
(* with the breaker's transitions; the mutex makes Allow, Succeed and Fail *)
(* atomic.                                                                 *)
(*                                                                         *)
(* Abstractions.  An episode number is unbounded and never repeats, so a   *)
(* ticket is reduced to whether it is of the episode in progress: a        *)
(* transition makes every outstanding ticket stale.  The clock is reduced  *)
(* to whether OpenFor has passed since openedAt.  Metrics counters are     *)
(* left out.                                                               *)
(***************************************************************************)
EXTENDS Integers, FiniteSets

CONSTANTS
  Callers,           \* concurrent users of one adapter
  FailureThreshold,  \* BreakerSettings.FailureThreshold, breaker enabled
  HalfOpenProbes,    \* BreakerSettings.HalfOpenProbes
  MaxAttempts        \* RetryPolicy.MaxAttempts of an idempotent request

ASSUME CallersAssumption == IsFiniteSet(Callers)
ASSUME ThresholdAssumption == FailureThreshold \in Nat \ {0}
ASSUME ProbesAssumption == HalfOpenProbes \in Nat \ {0}
ASSUME AttemptsAssumption == MaxAttempts \in Nat \ {0}

VARIABLES
  state,      \* Breaker.state
  failures,   \* Breaker.failures
  probes,     \* Breaker.probes
  successes,  \* Breaker.successes
  expired,    \* now - openedAt >= OpenFor
  pc,         \* where each call is
  left,       \* attempts left to each call, the one in progress included
  ticket,     \* whether the call's ticket is current or stale
  up,         \* the upstream answers
  sawUp,      \* it was up at some moment since the circuit last opened
  sawDown     \* it was down at some moment since the last transition

breakerVars == <<state, failures, probes, successes, expired>>
callVars == <<pc, left, ticket>>
upstreamVars == <<up, sawUp, sawDown>>
vars == <<breakerVars, callVars, upstreamVars>>

States == {"closed", "open", "half_open"}
(* "ok", "failed" and "neutral" calls are about to report. *)
PCs == {"idle", "calling", "backoff", "ok", "failed", "neutral"}

Init ==
  /\ state = "closed"
  /\ failures = 0 /\ probes = 0 /\ successes = 0
  /\ expired = FALSE
  /\ pc = [c \in Callers |-> "idle"]
  /\ left = [c \in Callers |-> 0]
  /\ ticket = [c \in Callers |-> "stale"]
  /\ up \in BOOLEAN
  /\ sawUp = up /\ sawDown = ~up

-----------------------------------------------------------------------------
(* The breaker's operations *)

StaleTickets == [c \in Callers |-> "stale"]

(* transition: a new state and a new episode. *)
Transition(to) ==
  /\ state' = to
  /\ ticket' = StaleTickets
  /\ sawDown' = ~up
  /\ sawUp' = IF to = "open" THEN up ELSE sawUp

NoTransition == UNCHANGED <<state, ticket, sawUp, sawDown>>

Admit(c, n) ==
  /\ pc' = [pc EXCEPT ![c] = "calling"]
  /\ left' = [left EXCEPT ![c] = n]

AllowClosed(c) ==
  /\ state = "closed"
  /\ ticket' = [ticket EXCEPT ![c] = "current"]
  /\ UNCHANGED <<state, sawUp, sawDown, failures, probes, successes, expired>>

AllowExpired(c) ==
  /\ state = "open" /\ expired
  /\ state' = "half_open"
  /\ ticket' = [StaleTickets EXCEPT ![c] = "current"]
  /\ sawDown' = ~up
  /\ probes' = 1
  /\ successes' = 0
  /\ UNCHANGED <<sawUp, failures, expired>>

(* Variant: the probe that finds the last slot is let through as well. *)
AllowProbeOffByOne(c) ==
  /\ state = "half_open"
  /\ probes <= HalfOpenProbes
  /\ probes' = probes + 1
  /\ ticket' = [ticket EXCEPT ![c] = "current"]
  /\ UNCHANGED <<state, sawUp, sawDown, failures, successes, expired>>

AllowProbe(c) ==
  /\ state = "half_open"
  /\ probes < HalfOpenProbes
  /\ probes' = probes + 1
  /\ ticket' = [ticket EXCEPT ![c] = "current"]
  /\ UNCHANGED <<state, sawUp, sawDown, failures, successes, expired>>

(* Do, up to the first attempt.  A call Allow refuses changes nothing here *)
(* and returns KindCircuitOpen to its caller.                              *)
Call(c) ==
  /\ pc[c] = "idle"
  /\ \E n \in {1, MaxAttempts} : Admit(c, n)
  /\ AllowClosed(c) \/ AllowExpired(c) \/ AllowProbe(c)
  /\ UNCHANGED up

(* Variant: the result of a previous episode counts. *)
SucceedAnyEpisode(c) ==
  IF state = "half_open" THEN
    IF successes + 1 >= HalfOpenProbes
    THEN /\ Transition("closed")
         /\ failures' = 0 /\ probes' = 0 /\ successes' = 0
         /\ UNCHANGED expired
    ELSE /\ successes' = successes + 1
         /\ NoTransition /\ UNCHANGED <<failures, probes, expired>>
  ELSE /\ failures' = 0
       /\ NoTransition /\ UNCHANGED <<probes, successes, expired>>

(* Variant: a probe's success is not counted. *)
SucceedUncounted(c) ==
  IF ticket[c] = "stale" \/ state = "half_open"
  THEN NoTransition /\ UNCHANGED breakerVars
  ELSE /\ failures' = 0
       /\ NoTransition /\ UNCHANGED <<probes, successes, expired>>

Succeed(c) ==
  \/ /\ ticket[c] = "stale"
     /\ NoTransition /\ UNCHANGED breakerVars
  \/ /\ ticket[c] = "current" /\ state = "half_open"
     /\ successes + 1 < HalfOpenProbes
     /\ successes' = successes + 1
     /\ NoTransition /\ UNCHANGED <<failures, probes, expired>>
  \/ /\ ticket[c] = "current" /\ state = "half_open"
     /\ successes + 1 >= HalfOpenProbes
     /\ Transition("closed")
     /\ failures' = 0 /\ probes' = 0 /\ successes' = 0
     /\ UNCHANGED expired
  \/ /\ ticket[c] = "current" /\ state # "half_open"
     /\ failures' = 0
     /\ NoTransition /\ UNCHANGED <<probes, successes, expired>>

Open ==
  /\ Transition("open")
  /\ expired' = FALSE
  /\ probes' = 0 /\ successes' = 0

(* Variant: a straggler's failure counts again. *)
FailAnyEpisode(c) ==
  \/ state = "half_open" /\ Open /\ UNCHANGED failures
  \/ /\ state # "half_open"
     /\ failures' = failures + 1
     /\ IF failures' >= FailureThreshold THEN Open
        ELSE NoTransition /\ UNCHANGED <<probes, successes, expired>>

(* Fail with retryable = true.  A new episode of the open circuit keeps    *)
(* the count it opened with.                                               *)
Fail(c) ==
  \/ /\ ticket[c] = "stale"
     /\ NoTransition /\ UNCHANGED breakerVars
  \/ /\ ticket[c] = "current" /\ state = "half_open"
     /\ Open /\ UNCHANGED failures
  \/ /\ ticket[c] = "current" /\ state # "half_open"
     /\ failures' = failures + 1
     /\ failures + 1 < FailureThreshold
     /\ NoTransition /\ UNCHANGED <<probes, successes, expired>>
  \/ /\ ticket[c] = "current" /\ state # "half_open"
     /\ failures' = failures + 1
     /\ failures + 1 >= FailureThreshold
     /\ Open

(* Fail with retryable = false returns before looking at the ticket. *)
FailDeterministic == NoTransition /\ UNCHANGED breakerVars

-----------------------------------------------------------------------------
(* The attempts of one call *)

(* The upstream answers, is unavailable, or fails in a way that says        *)
(* nothing of its availability (not found, rejected, canceled, ...).       *)
Answer(c) ==
  /\ pc[c] = "calling"
  /\ \/ up /\ pc' = [pc EXCEPT ![c] = "ok"]
     \/ ~up /\ left[c] = 1 /\ pc' = [pc EXCEPT ![c] = "failed"]
     \/ ~up /\ left[c] > 1 /\ pc' = [pc EXCEPT ![c] = "backoff"]
     \/ pc' = [pc EXCEPT ![c] = "neutral"]
  /\ UNCHANGED <<breakerVars, left, ticket, upstreamVars>>

(* The wait between two attempts ends, or the caller gives up during it -  *)
(* after an attempt that failed.                                           *)
Retry(c) ==
  /\ pc[c] = "backoff"
  /\ \/ /\ pc' = [pc EXCEPT ![c] = "calling"]
        /\ left' = [left EXCEPT ![c] = @ - 1]
     \/ pc' = [pc EXCEPT ![c] = "failed"] /\ UNCHANGED left
  /\ UNCHANGED <<breakerVars, ticket, upstreamVars>>

Report(c) ==
  /\ \/ pc[c] = "ok" /\ Succeed(c)
     \/ pc[c] = "failed" /\ Fail(c)
     \/ pc[c] = "neutral" /\ FailDeterministic
  /\ pc' = [pc EXCEPT ![c] = "idle"]
  /\ UNCHANGED <<left, up>>

-----------------------------------------------------------------------------
(* The environment *)

WindowElapses ==
  /\ state = "open" /\ ~expired
  /\ expired' = TRUE
  /\ UNCHANGED <<state, failures, probes, successes, callVars, upstreamVars>>

UpstreamChanges ==
  /\ up' = ~up
  /\ sawUp' = (sawUp \/ ~up)
  /\ sawDown' = (sawDown \/ up)
  /\ UNCHANGED <<breakerVars, callVars>>

Next ==
  \/ \E c \in Callers : Call(c) \/ Answer(c) \/ Retry(c) \/ Report(c)
  \/ WindowElapses
  \/ UpstreamChanges

Spec == Init /\ [][Next]_vars

(* Calls end (every attempt has a timeout), the clock runs and the         *)
(* platform keeps using the adapter.                                       *)
Fairness ==
  /\ \A c \in Callers : /\ WF_vars(Call(c))
                        /\ WF_vars(Answer(c) \/ Retry(c) \/ Report(c))
  /\ WF_vars(WindowElapses)

FairSpec == Spec /\ Fairness

-----------------------------------------------------------------------------
(* Properties *)

(* Counters keep the ranges the thresholds give them in each state. *)
TypeOK ==
  /\ state \in States
  /\ failures \in 0..FailureThreshold
  /\ probes \in 0..HalfOpenProbes
  /\ successes \in 0..HalfOpenProbes - 1
  /\ expired \in BOOLEAN
  /\ pc \in [Callers -> PCs]
  /\ left \in [Callers -> 0..MaxAttempts]
  /\ ticket \in [Callers -> {"current", "stale"}]
  /\ up \in BOOLEAN /\ sawUp \in BOOLEAN /\ sawDown \in BOOLEAN

InFlight(c) == pc[c] # "idle"
Current(c) == InFlight(c) /\ ticket[c] = "current"

(* Half-open never has more than HalfOpenProbes of its calls outstanding,  *)
(* and leaves room for no more successes than it may still need (Allow).   *)
ProbesBounded ==
  state = "half_open" =>
    Cardinality({c \in Callers : Current(c)}) + successes <= HalfOpenProbes

(* The circuit closes only if the upstream was seen up after it opened:    *)
(* no success from before the outage, however late it is reported, lets    *)
(* full traffic through (Ticket, Succeed).                                 *)
ClosesOnlyOnRecovery ==
  [][state # "closed" /\ state' = "closed" => sawUp]_vars

(* The circuit opens, or opens again, only if the upstream was down during *)
(* the episode that ends: a failure from an earlier episode never decides  *)
(* the current one (Ticket, Fail).                                         *)
OpensOnlyOnOutage ==
  [][state # "open" /\ state' = "open" => sawDown]_vars

(* Late arrivals do not keep the circuit open: once OpenFor has passed     *)
(* since it opened, the next call is a probe (Fail, openedAt).             *)
OpenPeriodNotExtended ==
  [][state = "open" /\ state' = "open" => (expired => expired')]_vars

(* The inductive invariant behind the properties above: what a call in     *)
(* flight knows of the upstream, and how probes, successes and failures    *)
(* relate to the calls outstanding in each state.                          *)
UpstreamSeen == (up => sawUp) /\ (~up => sawDown)

EvidenceIsCurrent ==
  \A c \in Callers : ticket[c] = "current" =>
    /\ pc[c] = "ok" /\ state = "half_open" => sawUp
    /\ pc[c] \in {"backoff", "failed"} => sawDown

OpenHasNoCurrentCall == state = "open" => \A c \in Callers : ~Current(c)

ProbesCounted ==
  state = "half_open" =>
    Cardinality({c \in Callers : Current(c)}) + successes <= probes

AttemptsLeft == \A c \in Callers : pc[c] = "backoff" => left[c] > 1

ClosedBelowThreshold == state = "closed" => failures < FailureThreshold

IInv ==
  /\ TypeOK
  /\ UpstreamSeen
  /\ EvidenceIsCurrent
  /\ OpenHasNoCurrentCall
  /\ ProbesCounted
  /\ AttemptsLeft
  /\ ClosedBelowThreshold

(* If the upstream stays up the circuit ends closed and stays closed, as   *)
(* long as every failure says something of the upstream (ProbeDecides is   *)
(* what happens otherwise).                                                *)
RecoversWithUpstream ==
  (<>[]up) /\ [](\A c \in Callers : pc[c] # "neutral") => <>[](state = "closed")

(* docs/adr/ADR-006-upstream-resilience-policy.md:55-56: the circuit stays *)
(* open for 30 seconds, "after which one probe decides whether to close    *)
(* it".  A probe that ends in a deterministic failure decides nothing and  *)
(* never gives its slot back.                                              *)
ProbeDecides == (state = "half_open") ~> (state # "half_open")
=============================================================================
