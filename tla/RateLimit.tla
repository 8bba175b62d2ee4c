----------------------------- MODULE RateLimit -----------------------------
(***************************************************************************)
(* A limiter of internal/ratelimit/limiter.go as the middleware limit of   *)
(* ratelimits.go uses it: a bucket for each authenticated principal, one   *)
(* limiter for each class of routes, nothing shared between classes.       *)
(*                                                                         *)
(* Allow reads the clock, then waits for the mutex: callers enter in an    *)
(* order of their own, by which a bucket's time moves back as well as      *)
(* forth.  A new bucket is full, and buckets are dropped when they idle or *)
(* when there are too many.                                                *)
(*                                                                         *)
(* Amounts are whole: a request takes Cost, a tick gives Rate.  History is *)
(* kept for one principal, who is like any other.                          *)
(***************************************************************************)
EXTENDS Integers, Sequences, FiniteSets

CONSTANTS Arrivals,    \* the requests at the limiter
          Principals,  \* USR-* or SVC-*
          Watched,     \* the one whose history is kept
          Cost, Rate,  \* what a request takes, what a tick gives
          Burst,       \* what a bucket holds
          Idle,        \* a bucket idle for longer is dropped
          MaxKeys,     \* how many buckets are kept
          MaxLag,      \* how long the mutex is waited for at most
          MaxClock,    \* bound: the clock
          MaxAllowed,  \* bound: the requests of Watched allowed
          Absent       \* no bucket, no call

VARIABLES clock,   \* the clock
          bucket,  \* Limiter.buckets
          call,    \* a request's principal and the clock it has read
          allowed, \* history: the entries of Watched that were allowed
          forgot,  \* history: how often the bucket of Watched was evicted
          back,    \* history: the time that bucket has moved back in all
          refused  \* history: the last entry of Watched, if it was refused,
                   \*   and when the earliest retry advised since was due

history == <<allowed, forgot, back, refused>>
limiterVars == <<clock, bucket, call, history>>

Instants == 0 .. MaxClock

Buckets == [tokens : 0 .. Burst, seen : Instants]
Calls == [principal : Principals, read : Instants]
Entries == [at : Instants, forgot : Nat, back : Nat]
Refusals == [at : Instants, due : Nat]

(* How the limiter is set up: it holds a request, and ten minutes are      *)
(* enough to fill a bucket, burst =< 10 * perMinute.                       *)
ASSUME LimiterAssumption ==
    /\ Watched \in Principals
    /\ {Cost, Rate, Idle, MaxKeys} \subseteq Nat \ {0}
    /\ {Burst, MaxLag, MaxClock, MaxAllowed} \subseteq Nat
    /\ Burst >= Cost /\ Burst =< Rate * (Idle - MaxLag)
    /\ Absent \notin Buckets \union Calls \union Refusals

LimiterInit ==
    /\ clock = 0
    /\ bucket = [p \in Principals |-> Absent]
    /\ call = [r \in Arrivals |-> Absent]
    /\ allowed = << >> /\ forgot = 0 /\ back = 0
    /\ refused = Absent

ClockTicks ==
    /\ clock < MaxClock
    /\ \A r \in Arrivals : call[r] # Absent => clock < call[r].read + MaxLag
    /\ clock' = clock + 1
    /\ UNCHANGED <<bucket, call, history>>

(* A request has been authenticated as p's, and Allow has read the clock.  *)
Arrives(r, p) ==
    /\ call[r] = Absent
    /\ call' = [call EXCEPT ![r] = [principal |-> p, read |-> clock]]
    /\ UNCHANGED <<clock, bucket, history>>

-----------------------------------------------------------------------------
(* The critical section. *)

Kept == {p \in Principals : bucket[p] # Absent}
Stale(time) == {p \in Kept : time - bucket[p].seen > Idle}

(* sweepLocked: those that idle, and then one of the least recently seen   *)
(* if there are still too many.                                            *)
Evicted(time) ==
    LET left == Kept \ Stale(time) IN
    IF Cardinality(left) < MaxKeys
    THEN {{}}
    ELSE {{p} : p \in {q \in left : \A o \in left : bucket[q].seen =< bucket[o].seen}}

Least(a, b) == IF a < b THEN a ELSE b
Positive(a) == IF a > 0 THEN a ELSE 0

(* Variant: of credit only what makes whole requests. *)
RefilledWhole(old, time) ==
    [tokens |-> Least(Burst, old.tokens + Cost * ((Rate * Positive(time - old.seen)) \div Cost)),
     seen |-> time]

(* Variant: the time of a bucket is that of the last request allowed. *)
RefilledSince(old, time) ==
    LET tokens == Least(Burst, old.tokens + Rate * Positive(time - old.seen)) IN
    [tokens |-> tokens, seen |-> IF tokens >= Cost THEN time ELSE old.seen]

(* Credit for the time since, none for time gone back, up to Burst. *)
Refilled(old, time) ==
    [tokens |-> Least(Burst, old.tokens + Rate * Positive(time - old.seen)), seen |-> time]

(* Variant: rounded down. *)
WaitDown(tokens) == IF Cost - tokens < Rate THEN 1 ELSE (Cost - tokens) \div Rate

(* The ticks until the bucket holds Cost, and one at least. *)
Wait(tokens) == (Cost - tokens + Rate - 1) \div Rate

(* What sweepLocked may evict for p's entry, and all that it drops. *)
Evictions(p, time) == IF bucket[p] = Absent THEN Evicted(time) ELSE {{}}
Swept(p, time, out) == IF bucket[p] = Absent THEN Stale(time) \union out ELSE {}

(* The bucket as p's request finds it: a new one is full. *)
Filled(p, time) ==
    IF bucket[p] = Absent THEN [tokens |-> Burst, seen |-> time] ELSE Refilled(bucket[p], time)

Allows(p, time) == Filled(p, time).tokens >= Cost

(* A request that passes takes its token, one that is refused takes none.  *)
Settles(p, time, out) ==
    bucket' = [q \in Principals |->
                  IF q = p
                  THEN [Filled(p, time) EXCEPT !.tokens = @ - (IF Allows(p, time) THEN Cost ELSE 0)]
                  ELSE IF q \in Swept(p, time, out) THEN Absent ELSE bucket[q]]

(* What is remembered of Watched. *)
Remembers(p, time, out) ==
    /\ forgot' = forgot + (IF Watched \in out THEN 1 ELSE 0)
    /\ back' = back + (IF p = Watched /\ bucket[p] # Absent
                       THEN Positive(bucket[p].seen - time) ELSE 0)
    /\ IF p # Watched
       THEN UNCHANGED <<allowed, refused>>
       ELSE IF Allows(p, time)
       THEN /\ Len(allowed) < MaxAllowed
            /\ allowed' = Append(allowed, [at |-> time, forgot |-> forgot', back |-> back'])
            /\ refused' = Absent
       ELSE LET due == time + Wait(Filled(p, time).tokens) IN
            /\ allowed' = allowed
            /\ refused' = [at |-> time,
                           due |-> IF refused = Absent THEN due ELSE Least(refused.due, due)]

(* Allow, from the lock to its release. *)
Enters(r) ==
    /\ call[r] # Absent
    /\ \E p \in {call[r].principal}, time \in {call[r].read} :
       \E out \in Evictions(p, time) : Settles(p, time, out) /\ Remembers(p, time, out)
    /\ call' = [call EXCEPT ![r] = Absent]
    /\ UNCHANGED clock

LimiterNext ==
    \/ ClockTicks
    \/ \E r \in Arrivals : Enters(r) \/ \E p \in Principals : Arrives(r, p)

LimiterSpec == LimiterInit /\ [][LimiterNext]_limiterVars

-----------------------------------------------------------------------------
(* Properties. *)

(* The variables hold values of their types. *)
LimiterTypeOK ==
    /\ clock \in Instants
    /\ bucket \in [Principals -> Buckets \union {Absent}]
    /\ call \in [Arrivals -> Calls \union {Absent}]
    /\ allowed \in Seq(Entries) /\ refused \in Refusals \union {Absent}
    /\ forgot \in Nat /\ back \in Nat

(* The limit limits: in no stretch of requests are more allowed than Burst *)
(* and the rate over its time admit, whoever else calls, whichever buckets *)
(* are dropped for idling, and in whatever order the requests enter.  What *)
(* is credited twice is the time the bucket moved back, no more; and the   *)
(* stretch ends where the bucket was evicted for lack of room.             *)
WindowsBounded ==
    \A j \in DOMAIN allowed : \A i \in 1 .. j :
       allowed[i].forgot = allowed[j].forgot =>
          Cost * (j - i + 1) =<
             Burst + Rate * ((allowed[j].at + allowed[j].back) - (allowed[i].at + allowed[i].back))

(* It limits nobody else: whoever is refused has, since some request of    *)
(* his, been allowed as much as Burst and the rate admit.  Nobody starves  *)
(* by asking often, by others being busy or by entering out of order.      *)
RefusalsEarned ==
    refused # Absent =>
       \E i \in DOMAIN allowed :
          Cost * (Len(allowed) - i + 2) > Burst + Rate * (refused.at - allowed[i].at)

(* Retry-After is kept: who was told to wait, and waited, is not refused   *)
(* again unless a request of his was allowed in the meantime.              *)
RetryHonoured == refused # Absent => refused.at < refused.due

-----------------------------------------------------------------------------
(* The inductive invariant behind them. *)

(* The mutex is not waited for longer than MaxLag. *)
Punctual ==
    \A r \in Arrivals : call[r] # Absent => call[r].read =< clock /\ clock =< call[r].read + MaxLag

(* What the requests allowed since the i-th took, and when that one was.   *)
Spent(i) == Cost * (Len(allowed) - i + 1)
Mark(i) == allowed[i].at + allowed[i].back

(* What was taken since the i-th request and what is left are no more than *)
(* Burst and the rate give until the bucket was seen.  Without a bucket    *)
(* the rate alone has given it, before any request that enters from now.   *)
NeverTooMuch ==
    \A i \in DOMAIN allowed :
       /\ allowed[i].forgot =< forgot
       /\ allowed[i].forgot = forgot =>
             IF bucket[Watched] = Absent
             THEN Spent(i) =< Rate * (clock - MaxLag + back - Mark(i))
             ELSE Spent(i) + bucket[Watched].tokens =<
                     Burst + Rate * (bucket[Watched].seen + back - Mark(i))

(* A bucket is full, or since some request it has lost no more than the    *)
(* requests allowed took.                                                  *)
NeverTooLittle ==
    bucket[Watched] # Absent =>
       \/ bucket[Watched].tokens = Burst
       \/ \E i \in DOMAIN allowed :
             Spent(i) + bucket[Watched].tokens >= Burst + Rate * (bucket[Watched].seen - allowed[i].at)

(* When the retry that was advised is due, the bucket holds a request.     *)
Promised ==
    (refused # Absent /\ bucket[Watched] # Absent) =>
       bucket[Watched].tokens + Rate * (refused.due - bucket[Watched].seen) >= Cost

LimiterIInv ==
    /\ LimiterTypeOK /\ Punctual /\ NeverTooMuch /\ NeverTooLittle /\ Promised
    /\ WindowsBounded /\ RefusalsEarned /\ RetryHonoured
=============================================================================
