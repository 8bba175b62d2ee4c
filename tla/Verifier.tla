------------------------------ MODULE Verifier ------------------------------
(***************************************************************************)
(* The key cache of internal/oidc/verifier.go, behind the authentication   *)
(* of people (main.go) and of services (service.go).                       *)
(*                                                                         *)
(* A token is checked with a key of the identity provider.  Core keeps the *)
(* set it fetched last and uses it for CacheTTL.  A token that names a key *)
(* the set lacks makes Core fetch again, at most once in RefreshEvery; the *)
(* fetch runs outside the mutex, so two of them overlap, fail, or end in   *)
(* the other order.  Meanwhile the provider publishes and withdraws keys.  *)
(*                                                                         *)
(* Time is counted in ticks; a fetch takes Timeout at most, and the steps  *)
(* after its answer has been read take none.  Signatures and claims are    *)
(* one bit of a token: whether it is sound for the key that signed it.     *)
(***************************************************************************)
EXTENDS Integers, FiniteSets

CONSTANTS Requests,      \* the requests being authenticated
          Keys,          \* the keys the provider has or will have
          Unnamed,       \* those it publishes without a kid
          Unusable,      \* those parseJWKS passes over: "enc", weak, unknown
          FirstKeys,     \* those published when Core starts
          Presented,     \* bound: the tokens that are presented
          CacheTTL,      \* how long a set is used
          RefreshEvery,  \* how often an unknown kid may cause a fetch
          Timeout,       \* how long a fetch may take
          MaxTime,       \* bound: the clock
          Never          \* the zero time.Time

VARIABLES now,       \* the clock
          since,     \* when the provider began to publish a key
          gone,      \* when it ceased to
          keys,      \* Verifier.keys; no two of its members share a kid
          fetchedAt, \* Verifier.fetchedAt; Never while keys is nil
          lastKid,   \* Verifier.lastKidRefresh
          found,     \* whether Verifier.jwksURI is known
          job,       \* the requests
          answer,    \* history: what this step answered, and for which token
          trouble    \* history: when a fetch last failed, or undid another

core == <<keys, fetchedAt, lastKid, found>>
provider == <<since, gone>>
cacheVars == <<now, provider, core, job, answer, trouble>>

Times == 0 .. MaxTime
Stamps == Times \union {Never}

(* A token: the key that signed it, whether its header says which, and     *)
(* whether signature, issuer, audience, expiry and the rest would pass.    *)
Tokens == {t \in [key : Keys, named : BOOLEAN, sound : BOOLEAN] :
              t.named => t.key \notin Unnamed}

(* What the cache is set up with.                                          *)
ASSUME CacheAssumption ==
    /\ Unnamed \subseteq Keys /\ Unusable \subseteq Keys /\ FirstKeys \subseteq Keys
    /\ Presented \subseteq Tokens
    /\ {CacheTTL, RefreshEvery, Timeout} \subseteq Nat \ {0}
    /\ MaxTime \in Nat /\ Never \notin Nat

Verdicts == {"accepted", "refused", "unavailable"}
Answers == [verdict : Verdicts, token : Tokens]

Fetches == [phase : {"discovering", "fetching", "served"}, token : Tokens,
            began : Times, got : SUBSET Keys]

NoJob == [phase |-> "idle"]
Nothing == [verdict |-> "none"]

Fetching(r) == job[r] # NoJob

Published == {k \in Keys : since[k] # Never /\ gone[k] = Never}

CacheInit ==
    /\ now = 0
    /\ since = [k \in Keys |-> IF k \in FirstKeys THEN 0 ELSE Never]
    /\ gone = [k \in Keys |-> Never]
    /\ keys = {} /\ fetchedAt = Never /\ lastKid = Never /\ found = FALSE
    /\ job = [r \in Requests |-> NoJob]
    /\ answer = Nothing /\ trouble = Never

-----------------------------------------------------------------------------
(* The provider and the clock. *)

Tick ==
    /\ now < MaxTime
    /\ \A r \in Requests : Fetching(r) => now < job[r].began + Timeout
    /\ now' = now + 1 /\ answer' = Nothing
    /\ UNCHANGED <<provider, core, job, trouble>>

Publish(k) ==
    /\ since[k] = Never
    /\ since' = [since EXCEPT ![k] = now] /\ answer' = Nothing
    /\ UNCHANGED <<now, gone, core, job, trouble>>

Withdraw(k) ==
    /\ k \in Published
    /\ gone' = [gone EXCEPT ![k] = now] /\ answer' = Nothing
    /\ UNCHANGED <<now, since, core, job, trouble>>

-----------------------------------------------------------------------------
(* What the code decides by. *)

(* parseJWKS: entries that cannot check a signature are passed over, and   *)
(* of those without a kid the last one is kept.                            *)
Parsed(served) ==
    LET usable == served \ Unusable IN
    {s \in SUBSET usable :
        /\ usable \ Unnamed \subseteq s
        /\ Cardinality(s \intersect Unnamed) = IF usable \intersect Unnamed = {} THEN 0 ELSE 1}

(* keys[kid], as a set of at most one key. *)
Lookup(set, token) ==
    IF token.named THEN set \intersect {token.key} ELSE set \intersect Unnamed

(* The key taken after a fetch: a token without a kid may use the only one. *)
LookupFetched(set, token) ==
    IF Lookup(set, token) = {} /\ ~token.named /\ Cardinality(set) = 1
    THEN set
    ELSE Lookup(set, token)

(* Verify, once keyFor has found something or nothing. *)
Verdict(token, found_) ==
    IF token.key \in found_ /\ token.sound THEN "accepted" ELSE "refused"

Fresh == fetchedAt # Never /\ now - fetchedAt < CacheTTL

Throttled == lastKid # Never /\ now - lastKid < RefreshEvery

Says(verdict, token) == answer' = [verdict |-> verdict, token |-> token]

-----------------------------------------------------------------------------
(* A request. *)

(* The token's key is in a set that is fresh. *)
Hits(token) ==
    /\ Fresh /\ Lookup(keys, token) # {}
    /\ Says(Verdict(token, Lookup(keys, token)), token)
    /\ UNCHANGED <<now, provider, core, job, trouble>>

(* Variant: every refusal starts the window again. *)
RefusesAndArms(token) ==
    /\ Fresh /\ Lookup(keys, token) = {} /\ Throttled
    /\ Says("refused", token)
    /\ lastKid' = now
    /\ UNCHANGED <<now, provider, keys, fetchedAt, found, job, trouble>>

(* It is not, and another such token was believed a moment ago. *)
Refuses(token) ==
    /\ Fresh /\ Lookup(keys, token) = {} /\ Throttled
    /\ Says("refused", token)
    /\ UNCHANGED <<now, provider, core, job, trouble>>

(* It is not, and this one is believed; or there is no fresh set.  The     *)
(* window starts before the fetch does.                                    *)
BeginsFetch(r, token) ==
    /\ Fresh => Lookup(keys, token) = {} /\ ~Throttled
    /\ lastKid' = IF Fresh THEN now ELSE lastKid
    /\ job' = [job EXCEPT ![r] = [phase |-> IF found THEN "fetching" ELSE "discovering",
                                  token |-> token, began |-> now, got |-> {}]]
    /\ answer' = Nothing
    /\ UNCHANGED <<now, provider, keys, fetchedAt, found, trouble>>

Asks(r) ==
    /\ ~Fetching(r)
    /\ \E token \in Presented :
          Hits(token) \/ Refuses(token) \/ BeginsFetch(r, token)

Phase(r, phase) == Fetching(r) /\ job[r].phase = phase

(* The discovery document is read and found good. *)
Discovers(r) ==
    /\ Phase(r, "discovering")
    /\ job' = [job EXCEPT ![r].phase = "fetching"] /\ answer' = Nothing
    /\ UNCHANGED <<now, provider, core, trouble>>

(* The provider answers with what it publishes at that moment. *)
Serves(r) ==
    /\ Phase(r, "fetching")
    /\ \E set \in Parsed(Published) :
          /\ set # {}
          /\ job' = [job EXCEPT ![r].phase = "served", ![r].got = set]
    /\ answer' = Nothing
    /\ UNCHANGED <<now, provider, core, trouble>>

(* The answer becomes the cache, whatever became it in the meantime. *)
Stores(r) ==
    /\ Phase(r, "served")
    /\ keys' = job[r].got
    /\ fetchedAt' = now
    /\ found' = TRUE
    /\ Says(Verdict(job[r].token, LookupFetched(job[r].got, job[r].token)), job[r].token)
    /\ job' = [job EXCEPT ![r] = NoJob]
    /\ trouble' = IF (keys \intersect Published) \subseteq job[r].got THEN trouble ELSE now
    /\ UNCHANGED <<now, provider, lastKid>>

(* Variant: what is cached goes on being used when it cannot be renewed. *)
FailsSoftly(r) ==
    /\ Phase(r, "discovering") \/ Phase(r, "fetching")
    /\ Says("unavailable", job[r].token)
    /\ job' = [job EXCEPT ![r] = NoJob]
    /\ fetchedAt' = IF fetchedAt = Never THEN Never ELSE now
    /\ trouble' = now
    /\ UNCHANGED <<now, provider, keys, lastKid, found>>

(* The provider is down, slow, redirected, or publishes nothing usable; or *)
(* the caller hung up, which ends the fetch as well.                       *)
Fails(r) ==
    /\ Phase(r, "discovering") \/ Phase(r, "fetching")
    /\ Says("unavailable", job[r].token)
    /\ job' = [job EXCEPT ![r] = NoJob]
    /\ trouble' = now
    /\ UNCHANGED <<now, provider, core>>

CacheNext ==
    \/ Tick
    \/ \E k \in Keys : Publish(k) \/ Withdraw(k)
    \/ \E r \in Requests :
          Asks(r) \/ Discovers(r) \/ Serves(r) \/ Stores(r) \/ Fails(r)

CacheSpec == CacheInit /\ [][CacheNext]_cacheVars

-----------------------------------------------------------------------------
(* Properties. *)

(* The variables hold values of their types. *)
CacheTypeOK ==
    /\ now \in Times
    /\ since \in [Keys -> Stamps] /\ gone \in [Keys -> Stamps]
    /\ keys \subseteq Keys /\ found \in BOOLEAN
    /\ fetchedAt \in Stamps /\ lastKid \in Stamps /\ trouble \in Stamps
    /\ job \in [Requests -> Fetches \union {NoJob}]
    /\ answer \in Answers \union {Nothing}

(* A key the provider has withdrawn is of no use once CacheTTL and the     *)
(* time of one fetch have passed: no failure to renew the set, no fetch    *)
(* overtaken by another and no stream of unknown kids keeps it alive.      *)
WithdrawnKeysDie ==
    \A t \in Tokens :
       (answer = [verdict |-> "accepted", token |-> t] /\ gone[t.key] # Never) =>
          now < gone[t.key] + CacheTTL + Timeout

(* Reasons for which a good token may be refused now: its key is newer     *)
(* than the window or than a fetch, a fetch is under way, or one failed or *)
(* undid another within the window.                                        *)
Excused(token) ==
    \/ now < since[token.key] + RefreshEvery \/ now =< since[token.key] + Timeout
    \/ \E r \in Requests : Fetching(r)
    \/ trouble # Never /\ now < trouble + RefreshEvery

Turned(token) == answer = [verdict |-> "refused", token |-> token] /\ token.sound

(* Rotations are picked up: a sound token that names a published key is    *)
(* refused only for one of those reasons, whatever tokens with unknown     *)
(* kids arrive and however often the set was fetched before.  keyFor keeps *)
(* lastKidRefresh apart from fetchedAt for this.                           *)
RotationsTake ==
    \A t \in Tokens :
       (Turned(t) /\ t.named /\ t.key \in Published \ Unusable) => Excused(t)

-----------------------------------------------------------------------------
(* The inductive invariant behind them. *)

(* No moment is still to come, and no fetch outlasts its timeout. *)
InTime ==
    /\ \A m \in {fetchedAt, lastKid, trouble} : m # Never => m =< now
    /\ \A k \in Keys : \A m \in {since[k], gone[k]} : m # Never => m =< now
    /\ \A r \in Requests : Fetching(r) => job[r].began =< now /\ now =< job[r].began + Timeout

(* What a fetch has got was published after it began, and what is cached   *)
(* was published no longer before it was stored than a fetch takes.        *)
FetchedWasPublished ==
    \A r \in Requests : Fetching(r) =>
       \A k \in job[r].got : gone[k] # Never => job[r].began =< gone[k]

CachedWasPublished ==
    \A k \in keys : fetchedAt # Never /\ (gone[k] # Never => fetchedAt =< gone[k] + Timeout)

(* The keys that a token may name. *)
Nameable == Published \ (Unusable \union Unnamed)

(* An answer lacks of them only what is newer than the fetch. *)
FetchesAll ==
    \A r \in Requests : Phase(r, "served") =>
       \A k \in Nameable \ job[r].got : job[r].began =< since[k]

(* Since the window began, a fetch that began with it or later is under    *)
(* way, or one failed or undid another, or the cache lacks only newer keys.*)
WindowKept ==
    lastKid # Never =>
       \/ \E r \in Requests : Fetching(r) /\ lastKid =< job[r].began
       \/ trouble # Never /\ lastKid =< trouble
       \/ \A k \in Nameable \ keys : lastKid =< since[k]

CacheIInv ==
    /\ CacheTypeOK /\ InTime /\ FetchedWasPublished /\ CachedWasPublished /\ FetchesAll /\ WindowKept
    /\ WithdrawnKeysDie /\ RotationsTake

-----------------------------------------------------------------------------
(* What documents say and the code does not do. *)

(* verifier.go:263, "A key set with exactly one key and a token with no    *)
(* kid is the common single-key deployment": such a token is refused only  *)
(* for a reason for which one that names the key is.  But the fallback is  *)
(* taken after a fetch only: while the cache is fresh the key is not under *)
(* the empty kid, and the second such token in RefreshEvery is refused.    *)
SingleKeyTakes ==
    \A t \in Tokens :
       (Turned(t) /\ Keys \ Unusable = {t.key} /\ t.key \in Published) => Excused(t)
=============================================================================
