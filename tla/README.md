# Formal model of bsystem-integration-core

TLA+ modules that model the parts of the BSYSTEM integration core whose
correctness depends on interleavings, failures and order, TLC instances that
check them, and TLAPS proofs of what holds for every value of the constants.
Paths below are relative to `src/`.

## 1. The system

One Go process, the *Core* (`cmd/server`), serves the HTTP API. Several Cores may
share one PostgreSQL database; each also talks to a NATS/JetStream broker, an OIDC
provider, an Authentik administration API and business systems (Redmine,
EspoCRM, Outline, OpenSearch, AI providers). A Core keeps little state of its own;
the database is what the Cores share and what survives them.

| Component | State | Operations | Interacts with |
|---|---|---|---|
| Global IDs and identities (`internal/platformdb/db.go`, `identity.go`, `service_identity.go`) | `global_entities`, `identities`, `service_identities`, `global_id_counters`; row and advisory locks; the connection pool | allocate one, map a page, ensure an identity at sign-in, look up | outbox (a row in the same transaction), every component that names things |
| Outbox (`internal/platformdb/outbox.go`, `cmd/server/outbox.go`) | `event_outbox` rows; the batch and JetStream handle of each Core | enqueue, claim, publish, mark, restart | broker; transactions that enqueue |
| Circuit breaker and client (`internal/adapters/httpx`) | breaker state, counters, episode; attempts of each call | Allow, Succeed, Fail, retry | business adapters |
| Support (`internal/support`, `internal/platformdb/support.go`, `cmd/server/support.go`) | `support_records`, `support_relations`, SLA policies | create, update, evaluate SLA, announce | Global IDs, notifications, broker |
| Module catalogue and migrations (`db.go`, `modules_admin.go`, `cmd/server/admin_modules.go`) | `modules`, `role_modules`, `schema_migrations`; the migration lock | create, patch, list; replay of every migration at start | access |
| Access (`rbac.go`, `internal/authz`, the handlers that ask them) | roles, permissions, mappings, scope grants, owners of records | resolve a caller, evaluate, grant, withdraw | every handler |
| Search (`internal/search`, `cmd/server/search.go`), AI gateway (`cmd/server/ai.go`) | the index | index, search page by page; assemble context | access |
| Administrator accounts (`cmd/server/admin_accounts.go`, `internal/authentikadmin`) | accounts and groups at authentik; a session advisory lock | create, update, set password | authentik |
| OIDC verifier (`internal/oidc`) | key cache and refresh throttle | verify, refresh | OIDC provider; every request |
| Rate limiter (`internal/ratelimit`, `cmd/server/ratelimits.go`) | token buckets | allow, sweep | every request |
| Relationships (`internal/platformdb/relationships.go`, `cmd/server/relationships.go`) | edges | create, look up, list, delete | Global IDs, outbox, audit |
| Operations, notifications (`operations*.go`, `notifications.go`, `internal/operations`, `internal/notifications`) | servers and reports; notifications and read marks | register, report; notify, list, mark read | Global IDs, broker, access |
| Adapters, audit, observability, lifecycle, tools | logs, counters | mostly transformation and I/O | |

Communication is by direct call inside a Core, by rows between Cores, and by
events on the broker: *durable* ones through the outbox, the rest published at
most once after the commit (support events, for example).

### What is hard here

* **Concurrency through the database.** All mutual exclusion between requests is
  `FOR UPDATE`, `SKIP LOCKED`, unique constraints and advisory locks at READ
  COMMITTED; handlers often check what they read before the transaction that
  writes.
* **Failure between two steps.** A Core may die or lose its connection after any
  statement; a commit may succeed without its caller being told.
* **At-least-once delivery.** Acknowledgements get lost, a row becomes due again
  while a slow Core still holds it.
* **Late results.** Calls admitted by the circuit breaker report after the circuit
  has moved on; transactions carry the time they began at.
* **Waiting.** Pooled connections, row locks and advisory locks are waited for
  without a bound.

### What makes each component correct

* Global IDs: one identifier per source record, never reused, every answer durable,
  an allocation announced once and only if committed, no requests that wait for one
  another in a circle, but for losers of a race that hold a whole pool (section 5).
* Outbox: an event is recorded as delivered only if the broker holds it, each
  attempt is spent by one Core, retrying is bounded, and every row is settled.
* Breaker: a transition is decided by evidence of the current episode only; probes
  are bounded; it closes again when the upstream is well.
* Support: SLA moments are recorded once, never moved and never contradict the
  status; time alone never improves an SLA state; a resolution is announced by the update
  that brings it about, and twice only by updates that overlap.
* Module catalogue: what is visible has a status of the vocabulary and is meant to
  be visible, and what is active is visible, but for two modules that a migration
  retires; a replay changes nothing twice; startup ends.
* Access: what somebody is shown, one single state of roles, permissions and grants
  during his request allowed, unless his roles change between the two queries that resolve
  him (section 5); a search can be walked to its end; the audit trail tells which grants are
  in force.
* Accounts: an active administrator always remains; service identities and, for
  delegates, administrators are left alone; a half-made account cannot sign in; the
  lock comes free.
* Verifier: a withdrawn key dies within a known time; a rotation is picked up.
  Limiter: over no stretch is more admitted than burst and rate, and nobody is
  refused who has not used up his own allowance.
* Relationships: events tell the table; every answer was true at some time of its
  request.
* Operations: a server's status is that of a stored report; a notification has a
  stored report behind it and is not milder than it; a walk by cursors misses nothing.

## 2. Modules

| Module | Models | Used by |
|---|---|---|
| `DurableDelivery` | what the outbox promises, without claims or retries | refined by `Outbox` |
| `Outbox` | `event_outbox`, the delivery loop of every Core, the broker | `MCOutbox`, `OutboxProofs` |
| `IdDirectory` | what Global IDs promise, without transactions | refined by `GlobalIDs` |
| `GlobalIDs` | the allocation transactions, locks and pool | `MCGlobalIDs`, `GlobalIDsProofs` |
| `Breaker` | the circuit breaker under concurrent calls | `MCBreaker`, `RequestProofs` |
| `Support` | support records, their updates and SLA | `MCSupport`, `SupportProofs` |
| `ModuleCatalog` | the module catalogue, its administration and the replay of the migrations at every start | `MCModuleCatalog`, `ModuleCatalogProofs` |
| `Accounts` | requests on accounts at authentik, under the advisory lock | `MCAccounts`, `AccountsProofs` |
| `Relationships` | transactions on edges, their events and answers | `MCRelationships`, `RelationshipsProofs` |
| `Operations` | servers, reports, notifications and their readers | `MCOperations`, `OperationsProofs` |
| `Verifier` | the key cache between requests and the identity provider | `MCVerifier`, `RequestProofs` |
| `RateLimit` | the buckets of one limiter | `MCRateLimit`, `RequestProofs` |
| `Access` | reads through endpoint, listing, gateway and search while rights change | `MCAccess`, `RequestProofs` |

`MC*` modules instantiate a module for TLC; `*Proofs` modules hold its theorems.
`RequestProofs` holds those of the four components a request passes on its way through a
Core.
Operators whose comment starts with "Variant:" are plausible wrong versions of the
definition that follows them. They are not part of the specification: substituting
one for the definition makes the property that guards it fail, which is how each
property was shown to depend on the code.

### Outbox

A row is a member of `queued`; its columns are `attempts`, `due`
(`next_attempt_at <= now()`), `failed`, `delivered`, `errored`. A Core's pass is
`pc`/`held`/`ticket`; `ready` is the `jetStreamPublisher` handle.

| Action | Code |
|---|---|
| `Enqueue` | `enqueueEvent`, at the commit of the transaction it joined |
| `ClaimSelect`, `ClaimCommit`, `ClaimFails` | `ClaimDueEvents`: the `SELECT ... FOR UPDATE SKIP LOCKED`; the `UPDATE` and commit; a failure, which may have committed |
| `PublishAcked`, `PublishRefused`, `PublishAckLost` | `PublishEvent`: ensure the stream, publish, wait for the acknowledgement |
| `MarkOK`, `MarkFails` | `MarkDelivered`, `MarkAttemptFailed`, and their failure, which ends the pass |
| `Crash`, `Restart`, `StreamLost` | the process dies or comes back; the broker is replaced |
| `BackoffElapses` | time; any delay, also while the row is still held |

`ImplementsContract` is the refinement to `DurableDelivery`: accepted events are
queued rows, confirmed ones delivered rows, given up ones failed rows.

### GlobalIDs

Transactions run statement by statement. A `SELECT` sees what is committed, the
`UPDATE` of the counter holds the counter row until the end, writes take effect at
the commit. `pc` names the statement a request is at; `Holders` are the requests
with a pooled connection. `op` is `create` (`CreateGlobalEntity`), `map`
(`MapGlobalIDs`, a loop of the former) or `identity` (`EnsureIdentity`, under the
advisory lock of its subject; `EnsureServiceIdentity` is the same steps). The loser
of the unique constraint (`Reread`) asks for a second connection while it keeps its
first, as `globalEntityBySource` does. `Fails` rolls back at any statement,
`CommitUnknown` is a commit whose answer is lost. `ImplementsDirectory` refines
`IdDirectory`: a number is minted for a record once, announced with it, and every
answer names the number the record has. `Blockers` are the requests one waits for: who
holds the counter row or the lock of its subject, or all who hold a connection of its Core's
exhausted pool. `Deadlocked` says of some requests that each waits for some of them and for
nobody else. `Calls` bounds what is asked for.

### Breaker

Episodes are abstracted to whether a call's ticket is still `current`; the clock to
whether the open period has `expired`. `Call` is `Allow` (in its three branches) and
the start of `Client.Do`; `Answer` and `Retry` its attempts and backoff; `Report` the
one call of `Succeed` or `Fail`. `sawUp` and `sawDown` remember what the upstream
really was, for the properties only; no guard reads them.

### Support

`record` are the rows, `job` each request in progress. `Allocate` and `Insert` are
`createSupportRecord`; `Read`, `Begin` and `Write` are `updateSupportRecord`: reading
and checking the transition, opening the transaction (whose start is what
PostgreSQL's `now()` returns), and the unconditional `UPDATE`; `Announce` is
`publishSupportEvent`; `Stops` is any error or crash before it. `overtaken` is history:
how other updates changed the record's status since this one read it (`moved` it, to
`resolved`, or away from it, `left`). No action's guard reads it; `LifecycleHeld` and
`ResolutionAnnounced` use it to say exactly how far the unguarded `UPDATE` and the event
decided from the earlier read can be relied upon.

### ModuleCatalog

`catalog` are the rows of `modules` with their grants in `role_modules`
(`updated_by` is whether a person wrote the row), `ledger` is `schema_migrations`,
`lock` the advisory lock, `at` the file each Core is at.

| Action | Code |
|---|---|
| `Start`, `TakeLock`, `Finish` | `Open`, `withMigrationLock` and their return; from then on the Core serves |
| `Apply`, `Record` | one turn of the loop of `migrate`: the file, and its row in the ledger |
| `Stop` | an error anywhere in them, or the death of the process; `Released` is the deferred unlock or the end of the session |
| `Create`, `Update` | `CreateAdminModule` and `UpdateAdminModule`, each one transaction; some Core must be serving |

`Effect` is what each of the seven files that write the catalogue does to it:
`Seeded` (001), `Granted` (003, 015, 017), `Registered` (013, 016), `Hidden` (the second
statement of 013), `Normalised` (018). The modules are sets named for how they come about:
`Legacy` (seeded by 001), `Derived` (redmine and outline), `Direct` (nextcloud) and `Custom`
(created by an administrator), of which `Retired` are demo-a and demo-b, which 013 disables.
A Core that stops forgets its build and its place in the replay (`SomeBuild`). `Apply` needs
a pool of two connections, since the lock occupies one: with `DATABASE_MAX_CONNS`
of 1, which `intFromEnv` accepts, no start ever ends.
Six history variables (`unfinished` ... `unrecorded`) only serve the properties. A
statement that a stopped Core left running is taken to end before another session
gets the lock.

### Accounts

`users` are the accounts authentik holds, `lock` is `userAdminAdvisoryLock`, a lock of a
database session, and `job` each request: what it wants, what it read and the call it
has sent. A call given up after the client's ten seconds is in `adrift` and may be
applied at any later time, or never. `late` remembers that some call was applied
without the lock; no guard reads it.

| Action | Code |
|---|---|
| `Asks`, `TakesLock`, `GivesUp` | the handler up to `WithAdvisoryLock`, its wait, and the wait's end by the context |
| `ChecksName` | `adminCreateAccount`: the comparison with every username, by `EqualFold` |
| `Reads`, `Counts` | the account as it is with the checks on it; the count of active administrators |
| `Applies`, `Answered` | authentik applies one call (`creating`, `setting`, `activating`, `patching`); its answer and the next call |
| `Fails`, `Leaves` | any error or timeout; the unlock |
| `SessionLost`, `StrayApplies`, `StrayLost` | the session ends under its request; a call given up is applied or not |

### Relationships

`edges` are the committed rows, `events` the outbox rows with their audit entry, each with
the number its sequence gave it; both sequences give every number once. A request is a
transaction at READ COMMITTED: `Inserts` waits for whoever has the same edge uncommitted
(`Awaited`, the unique index), `Selects` is the second statement after a conflict,
`DeletesRow`, `Records` (audit and outbox), `Commits`, whose answer may be lost, and
`Fails`. `LooksUp` is one statement. Both spellings of an edge are normalised by
`Normal`, and `Views` is what a listing shows from each end. `seen` is history: the rows
that were committed at some time during a request.

### Operations

| Action | Code |
|---|---|
| `Registers` | `RegisterServer`, which leaves an existing server's status alone |
| `ReportArrives` | `serviceReportOperationsEvent` up to the transaction: vocabulary, severity, server |
| `Inserts`, `Updates`, `Commits`, `Fails` | `InsertOperationsEvent`: the report, the server's row under its lock, the commit with or without its answer |
| `Announces`, `Publishes` | the notification of a report; of an event from outside, or direct |
| `StartsWalk`, `AsksNextPage`, `ListsPage` | the list of notifications: authority resolved, then one page by the cursor |
| `MarksRead`, `AuthorityChanges` | the read mark; roles given and withdrawn |

`walk` is a reader's pages from the first to the last; `due` is history: what was there for
him at the start and stayed.

### Verifier

`keys`, `fetchedAt`, `lastKid` and `found` are the fields of the cache. `Hits`, `Refuses`
and `BeginsFetch` are the branches of `keyFor`; `Discovers`, `Serves`, `Stores` and `Fails`
are `refresh`, outside the mutex until it stores. `Publish` and `Withdraw` are the
provider. `answer` and `trouble` are history. A request that fails by an error answers
`unavailable`, one without its key `refused`.

### RateLimit

`Arrives` reads the clock; `Enters` is the critical section of `Allow`: `sweepLocked`
(`Stale`, `Evicted`, together `Swept`), the new or refilled bucket (`Filled`), the decision
(`Allows`, `Settles`) and `Retry-After` (`Wait`). `Remembers` is history.
A request enters at most `MaxLag` after its reading of the clock, in any order with
others. Amounts are whole: `Cost` is the token, `Rate` what a tick gives. History is kept
for one principal, who may be any; it says how far his bucket moved back in time and how
often it was evicted.

### Access

`held` (roles by the caller's groups), `grants`, `owner` and `index` are the tables. A request
`req` is one of `getServer`/`getSupportRecord` (`record`), a listing (`collection`), the
AI gateway, or a search.

| Action | Code |
|---|---|
| `ReadsRoles`, `LosesGroups`, `ReadsPermissions` | `ResolveAccess`, a query each |
| `Authorizes`, `MeetsGate`, `LooksUp`, `Assembles` | the gate of the endpoint, the record, the gateway's rule for its fragment |
| `Searches`, `Pages` | the hits behind the narrowing by permission; the cursor after the page |
| `PassesAtOnce`, `AsksGrants`, `Decides` | `authz.Evaluate`, with one `HasScopedPermission` per candidate |
| `AsksEdit`, `Writes`, `Audits`, `Commits`, `Refused` | granting and revoking, a statement of the transaction each |
| `RolesChange`, `OwnerChanges`, `Indexes` | what changes under a request |

`saw` collects, during a request, the states it lived through (the caller's roles and his
grants, each as they stood together), `Entitles` says which of them allow a scope, and `torn`
of a verdict that the permissions read are not those of the roles read. `walk` is the
caller's pages of one search. All are history, but for the cursor in `walk`. `Ranking` gives
the order in which a provider returns each set of documents, and is any that repeats nothing;
`HitsFrom` is the window at an offset.

## 3. Runs

| Run | Instance | Shows |
|---|---|---|
| `outbox` | 2 Cores, 2 events, 3 attempts, batch 2, 2 faults, with fairness | attempts exclusive, deliveries final, the delivery contract; every row settled, one fault never costs a delivery |
| `ids` | 3 requests, one of one Core and two of another, 2 records, pools of 2 | durable answers, announcements, no circular wait but of losers in a full pool, the directory |
| `breaker` | 3 callers, threshold 2, 2 probes, 2 attempts | transitions by current evidence only; recovery under fairness |
| `support` | 2 requests, 1 record, 2 severities, clock 0..3 | moments, SLA, lifecycle, events |
| `catalog` | 2 Cores, 2 builds, 3 starts, 2 changes, one module of each kind, a retired one among them | vocabulary, launcher, ledger, replays; starts end under fairness |
| `accounts` | 2 requests, 2 administrators, a service account of their group, 2 free keys, 1 fault, with fairness | the last administrator, service identities, usernames, failed creations; requests end |
| `relationships` | 3 requests, 2 Global IDs and an unknown one, a directed relation and an undirected one, 4 changes | events tell the table, answers are true |
| `operations` | 2 reports, 1 server, 3 events, 2 notifications, 1 reader, pages of 1 | status explained, notifications backed, walks complete |
| `verifier` | 2 requests, 2 keys, cache of 3, throttle of 2, fetch of 1, clock 0..4 | withdrawn keys die, rotations take |
| `ratelimit` | 2 requests, 3 principals, 2 buckets, cost 3, rate 2, burst 4, lag 1, clock 0..5 | the limit limits, and nobody else |
| `access` | 1 caller, 2 roles, 1 client, a server and an incident, 2 administrators, 2 changes, pages of 1 | reads entitled by one state, searches complete, trail true |
| `access_find_states` | the same with one change | finding: a caller is shown what no state of the tables allows |

Ten more configurations are meant to be run by hand. `MCGlobalIDsLive` (3 requests, 1
record, fairness) passes: every call ends (`CallsEnd`). The others each violate one
statement of the documents, described in section 5: `MCOutboxFindCrash`,
`MCGlobalIDsFindWait`, `MCBreakerStuck`, `MCSupportFindClosed`,
`MCModuleCatalogFindRestart`, `MCModuleCatalogFindHidden`, `MCAccountsFindLate`,
`MCVerifierFindSingle`, `MCAccessFindGateway`.

**Bounds and why they suffice.** The races are between two parties over one row, and
two Cores, two or three requests and one or two records are enough for each. A third
request in `GlobalIDs` lets the winner of a race be in another Core than two losers who
hold both connections of their own, or a winner, a loser and a bystander compete for them;
`Calls` offers a page of both records, one of them alone, and the other as an identity. In
`Relationships` it deletes what the second creates again while the first is between its two
statements. Three attempts separate the first, a middle and the last one, and
`MaxFaults` of two allows a failure in each of two passes, or two in one. Threshold and
probes of two distinguish "one more" from "the last". The support clock runs to 3 so
that with a resolution target of 2 units a record is seen on track, at risk (four
fifths) and breached. Two Cores and three starts are a start over an empty database, one
that dies or overlaps it, and one after both; two changes by an administrator are a
module created and then activated, and a change at any point of a replay. He changes one
module of each kind but `Direct` (`Administered`), which the files treat as they do a
derived one from its registration on. In `Accounts` two administrators are the
fewest of whom two requests can remove both; a service account of their group would be
miscounted. In `Operations` a page of one notification puts every event between pages; two
events with tables that disagree both ways tell the tables apart. In `Verifier` the clock
runs past cache and fetch time, so that a key withdrawn at once is seen to die; one key
without a kid takes the fallback. In `RateLimit` two buckets for three principals force
evictions; with a cost of 3, a rate of 2 and a burst of 4 nothing divides evenly, so
rounding shows. In `Access` one page shows one of two hits, so every walk has a cursor; two
changes are enough to give a right and to take it. The counters (`MaxTime`, `MaxFaults`,
`MaxAsks`, `MaxReports`, `MaxNotices`, `MaxAllowed`, `MaxStarts`, `MaxEdits`, `MaxChanges`) are
bounds of the models; the proofs hold for every value of them.

Symmetry is used only in runs without liveness properties and only over values nothing
orders (requests, handlers, principals). Deadlock is checked where the system cannot stop
(`GlobalIDs`, `Breaker`, `Accounts`, `Relationships`, `Operations`). `Outbox` stops when every
row is settled, `ModuleCatalog` when its starts and changes are spent, `Support`,
`Verifier` and `RateLimit` when the clock has reached its bound, and `Access` when its
changes are spent and its history is full; their configurations say `CHECK_DEADLOCK FALSE`.

**Fairness.** `Outbox`: a running Core keeps delivering (the ticker of `runOutbox`), a
stopped one is restarted, backoffs elapse; nothing forces an enqueue or a fault.
`GlobalIDs` (`CallsEnd`): the next statement of a transaction is executed when the lock or
the connection it needs is free, and PostgreSQL's lock queues and the pool's waiting list
serve waiters in order (strong fairness on taking them). `Breaker`: calls end because
every attempt has a timeout, the clock runs, and the adapter keeps being used;
nothing is assumed of the upstream. `ModuleCatalog`: a starting Core executes its
statements and advisory locks are granted in order; it may still stop anywhere.
`Accounts`: a request that has begun goes on, since every call has a timeout, and the
advisory lock is granted in order; nothing forces anybody to ask. The other modules have
no liveness property: a request that stops half-way is simply not made, and what must
come in the end (a rotation, an allowance) is stated with its deadline as an invariant.

## 4. Proofs

All of the following hold for every value of the constants that satisfies the named
assumptions (`...Assumption` in each module: finite sets of callers, positive
thresholds, pool size and attempts, targets that are natural numbers).

`RequestProofs` extends four components at once, which is why the definitions of `Verifier`,
`RateLimit` and `Access` that every module has carry a prefix (`CacheSpec`, `LimiterSpec`,
`GateSpec`). What these three assume of their constants: of the verifier, that its times are
positive (`CacheAssumption`); of the limiter, that a bucket holds one request (a burst is a
whole number of requests, and one of zero disables the limiter) and that ten minutes fill it
(`LimiterAssumption`), as they do forty times over with the defaults of `ratelimits.go`; section
5 comes back to that. Of access, that confined roles do not carry the wildcard, that a ranking
repeats nothing, and that a page is no longer than what is examined for it
(`GateAssumption`).

Each component has one inductive invariant, `IInv` (`CacheIInv`, `LimiterIInv`, `GateIInv`),
proved in three facts: the initial states satisfy it, every action preserves it (one lemma
per action), and it implies what the theorems state.

* **Outbox.** `DeliveredWasStored` is not inductive: a Core about to mark a row must be
  known to hold an acknowledged one. `IInv` adds what a pass knows at each step
  (`AckedWasStored`, `NextTicketLocked`, `TriedWasCounted`, `IdleHoldsNothing`). From
  it follow exclusive attempts, disjoint claims, bounded retries, finality of a
  delivery, and the refinement of `DurableDelivery`, step by step.
* **GlobalIDs.** `IInv` says what a transaction may rely on between its statements
  (`Transaction`: the holder of the counter row, and only it, has the counter's
  value; `SubjectHeld`: the holder of the advisory lock knows the identity is still
  unnamed) and that all numbers are below the counter. The refinement of
  `IdDirectory` follows, and so does `WaitsAreConfined`: whoever stand still together are
  losers of races in pools they hold entirely, and requests that wait for these
  connections; none of them holds a row or lock another Core waits for. It rests on
  `LocksHeld` (who waits for a row or a lock has not got one further on) and on what a
  waiter for a connection holds (`WaitsForConnections`).
* **Breaker.** `IInv` ties tickets to evidence (`EvidenceIsCurrent`: a current call about
  to report a failure was made in an episode in which the upstream was down) and
  counts probes (`ProbesCounted`, by cardinalities of finite sets).
* **Support.** `Knows` says what a request in progress may still assume of the record it
  read: that it exists, that its transaction began after the record was created, that its
  status is the one the transition was checked against unless somebody changed it, and that
  it has not come to be resolved, or ceased to be, unless somebody did just that.
  `Worsening` is the arithmetic of the SLA targets.
* **ModuleCatalog.** `IInv` says that whoever replays holds the lock and nobody counts as
  finished meanwhile (`OneReplay`); that the last file has closed the vocabulary for
  whoever completes (`ClosedByTheLast`); that a serving Core has the legacy modules,
  none of them `planned` (`LegacySeeded`, `NothingPlanned`), so that 001 never seeds over
  an administrator's row (`EditedStands`); and how the ledger follows the texts applied
  (`LedgerTrue`, `SourceCurrent`). `EffectOnRow` and `RowStepKeeps` state once what any
  file may do to a row. `RestartChangesNothing` needs a second invariant, `RestartInv`: what
  the files of an undisturbed replay have added stays added (`AddedSoFar`), so that a
  completed one leaves a catalogue they have nothing to add to (`Settled`), of which a
  later replay only moves the registered modules to `ready` and back (`EffectRepeats`). That
  what 013 hides was hidden already is part of both.

* **Accounts.** `Knows` says what the holder of the lock may rely on between what it read and
  what its call does: the account is still as read, the name still free, another
  administrator still there. `Within` is what a request knows whether it has the lock or
  not, and `AdriftOK` what the calls given up may still do. `NotTheOnlyOne` is the step of
  counting: with more than one active administrator, taking one away leaves one.
* **Relationships.** `Writing` says that a request that has written has its edge to itself,
  `Apart` that two of them differ in edge and identifier, `Reading` what a conflict proves,
  and `Told` that what is or was in the table has its event. `EventsTellTable` follows from
  the order of the numbers of events about one edge.
* **Operations.** `ReportsApart` (identifiers, and one transaction per server's row),
  `AnnouncedOnce`, and `WalksOwe`: what a walk owes its reader lies below the cursor.

* **Verifier.** A cache is judged by the ages of what it holds. `CachedWasPublished` bounds how
  long a cached key may have been withdrawn when it was stored, from `FetchedWasPublished`
  and the time limit of a fetch (`InTime`); a withdrawn key then dies with the cache. For
  rotations, `FetchesAll` says that an answer lacks only keys newer than its fetch, and
  `WindowKept` that since the throttle was armed a fetch is under way, or one failed or was
  overwritten by an older one, or the cache lacks only keys newer than the window.
* **RateLimit.** The credit of a bucket is a potential. `NeverTooMuch` bounds it from above for
  every past request (what was taken since and what is left is no more than burst and
  rate gave), across drops for idling, since an idle bucket would have refilled
  (`Burst =< Rate * (Idle - MaxLag)`); `NeverTooLittle` bounds it from below for some
  past request. `Promised` is the same for the retry that was advised. Products of rate and
  time are kept out of the solver's sight by the lemmas `RateGrows`, `OneMore`,
  `RateGives` and `Division`.
* **Access.** `InItsPhase` types the request by its phase and door; `Witnessed` says that
  the present state is one `saw` has, and so are the states in which the roles and the
  permissions were read; if the two agree, a state that `Entitles` is at hand at the decision
  (`EntitledStep`), which is `ReadsEntitled`. `InOneHand` and `NewsIsTrue` say that table and
  trail differ by what administrators have in hand. `WalkPays` and `PagePays` say that what a walk
  owes is shown already, on the page in progress, among the hits still to be judged, or ahead of the
  cursor; at the end of the ranking nothing is ahead.

Type correctness is proved of each of the eleven, as a theorem or as a conjunct of `IInv`,
and some properties are proved without being checked by a run: `DeliveredWasStored`,
`ClaimsDisjoint` and `RetryBounded` of the outbox, `NeverReused` of the Global IDs and
`OpenPeriodNotExtended` of the breaker, which a checked property subsumes, and
`RetryHonoured` of the limiter (`RetryIsHonoured`).

**Only model-checked.** Liveness (`QueueDrains`, `FaultsAbsorbed`, `RecoversWithUpstream`,
`StartsEnd`, `RequestsEnd`, `CallsEnd`): properties under fairness, and anything about
`ENABLED`, are out of the prover's reach. So are inductions over data and `RECURSIVE`
operators; none is used here. Every safety property that a passing run checks is stated by a
theorem.

## 5. Where documents and code disagree

* Roles and permissions of one request may come from two states of the mappings, which
  `cmd/server/main.go:244-245` excludes: `rbac.go` reads them in two statements. A caller
  whose roles are read before he is mapped to a confining role, and whose permissions are
  read after it, is taken for unconfined with that role's permissions, and is shown what
  neither state allows (`OneState`, run `access_find_states`;
  `internal/platformdb/rbac.go:63`). `ReadsEntitled` shows that nothing else adds up so.
* The gateway does not answer as the endpoint does: for a server with a client it asks
  for a grant `(resource, client)` where the endpoint asks for `(client, client)`, and for an
  incident without a client the other way round (`GatewayAgrees`, `MCAccessFindGateway`;
  `cmd/server/ai.go:243` against `ai.go:42-45` and `241-242`).
* A half-open circuit whose probe ends in a failure that says nothing of
  availability (a 404, a cancelled caller) stays half-open for ever
  (`ProbeDecides`, `MCBreakerStuck`; `internal/adapters/httpx/breaker.go:173`, ADR-006).
* A closed support record can be reopened by an update that read it earlier
  (`ClosedIsTerminal`, `MCSupportFindClosed`; `internal/platformdb/support.go:105`,
  `docs/SUPPORT.md`).
* A Core that dies after the claim that spends the last attempt leaves the row failed,
  not due (`CrashLeavesRowDue`, `MCOutboxFindCrash`; `docs/EVENTS.md`). Relatedly, a row
  delivered by its last attempt keeps `failed_at`: the claim sets it before the publish and
  `MarkDelivered` does not clear it.
* A wait for a pooled connection is not bounded by the constant meant to bound it
  (`PoolWaitEnds`, `MCGlobalIDsFindWait`; `internal/platformdb/db.go:584`): losers of races
  won in other Cores can hold every connection of a pool, and each waits for one more. With
  one Core on the database every call ends (`CallsEnd`, `MCGlobalIDsLive`), since who wins a
  race then has a connection of the same pool. `OnlyLosersStandStill` shows that nobody is
  caught in it but who waits for such a pool.
* Applying the migrations a second time is not a no-op once an administrator has
  changed a module they write: the restart of any Core makes it active and visible
  again (`RestartIsNoOp`, `MCModuleCatalogFindRestart`; `internal/platformdb/db.go:216`,
  `docs/MIGRATION-READINESS.md`). `RestartChangesNothing` shows that it is one otherwise.
* A module demo-a or demo-b that an administrator has created and activated is hidden by
  the next start of any Core while its status stays active, where `modules_admin.go:68-69`
  excludes a module that is active "with no one able to see it" (`ActiveIsShown`,
  `MCModuleCatalogFindHidden`;
  `internal/platformdb/migrations/013_real_modules.sql:12-15`). `DisabledIsHidden` excepts
  these two, in this direction only.
* The last administrator can go when a call given up after ten seconds, or one of a
  request whose session ended, is applied later (`LastAdminStays`, `MCAccountsFindLate`;
  `internal/platformdb/lock.go` says the lock is held "until the external mutation has
  finished"). `AdminRemains` shows that he stays otherwise.
* In a deployment with one key, a second token without a kid within the throttle's window
  is refused: the fallback of `internal/oidc/verifier.go:263` is taken after a fetch only
  (`SingleKeyTakes`, `MCVerifierFindSingle`).

Seen while modelling, without a run of their own: editing the severity of a resolved
record re-judges its SLA against the new target, although `docs/SUPPORT.md` says a
resolved record's state stops moving; two overlapping updates that both resolve a record
both announce it, and one that restates `resolved` while another reopens the record
resolves it again unannounced (`docs/SUPPORT.md:123`); and
`updated_at` (hence `occurred_at` of the
event) may go back when a transaction that began earlier commits later. A subject
registered through the Global ID endpoint before its first sign-in gets a second
identifier (`internal/platformdb/identity.go:54` against `docs/GLOBAL-IDS.md:51`). An
administrator who clears the roles of a module between a replay's 015 or 017 and its
018 leaves it active with no role, which `ErrModuleNeedsRoles` is meant to exclude. A
Core that dies between applying a file for the first time and recording it loses
the text that was first applied: a later build's text is recorded as the first one
(`DriftReported` excepts those files, `unrecorded`). And 018 disables the seven legacy
modules without clearing `enabled`, so the launcher goes on listing them.

* Relationships: `related-to` is its own inverse and is not normalised, so A to B and B to
  A are two rows. An idempotent create fails when the edge it met is deleted between its
  two statements.
* Operations: the newest report of the history may not be the one whose status the server
  has, since reports commit in another order than their identifiers were given
  (`DashboardAgrees`, defined and checked by no run), and `last_event_at` may go back.
* Access: grants of scope type `group` are accepted and never consulted. The search is
  narrowed by the permissions of roles, so documents readable by grant alone are not
  found. An unconfined caller without the role's permission but with a grant is refused
  at the endpoint's gate and served by gateway and search. A caller who loses his groups
  in the middle of a walk is told that it is complete. The scope in the index is that of
  the last indexing. Two administrators who grant and revoke the same at once may leave
  an audit order that is not that of the table (`muddled`).
* Verifier: the throttle is armed before the fetch is made, so after a failed one, also
  one whose caller hung up, tokens with a new kid are 401 for the rest of the window, where
  `docs/AUTHENTICATION.md:106-107` promises 503 for an unavailable provider. While the first
  fetch of a rotation is under way others are refused. `jwksURI` is discovered once.
* Rate limiter: "starts full" for a dropped bucket is what it would have refilled into
  only if the burst is no more than ten minutes' rate, which nothing checks of the
  settings (`LimiterAssumption`). Callers who enter in another order than they read the clock are
  credited the difference twice.

## 6. What is not modelled

* **Audit trail.** Where an entry shares a transaction with what it records, the owning
  module has it (`Relationships`, `Access`). Elsewhere it is best effort and read by nothing.
* **Process lifecycle, routes and configuration.** Crash and restart are actions of `Outbox`
  and `ModuleCatalog`; the order of a shutdown, routing and parsing of the environment are
  not modelled.
* **Observability, tools and repository guards.** No other component reads them.
* **Parts of modelled components.** The mapping of fields and pages in the adapters, the
  text side of search (tokenising, OpenSearch's encoding), prompts, redaction and the
  provider's call in the AI gateway: transformations of one request that read no shared
  state. UserInfo authentication has no cache. A disabled limiter lets everything pass.
* **Inside the modules.** Profile columns, titles, contents of support relations, metadata,
  wording, logging and metrics; clock skew between a Core and the database; the entity
  types of Global IDs, whose counters never meet; signatures and claims of tokens, which
  are one bit; thirteen of the twenty migrations, which create tables.

## 7. Plan

Done: all modules of section 2, with proofs of all of them. What is left, in order of worth:

1. `WindowsBounded` without a premise on idling, by counting an idle drop of an unfilled
   bucket as the evictions are counted.
2. `Access` with two readers' walks over a changing index, to state what a cursor that is an
   offset can still promise.
3. A composition of `Relationships` with `Outbox`: what a consumer that sees every event at
   least once, in any order, can know of the table.
4. Two components of a request at once: a token accepted by the verifier, then a read at the
   gate, and how old the rights may be that it shows.
