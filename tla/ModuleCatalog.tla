---------------------------- MODULE ModuleCatalog ----------------------------
(***************************************************************************)
(* The module catalogue (tables modules and role_modules), edited by       *)
(* administrators (internal/platformdb/modules_admin.go) while every       *)
(* starting Core replays all migration files over it (db.go, Migrate),     *)
(* and the ledger of the replays, schema_migrations.                       *)
(*                                                                         *)
(* The migrations directory is replayed file by file, in the order of the  *)
(* names, under a session advisory lock that occupies a pooled connection  *)
(* of its own.  A file is one implicit transaction; its record in the      *)
(* ledger is another.  An administrator's change is one transaction that   *)
(* holds the module's row FOR UPDATE.  A Core may stop at any point, by an *)
(* error or a crash; the lock goes with its session.                       *)
(*                                                                         *)
(* Abstractions.  Only the files that write the catalogue are replayed.    *)
(* Names, descriptions, icons, launch URLs and the order of modules are    *)
(* left out.  updated_by is whether a person wrote the row.  Builds differ *)
(* in the text of their files, not in what the files do.  The server ends  *)
(* a statement of a stopped Core before it gives the lock to another.      *)
(***************************************************************************)
EXTENDS Integers, Sequences, FiniteSets

CONSTANTS
  Cores,     \* processes that start against one database
  Builds,    \* the binaries they may run
  Bodies,    \* texts of migration files, told apart by their checksum
  BodyOf,    \* the text of each file in each build
  Legacy,    \* modules seeded by 001_init.sql
  Derived,   \* redmine and outline: registered by 013, granted by 015
  Direct,    \* nextcloud: registered by 016, granted by 017
  Custom,    \* ids an administrator may add
  Retired,   \* those among them that 013 hides: demo-a and demo-b
  SourceOf,  \* the legacy module each derived one takes its grants from
  Roles,     \* human roles
  Policy,    \* role_modules as 003_rbac_scopes.sql seeds it
  Owner,     \* the role 017 grants the direct modules to
  PoolSize,  \* DATABASE_MAX_CONNS
  NoCore, NoBody, NoCatalog,
  MaxStarts, MaxEdits, \* bounds for TLC
  Administered         \* bound: the modules administrators create and patch

Modules == Legacy \cup Derived \cup Direct \cup Custom

\* Variant: the files in some other order.
FilesUnsorted ==
  <<"001_init", "013_real_modules", "015_real_module_rbac",
    "016_nextcloud_module", "017_nextcloud_rbac", "003_rbac_scopes",
    "018_module_administration">>
Files == <<"001_init", "003_rbac_scopes", "013_real_modules",
           "015_real_module_rbac", "016_nextcloud_module",
           "017_nextcloud_rbac", "018_module_administration">>
FileNames == {Files[i] : i \in 1..Len(Files)}

ASSUME BuildsAssumption ==
  Builds # {} /\ BodyOf \in [Builds -> [FileNames -> Bodies]] /\ NoBody \notin Bodies
ASSUME ModulesAssumption ==
  /\ Legacy \cap (Derived \cup Direct \cup Custom) = {}
  /\ Derived \cap (Direct \cup Custom) = {} /\ Direct \cap Custom = {}
  /\ Retired \subseteq Custom /\ SourceOf \in [Derived -> Legacy]
ASSUME RolesAssumption ==
  Policy \in [Legacy -> SUBSET Roles] /\ Owner \in Roles
ASSUME NobodyAssumption == NoCore \notin Cores
ASSUME BoundsAssumption ==
  /\ PoolSize \in Nat /\ MaxStarts \in Nat /\ MaxEdits \in Nat
  /\ Administered \subseteq Modules

VARIABLES
  catalog,    \* the rows of modules with their grants
  ledger,     \* schema_migrations: checksum and source_checksum of each file
  lock,       \* the Core whose session holds the migration lock
  pc,         \* where each Core is
  build,      \* the binary each Core runs
  at,         \* the position of the file each Core is at
  starts,     \* starts so far
  edits,      \* administrators' changes so far
  unfinished, \* history: a replay has begun and none has completed since
  edited,     \* history: an administrator's change since the replay that
              \* completed last began
  asLeft,     \* history: the catalogue the current replay found, if nobody
              \* changed it since
  latest,     \* history: the build whose replay completed last
  first,      \* history: the text of each file when it was first applied
  unrecorded  \* history: files whose first application was never recorded

process == <<pc, build, at>>
history == <<unfinished, edited, asLeft, latest, first, unrecorded>>
vars == <<catalog, ledger, lock, process, starts, edits, history>>

\* ModuleStatuses, the closed vocabulary of the administration.
ModuleStatuses == {"active", "maintenance", "disabled"}
Statuses == ModuleStatuses \cup {"absent", "planned", "ready"}
\* AdminModule and the columns the launcher reads.
Rows == [status : Statuses,
         enabled : BOOLEAN, updated_by : BOOLEAN, roles : SUBSET Roles]
Absent == [status |-> "absent", enabled |-> FALSE, updated_by |-> FALSE, roles |-> {}]
Exists(m) == catalog[m].status # "absent"

NoRecord == [checksum |-> NoBody, source |-> NoBody]

SomeBuild == CHOOSE b \in Builds : TRUE

Init ==
  /\ catalog = [m \in Modules |-> Absent]
  /\ ledger = [f \in FileNames |-> NoRecord]
  /\ lock = NoCore
  /\ pc = [c \in Cores |-> "down"]
  /\ build = [c \in Cores |-> SomeBuild]
  /\ at = [c \in Cores |-> 1]
  /\ starts = 0 /\ edits = 0
  /\ unfinished = TRUE /\ edited = FALSE /\ asLeft = NoCatalog
  /\ latest = SomeBuild
  /\ first = [f \in FileNames |-> NoBody]
  /\ unrecorded = {}

-----------------------------------------------------------------------------
(* What each file does to the catalogue k.                                 *)

\* 001: insert, and on conflict leave status and enabled alone.
Seeded(k) ==
  [m \in Modules |->
    IF m \in Legacy /\ k[m].status = "absent"
    THEN [k[m] EXCEPT !.status = "planned", !.enabled = TRUE] ELSE k[m]]

\* Variant: a status 018 does not know.
RegisteredLive(S, k) ==
  [m \in Modules |->
    IF m \in S THEN [k[m] EXCEPT !.status = "live", !.enabled = TRUE] ELSE k[m]]

\* 013 and 016: insert, and on conflict overwrite status and enabled.
Registered(S, k) ==
  [m \in Modules |->
    IF m \in S THEN [k[m] EXCEPT !.status = "ready", !.enabled = TRUE] ELSE k[m]]

\* 013 after that: hide what it retires, if it is there; its status stays.
Hidden(S, k) ==
  [m \in Modules |-> IF m \in S THEN [k[m] EXCEPT !.enabled = FALSE] ELSE k[m]]

\* 003, 015 and 017: add grants, ON CONFLICT DO NOTHING.
Granted(grants, k) ==
  [m \in Modules |->
    IF m \in DOMAIN grants THEN [k[m] EXCEPT !.roles = @ \cup grants[m]] ELSE k[m]]

\* Variant: 018 written before there was a status maintenance.
NormalisedToTwo(k) ==
  [m \in Modules |->
    CASE k[m].status = "ready" -> [k[m] EXCEPT !.status = "active"]
      [] k[m].status \notin {"absent", "ready", "active", "disabled"} ->
           [k[m] EXCEPT !.status = "disabled"]
      [] OTHER -> k[m]]

\* 018: close the vocabulary; enabled is left as it is.
Normalised(k) ==
  [m \in Modules |->
    CASE k[m].status = "ready" -> [k[m] EXCEPT !.status = "active"]
      [] k[m].status \notin {"absent", "ready"} \cup ModuleStatuses ->
           [k[m] EXCEPT !.status = "disabled"]
      [] OTHER -> k[m]]

Effect(f, k) ==
  CASE f = "001_init"             -> Seeded(k)
    [] f = "003_rbac_scopes"      -> Granted(Policy, k)
    [] f = "013_real_modules"     -> Hidden(Retired, Registered(Derived, k))
    [] f = "015_real_module_rbac" ->
         Granted([m \in Derived |-> k[SourceOf[m]].roles], k)
    [] f = "016_nextcloud_module" -> Registered(Direct, k)
    [] f = "017_nextcloud_rbac"   -> Granted([m \in Direct |-> {Owner}], k)
    [] OTHER -> Normalised(k)

-----------------------------------------------------------------------------
(* Open and Migrate.                                                       *)

\* Open: a Core starts, with one of the builds, and asks for the lock.
Start(c) ==
  /\ pc[c] = "down" /\ starts < MaxStarts /\ PoolSize >= 1
  /\ \E b \in Builds : build' = [build EXCEPT ![c] = b]
  /\ pc' = [pc EXCEPT ![c] = "waiting"]
  /\ at' = [at EXCEPT ![c] = 1]
  /\ starts' = starts + 1
  /\ UNCHANGED <<catalog, ledger, lock, edits, history>>

\* Variant: no migration lock.
LockIgnored == TRUE
LockFree == lock = NoCore

\* withMigrationLock: pg_advisory_lock returns.
TakeLock(c) ==
  /\ pc[c] = "waiting" /\ LockFree
  /\ lock' = c
  /\ pc' = [pc EXCEPT ![c] = "applying"]
  /\ unfinished' = TRUE
  /\ UNCHANGED <<catalog, ledger, build, at, starts, edits, edited, asLeft,
                 latest, first, unrecorded>>

File(c) == Files[at[c]]
Body(c) == BodyOf[build[c]][File(c)]

\* migrate: the file runs on a second connection of the pool.
Apply(c) ==
  /\ pc[c] = "applying" /\ at[c] <= Len(Files) /\ PoolSize >= 2
  /\ catalog' = Effect(File(c), catalog)
  /\ first' = [first EXCEPT ![File(c)] = IF @ = NoBody THEN Body(c) ELSE @]
  /\ pc' = [pc EXCEPT ![c] = "recording"]
  /\ UNCHANGED <<ledger, lock, build, at, starts, edits, unfinished, edited,
                 asLeft, latest, unrecorded>>

\* Variant: every start overwrites the checksum.
RecordedAnew(row, body) == [checksum |-> body, source |-> body]

\* The row a file's record leaves: checksum is written once, source_checksum
\* by every start.
Recorded(row, body) ==
  IF row = NoRecord THEN [checksum |-> body, source |-> body]
  ELSE [row EXCEPT !.source = body]

Record(c) ==
  /\ pc[c] = "recording"
  /\ ledger' = [ledger EXCEPT ![File(c)] = Recorded(@, Body(c))]
  /\ pc' = [pc EXCEPT ![c] = "applying"]
  /\ at' = [at EXCEPT ![c] = @ + 1]
  /\ UNCHANGED <<catalog, lock, build, starts, edits, history>>

\* Variant: the lock is released by a completed replay only.
ReleasedAtEnd(c) == IF lock = c /\ at[c] > Len(Files) THEN NoCore ELSE lock

\* What the deferred pg_advisory_unlock, or the end of the session, leaves.
Released(c) == IF lock = c THEN NoCore ELSE lock

\* Open returns, and the Core begins to serve.
Finish(c) ==
  /\ pc[c] = "applying" /\ at[c] > Len(Files)
  /\ lock' = Released(c)
  /\ pc' = [pc EXCEPT ![c] = "serving"]
  /\ unfinished' = FALSE /\ edited' = (edited /\ asLeft = NoCatalog)
  /\ asLeft' = catalog /\ latest' = build[c]
  /\ UNCHANGED <<catalog, ledger, build, at, starts, edits, first, unrecorded>>

\* A statement fails and Open closes the pool, or the process dies.
Stop(c) ==
  /\ pc[c] # "down"
  /\ lock' = Released(c)
  /\ pc' = [pc EXCEPT ![c] = "down"]
  /\ build' = [build EXCEPT ![c] = SomeBuild] /\ at' = [at EXCEPT ![c] = 1]
  /\ unrecorded' = unrecorded \cup
       {f \in FileNames : pc[c] = "recording" /\ f = File(c) /\ ledger[f] = NoRecord}
  /\ UNCHANGED <<catalog, ledger, starts, edits, unfinished, edited, asLeft, latest, first>>

-----------------------------------------------------------------------------
(* CreateAdminModule and UpdateAdminModule, called at a serving Core.      *)

Edit(m, row) ==
  /\ edits < MaxEdits /\ \E c \in Cores : pc[c] = "serving"
  /\ catalog' = [catalog EXCEPT ![m] = row]
  /\ edits' = edits + 1 /\ edited' = TRUE
  /\ asLeft' = IF unfinished THEN NoCatalog ELSE catalog'
  /\ UNCHANGED <<ledger, lock, process, starts, unfinished, latest, first, unrecorded>>

\* The module is created disabled, whatever the request said.
Create(m, roles) ==
  /\ ~Exists(m)
  /\ Edit(m, [status |-> "disabled", enabled |-> FALSE, updated_by |-> TRUE, roles |-> roles])

\* What the patch leaves of the row: enabled is derived from the status.
Patched(row, status, roles) ==
  [row EXCEPT !.status = status, !.enabled = status # "disabled",
              !.updated_by = TRUE, !.roles = roles]

\* A patch gives a status, grants or both; what it does not give stays.
\* ErrModuleNeedsRoles: no active module without a role.
Update(m, status, roles) ==
  /\ Exists(m)
  /\ status \in ModuleStatuses \cup {catalog[m].status}
  /\ ~(status = "active" /\ roles = {})
  /\ Edit(m, Patched(catalog[m], status, roles))

-----------------------------------------------------------------------------
Migrate(c) == TakeLock(c) \/ Apply(c) \/ Record(c) \/ Finish(c)

Administrate ==
  \E m \in Administered, roles \in SUBSET Roles :
    Create(m, roles) \/ \E status \in Statuses : Update(m, status, roles)

Next == \/ \E c \in Cores : Start(c) \/ Migrate(c) \/ Stop(c)
        \/ Administrate

Spec == Init /\ [][Next]_vars

\* A Core that starts executes its statements, and PostgreSQL gives the lock
\* to waiting sessions in the order they asked.
Fairness ==
  \A c \in Cores : WF_vars(Apply(c) \/ Record(c) \/ Finish(c)) /\ SF_vars(TakeLock(c))
FairSpec == Spec /\ Fairness

-----------------------------------------------------------------------------
TypeOK ==
  /\ catalog \in [Modules -> Rows]
  /\ ledger \in [FileNames -> [checksum : Bodies \cup {NoBody}, source : Bodies \cup {NoBody}]]
  /\ lock \in Cores \cup {NoCore}
  /\ pc \in [Cores -> {"down", "waiting", "applying", "recording", "serving"}]
  /\ build \in [Cores -> Builds]
  /\ at \in [Cores -> 1..Len(Files) + 1]
  /\ \A c \in Cores : pc[c] = "waiting" => at[c] = 1
  /\ \A c \in Cores : pc[c] = "recording" => at[c] <= Len(Files)
  /\ starts \in Nat /\ edits \in Nat
  /\ unfinished \in BOOLEAN /\ edited \in BOOLEAN
  /\ asLeft \in [Modules -> Rows] \cup {NoCatalog}
  /\ latest \in Builds
  /\ first \in [FileNames -> Bodies \cup {NoBody}]
  /\ unrecorded \subseteq FileNames

AllKnown == \A m \in Modules : catalog[m].status \in ModuleStatuses \cup {"absent"}

\* From the moment a Core begins to serve until the next replay begins, every
\* module has a status of the closed vocabulary: 018 turned what 001, 013 and
\* 016 wrote, and no other Core was between them.
OnlyKnownStatuses ==
  ~unfinished => AllKnown

\* The launcher (ListModules) reads enabled and administrators set status.
\* What a person disabled is hidden and what he shows is shown, in the middle
\* of a replay too, whatever the files then do to either column.  The modules
\* that 013 retires are excepted, in the second direction only: every start
\* hides them, active or not.
DisabledIsHidden ==
  \A m \in Modules : catalog[m].updated_by =>
    /\ catalog[m].status = "disabled" => ~catalog[m].enabled
    /\ catalog[m].status # "disabled" => catalog[m].enabled \/ m \in Retired

\* A completed replay leaves the catalogue the previous one left, however
\* many died between them and wherever, if no administrator changed it since
\* that one began.
RestartChangesNothing ==
  [][unfinished /\ ~unfinished' /\ ~edited /\ asLeft # NoCatalog
       => catalog' = asLeft]_vars

\* A completed replay leaves the catalogue it found, if nobody changed it
\* meanwhile: docs/MIGRATION-READINESS.md, "applying them a second time is a
\* no-op, which is the restart path".
RestartIsNoOp ==
  [][unfinished /\ ~unfinished' /\ asLeft # NoCatalog => catalog' = asLeft]_vars

\* modules_admin.go:68-69, "active with no one able to see it" is what must not
\* be: a module a person has activated is in the launcher.
ActiveIsShown ==
  ~unfinished => \A m \in Modules :
    catalog[m].updated_by /\ catalog[m].status = "active" => catalog[m].enabled

\* SchemaState.Drifted.
Drifted == {f \in FileNames : ledger[f].source # ledger[f].checksum}

\* Once a start has completed, the ledger tells of every file whether what
\* the build that completed last carries is what the database first applied,
\* unless the start that applied it first died before it recorded it.
DriftReported ==
  ~unfinished =>
    \A f \in FileNames \ unrecorded : f \in Drifted <=> BodyOf[latest][f] # first[f]

\* No start waits for ever: a Core that asks for the lock serves or stops,
\* whichever Cores held the lock and died.
StartsEnd == \A c \in Cores : pc[c] = "waiting" ~> pc[c] \in {"serving", "down"}

-----------------------------------------------------------------------------
(* The inductive invariant.                                                *)

Busy(c) == pc[c] \in {"applying", "recording"}
HasApplied(c, i) == Busy(c) /\ (at[c] > i \/ (at[c] = i /\ pc[c] = "recording"))

\* One Core replays at a time, and nothing counts as finished meanwhile.
OneReplay == \A c \in Cores : Busy(c) => lock = c /\ unfinished

\* The last file has closed the vocabulary, for whoever completes.
ClosedByTheLast == \A c \in Cores : HasApplied(c, Len(Files)) => AllKnown

\* Once 001 has run the legacy modules are there, so 001 writes none again.
LegacySeeded ==
  \A c \in Cores : HasApplied(c, 1) \/ pc[c] = "serving" =>
    \A m \in Legacy : catalog[m].status # "absent"

\* A Core only serves a catalogue whose planned modules 018 has disabled.
NothingPlanned ==
  \A c \in Cores : pc[c] = "serving" => \A m \in Modules : catalog[m].status # "planned"

\* What a person has written exists and was never seeded again.
EditedStands ==
  \A m \in Modules : catalog[m].updated_by => catalog[m].status \notin {"absent", "planned"}

\* The ledger against the texts applied: a file is in the ledger, or was
\* never applied, or is being recorded, or its record was lost.
LedgerTrue ==
  /\ \A c \in Cores : pc[c] = "recording" => first[File(c)] # NoBody
  /\ \A f \in FileNames \ unrecorded :
       IF ledger[f] = NoRecord
       THEN \/ first[f] = NoBody
            \/ \E c \in Cores : pc[c] = "recording" /\ File(c) = f /\ first[f] = Body(c)
       ELSE ledger[f].checksum = first[f] /\ first[f] # NoBody

HasSource(f, b) == ledger[f] # NoRecord /\ ledger[f].source = BodyOf[b][f]

\* source_checksum is the replaying Core's up to where it is, and the last
\* one's after it has finished.
SourceCurrent ==
  /\ \A c \in Cores : Busy(c) =>
       \A i \in 1..Len(Files) : i < at[c] => HasSource(Files[i], build[c])
  /\ ~unfinished => \A f \in FileNames : HasSource(f, latest)

IInv ==
  /\ TypeOK /\ OneReplay /\ ClosedByTheLast /\ OnlyKnownStatuses
  /\ LegacySeeded /\ NothingPlanned /\ EditedStands /\ DisabledIsHidden
  /\ LedgerTrue /\ SourceCurrent

\* No administrator has changed anything since the replay began.
Undisturbed == ~edited \/ asLeft # NoCatalog

\* What the files applied so far have added is still there.
AddedSoFar ==
  Undisturbed => \A c \in Cores :
    /\ HasApplied(c, 2) => \A m \in Legacy : Policy[m] \subseteq catalog[m].roles
    /\ HasApplied(c, 3) => \A m \in Derived :
         catalog[m].status \in {"ready", "active"} /\ catalog[m].enabled
    /\ HasApplied(c, 3) => \A m \in Retired : ~catalog[m].enabled
    /\ HasApplied(c, 4) => \A m \in Derived : catalog[SourceOf[m]].roles \subseteq catalog[m].roles
    /\ HasApplied(c, 5) => \A m \in Direct :
         catalog[m].status \in {"ready", "active"} /\ catalog[m].enabled
    /\ HasApplied(c, 6) => \A m \in Direct : Owner \in catalog[m].roles

\* A catalogue to which the files have nothing to add.
Settled(k) ==
  /\ \A m \in Modules : k[m].status \in ModuleStatuses \cup {"absent"}
  /\ \A m \in Legacy : k[m].status # "absent" /\ Policy[m] \subseteq k[m].roles
  /\ \A m \in Derived \cup Direct : k[m].status = "active" /\ k[m].enabled
  /\ \A m \in Retired : ~k[m].enabled
  /\ \A m \in Derived : k[SourceOf[m]].roles \subseteq k[m].roles
  /\ \A m \in Direct : Owner \in k[m].roles

\* Such a catalogue in the middle of a replay: registered, not normalised.
InReplayOf(k, now) ==
  \A m \in Modules :
    now[m] = k[m] \/ (m \in Derived \cup Direct /\ now[m] = [k[m] EXCEPT !.status = "ready"])

RestartSettled ==
  ~edited /\ asLeft # NoCatalog =>
    /\ Settled(asLeft) /\ InReplayOf(asLeft, catalog)
    /\ ~unfinished \/ (\E c \in Cores : HasApplied(c, Len(Files))) => catalog = asLeft

RestartInv == AddedSoFar /\ RestartSettled
=============================================================================
