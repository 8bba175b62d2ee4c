------------------------------ MODULE Accounts ------------------------------
(***************************************************************************)
(* Administration of human accounts: the handlers of                       *)
(* cmd/server/admin_accounts.go, the authentik client they call            *)
(* (internal/authentikadmin/client.go), and the session advisory lock that *)
(* orders them (internal/platformdb/lock.go).                              *)
(*                                                                         *)
(* A request waits for the lock, reads from authentik, checks, and then    *)
(* sends calls that change an account.  Every call is a step of its own:   *)
(* authentik applies it, answers it, refuses it, or is not heard of within *)
(* the client's ten seconds; a call given up this way is adrift and may    *)
(* still be applied, long after the lock is someone else's.  The session   *)
(* that owns the lock may end under a request that goes on.                *)
(*                                                                         *)
(* Abstractions.  Accounts are changed by Core alone.  A listing is one    *)
(* read however many pages it takes.  Email and display name decide        *)
(* nothing.  The groups of the human roles exist; without one the request  *)
(* fails as it does for any other error.  The audit entry is best effort   *)
(* and comes after the lock.  A crash of the process is the failure of     *)
(* its requests.                                                           *)
(***************************************************************************)
EXTENDS Integers, FiniteSets

CONSTANTS
  Requests,   \* requests in progress at once
  Users,      \* primary keys authentik may give
  NoUser,
  Names,      \* spellings of usernames
  Fold,       \* what strings.EqualFold tells apart
  StaffRoles, \* human roles besides admin
  OtherGroups,\* groups that stand for no human role
  Initially,  \* the accounts authentik has at first
  Asked(_, _),\* bound: the requests that are made, and by whom
  Free,       \* nobody has the lock
  MaxFaults   \* bound: sessions lost and calls given up

Roles == {"admin"} \union StaffRoles
Groups == Roles \union {"services"} \union OtherGroups
Rows == [name : Names, kind : {"internal", "external", "service"},
         groups : SUBSET Groups, active : BOOLEAN, password : BOOLEAN]
Absent == [kind |-> "absent"]

ASSUME UsersAssumption == IsFiniteSet(Users) /\ NoUser \notin Users
ASSUME RequestsAssumption == Free \notin Requests
ASSUME MaxFaultsAssumption == MaxFaults \in Nat
ASSUME NamesAssumption == Fold \in [Names -> Names]
ASSUME GroupsAssumption ==
  /\ {"admin", "services", "as is"} \intersect StaffRoles = {}
  /\ Roles \intersect OtherGroups = {} /\ "as is" \notin OtherGroups
ASSUME InitiallyAssumption ==
  /\ Initially \in [Users -> Rows \union {Absent}]
  /\ \A u, v \in Users :
       /\ Initially[u] # Absent /\ Initially[v] # Absent
       /\ Fold[Initially[u].name] = Fold[Initially[v].name]
       => u = v

VARIABLES
  users,   \* the accounts, held by authentik
  lock,    \* who has userAdminAdvisoryLock
  job,     \* what each request has read and is waiting for
  adrift,  \* calls their request gave up and authentik has not
  faults,  \* sessions lost and calls given up so far
  late     \* some call was applied when its request did not have the lock

vars == <<users, lock, job, adrift, faults, late>>

Wants ==
  [does : {"create"}, name : Names, role : Roles]
    \union [does : {"update"}, user : Users, role : Roles \union {"as is"},
            active : {"on", "off", "as is"}]
    \union [does : {"password"}, user : Users]

(* An administrator, or a caller with identity.user.manage only. *)
Callers == {"administrator", "delegate"}

Idle == [pc |-> "idle"]
Leaving == [pc |-> "leaving"]
Sending == {"creating", "setting", "activating", "patching"}
Locked == {"reading", "counting", "leaving"} \union Sending
Jobs == [pc : {"waiting", "reading", "counting"} \union Sending, by : Callers, want : Wants,
         user : Users \union {NoUser}, seen : Rows \union {Absent}, applied : BOOLEAN]

(* A call that changes an account; no groups: the field is not sent. *)
Calls == [op : Sending, user : Users \union {NoUser}, groups : SUBSET Groups, want : Wants]

Init ==
  /\ users = Initially
  /\ lock = Free
  /\ job = [r \in Requests |-> Idle]
  /\ adrift = {}
  /\ faults = 0
  /\ late = FALSE

-----------------------------------------------------------------------------
(* What the handlers read off an account *)

Exists(u) == users[u] # Absent

Service(row) == row.kind = "service" \/ "services" \in row.groups

HumanRoles(row) == row.groups \intersect Roles

(* Variant: service accounts of the administrators' group count as well. *)
ActiveAdminsAndServices ==
  {u \in Users : users[u] # Absent /\ users[u].active /\ "admin" \in users[u].groups}

(* activeAdminCount counts these. *)
ActiveAdmins ==
  {u \in Users : Exists(u) /\ users[u].active /\ ~Service(users[u]) /\ "admin" \in users[u].groups}

(* The counting of the handler, apart from what the properties call one. *)
CountedAdmins == ActiveAdmins

(* Variant: only the role asked for is looked at. *)
MayChangeByRole(row, by, want) ==
  ~Service(row) /\ HumanRoles(row) # {}
    /\ (want.does = "update" /\ want.role = "admin" => by = "administrator")

(* None of errServiceIdentity, errNotHumanAccount, errAdminTarget and      *)
(* errPasswordUnsupported.                                                 *)
MayChange(row, by, want) ==
  /\ ~Service(row)
  /\ HumanRoles(row) # {}
  /\ "admin" \in row.groups => by = "administrator"
  /\ want.does = "update" /\ want.role = "admin" => by = "administrator"
  /\ want.does = "password" => row.kind = "internal"

(* An active administrator would be one no longer. *)
Removes(row, want) ==
  /\ row.active /\ "admin" \in row.groups
  /\ want.active = "off" \/ want.role \in StaffRoles

(* The other human roles go, every other group stays. *)
GroupsAfter(row, want) ==
  IF want.role = "as is" THEN {} ELSE (row.groups \ Roles) \union {want.role}

-----------------------------------------------------------------------------
(* Into the handler *)

(* requireUserAdmin, the checks of the body, and the check that an         *)
(* administrator is created by one.                                        *)
Asks(r) ==
  /\ job[r] = Idle
  /\ \E by \in Callers, want \in Wants :
       /\ Asked(by, want)
       /\ want.does = "create" /\ want.role = "admin" => by = "administrator"
       /\ job' = [job EXCEPT ![r] =
                    [pc |-> "waiting", by |-> by, want |-> want,
                     user |-> IF want.does = "create" THEN NoUser ELSE want.user,
                     seen |-> Absent, applied |-> FALSE]]
  /\ UNCHANGED <<users, lock, adrift, faults, late>>

(* pg_advisory_lock: PostgreSQL serves the waiting sessions in turn. *)
TakesLock(r) ==
  /\ job[r].pc = "waiting"
  /\ lock = Free /\ lock' = r
  /\ job' = [job EXCEPT ![r].pc = "reading"]
  /\ UNCHANGED <<users, adrift, faults, late>>

(* No connection, or the caller went away. *)
GivesUp(r) ==
  /\ job[r].pc = "waiting"
  /\ job' = [job EXCEPT ![r] = Idle]
  /\ UNCHANGED <<users, lock, adrift, faults, late>>

-----------------------------------------------------------------------------
(* What is read and checked under the lock *)

Goes(r, pc) ==
  job' = [job EXCEPT ![r] = IF pc = "leaving" THEN Leaving ELSE [@ EXCEPT !.pc = pc]]

(* Variant: names are compared as they are spelled. *)
NameFreeAsSpelled(n) == \A u \in Users : Exists(u) => users[u].name # n

(* adminCreateAccount: no account has the name in any case. *)
NameFree(n) == \A u \in Users : Exists(u) => Fold[users[u].name] # Fold[n]

ChecksName(r) ==
  /\ job[r].pc = "reading" /\ job[r].want.does = "create"
  /\ Goes(r, IF NameFree(job[r].want.name) THEN "creating" ELSE "leaving")
  /\ UNCHANGED <<users, lock, adrift, faults, late>>

(* adminUpdateAccount and adminSetAccountPassword: the account is read and *)
(* judged by what was read.                                                *)
AfterReading(row, want) ==
  IF want.does = "password" THEN "setting"
  ELSE IF Removes(row, want) THEN "counting" ELSE "patching"

Reads(r) ==
  /\ job[r].pc = "reading" /\ job[r].want.does # "create"
  /\ LET row == users[job[r].user] IN
     IF row # Absent /\ MayChange(row, job[r].by, job[r].want)
     THEN job' = [job EXCEPT ![r].pc = AfterReading(row, job[r].want), ![r].seen = row]
     ELSE Goes(r, "leaving")
  /\ UNCHANGED <<users, lock, adrift, faults, late>>

(* The guard of the last administrator. *)
Counts(r) ==
  /\ job[r].pc = "counting"
  /\ Goes(r, IF Cardinality(CountedAdmins) <= 1 THEN "leaving" ELSE "patching")
  /\ UNCHANGED <<users, lock, adrift, faults, late>>

-----------------------------------------------------------------------------
(* The calls that change an account *)

CallOf(r) ==
  [op |-> job[r].pc, user |-> job[r].user, want |-> job[r].want,
   groups |-> IF job[r].pc = "patching" THEN GroupsAfter(job[r].seen, job[r].want) ELSE {}]

(* CreateUser: inactive, internal, and in the group of the role. *)
Newborn(want) ==
  [name |-> want.name, kind |-> "internal", groups |-> {want.role},
   active |-> FALSE, password |-> FALSE]

(* UpdateUser sends the fields that are given, and no other. *)
Patched(row, call) ==
  [row EXCEPT !.groups = IF call.groups = {} THEN @ ELSE call.groups,
              !.active = IF call.want.active = "as is" THEN @ ELSE call.want.active = "on"]

(* What authentik makes of a call.  It allows no second account of exactly *)
(* the same name.                                                          *)
Effect(call, u) ==
  \/ /\ call.op = "creating" /\ ~Exists(u)
     /\ \A v \in Users : Exists(v) => users[v].name # call.want.name
     /\ users' = [users EXCEPT ![u] = Newborn(call.want)]
  \/ /\ call.op = "setting" /\ u = call.user /\ Exists(u)
     /\ users' = [users EXCEPT ![u].password = TRUE]
  \/ /\ call.op = "activating" /\ u = call.user /\ Exists(u)
     /\ users' = [users EXCEPT ![u].active = TRUE]
  \/ /\ call.op = "patching" /\ u = call.user /\ Exists(u)
     /\ users' = [users EXCEPT ![u] = Patched(@, call)]

Applies(r) ==
  /\ job[r].pc \in Sending /\ ~job[r].applied
  /\ \E u \in Users :
       /\ Effect(CallOf(r), u)
       /\ job' = [job EXCEPT ![r].applied = TRUE, ![r].user = u]
  /\ late' = (late \/ lock # r)
  /\ UNCHANGED <<lock, adrift, faults>>

(* Variant: a new account is active before it has its password. *)
AfterAnswerEager(pc, want) ==
  CASE pc = "creating" -> "activating"
    [] pc = "activating" /\ want.does = "create" -> "setting"
    [] OTHER -> "leaving"

(* An account is made, given its password, and only then activated. *)
AfterAnswer(pc, want) ==
  CASE pc = "creating" -> "setting"
    [] pc = "setting" /\ want.does = "create" -> "activating"
    [] OTHER -> "leaving"

Answered(r) ==
  /\ job[r].pc \in Sending /\ job[r].applied
  /\ LET next == AfterAnswer(job[r].pc, job[r].want) IN
     job' = [job EXCEPT ![r] = IF next = "leaving" THEN Leaving
                               ELSE [@ EXCEPT !.pc = next, !.applied = FALSE]]
  /\ UNCHANGED <<users, lock, adrift, faults, late>>

Faults == faults < MaxFaults /\ faults' = faults + 1

(* A refusal, a timeout, an answer that cannot be read.  Nothing is undone, *)
(* and a call that was not applied may still be.                           *)
Fails(r) ==
  /\ job[r].pc \in Locked \ {"leaving"}
  /\ Goes(r, "leaving")
  /\ \/ UNCHANGED <<adrift, faults>>
     \/ /\ job[r].pc \in Sending /\ ~job[r].applied
        /\ adrift' = adrift \union {CallOf(r)}
        /\ Faults
  /\ UNCHANGED <<users, lock, late>>

(* Variant: the lock is left to the end of its session. *)
FreedIfUnchanged(r) == lock' = lock

Freed(r) == lock' = IF lock = r THEN Free ELSE lock

(* The deferred pg_advisory_unlock: on every path out of the callback. *)
Leaves(r) ==
  /\ job[r].pc = "leaving"
  /\ Freed(r)
  /\ job' = [job EXCEPT ![r] = Idle]
  /\ UNCHANGED <<users, adrift, faults, late>>

-----------------------------------------------------------------------------
(* The environment *)

(* The session ends and its lock with it; the request does not notice. *)
SessionLost(r) ==
  /\ lock = r
  /\ lock' = Free
  /\ Faults
  /\ UNCHANGED <<users, job, adrift, late>>

StrayApplies ==
  \E call \in adrift, u \in Users :
    /\ Effect(call, u)
    /\ adrift' = adrift \ {call}
    /\ late' = TRUE
    /\ UNCHANGED <<lock, job, faults>>

StrayLost ==
  \E call \in adrift :
    /\ adrift' = adrift \ {call}
    /\ UNCHANGED <<users, lock, job, faults, late>>

Proceeds(r) ==
  \/ ChecksName(r) \/ Reads(r) \/ Counts(r)
  \/ Applies(r) \/ Answered(r) \/ Fails(r)
  \/ Leaves(r)

Next ==
  \/ \E r \in Requests :
       Asks(r) \/ TakesLock(r) \/ GivesUp(r) \/ Proceeds(r) \/ SessionLost(r)
  \/ StrayApplies \/ StrayLost

Spec == Init /\ [][Next]_vars

(* Handlers run and the client's timeout ends every call; PostgreSQL gives *)
(* the lock to the sessions that wait for it in turn.                      *)
Fairness == \A r \in Requests : WF_vars(Proceeds(r)) /\ SF_vars(TakesLock(r))

FairSpec == Spec /\ Fairness

-----------------------------------------------------------------------------
(* Properties *)

(* Every account, request and call has the shape of its type. *)
TypeOK ==
  /\ users \in [Users -> Rows \union {Absent}]
  /\ lock \in Requests \union {Free}
  /\ job \in [Requests -> {Idle, Leaving} \union Jobs]
  /\ adrift \subseteq Calls
  /\ faults \in 0..MaxFaults
  /\ late \in BOOLEAN

(* Requests demoting and deactivating each other's targets never leave the *)
(* platform without an active human administrator, as long as calls are    *)
(* applied under the lock they were checked under (errLastAdmin).          *)
AdminRemains == [][~late' /\ ActiveAdmins # {} => ActiveAdmins' # {}]_vars

AppliedNow(r) == job[r].pc \in Sending /\ job'[r].pc = job[r].pc /\ job'[r].applied # job[r].applied

Administrator(row) == row # Absent /\ "admin" \in row.groups

(* What is changed is what was checked: no call that was applied under its *)
(* lock changes a service identity, and none of a delegate changes an      *)
(* administrator or makes one (errServiceIdentity, errAdminTarget).        *)
HandsOff ==
  [][~late' =>
       \A u \in Users : users'[u] # users[u] =>
         /\ users[u] # Absent => ~Service(users[u])
         /\ \A r \in Requests : AppliedNow(r) /\ job[r].by = "delegate"
              => ~Administrator(users[u]) /\ ~Administrator(users'[u])]_vars

(* No two accounts have usernames that differ by case only, although       *)
(* authentik itself would allow it (errUsernameConflict).                  *)
NamesDistinct ==
  ~late => \A u, v \in Users :
             Exists(u) /\ Exists(v) /\ Fold[users[u].name] = Fold[users[v].name] => u = v

InFlight ==
  {CallOf(r) : r \in {q \in Requests : job[q].pc \in Sending /\ ~job[q].applied}} \union adrift

(* However a creation fails, it leaves a locked account: one without a     *)
(* password becomes active only by an update that says so - not by any     *)
(* call of the creation, in whatever order late calls arrive ("a partial   *)
(* failure leaves a locked account", adminCreateAccount).                  *)
CreationLocked ==
  [][\A u \in Users :
       /\ users'[u] # users[u]
       /\ Exists(u) => ~users[u].active
       /\ users'[u].active /\ ~users'[u].password
       => \E call \in InFlight :
            call.want.does = "update" /\ call.user = u /\ call.want.active = "on"]_vars

(* Every request ends, and one request that fails or loses its session     *)
(* never keeps the lock from the others (WithAdvisoryLock).                *)
RequestsEnd == \A r \in Requests : []<>(job[r] = Idle)

(* The inductive invariant behind them.  Under the lock nobody else        *)
(* changes an account, so what the holder read stands until its own call   *)
(* is applied; a creation knows the password set before it activates.      *)
Knows(r) ==
  LET j == job[r] IN
  /\ j.pc = "creating" /\ ~j.applied => NameFree(j.want.name)
  /\ j.pc \in {"counting", "patching", "setting"} /\ ~j.applied /\ j.want.does # "create" =>
       users[j.user] = j.seen
  /\ j.pc = "patching" /\ ~j.applied /\ Removes(j.seen, j.want) => Cardinality(ActiveAdmins) > 1
  /\ (j.pc = "setting" /\ j.want.does = "create") \/ j.pc = "activating" =>
       users[j.user].kind = "internal" /\ users[j.user].groups = {j.want.role}
  /\ j.pc = "creating" /\ j.applied =>
       users[j.user].kind = "internal" /\ users[j.user].groups = {j.want.role}

(* At any time, of a request's own making. *)
Within(j) ==
  /\ j.want.does = "create" /\ j.want.role = "admin" => j.by = "administrator"
  /\ j.pc \in {"waiting", "reading"} => ~j.applied
  /\ j.want.does # "create" => j.user \in Users
  /\ j.pc \in {"counting", "patching"} => j.want.does = "update"
  /\ j.pc = "counting" => ~j.applied
  /\ j.pc \in {"creating", "activating"} => j.want.does = "create"
  /\ j.pc = "setting" => j.want.does \in {"create", "password"}
  /\ j.pc \in {"setting", "activating", "patching", "counting"} \/ (j.pc = "creating" /\ j.applied) =>
       j.user \in Users /\ Exists(j.user)
  /\ j.pc \in {"counting", "patching", "setting"} /\ j.want.does # "create" =>
       j.seen # Absent /\ MayChange(j.seen, j.by, j.want)
  /\ j.pc = "activating" \/ (j.pc = "setting" /\ j.applied) => users[j.user].password

RequestOK(r) ==
  /\ lock = r => job[r].pc \in Locked
  /\ job[r] \notin {Idle, Leaving} => Within(job[r])
  /\ ~late /\ lock = r /\ job[r] # Leaving => Knows(r)

AdriftOK(c) ==
  /\ c.op = "creating" => c.want.does = "create"
  /\ c.op = "activating" => c.user \in Users /\ Exists(c.user) /\ users[c.user].password
  /\ c.op = "patching" => c.want.does = "update"

IInv ==
  /\ TypeOK
  /\ NamesDistinct
  /\ \A r \in Requests : RequestOK(r)
  /\ \A c \in adrift : AdriftOK(c)

-----------------------------------------------------------------------------
(* What documents say and the code does not do *)

(* "final active administrator cannot be removed", says the refusal of     *)
(* adminUpdateAccount, and lock.go that the lock is held "until the        *)
(* external mutation has finished".                                        *)
LastAdminStays == [][ActiveAdmins # {} => ActiveAdmins' # {}]_vars
=============================================================================
