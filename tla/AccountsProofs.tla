--------------------------- MODULE AccountsProofs ---------------------------
(***************************************************************************)
(* Administration of accounts for any number of requests, accounts, names, *)
(* roles and faults.                                                       *)
(***************************************************************************)
EXTENDS Accounts, FiniteSetTheorems, TLAPS

LEMMA RowsArePresent == \A row \in Rows : row # Absent
  BY DEF Rows, Absent

LEMMA RolesAreGroups ==
  /\ Roles \subseteq Groups /\ "admin" \in Roles /\ "services" \notin Roles
  /\ "as is" \notin Roles /\ StaffRoles = Roles \ {"admin"}
  BY GroupsAssumption DEF Roles, Groups

LEMMA InitIInv == Init => IInv
  <1> SUFFICES ASSUME Init PROVE IInv
    OBVIOUS
  <1>1. TypeOK
    <2>1. users \in [Users -> Rows \union {Absent}] /\ lock \in Requests \union {Free}
      BY InitiallyAssumption DEF Init
    <2>2. job \in [Requests -> {Idle, Leaving} \union Jobs] /\ adrift \subseteq Calls
      BY DEF Init
    <2>3. faults \in 0..MaxFaults
      BY MaxFaultsAssumption DEF Init
    <2>4. late \in BOOLEAN
      BY DEF Init
    <2>5. QED
      BY <2>1, <2>2, <2>3, <2>4 DEF TypeOK
  <1>2. NamesDistinct
    BY InitiallyAssumption DEF Init, NamesDistinct, Exists
  <1>3. \A r \in Requests : RequestOK(r)
    BY RequestsAssumption DEF Init, RequestOK
  <1>4. \A c \in adrift : AdriftOK(c)
    BY DEF Init
  <1>5. QED
    BY <1>1, <1>2, <1>3, <1>4 DEF IInv

-----------------------------------------------------------------------------
(* What a call does to an account *)

LEMMA CallIsTyped ==
  ASSUME TypeOK, NEW r \in Requests, RequestOK(r), job[r].pc \in Sending
  PROVE  /\ job[r] \in Jobs
         /\ CallOf(r) \in Calls
         /\ CallOf(r).op = job[r].pc /\ CallOf(r).want = job[r].want /\ CallOf(r).user = job[r].user
         /\ job[r].pc = "creating" => job[r].want.does = "create"
         /\ job[r].pc = "patching" => job[r].want.does = "update"
  <1>1. job[r] \in Jobs
    BY DEF TypeOK, Idle, Leaving, Sending
  <1>2. Within(job[r])
    BY DEF RequestOK, Idle, Leaving, Sending
  <1>3. ASSUME job[r].pc = "patching"
        PROVE  GroupsAfter(job[r].seen, job[r].want) \in SUBSET Groups
    <2>1. job[r].want \in Wants /\ job[r].want.does = "update"
      BY <1>1, <1>2, <1>3 DEF Within, Jobs
    <2>2. job[r].want.role \in Roles \union {"as is"}
      BY <2>1 DEF Wants
    <2>3. job[r].seen \in Rows
      BY <1>1, <1>2, <1>3, <2>1 DEF Within, Jobs
    <2>4. job[r].seen.groups \in SUBSET Groups
      BY <2>3 DEF Rows
    <2>5. QED
      BY <2>2, <2>4, RolesAreGroups DEF GroupsAfter
  <1>4. CallOf(r) \in Calls
    BY <1>1, <1>3 DEF CallOf, Calls, Jobs
  <1>5. QED
    BY <1>1, <1>2, <1>4 DEF CallOf, Within

(* What the patch of an account changes, field by field.                   *)
LEMMA PatchedFields ==
  ASSUME NEW row \in Rows, NEW call
  PROVE  /\ Patched(row, call).name = row.name /\ Patched(row, call).kind = row.kind
         /\ Patched(row, call).password = row.password
         /\ Patched(row, call).groups = IF call.groups = {} THEN row.groups ELSE call.groups
         /\ call.want.active = "as is" => Patched(row, call).active = row.active
         /\ call.want.active # "as is" => Patched(row, call).active = (call.want.active = "on")
  <1>1. /\ Patched(row, call).name = row.name /\ Patched(row, call).kind = row.kind
        /\ Patched(row, call).password = row.password
    BY DEF Patched, Rows
  <1>2. Patched(row, call).groups = IF call.groups = {} THEN row.groups ELSE call.groups
    BY DEF Patched, Rows
  <1>3. call.want.active = "as is" => Patched(row, call).active = row.active
    BY DEF Patched, Rows
  <1>4. call.want.active # "as is" => Patched(row, call).active = (call.want.active = "on")
    BY DEF Patched, Rows
  <1>5. QED
    BY <1>1, <1>2, <1>3, <1>4

(* A call touches one account; an account never goes, and keeps its name,  *)
(* its kind and its having a password.                                     *)
LEMMA EffectShape ==
  ASSUME TypeOK, NEW c \in Calls, NEW u \in Users, Effect(c, u),
         c.op = "creating" => c.want.does = "create",
         c.op = "patching" => c.want.does = "update"
  PROVE  /\ users' \in [Users -> Rows \union {Absent}]
         /\ \A v \in Users \ {u} : users'[v] = users[v]
         /\ Exists(u)'
         /\ Exists(u) => /\ users'[u].name = users[u].name
                         /\ users'[u].kind = users[u].kind
                         /\ users[u].password => users'[u].password
  <1>1. CASE c.op = "creating"
    <2>1. users' = [users EXCEPT ![u] = Newborn(c.want)] /\ ~Exists(u)
      BY <1>1 DEF Effect
    <2>2. c.want \in Wants /\ c.want.does = "create"
      BY <1>1 DEF Calls
    <2>3. c.want.name \in Names /\ c.want.role \in Roles
      BY <2>2 DEF Wants
    <2>4. Newborn(c.want) \in Rows
      BY <2>3, RolesAreGroups DEF Newborn, Rows
    <2>5. QED
      BY <2>1, <2>4, RowsArePresent DEF TypeOK, Exists
  <1>2. CASE c.op \in {"setting", "activating"}
    <2>1. users[u] \in Rows
      BY <1>2 DEF Effect, Exists, TypeOK
    <2>2. \/ users' = [users EXCEPT ![u].password = TRUE]
          \/ users' = [users EXCEPT ![u].active = TRUE]
      BY <1>2 DEF Effect
    <2>3. /\ users'[u] \in Rows
          /\ users'[u].name = users[u].name /\ users'[u].kind = users[u].kind
          /\ users[u].password => users'[u].password
      <3>1. \/ users'[u] = [users[u] EXCEPT !.password = TRUE]
            \/ users'[u] = [users[u] EXCEPT !.active = TRUE]
        BY <2>2 DEF TypeOK
      <3>2. QED
        BY <2>1, <3>1 DEF Rows
    <2>4. QED
      BY <2>1, <2>2, <2>3, RowsArePresent DEF TypeOK, Exists
  <1>3. CASE c.op = "patching"
    <2>1. users[u] \in Rows /\ users' = [users EXCEPT ![u] = Patched(@, c)]
      BY <1>3 DEF Effect, Exists, TypeOK
    <2>2. c.groups \in SUBSET Groups
      BY DEF Calls
    <2>3. /\ Patched(users[u], c) \in Rows
          /\ Patched(users[u], c).name = users[u].name
          /\ Patched(users[u], c).kind = users[u].kind
          /\ Patched(users[u], c).password = users[u].password
      BY <2>1, <2>2 DEF Patched, Rows
    <2>4. QED
      BY <2>1, <2>3, RowsArePresent DEF TypeOK, Exists
  <1>4. QED
    BY <1>1, <1>2, <1>3 DEF Calls, Sending

(* What a request and an adrift call assume of the accounts only grows.    *)
LEMMA WithinKept ==
  ASSUME NEW j, Within(j),
         \A v \in Users : Exists(v) => Exists(v)' /\ (users[v].password => users'[v].password)
  PROVE  Within(j)'
  BY DEF Within

LEMMA AdriftKept ==
  ASSUME NEW c, AdriftOK(c),
         \A v \in Users : Exists(v) => Exists(v)' /\ (users[v].password => users'[v].password)
  PROVE  AdriftOK(c)'
  BY DEF AdriftOK

-----------------------------------------------------------------------------
(* Steps that change no account *)

(* A request that does not move keeps what it knew. *)
LEMMA StillKnows ==
  ASSUME NEW q \in Requests, RequestOK(q), users' = users, late' = late,
         lock' = lock \/ lock' # q, job'[q] = job[q]
  PROVE  RequestOK(q)'
  <1>1. ActiveAdmins' = ActiveAdmins
    BY DEF ActiveAdmins, Exists, Service
  <1>2. job[q] \notin {Idle, Leaving} => Within(job[q])'
    BY DEF RequestOK, Within, Exists
  <1>3. Knows(q) => Knows(q)'
    BY <1>1 DEF Knows, NameFree, Exists
  <1>4. QED
    BY <1>2, <1>3 DEF RequestOK

(* It is enough to look at the request that moves. *)
LEMMA QuietStep ==
  ASSUME IInv, NEW r \in Requests, NEW j \in {Idle, Leaving} \union Jobs,
         users' = users, late' = late, lock' \in Requests \union {Free},
         lock' = lock \/ lock' \in {r, Free},
         job' = [job EXCEPT ![r] = j],
         faults' \in 0..MaxFaults, adrift' \subseteq Calls,
         \A c \in adrift' \ adrift : AdriftOK(c),
         RequestOK(r)'
  PROVE  IInv'
  <1>1. TypeOK'
    BY DEF IInv, TypeOK
  <1>2. NamesDistinct'
    BY DEF IInv, NamesDistinct, Exists
  <1>3. ASSUME NEW q \in Requests PROVE RequestOK(q)'
    <2>1. CASE q = r
      BY <2>1
    <2>2. CASE q # r
      <3>1. job'[q] = job[q] /\ (lock' = lock \/ lock' # q)
        BY <2>2, RequestsAssumption DEF IInv, TypeOK
      <3>2. QED
        BY <3>1, StillKnows DEF IInv
    <2>3. QED
      BY <2>1, <2>2
  <1>4. ASSUME NEW c \in adrift' PROVE AdriftOK(c)'
    <2>1. AdriftOK(c)
      BY DEF IInv
    <2>2. QED
      BY <2>1 DEF AdriftOK, Exists
  <1>5. QED
    BY <1>1, <1>2, <1>3, <1>4 DEF IInv

LEMMA AsksStep ==
  ASSUME IInv, NEW r \in Requests, Asks(r)
  PROVE  IInv'
  <1>1. PICK by \in Callers, want \in Wants :
          /\ want.does = "create" /\ want.role = "admin" => by = "administrator"
          /\ job' = [job EXCEPT ![r] =
                       [pc |-> "waiting", by |-> by, want |-> want,
                        user |-> IF want.does = "create" THEN NoUser ELSE want.user,
                        seen |-> Absent, applied |-> FALSE]]
    BY DEF Asks
  <1>2. /\ users' = users /\ lock' = lock /\ adrift' = adrift /\ faults' = faults /\ late' = late
        /\ job[r] = Idle
    BY DEF Asks
  <1>0. PICK j : j = [pc |-> "waiting", by |-> by, want |-> want,
                      user |-> IF want.does = "create" THEN NoUser ELSE want.user,
                      seen |-> Absent, applied |-> FALSE]
    OBVIOUS
  <1>3. want.does # "create" => want.user \in Users
    BY DEF Wants
  <1>4. j \in Jobs
    BY <1>0, <1>3 DEF Jobs
  <1>5. job'[r] = j /\ lock' # r
    BY <1>0, <1>1, <1>2 DEF IInv, TypeOK, RequestOK, Idle, Locked, Sending
  <1>6. Within(j)'
    BY <1>0, <1>1, <1>3 DEF Within
  <1>7. RequestOK(r)'
    BY <1>5, <1>6 DEF RequestOK
  <1>8. job' = [job EXCEPT ![r] = j]
    BY <1>0, <1>1
  <1>9. QED
    BY <1>2, <1>4, <1>7, <1>8, QuietStep DEF IInv, TypeOK

LEMMA TakesLockStep ==
  ASSUME IInv, NEW r \in Requests, TakesLock(r)
  PROVE  IInv'
  <1>1. /\ job[r].pc = "waiting" /\ lock' = r
        /\ job' = [job EXCEPT ![r].pc = "reading"]
        /\ users' = users /\ adrift' = adrift /\ faults' = faults /\ late' = late
    BY DEF TakesLock
  <1>0. PICK j : j = [job[r] EXCEPT !.pc = "reading"]
    OBVIOUS
  <1>2. job[r] \in Jobs /\ Within(job[r])
    BY <1>1 DEF IInv, TypeOK, RequestOK, Idle, Leaving
  <1>3. j \in Jobs /\ job'[r] = j /\ job' = [job EXCEPT ![r] = j]
    BY <1>0, <1>1, <1>2 DEF IInv, TypeOK, Jobs
  <1>4. /\ j.pc = "reading" /\ j.by = job[r].by /\ j.want = job[r].want
        /\ j.user = job[r].user /\ j.applied = job[r].applied
    BY <1>0, <1>2 DEF Jobs
  <1>5. Within(j)'
    BY <1>1, <1>2, <1>4 DEF Within, Exists
  <1>6. Knows(r)'
    BY <1>3, <1>4 DEF Knows
  <1>7. RequestOK(r)'
    BY <1>3, <1>4, <1>5, <1>6 DEF RequestOK, Locked
  <1>8. QED
    BY <1>1, <1>3, <1>7, QuietStep DEF IInv, TypeOK

LEMMA GivesUpStep ==
  ASSUME IInv, NEW r \in Requests, GivesUp(r)
  PROVE  IInv'
  <1>1. /\ job[r].pc = "waiting" /\ job' = [job EXCEPT ![r] = Idle] /\ lock' = lock
        /\ users' = users /\ adrift' = adrift /\ faults' = faults /\ late' = late
    BY DEF GivesUp
  <1>2. job'[r] = Idle /\ lock' # r
    BY <1>1 DEF IInv, TypeOK, RequestOK, Locked, Sending
  <1>3. RequestOK(r)'
    BY <1>2 DEF RequestOK
  <1>4. QED
    BY <1>1, <1>3, QuietStep DEF IInv, TypeOK

(* Out of the callback: nothing is known any more. *)
LEMMA LeavingOK ==
  ASSUME NEW r \in Requests, job'[r] = Leaving
  PROVE  RequestOK(r)'
  BY DEF RequestOK, Leaving, Locked

LEMMA ChecksNameStep ==
  ASSUME IInv, NEW r \in Requests, ChecksName(r)
  PROVE  IInv'
  <1>1. /\ job[r].pc = "reading" /\ job[r].want.does = "create" /\ lock' = lock
        /\ users' = users /\ adrift' = adrift /\ faults' = faults /\ late' = late
    BY DEF ChecksName
  <1>2. job[r] \in Jobs /\ Within(job[r])
    BY <1>1 DEF IInv, TypeOK, RequestOK, Idle, Leaving
  <1>3. CASE ~NameFree(job[r].want.name)
    <2>1. job' = [job EXCEPT ![r] = Leaving]
      BY <1>3 DEF ChecksName, Goes
    <2>2. job'[r] = Leaving
      BY <2>1 DEF IInv, TypeOK
    <2>3. QED
      BY <1>1, <2>1, <2>2, LeavingOK, QuietStep DEF IInv, TypeOK
  <1>4. CASE NameFree(job[r].want.name)
    <2>0. PICK j : j = [job[r] EXCEPT !.pc = "creating"]
      OBVIOUS
    <2>1. j \in Jobs /\ job'[r] = j /\ job' = [job EXCEPT ![r] = j]
      BY <1>2, <1>4, <2>0 DEF IInv, TypeOK, ChecksName, Goes, Jobs, Sending
    <2>2. /\ j.pc = "creating" /\ j.by = job[r].by /\ j.want = job[r].want
          /\ j.user = job[r].user /\ j.applied = job[r].applied
      BY <1>2, <2>0 DEF Jobs
    <2>3. Within(j)'
      BY <1>1, <1>2, <2>2 DEF Within, Exists
    <2>4. Knows(r)'
      <3>1. NameFree(j.want.name)'
        BY <1>1, <1>4, <2>2 DEF NameFree, Exists
      <3>2. ~j.applied
        BY <1>1, <1>2, <2>2 DEF Within
      <3>3. QED
        BY <2>1, <2>2, <3>1, <3>2 DEF Knows
    <2>5. RequestOK(r)'
      BY <2>1, <2>2, <2>3, <2>4 DEF RequestOK, Locked, Sending
    <2>6. QED
      BY <1>1, <2>1, <2>5, QuietStep DEF IInv, TypeOK
  <1>5. QED
    BY <1>3, <1>4

LEMMA ReadsStep ==
  ASSUME IInv, NEW r \in Requests, Reads(r)
  PROVE  IInv'
  <1>0. PICK row, fit : /\ row = users[job[r].user]
                        /\ fit = (row # Absent /\ MayChange(row, job[r].by, job[r].want))
    OBVIOUS
  <1>1. /\ job[r].pc = "reading" /\ job[r].want.does # "create" /\ lock' = lock
        /\ users' = users /\ adrift' = adrift /\ faults' = faults /\ late' = late
    BY DEF Reads
  <1>2. job[r] \in Jobs /\ Within(job[r])
    BY <1>1 DEF IInv, TypeOK, RequestOK, Idle, Leaving
  <1>3. job[r].user \in Users /\ ~job[r].applied
    BY <1>1, <1>2 DEF Within
  <1>4. CASE ~fit
    <2>1. job' = [job EXCEPT ![r] = Leaving]
      BY <1>0, <1>4 DEF Reads, Goes
    <2>2. job'[r] = Leaving
      BY <2>1 DEF IInv, TypeOK
    <2>3. QED
      BY <1>1, <2>1, <2>2, LeavingOK, QuietStep DEF IInv, TypeOK
  <1>5. CASE fit
    <2>0. PICK pc, j : /\ pc = AfterReading(row, job[r].want)
                       /\ j = [job[r] EXCEPT !.pc = pc, !.seen = row]
      OBVIOUS
    <2>1. job' = [job EXCEPT ![r].pc = pc, ![r].seen = row]
      BY <1>0, <1>5, <2>0 DEF Reads
    <2>2. row \in Rows
      BY <1>0, <1>3, <1>5 DEF IInv, TypeOK
    <2>3. /\ pc \in {"setting", "counting", "patching"}
          /\ pc = "setting" <=> job[r].want.does = "password"
          /\ pc = "patching" => ~Removes(row, job[r].want)
      BY <2>0 DEF AfterReading
    <2>4. job[r].want.does \in {"update", "password"}
      BY <1>1, <1>2 DEF Jobs, Wants
    <2>5. j \in Jobs /\ job'[r] = j /\ job' = [job EXCEPT ![r] = j]
      BY <1>2, <2>0, <2>1, <2>2, <2>3 DEF IInv, TypeOK, Jobs, Sending
    <2>6. /\ j.pc = pc /\ j.by = job[r].by /\ j.want = job[r].want /\ j.seen = row
          /\ j.user = job[r].user /\ j.applied = job[r].applied
      BY <1>2, <2>0 DEF Jobs
    <2>7. Within(j)'
      <3>1. MayChange(j.seen, j.by, j.want) /\ j.seen # Absent /\ Exists(j.user)'
        BY <1>0, <1>1, <1>5, <2>6 DEF Exists
      <3>2. QED
        BY <1>1, <1>2, <1>3, <2>3, <2>4, <2>6, <3>1 DEF Within
    <2>8. Knows(r)'
      <3>1. users'[j.user] = j.seen
        BY <1>0, <1>1, <2>6
      <3>2. QED
        BY <1>1, <2>3, <2>4, <2>5, <2>6, <3>1 DEF Knows
    <2>9. RequestOK(r)'
      BY <2>3, <2>5, <2>6, <2>7, <2>8 DEF RequestOK, Locked, Sending
    <2>10. QED
      BY <1>1, <2>5, <2>9, QuietStep DEF IInv, TypeOK
  <1>6. QED
    BY <1>4, <1>5

LEMMA CountsStep ==
  ASSUME IInv, NEW r \in Requests, Counts(r)
  PROVE  IInv'
  <1>1. /\ job[r].pc = "counting" /\ lock' = lock
        /\ users' = users /\ adrift' = adrift /\ faults' = faults /\ late' = late
    BY DEF Counts
  <1>2. job[r] \in Jobs /\ Within(job[r]) /\ RequestOK(r)
    BY <1>1 DEF IInv, TypeOK, RequestOK, Idle, Leaving
  <1>3. CASE Cardinality(CountedAdmins) <= 1
    <2>1. job' = [job EXCEPT ![r] = Leaving]
      BY <1>3 DEF Counts, Goes
    <2>2. job'[r] = Leaving
      BY <2>1 DEF IInv, TypeOK
    <2>3. QED
      BY <1>1, <2>1, <2>2, LeavingOK, QuietStep DEF IInv, TypeOK
  <1>4. CASE ~(Cardinality(CountedAdmins) <= 1)
    <2>0. PICK j : j = [job[r] EXCEPT !.pc = "patching"]
      OBVIOUS
    <2>1. j \in Jobs /\ job'[r] = j /\ job' = [job EXCEPT ![r] = j]
      BY <1>2, <1>4, <2>0 DEF IInv, TypeOK, Counts, Goes, Jobs, Sending
    <2>2. /\ j.pc = "patching" /\ j.by = job[r].by /\ j.want = job[r].want /\ j.seen = job[r].seen
          /\ j.user = job[r].user /\ j.applied = job[r].applied
      BY <1>2, <2>0 DEF Jobs
    <2>3. Within(j)'
      BY <1>1, <1>2, <2>2 DEF Within, Exists
    <2>4. ASSUME Knows(r) PROVE Knows(r)'
      <3>1. Cardinality(ActiveAdmins') > 1
        <4>1. ActiveAdmins' = ActiveAdmins
          BY <1>1 DEF ActiveAdmins, Exists, Service
        <4>2. Cardinality(ActiveAdmins) \in Nat
          <5>1. IsFiniteSet(ActiveAdmins)
            BY UsersAssumption, FS_Subset DEF ActiveAdmins
          <5>2. QED
            BY <5>1, FS_CardinalityType
        <4>3. QED
          BY <1>4, <4>1, <4>2 DEF CountedAdmins
      <3>2. QED
        BY <1>1, <2>1, <2>2, <2>4, <3>1 DEF Knows
    <2>5. RequestOK(r)'
      <3>1. job[r] # Leaving
        BY <1>1 DEF Leaving
      <3>2. ~late /\ lock = r => Knows(r)
        BY <1>2, <3>1 DEF RequestOK
      <3>3. QED
        BY <1>1, <2>1, <2>2, <2>3, <2>4, <3>2 DEF RequestOK, Locked, Sending
    <2>6. QED
      BY <1>1, <2>1, <2>5, QuietStep DEF IInv, TypeOK
  <1>5. QED
    BY <1>3, <1>4

LEMMA AnsweredStep ==
  ASSUME IInv, NEW r \in Requests, Answered(r)
  PROVE  IInv'
  <1>1. /\ job[r].pc \in Sending /\ job[r].applied /\ lock' = lock
        /\ users' = users /\ adrift' = adrift /\ faults' = faults /\ late' = late
    BY DEF Answered
  <1>2. job[r] \in Jobs /\ Within(job[r]) /\ RequestOK(r) /\ job[r] # Leaving
    BY <1>1 DEF IInv, TypeOK, RequestOK, Idle, Leaving, Sending
  <1>0. PICK pc : pc = AfterAnswer(job[r].pc, job[r].want)
    OBVIOUS
  <1>3. CASE pc = "leaving"
    <2>1. job' = [job EXCEPT ![r] = Leaving]
      BY <1>0, <1>3 DEF Answered
    <2>2. job'[r] = Leaving
      BY <2>1 DEF IInv, TypeOK
    <2>3. QED
      BY <1>1, <2>1, <2>2, LeavingOK, QuietStep DEF IInv, TypeOK
  <1>4. CASE pc # "leaving"
    <2>0. PICK j : j = [job[r] EXCEPT !.pc = pc, !.applied = FALSE]
      OBVIOUS
    <2>1. \/ pc = "setting" /\ job[r].pc = "creating"
          \/ pc = "activating" /\ job[r].pc = "setting" /\ job[r].want.does = "create"
      BY <1>0, <1>4 DEF AfterAnswer
    <2>2. j \in Jobs /\ job'[r] = j /\ job' = [job EXCEPT ![r] = j]
      BY <1>0, <1>2, <1>4, <2>0, <2>1 DEF IInv, TypeOK, Answered, Jobs, Sending
    <2>3. /\ j.pc = pc /\ j.by = job[r].by /\ j.want = job[r].want
          /\ j.user = job[r].user /\ ~j.applied
      BY <1>2, <2>0 DEF Jobs
    <2>4. j.want.does = "create"
      BY <1>2, <2>1, <2>3 DEF Within
    <2>5. Within(j)'
      BY <1>1, <1>2, <2>1, <2>3, <2>4 DEF Within, Exists
    <2>6. ASSUME Knows(r) PROVE Knows(r)'
      BY <1>1, <2>1, <2>2, <2>3, <2>4, <2>6 DEF Knows
    <2>7. RequestOK(r)'
      <3>1. ~late /\ lock = r => Knows(r)
        BY <1>2 DEF RequestOK
      <3>2. j.pc \in Locked
        BY <2>1, <2>3 DEF Locked, Sending
      <3>3. QED
        BY <1>1, <2>2, <2>5, <2>6, <3>1, <3>2 DEF RequestOK
    <2>8. QED
      BY <1>1, <2>2, <2>7, QuietStep DEF IInv, TypeOK
  <1>5. QED
    BY <1>3, <1>4

LEMMA FailsStep ==
  ASSUME IInv, NEW r \in Requests, Fails(r)
  PROVE  IInv'
  <1>1. /\ users' = users /\ lock' = lock /\ late' = late
        /\ job' = [job EXCEPT ![r] = Leaving]
    BY DEF Fails, Goes
  <1>2. job'[r] = Leaving
    BY <1>1 DEF IInv, TypeOK
  <1>3. CASE UNCHANGED <<adrift, faults>>
    BY <1>1, <1>2, <1>3, LeavingOK, QuietStep DEF IInv, TypeOK
  <1>4. CASE /\ job[r].pc \in Sending /\ ~job[r].applied
             /\ adrift' = adrift \union {CallOf(r)} /\ Faults
    <2>1. RequestOK(r) /\ job[r] \notin {Idle, Leaving}
      BY <1>4 DEF IInv, Idle, Leaving, Sending
    <2>2. Within(job[r])
      BY <2>1 DEF RequestOK
    <2>3. CallOf(r) \in Calls
      BY <1>4, <2>1, CallIsTyped DEF IInv
    <2>4. AdriftOK(CallOf(r))
      BY <1>4, <2>2 DEF AdriftOK, CallOf, Within
    <2>5. faults' \in 0..MaxFaults
      BY <1>4, MaxFaultsAssumption DEF Faults, IInv, TypeOK
    <2>6. adrift' \subseteq Calls /\ \A c \in adrift' \ adrift : AdriftOK(c)
      BY <1>4, <2>3, <2>4 DEF IInv, TypeOK
    <2>7. QED
      BY <1>1, <1>2, <2>5, <2>6, LeavingOK, QuietStep DEF IInv, TypeOK
  <1>5. QED
    BY <1>3, <1>4 DEF Fails

LEMMA LeavesStep ==
  ASSUME IInv, NEW r \in Requests, Leaves(r)
  PROVE  IInv'
  <1>1. /\ job' = [job EXCEPT ![r] = Idle] /\ lock' = IF lock = r THEN Free ELSE lock
        /\ users' = users /\ adrift' = adrift /\ faults' = faults /\ late' = late
    BY DEF Leaves, Freed
  <1>2. job'[r] = Idle /\ lock' # r
    BY <1>1, RequestsAssumption DEF IInv, TypeOK
  <1>3. RequestOK(r)'
    BY <1>2 DEF RequestOK
  <1>4. QED
    BY <1>1, <1>3, QuietStep DEF IInv, TypeOK

LEMMA SessionLostStep ==
  ASSUME IInv, NEW r \in Requests, SessionLost(r)
  PROVE  IInv'
  <1>1. /\ lock' = Free /\ users' = users /\ job' = job /\ adrift' = adrift /\ late' = late
    BY DEF SessionLost
  <1>2. faults' \in 0..MaxFaults
    BY MaxFaultsAssumption DEF SessionLost, Faults, IInv, TypeOK
  <1>3. TypeOK'
    BY <1>1, <1>2 DEF IInv, TypeOK
  <1>4. NamesDistinct'
    BY <1>1 DEF IInv, NamesDistinct, Exists
  <1>5. \A q \in Requests : RequestOK(q)'
    BY <1>1, RequestsAssumption, StillKnows DEF IInv
  <1>6. \A c \in adrift' : AdriftOK(c)'
    BY <1>1 DEF IInv, AdriftOK, Exists
  <1>7. QED
    BY <1>3, <1>4, <1>5, <1>6 DEF IInv

LEMMA StrayLostStep ==
  ASSUME IInv, StrayLost
  PROVE  IInv'
  <1>1. /\ users' = users /\ job' = job /\ lock' = lock /\ faults' = faults /\ late' = late
        /\ adrift' \subseteq adrift
    BY DEF StrayLost
  <1>2. TypeOK'
    BY <1>1 DEF IInv, TypeOK
  <1>3. NamesDistinct'
    BY <1>1 DEF IInv, NamesDistinct, Exists
  <1>4. \A q \in Requests : RequestOK(q)'
    BY <1>1, StillKnows DEF IInv
  <1>5. \A c \in adrift' : AdriftOK(c)'
    BY <1>1 DEF IInv, AdriftOK, Exists
  <1>6. QED
    BY <1>2, <1>3, <1>4, <1>5 DEF IInv

-----------------------------------------------------------------------------
(* Steps that change an account *)

LEMMA StrayAppliesStep ==
  ASSUME IInv, StrayApplies
  PROVE  IInv'
  <1>1. PICK c \in adrift, u \in Users : Effect(c, u) /\ adrift' = adrift \ {c}
    BY DEF StrayApplies
  <1>2. late' = TRUE /\ lock' = lock /\ job' = job /\ faults' = faults
    BY DEF StrayApplies
  <1>3. c \in Calls /\ AdriftOK(c)
    BY <1>1 DEF IInv, TypeOK
  <1>4. /\ users' \in [Users -> Rows \union {Absent}]
        /\ \A v \in Users : Exists(v) => Exists(v)' /\ (users[v].password => users'[v].password)
    BY <1>1, <1>3, EffectShape DEF IInv, AdriftOK, Exists
  <1>5. TypeOK'
    BY <1>1, <1>2, <1>4 DEF IInv, TypeOK
  <1>6. NamesDistinct'
    BY <1>2 DEF NamesDistinct
  <1>7. ASSUME NEW q \in Requests PROVE RequestOK(q)'
    <2>1. RequestOK(q) /\ job'[q] = job[q]
      BY <1>2 DEF IInv
    <2>2. Within(job[q]) => Within(job[q])'
      <3>1. PICK j : j = job[q]
        OBVIOUS
      <3>2. Within(j) => Within(j)'
        BY <1>4, WithinKept
      <3>3. job'[q] = j
        BY <2>1, <3>1
      <3>4. QED
        BY <3>1, <3>2, <3>3
    <2>3. QED
      BY <1>2, <2>1, <2>2 DEF RequestOK
  <1>8. ASSUME NEW d \in adrift' PROVE AdriftOK(d)'
    <2>1. AdriftOK(d)
      BY <1>1 DEF IInv
    <2>2. QED
      BY <1>4, <2>1, AdriftKept
  <1>9. QED
    BY <1>5, <1>6, <1>7, <1>8 DEF IInv

LEMMA AppliesStep ==
  ASSUME IInv, NEW r \in Requests, Applies(r)
  PROVE  IInv'
  <1>0. PICK c : c = CallOf(r)
    OBVIOUS
  <1>1. PICK u \in Users :
          Effect(c, u) /\ job' = [job EXCEPT ![r].applied = TRUE, ![r].user = u]
    BY <1>0 DEF Applies
  <1>2. /\ job[r].pc \in Sending /\ ~job[r].applied
        /\ lock' = lock /\ adrift' = adrift /\ faults' = faults /\ late' = (late \/ lock # r)
    BY DEF Applies
  <1>3. /\ c \in Calls /\ job[r] \in Jobs /\ c.op = job[r].pc /\ c.want = job[r].want
        /\ c.user = job[r].user
        /\ c.op = "creating" => c.want.does = "create"
        /\ c.op = "patching" => c.want.does = "update"
    BY <1>0, <1>2, CallIsTyped DEF IInv
  <1>4. Within(job[r]) /\ job[r] \notin {Idle, Leaving} /\ RequestOK(r)
    BY <1>2 DEF IInv, RequestOK, Idle, Leaving, Sending
  <1>5. /\ users' \in [Users -> Rows \union {Absent}]
        /\ \A v \in Users \ {u} : users'[v] = users[v]
        /\ Exists(u)'
        /\ Exists(u) => users'[u].name = users[u].name /\ users'[u].kind = users[u].kind
        /\ \A v \in Users : Exists(v) => Exists(v)' /\ (users[v].password => users'[v].password)
    BY <1>1, <1>3, EffectShape DEF IInv, Exists
  <1>6. PICK j : j = [job[r] EXCEPT !.applied = TRUE, !.user = u]
    OBVIOUS
  <1>7. /\ j \in Jobs /\ job'[r] = j /\ job' = [job EXCEPT ![r] = j]
        /\ j.pc = job[r].pc /\ j.by = job[r].by /\ j.want = job[r].want /\ j.seen = job[r].seen
        /\ j.user = u /\ j.applied
    <2>1. /\ j \in Jobs /\ j.pc = job[r].pc /\ j.by = job[r].by /\ j.want = job[r].want
          /\ j.seen = job[r].seen /\ j.user = u /\ j.applied
      BY <1>3, <1>6 DEF Jobs
    <2>2. job'[r] = j /\ job' = [job EXCEPT ![r] = j]
      BY <1>1, <1>3, <1>6 DEF IInv, TypeOK, Jobs
    <2>3. QED
      BY <2>1, <2>2
  <1>8. c.op # "creating" => u = job[r].user
    BY <1>1, <1>3 DEF Effect
  <1>9. TypeOK'
    <2>1. late' \in BOOLEAN
      BY <1>2
    <2>2. QED
      BY <1>2, <1>5, <1>7, <2>1 DEF IInv, TypeOK
  <1>10. NamesDistinct'
    <2>1. SUFFICES ASSUME ~late', NEW v \in Users, NEW w \in Users, Exists(v)', Exists(w)',
                          Fold[users'[v].name] = Fold[users'[w].name]
                   PROVE  v = w
      BY DEF NamesDistinct
    <2>2. ~late /\ lock = r
      BY <1>2, <2>1
    <2>3. CASE Exists(u)
      BY <1>5, <2>1, <2>2, <2>3 DEF IInv, NamesDistinct, Exists
    <2>4. CASE ~Exists(u)
      <3>1. c.op = "creating" /\ users'[u] = Newborn(c.want)
        BY <1>1, <2>4 DEF Effect, IInv, TypeOK
      <3>2. Knows(r)
        BY <1>4, <2>2 DEF RequestOK
      <3>3. \A x \in Users : Exists(x) => Fold[users[x].name] # Fold[c.want.name]
        BY <1>2, <1>3, <3>1, <3>2 DEF Knows, NameFree
      <3>4. users'[u].name = c.want.name
        BY <3>1 DEF Newborn
      <3>5. QED
        BY <1>5, <2>1, <2>2, <3>3, <3>4 DEF IInv, NamesDistinct, Exists
    <2>5. QED
      BY <2>3, <2>4
  <1>11. Within(j)'
    <2>1. j.pc = "setting" => users'[u].password
      <3>1. SUFFICES ASSUME j.pc = "setting" PROVE users'[u].password
        OBVIOUS
      <3>2. users' = [users EXCEPT ![u].password = TRUE] /\ Exists(u)
        BY <1>1, <1>3, <1>7, <3>1 DEF Effect
      <3>3. users[u] \in Rows
        BY <3>2 DEF IInv, TypeOK, Exists
      <3>4. QED
        BY <3>2, <3>3 DEF IInv, TypeOK, Rows
    <2>2. j.pc = "activating" => users'[u].password
      BY <1>3, <1>4, <1>5, <1>7, <1>8 DEF Within
    <2>3. Within(job[r])
      BY <1>4
    <2>4. j.pc \notin {"waiting", "reading", "counting"}
      BY <1>2, <1>7 DEF Sending
    <2>5. QED
      BY <1>3, <1>5, <1>7, <1>8, <2>1, <2>2, <2>3, <2>4 DEF Within
  <1>12. ASSUME ~late', lock' = r PROVE Knows(r)'
    <2>1. Knows(r)
      BY <1>2, <1>4, <1>12 DEF RequestOK
    <2>2. CASE c.op = "creating"
      <3>1. users'[u] = Newborn(c.want)
        BY <1>1, <2>2 DEF Effect, IInv, TypeOK
      <3>2. users'[u].kind = "internal" /\ users'[u].groups = {c.want.role}
        BY <3>1 DEF Newborn
      <3>3. QED
        BY <1>3, <1>7, <2>2, <3>2 DEF Knows
    <2>3. CASE c.op \in {"setting", "activating"}
      <3>1. users[u] \in Rows
        BY <1>1, <2>3 DEF Effect, Exists, IInv, TypeOK
      <3>2. \/ users'[u] = [users[u] EXCEPT !.password = TRUE]
            \/ users'[u] = [users[u] EXCEPT !.active = TRUE]
        BY <1>1, <2>3 DEF Effect, IInv, TypeOK
      <3>3. users'[u].kind = users[u].kind /\ users'[u].groups = users[u].groups
        BY <3>1, <3>2 DEF Rows
      <3>4. QED
        BY <1>3, <1>7, <1>8, <2>1, <2>3, <3>3 DEF Knows
    <2>4. CASE c.op = "patching"
      BY <1>3, <1>7, <2>4 DEF Knows
    <2>5. QED
      BY <1>2, <1>3, <2>2, <2>3, <2>4 DEF Sending
  <1>13. ASSUME NEW q \in Requests PROVE RequestOK(q)'
    <2>1. CASE q = r
      <3>1. j.pc \in Locked
        BY <1>2, <1>7 DEF Locked
      <3>2. QED
        BY <1>7, <1>11, <1>12, <2>1, <3>1 DEF RequestOK
    <2>2. CASE q # r
      <3>1. job'[q] = job[q] /\ RequestOK(q)
        BY <1>7, <2>2 DEF IInv, TypeOK
      <3>2. PICK k : k = job[q]
        OBVIOUS
      <3>3. Within(k) => Within(k)'
        BY <1>5, WithinKept
      <3>4. ~(~late' /\ lock' = q)
        BY <1>2, <2>2
      <3>5. QED
        BY <1>2, <3>1, <3>2, <3>3, <3>4 DEF RequestOK
    <2>3. QED
      BY <2>1, <2>2
  <1>14. ASSUME NEW d \in adrift' PROVE AdriftOK(d)'
    <2>1. AdriftOK(d)
      BY <1>2 DEF IInv
    <2>2. QED
      BY <1>5, <2>1, AdriftKept
  <1>15. QED
    BY <1>9, <1>10, <1>13, <1>14 DEF IInv

-----------------------------------------------------------------------------
(* The theorems *)

LEMMA Unchanged ==
  ASSUME IInv, UNCHANGED vars
  PROVE  IInv'
  <1>1. TypeOK' /\ NamesDistinct'
    BY DEF vars, IInv, TypeOK, NamesDistinct, Exists
  <1>2. \A q \in Requests : RequestOK(q)'
    BY StillKnows DEF vars, IInv
  <1>3. \A c \in adrift' : AdriftOK(c)'
    BY DEF vars, IInv, AdriftOK, Exists
  <1>4. QED
    BY <1>1, <1>2, <1>3 DEF IInv

(* What each request assumes of the account it works on holds in every     *)
(* reachable state.                                                        *)
THEOREM Invariance == Spec => []IInv
  <1>1. IInv /\ [Next]_vars => IInv'
    <2> SUFFICES ASSUME IInv, [Next]_vars PROVE IInv'
      OBVIOUS
    <2>1. CASE UNCHANGED vars
      BY <2>1, Unchanged
    <2>2. ASSUME NEW r \in Requests, Asks(r) \/ TakesLock(r) \/ GivesUp(r) \/ SessionLost(r)
          PROVE  IInv'
      BY <2>2, AsksStep, TakesLockStep, GivesUpStep, SessionLostStep
    <2>3. ASSUME NEW r \in Requests, Proceeds(r)
          PROVE  IInv'
      BY <2>3, ChecksNameStep, ReadsStep, CountsStep, AppliesStep, AnsweredStep, FailsStep,
         LeavesStep DEF Proceeds
    <2>4. CASE StrayApplies \/ StrayLost
      BY <2>4, StrayAppliesStep, StrayLostStep
    <2>5. QED
      BY <2>1, <2>2, <2>3, <2>4 DEF Next
  <1>2. QED
    BY <1>1, InitIInv, PTL DEF Spec

THEOREM TypeCorrect == Spec => []TypeOK
  BY Invariance, PTL DEF IInv

(* Usernames stay distinct up to case while no call is applied late. *)
THEOREM NamesAreDistinct == Spec => []NamesDistinct
  BY Invariance, PTL DEF IInv

(* A step that changes an account is a call authentik applies. *)
LEMMA WhoChanges ==
  ASSUME IInv, [Next]_vars, users' # users
  PROVE  \/ \E r \in Requests : Applies(r)
         \/ StrayApplies
  BY DEF Next, Proceeds, vars, Asks, TakesLock, GivesUp, ChecksName, Reads, Counts, Answered,
     Fails, Leaves, SessionLost, StrayLost

(* What an applied call knows when its request has the lock. *)
LEMMA UnderLock ==
  ASSUME IInv, [Next]_vars, users' # users, ~late'
  PROVE  \E r \in Requests, u \in Users :
           /\ Applies(r) /\ lock = r /\ Knows(r) /\ Within(job[r])
           /\ CallOf(r) \in Calls /\ CallOf(r).op = job[r].pc /\ CallOf(r).want = job[r].want
           /\ job[r].pc \in Sending /\ ~job[r].applied /\ job[r] \in Jobs
           /\ Effect(CallOf(r), u)
           /\ job' = [job EXCEPT ![r].applied = TRUE, ![r].user = u]
           /\ \A v \in Users \ {u} : users'[v] = users[v]
           /\ job[r].pc # "creating" => u = job[r].user
  <1>1. ~StrayApplies
    BY DEF StrayApplies
  <1>2. PICK r \in Requests : Applies(r)
    BY <1>1, WhoChanges
  <1>3. lock = r /\ ~late /\ job[r].pc \in Sending /\ ~job[r].applied
    BY <1>2 DEF Applies
  <1>4. RequestOK(r) /\ job[r] \notin {Idle, Leaving}
    BY <1>3 DEF IInv, Idle, Leaving, Sending
  <1>5. Knows(r) /\ Within(job[r])
    BY <1>3, <1>4 DEF RequestOK
  <1>6. PICK u \in Users :
          Effect(CallOf(r), u) /\ job' = [job EXCEPT ![r].applied = TRUE, ![r].user = u]
    BY <1>2 DEF Applies
  <1>7. /\ CallOf(r) \in Calls /\ CallOf(r).op = job[r].pc /\ CallOf(r).want = job[r].want
        /\ CallOf(r).user = job[r].user /\ job[r] \in Jobs
        /\ CallOf(r).op = "creating" => CallOf(r).want.does = "create"
        /\ CallOf(r).op = "patching" => CallOf(r).want.does = "update"
    BY <1>3, <1>4, CallIsTyped DEF IInv
  <1>8. \A v \in Users \ {u} : users'[v] = users[v]
    BY <1>6, <1>7, EffectShape DEF IInv
  <1>9. job[r].pc # "creating" => u = job[r].user
    BY <1>6, <1>7 DEF Effect
  <1>10. QED
    BY <1>2, <1>3, <1>5, <1>6, <1>7, <1>8, <1>9

LEMMA NotTheOnlyOne ==
  ASSUME NEW S, IsFiniteSet(S), NEW x, Cardinality(S) > 1
  PROVE  \E y \in S : y # x
  <1>1. SUFFICES ASSUME S \subseteq {x} PROVE FALSE
    OBVIOUS
  <1>2. IsFiniteSet({x}) /\ Cardinality({x}) = 1
    BY FS_Singleton
  <1>3. Cardinality(S) <= 1
    BY <1>1, <1>2, FS_Subset
  <1>4. Cardinality(S) \in Nat
    BY FS_CardinalityType
  <1>5. QED
    BY <1>3, <1>4

(* As long as calls are applied under their lock, an active human          *)
(* administrator remains: errLastAdmin.                                    *)
THEOREM AdminDoesRemain == Spec => AdminRemains
  <1> DEFINE Remains ==
          ~late' /\ ActiveAdmins # {} => ActiveAdmins' # {}
  <1>1. ASSUME IInv, [Next]_vars, ~late', ActiveAdmins # {}
        PROVE  ActiveAdmins' # {}
    <2>1. CASE users' = users
      BY <1>1, <2>1 DEF ActiveAdmins, Exists
    <2>2. CASE users' # users
      <3>1. PICK r \in Requests, u \in Users :
              /\ Knows(r) /\ Within(job[r])
              /\ CallOf(r) \in Calls /\ CallOf(r).op = job[r].pc /\ CallOf(r).want = job[r].want
              /\ job[r].pc \in Sending /\ ~job[r].applied /\ job[r] \in Jobs
              /\ Effect(CallOf(r), u)
              /\ \A v \in Users \ {u} : users'[v] = users[v]
              /\ job[r].pc # "creating" => u = job[r].user
        BY <1>1, <2>2, UnderLock
      <3>2. PICK a : a \in ActiveAdmins
        BY <1>1
      <3>3. \A v \in ActiveAdmins \ {u} : v \in ActiveAdmins'
        BY <3>1 DEF ActiveAdmins, Exists
      <3>4. CASE u \notin ActiveAdmins
        BY <3>2, <3>3, <3>4
      <3>5. CASE u \in ActiveAdmins /\ job[r].pc \in {"creating", "setting", "activating"}
        <4>1. users[u] \in Rows
          BY <1>1, <3>5 DEF IInv, TypeOK, ActiveAdmins, Exists
        <4>2. \/ users'[u] = [users[u] EXCEPT !.password = TRUE]
              \/ users'[u] = [users[u] EXCEPT !.active = TRUE]
          BY <1>1, <3>1, <3>5 DEF Effect, IInv, TypeOK, ActiveAdmins, Exists
        <4>3. /\ users'[u].kind = users[u].kind /\ users'[u].groups = users[u].groups
              /\ users[u].active => users'[u].active
              /\ users'[u] \in Rows
          BY <4>1, <4>2 DEF Rows
        <4>4. u \in ActiveAdmins'
          BY <3>5, <4>3, RowsArePresent DEF ActiveAdmins, Exists, Service
        <4>5. QED
          BY <4>4
      <3>6. CASE u \in ActiveAdmins /\ job[r].pc = "patching" /\ Removes(users[u], job[r].want)
        <4>1. users[u] = job[r].seen
          BY <3>1, <3>6 DEF Knows, Within
        <4>2. Cardinality(ActiveAdmins) > 1
          BY <3>1, <3>6, <4>1 DEF Knows
        <4>3. IsFiniteSet(ActiveAdmins)
          BY UsersAssumption, FS_Subset DEF ActiveAdmins
        <4>4. PICK b \in ActiveAdmins : b # u
          BY <4>2, <4>3, NotTheOnlyOne
        <4>5. QED
          BY <3>3, <4>4
      <3>7. CASE u \in ActiveAdmins /\ job[r].pc = "patching" /\ ~Removes(users[u], job[r].want)
        <4>1. users[u] = job[r].seen /\ job[r].want.does = "update"
          BY <3>1, <3>7 DEF Knows, Within
        <4>2. users[u] \in Rows /\ users[u].active /\ "admin" \in users[u].groups /\ ~Service(users[u])
          BY <1>1, <3>7 DEF IInv, TypeOK, ActiveAdmins, Exists
        <4>3. users'[u] = Patched(users[u], CallOf(r))
          BY <1>1, <3>1, <3>7 DEF Effect, IInv, TypeOK
        <4>4. CallOf(r).groups = GroupsAfter(users[u], job[r].want)
          BY <3>7, <4>1 DEF CallOf
        <4>5. job[r].want.role \in {"as is", "admin"} /\ job[r].want.active # "off"
          <5>1. job[r].want \in Wants
            BY <3>1 DEF Jobs
          <5>2. job[r].want.role \in Roles \union {"as is"}
            BY <4>1, <5>1 DEF Wants
          <5>3. QED
            BY <3>7, <4>2, <5>2 DEF Removes, Roles
        <4>6. job[r].want.active \in {"on", "as is"}
          <5>1. job[r].want \in Wants
            BY <3>1 DEF Jobs
          <5>2. QED
            BY <4>1, <4>5, <5>1 DEF Wants
        <4>7. /\ users'[u].kind = users[u].kind /\ users'[u].active
              /\ users'[u].groups = IF CallOf(r).groups = {} THEN users[u].groups ELSE CallOf(r).groups
          <5> DEFINE row == users[u]
          <5> DEFINE call == CallOf(r)
          <5>1. row \in Rows /\ row.active /\ call.want.active \in {"on", "as is"}
            BY <3>1, <4>2, <4>6
          <5>2. users'[u] = Patched(row, call)
            BY <4>3
          <5> HIDE DEF row, call
          <5>3. Patched(row, call).kind = row.kind
            BY <5>1, PatchedFields
          <5>4. Patched(row, call).groups = IF call.groups = {} THEN row.groups ELSE call.groups
            BY <5>1, PatchedFields
          <5>5. Patched(row, call).active
            BY <5>1, PatchedFields
          <5>6. QED
            BY <5>2, <5>3, <5>4, <5>5 DEF row, call
        <4>8. "admin" \in users'[u].groups /\ "services" \notin users'[u].groups
          BY <4>2, <4>4, <4>5, <4>7, RolesAreGroups DEF GroupsAfter, Service
        <4>9. users'[u] # Absent
          BY <4>2, <4>7 DEF Rows, Absent
        <4>10. u \in ActiveAdmins'
          BY <4>2, <4>7, <4>8, <4>9 DEF ActiveAdmins, Exists, Service
        <4>11. QED
          BY <4>10
      <3>8. QED
        BY <3>1, <3>4, <3>5, <3>6, <3>7 DEF Sending
    <2>3. QED
      BY <2>1, <2>2
  <1>2. IInv /\ [Next]_vars => [Remains]_vars
    BY <1>1
  <1>3. QED
    BY <1>2, Invariance, PTL DEF Spec, AdminRemains

(* No call applied under its lock touches a service identity, and none of  *)
(* a delegate an administrator.                                            *)
THEOREM HandsAreOff == Spec => HandsOff
  <1> DEFINE Off ==
          ~late' =>
            \A u \in Users : users'[u] # users[u] =>
              /\ users[u] # Absent => ~Service(users[u])
              /\ \A r \in Requests : AppliedNow(r) /\ job[r].by = "delegate"
                   => ~Administrator(users[u]) /\ ~Administrator(users'[u])
  <1>1. ASSUME IInv, [Next]_vars, ~late', NEW v \in Users, users'[v] # users[v]
        PROVE  /\ users[v] # Absent => ~Service(users[v])
               /\ \A q \in Requests : AppliedNow(q) /\ job[q].by = "delegate"
                    => ~Administrator(users[v]) /\ ~Administrator(users'[v])
    <2>1. PICK r \in Requests, u \in Users :
            /\ Knows(r) /\ Within(job[r])
            /\ CallOf(r) \in Calls /\ CallOf(r).op = job[r].pc /\ CallOf(r).want = job[r].want
            /\ job[r].pc \in Sending /\ ~job[r].applied /\ job[r] \in Jobs
            /\ Effect(CallOf(r), u)
            /\ job' = [job EXCEPT ![r].applied = TRUE, ![r].user = u]
            /\ \A w \in Users \ {u} : users'[w] = users[w]
            /\ job[r].pc # "creating" => u = job[r].user
      BY <1>1, UnderLock
    <2>2. v = u
      BY <1>1, <2>1
    <2>3. ASSUME NEW q \in Requests, AppliedNow(q) PROVE q = r
      BY <1>1, <2>1, <2>3 DEF AppliedNow, IInv, TypeOK
    <2>4. SUFFICES /\ users[u] # Absent => ~Service(users[u])
                   /\ job[r].by = "delegate" => ~Administrator(users[u]) /\ ~Administrator(users'[u])
      BY <2>2, <2>3
    <2>5. job[r].want \in Wants /\ job[r].by \in Callers
      BY <2>1 DEF Jobs
    <2>6. CASE job[r].pc = "creating"
      <3>1. users[u] = Absent /\ users'[u] = Newborn(job[r].want) /\ job[r].want.does = "create"
        BY <1>1, <2>1, <2>6 DEF Effect, IInv, TypeOK, Exists, Within
      <3>2. users'[u].groups = {job[r].want.role}
        BY <3>1 DEF Newborn
      <3>3. job[r].by = "delegate" => job[r].want.role # "admin"
        BY <2>1, <3>1 DEF Within
      <3>4. QED
        BY <3>1, <3>2, <3>3 DEF Administrator
    <2>7. CASE job[r].pc \in {"setting", "activating"}
      <3>1. users[u] \in Rows
        BY <1>1, <2>1, <2>7 DEF Effect, Exists, IInv, TypeOK
      <3>2. \/ users'[u] = [users[u] EXCEPT !.password = TRUE]
            \/ users'[u] = [users[u] EXCEPT !.active = TRUE]
        BY <1>1, <2>1, <2>7 DEF Effect, IInv, TypeOK
      <3>3. users'[u].groups = users[u].groups
        BY <3>1, <3>2 DEF Rows
      <3>4. CASE job[r].want.does = "create"
        <4>1. users[u].kind = "internal" /\ users[u].groups = {job[r].want.role}
          BY <2>1, <2>7, <3>4 DEF Knows
        <4>2. job[r].want.role \in Roles
          BY <2>5, <3>4 DEF Wants
        <4>3. job[r].by = "delegate" => job[r].want.role # "admin"
          BY <2>1, <3>4 DEF Within
        <4>4. QED
          BY <3>3, <4>1, <4>2, <4>3, RolesAreGroups DEF Service, Administrator
      <3>5. CASE job[r].want.does # "create"
        <4>1. MayChange(users[u], job[r].by, job[r].want)
          BY <2>1, <2>7, <3>5 DEF Knows, Within
        <4>2. QED
          BY <3>3, <4>1 DEF MayChange, Administrator
      <3>6. QED
        BY <3>4, <3>5
    <2>8. CASE job[r].pc = "patching"
      <3>1. /\ job[r].want.does = "update" /\ users[u] = job[r].seen
            /\ MayChange(users[u], job[r].by, job[r].want)
        BY <2>1, <2>8 DEF Knows, Within
      <3>2. users'[u] = Patched(users[u], CallOf(r)) /\ users[u] \in Rows
        BY <1>1, <2>1, <2>8 DEF Effect, IInv, TypeOK, Exists
      <3>3. CallOf(r).groups = GroupsAfter(users[u], job[r].want)
        BY <2>8, <3>1 DEF CallOf
      <3>4. users'[u].groups = IF CallOf(r).groups = {} THEN users[u].groups ELSE CallOf(r).groups
        BY <3>2 DEF Patched, Rows
      <3>5. job[r].by = "delegate" => "admin" \notin users[u].groups /\ job[r].want.role # "admin"
        BY <3>1 DEF MayChange
      <3>6. job[r].by = "delegate" => "admin" \notin users'[u].groups
        BY <3>3, <3>4, <3>5 DEF GroupsAfter
      <3>7. QED
        BY <3>1, <3>5, <3>6 DEF MayChange, Administrator
    <2>9. QED
      BY <2>1, <2>6, <2>7, <2>8 DEF Sending
  <1>2. IInv /\ [Next]_vars => [Off]_vars
    BY <1>1
  <1>3. QED
    BY <1>2, Invariance, PTL DEF Spec, HandsOff

(* However many calls are lost or late, an account without a password is   *)
(* activated by an update only.                                            *)
THEOREM CreationIsLocked == Spec => CreationLocked
  <1> DEFINE Stays ==
          \A u \in Users :
            /\ users'[u] # users[u]
            /\ Exists(u) => ~users[u].active
            /\ users'[u].active /\ ~users'[u].password
            => \E call \in InFlight :
                 call.want.does = "update" /\ call.user = u /\ call.want.active = "on"
  <1>1. ASSUME IInv, [Next]_vars, NEW v \in Users, users'[v] # users[v],
               Exists(v) => ~users[v].active, users'[v].active, ~users'[v].password
        PROVE  \E call \in InFlight :
                 call.want.does = "update" /\ call.user = v /\ call.want.active = "on"
    <2>1. \E c \in InFlight, u \in Users :
            /\ Effect(c, u) /\ c \in Calls
            /\ c.op = "creating" => c.want.does = "create"
            /\ c.op = "patching" => c.want.does = "update"
            /\ c.op = "activating" => c.user \in Users /\ Exists(c.user) /\ users[c.user].password
      <3>1. CASE StrayApplies
        BY <1>1, <3>1 DEF StrayApplies, IInv, TypeOK, AdriftOK, InFlight
      <3>2. ASSUME NEW r \in Requests, Applies(r)
            PROVE  \E c \in InFlight, u \in Users :
                     /\ Effect(c, u) /\ c \in Calls
                     /\ c.op = "creating" => c.want.does = "create"
                     /\ c.op = "patching" => c.want.does = "update"
                     /\ c.op = "activating" => c.user \in Users /\ Exists(c.user) /\ users[c.user].password
        <4>1. RequestOK(r) /\ job[r] \notin {Idle, Leaving} /\ job[r].pc \in Sending /\ ~job[r].applied
          BY <1>1, <3>2 DEF Applies, IInv, Idle, Leaving, Sending
        <4>2. Within(job[r])
          BY <4>1 DEF RequestOK
        <4>3. PICK u \in Users : Effect(CallOf(r), u)
          BY <3>2 DEF Applies
        <4>4. CallOf(r) \in InFlight
          BY <4>1 DEF InFlight
        <4>5. /\ CallOf(r) \in Calls /\ CallOf(r).op = job[r].pc /\ CallOf(r).user = job[r].user
              /\ CallOf(r).op = "creating" => CallOf(r).want.does = "create"
              /\ CallOf(r).op = "patching" => CallOf(r).want.does = "update"
          BY <1>1, <4>1, CallIsTyped DEF IInv
        <4>6. CallOf(r).op = "activating" =>
                CallOf(r).user \in Users /\ Exists(CallOf(r).user) /\ users[CallOf(r).user].password
          BY <4>2, <4>5 DEF Within
        <4>7. QED
          BY <4>3, <4>4, <4>5, <4>6
      <3>3. users' # users
        BY <1>1
      <3>4. QED
        BY <1>1, <3>1, <3>2, <3>3, WhoChanges
    <2>2. PICK c \in InFlight, u \in Users :
            /\ Effect(c, u) /\ c \in Calls
            /\ c.op = "creating" => c.want.does = "create"
            /\ c.op = "patching" => c.want.does = "update"
            /\ c.op = "activating" => c.user \in Users /\ Exists(c.user) /\ users[c.user].password
      BY <2>1
    <2>3. v = u /\ users \in [Users -> Rows \union {Absent}]
      BY <1>1, <2>2, EffectShape DEF IInv, TypeOK
    <2>4. CASE c.op = "creating"
      <3>1. users'[u] = Newborn(c.want)
        BY <2>2, <2>3, <2>4 DEF Effect
      <3>2. QED
        BY <1>1, <2>3, <3>1 DEF Newborn
    <2>5. CASE c.op = "setting"
      <3>1. users[u] \in Rows /\ users'[u] = [users[u] EXCEPT !.password = TRUE]
        BY <2>2, <2>3, <2>5 DEF Effect, Exists
      <3>2. users'[u].password
        BY <3>1 DEF Rows
      <3>3. QED
        BY <1>1, <2>3, <3>2
    <2>6. CASE c.op = "activating"
      <3>1. u = c.user /\ Exists(u) /\ users[u].password
        BY <2>2, <2>6 DEF Effect
      <3>2. users'[u].password
        BY <1>1, <2>2, <3>1, EffectShape DEF IInv
      <3>3. QED
        BY <1>1, <2>3, <3>2
    <2>7. CASE c.op = "patching"
      <3>1. /\ users[u] \in Rows /\ users'[u] = Patched(users[u], c) /\ u = c.user /\ Exists(u)
        BY <2>2, <2>3, <2>7 DEF Effect, Exists
      <3>2. c.want.active # "as is"
        <4>1. c.want.active = "as is" => users'[u].active = users[u].active
          BY <3>1 DEF Patched, Rows
        <4>2. QED
          BY <1>1, <2>3, <3>1, <4>1
      <3>3. c.want.active = "on"
        <4>1. users'[u].active = (c.want.active = "on")
          BY <3>1, <3>2 DEF Patched, Rows
        <4>2. QED
          BY <1>1, <2>3, <4>1
      <3>4. QED
        BY <2>2, <2>3, <2>7, <3>1, <3>3
    <2>8. QED
      BY <2>2, <2>4, <2>5, <2>6, <2>7 DEF Calls, Sending
  <1>2. IInv /\ [Next]_vars => [Stays]_vars
    BY <1>1
  <1>3. QED
    BY <1>2, Invariance, PTL DEF Spec, CreationLocked
=============================================================================
