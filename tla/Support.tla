------------------------------- MODULE Support -------------------------------
(***************************************************************************)
(* Support records: the handlers of cmd/server/support.go, their store     *)
(* (internal/platformdb/support.go), and the lifecycle and SLA rules of    *)
(* internal/support/support.go.                                            *)
(*                                                                         *)
(* An update reads the record, checks the transition against what it read, *)
(* opens a transaction and writes unconditionally.  Any number of handlers *)
(* are at any of these steps, on one record or several, and any of them    *)
(* may stop there.  The UPDATE waits for the row's lock, and PostgreSQL's  *)
(* now() is the moment its transaction began, so a write carries a time    *)
(* that may be older than writes it overtakes.                             *)
(*                                                                         *)
(* Abstractions.  Title, summary, kind, client and relations are left out: *)
(* the first four decide nothing here, and a relation set is replaced      *)
(* whole under the row's lock.  Times are small numbers.  SLA policies are *)
(* fixed while records live; a target of 0 is none.                        *)
(***************************************************************************)
EXTENDS Integers

CONSTANTS
  Handlers,    \* requests in progress at once
  Ids,         \* Global IDs support records may get
  Severities,
  Respond,     \* Policy.Respond of each severity
  Resolve,     \* Policy.Resolve of each severity
  Unchanged,   \* the request does not mention the field
  MaxTime      \* bound: the clock stops here

ASSUME TargetsAssumption ==
  Respond \in [Severities -> Nat] /\ Resolve \in [Severities -> Nat]
ASSUME MaxTimeAssumption == MaxTime \in Nat
ASSUME UnchangedAssumption ==
  Unchanged \notin Severities \union {"new", "acknowledged", "in_progress", "resolved", "closed"}

VARIABLES
  allocated,  \* Global IDs handed out by CreateGlobalEntity
  record,     \* rows of support_records
  now,
  job         \* what each handler has done and read so far

vars == <<allocated, record, now, job>>

Statuses == {"new", "acknowledged", "in_progress", "resolved", "closed"}
Never == -1
Moments == {Never} \union 0..MaxTime

Rows == [status : Statuses, severity : Severities, created : 0..MaxTime,
         acknowledged : Moments, resolved : Moments]
Absent == [status |-> "absent"]
Exists(i) == record[i] # Absent

Requests == [status : Statuses \union {Unchanged}, severity : Severities \union {Unchanged}]

(* "read" is existing.Status, "began" when the transaction began, and      *)
(* "overtaken" says how the record's status was changed since it was read. *)
Idle == [pc |-> "idle"]
Creating == [pc : {"allocated"}, id : Ids]
Updating == [pc : {"checked", "writing"}, id : Ids, read : Statuses, want : Requests,
             began : 0..MaxTime, overtaken : SUBSET {"moved", "resolved", "left"}]
Announcing == [pc : {"announcing"}, id : Ids, event : {"created", "updated", "resolved"}]

Init ==
  /\ allocated = {}
  /\ record = [i \in Ids |-> Absent]
  /\ now = 0
  /\ job = [h \in Handlers |-> Idle]

-----------------------------------------------------------------------------
(* The lifecycle and the SLA: pure functions of internal/support *)

(* Variant: a closed record may be reopened. *)
CanTransitionReopening(from, to) ==
  \/ from = to
  \/ to = "in_progress"
  \/ <<from, to>> \in {"new"} \X {"acknowledged", "resolved", "closed"}
  \/ <<from, to>> \in {"acknowledged", "in_progress"} \X {"resolved", "closed"}
  \/ <<from, to>> = <<"resolved", "closed">>

CanTransition(from, to) ==
  \/ from = to
  \/ from # "closed" /\ to = "closed"
  \/ from \in {"new", "acknowledged", "in_progress"} /\ to = "resolved"
  \/ from \in {"new", "acknowledged", "resolved"} /\ to = "in_progress"
  \/ from = "new" /\ to = "acknowledged"

RespondBy(r) == r.created + Respond[r.severity]
ResolveBy(r) == r.created + Resolve[r.severity]

(* The targets that still bind an unresolved record. *)
Targets(r) ==
  {d \in {RespondBy(r)} : Respond[r.severity] > 0 /\ r.acknowledged = Never}
    \union {d \in {ResolveBy(r)} : Resolve[r.severity] > 0}

(* Variant: only the first target is looked at. *)
AtRiskFirstOnly(r, t) ==
  LET due == IF Respond[r.severity] > 0 THEN RespondBy(r) ELSE ResolveBy(r) IN
  due \in Targets(r) /\ 5 * (t - r.created) >= 4 * (due - r.created)

(* Four fifths of the time to one of them is gone. *)
AtRisk(r, t) ==
  \E due \in Targets(r) : 5 * (t - r.created) >= 4 * (due - r.created)

Missed(r, t) ==
  \/ \E due \in Targets(r) : t > due
  \/ Respond[r.severity] > 0 /\ r.acknowledged > RespondBy(r)

(* Evaluate, at time t. *)
SLA(r, t) ==
  IF Respond[r.severity] = 0 /\ Resolve[r.severity] = 0 THEN "unset"
  ELSE IF r.resolved # Never
       THEN IF Resolve[r.severity] > 0 /\ r.resolved > ResolveBy(r) THEN "breached" ELSE "met"
       ELSE IF Missed(r, t) THEN "breached" ELSE IF AtRisk(r, t) THEN "at_risk" ELSE "on_track"

-----------------------------------------------------------------------------
(* createSupportRecord *)

(* The Global ID is minted in a transaction of its own.  Its source key is *)
(* the time in nanoseconds, so two requests may get the same one.          *)
Allocate(h) ==
  /\ job[h] = Idle
  /\ \E i \in Ids :
       /\ i \notin allocated \/ \E g \in Handlers : job[g] = [pc |-> "allocated", id |-> i]
       /\ allocated' = allocated \union {i}
       /\ job' = [job EXCEPT ![h] = [pc |-> "allocated", id |-> i]]
  /\ UNCHANGED <<record, now>>

(* The primary key refuses a second record under one Global ID. *)
Insert(h) ==
  /\ job[h].pc = "allocated"
  /\ ~Exists(job[h].id)
  /\ \E s \in Severities :
       record' = [record EXCEPT ![job[h].id] =
                    [status |-> "new", severity |-> s, created |-> now,
                     acknowledged |-> Never, resolved |-> Never]]
  /\ job' = [job EXCEPT ![h] = [pc |-> "announcing", id |-> job[h].id, event |-> "created"]]
  /\ UNCHANGED <<allocated, now>>

-----------------------------------------------------------------------------
(* updateSupportRecord *)

(* Reads the record and checks what was asked against it; a transition off *)
(* the graph is refused with 409.                                          *)
Read(h) ==
  /\ job[h] = Idle
  /\ \E i \in Ids, w \in Requests :
       /\ Exists(i)
       /\ w.status # Unchanged => CanTransition(record[i].status, w.status)
       /\ job' = [job EXCEPT ![h] =
                    [pc |-> "checked", id |-> i, read |-> record[i].status, want |-> w,
                     began |-> 0, overtaken |-> {}]]
  /\ UNCHANGED <<allocated, record, now>>

Begin(h) ==
  /\ job[h].pc = "checked"
  /\ job' = [job EXCEPT ![h].pc = "writing", ![h].began = now]
  /\ UNCHANGED <<allocated, record, now>>

(* Variant: a field the request does not mention is cleared. *)
GivenAsIs(value, old) == value

Given(value, old) == IF value = Unchanged THEN old ELSE value

(* Variant: a later arrival moves the moment again. *)
StampAgain(moment, reached, time) == IF reached THEN time ELSE moment

Stamp(moment, reached, time) == IF reached /\ moment = Never THEN time ELSE moment

(* Variant: only "resolved" is taken for a resolution. *)
WrittenUnresolved(r, j) ==
  [r EXCEPT !.status = Given(j.want.status, @),
            !.severity = Given(j.want.severity, @),
            !.acknowledged = Stamp(@, j.want.status \notin {Unchanged, "new"}, j.began),
            !.resolved = Stamp(@, j.want.status = "resolved", j.began)]

Written(r, j) ==
  [r EXCEPT !.status = Given(j.want.status, @),
            !.severity = Given(j.want.severity, @),
            !.acknowledged = Stamp(@, j.want.status \notin {Unchanged, "new"}, j.began),
            !.resolved = Stamp(@, j.want.status \in {"resolved", "closed"}, j.began)]

(* Variant: any update that leaves the record resolved announces it. *)
EventOfStatus(j) == IF Given(j.want.status, j.read) = "resolved" THEN "resolved" ELSE "updated"

EventOf(j) ==
  IF Given(j.want.status, j.read) = "resolved" /\ j.read # "resolved"
  THEN "resolved" ELSE "updated"

(* History: that the status was changed, to "resolved", or from there. *)
Changes(from, to) ==
  {m \in {"moved", "resolved", "left"} :
     /\ from # to
     /\ m = "resolved" => to = "resolved"
     /\ m = "left" => from = "resolved"}

Reads(j, i) == j.pc \in {"checked", "writing"} /\ j.id = i

(* The UPDATE names the record and nothing else: what was checked is not   *)
(* checked again.                                                          *)
Write(h) ==
  /\ job[h].pc = "writing"
  /\ LET i == job[h].id IN
     /\ record' = [record EXCEPT ![i] = Written(@, job[h])]
     /\ job' = [g \in Handlers |->
                  IF g = h THEN [pc |-> "announcing", id |-> i, event |-> EventOf(job[h])]
                  ELSE IF Reads(job[g], i)
                       THEN [job[g] EXCEPT !.overtaken =
                               @ \union Changes(record[i].status, record'[i].status)]
                  ELSE job[g]]
  /\ UNCHANGED <<allocated, now>>

-----------------------------------------------------------------------------
(* publishSupportEvent: best effort, after the commit. *)
Announce(h) ==
  /\ job[h].pc = "announcing"
  /\ job' = [job EXCEPT ![h] = Idle]
  /\ UNCHANGED <<allocated, record, now>>

(* An error, a refusal by the database or a crash: the transaction rolls   *)
(* back, or it committed and nothing is announced.                         *)
Stops(h) ==
  /\ job[h].pc \in {"allocated", "checked", "writing"}
  /\ job' = [job EXCEPT ![h] = Idle]
  /\ UNCHANGED <<allocated, record, now>>

Tick ==
  /\ now < MaxTime
  /\ now' = now + 1
  /\ UNCHANGED <<allocated, record, job>>

Next ==
  \/ \E h \in Handlers :
       \/ Allocate(h) \/ Insert(h)
       \/ Read(h) \/ Begin(h) \/ Write(h)
       \/ Announce(h) \/ Stops(h)
  \/ Tick

Spec == Init /\ [][Next]_vars

-----------------------------------------------------------------------------
(* Properties *)

(* Every row and every request in progress has the shape of its type. *)
TypeOK ==
  /\ allocated \subseteq Ids
  /\ record \in [Ids -> Rows \union {Absent}]
  /\ now \in 0..MaxTime
  /\ job \in [Handlers -> {Idle} \union Creating \union Updating \union Announcing]

(* A record that is past "new" has been acknowledged, one that is or was   *)
(* resolved or closed has a resolution moment, and every moment lies       *)
(* between its creation and now - however stale the updates that wrote     *)
(* them, and although the moment is when a transaction began.              *)
MomentsRecorded ==
  \A i \in Ids : Exists(i) => LET r == record[i] IN
    /\ i \in allocated
    /\ r.status # "new" => r.acknowledged # Never
    /\ r.status \in {"resolved", "closed"} => r.resolved # Never
    /\ r.resolved # Never => r.acknowledged # Never
    /\ {r.created, r.acknowledged, r.resolved} \ {Never} \subseteq r.created..now

(* The SLA moments are recorded once and never moved, by no number of late *)
(* or repeated updates, and not by reopening (SupportUpdate).              *)
MomentsStand ==
  [][\A i \in Ids : Exists(i) =>
       /\ record'[i].created = record[i].created
       /\ record[i].acknowledged \in {Never, record'[i].acknowledged}
       /\ record[i].resolved \in {Never, record'[i].resolved}]_vars

(* As time passes the SLA state of an open record only gets worse, by way  *)
(* of at_risk before it is breached, and that of a record once resolved    *)
(* does not move (Evaluate).                                               *)
Outlook == [on_track |-> 0, at_risk |-> 1, breached |-> 2]
ClockOnlyWorsens ==
  [][now' # now =>
       \A i \in Ids : Exists(i) =>
         LET before == SLA(record[i], now)
             after == SLA(record'[i], now')
         IN  \/ after = before
             \/ /\ record[i].resolved = Never
                /\ before \in {"on_track", "at_risk"}
                /\ Outlook[after] = Outlook[before] + 1]_vars

Commits(h) == job[h].pc = "writing" /\ job'[h].pc = "announcing"

(* Unless the status was changed under it, an update moves it along the    *)
(* graph, whatever else others wrote meanwhile: closed is left by none and *)
(* new reached by none (CanTransition, support.go).                        *)
LifecycleHeld ==
  [][\A h \in Handlers : Commits(h) /\ job[h].overtaken = {} =>
       LET from == record[job[h].id].status
           to == record'[job[h].id].status
       IN  from # to => from # "closed" /\ to # "new" /\ (to = "acknowledged" => from = "new")]_vars

(* With any number of updates under way, "resolved" is announced by who    *)
(* brings the record there and by nobody else (docs/SUPPORT.md, Events),   *)
(* and two announce one resolution only if they overlapped: the second     *)
(* read the record before the first wrote it.  None is passed over, unless *)
(* its author found the record resolved already and it was reopened before *)
(* he wrote.                                                               *)
ResolutionAnnounced ==
  [][\A h \in Handlers : Commits(h) =>
       LET from == record[job[h].id].status
           to == record'[job[h].id].status
           announced == job'[h].event = "resolved"
       IN  /\ announced => to = "resolved"
           /\ announced /\ from = "resolved" => "resolved" \in job[h].overtaken
           /\ from # "resolved" /\ to = "resolved" /\ ~announced => "left" \in job[h].overtaken]_vars

(* The inductive invariant behind them: what a request knows of the record *)
(* it read, and what it may still assume of it when it writes.             *)
Knows(j) ==
  /\ j.pc = "allocated" => j.id \in allocated
  /\ j.pc \in {"checked", "writing", "announcing"} => Exists(j.id)
  /\ j.pc \in {"checked", "writing"} =>
       /\ j.want.status # Unchanged => CanTransition(j.read, j.want.status)
       /\ j.overtaken = {} => record[j.id].status = j.read
       /\ j.read # "resolved" /\ "resolved" \notin j.overtaken => record[j.id].status # "resolved"
       /\ j.read = "resolved" /\ "left" \notin j.overtaken => record[j.id].status = "resolved"
  /\ j.pc = "writing" => j.began \in record[j.id].created..now

IInv ==
  /\ TypeOK
  /\ MomentsRecorded
  /\ \A h \in Handlers : Knows(job[h])

-----------------------------------------------------------------------------
(* What documents say and the code does not do *)

(* docs/SUPPORT.md: "closed is terminal.  Reopening it would silently      *)
(* rewrite whatever has already been reported from it."                    *)
ClosedIsTerminal ==
  [][\A i \in Ids : Exists(i) /\ record[i].status = "closed"
                      => record'[i].status = "closed"]_vars
=============================================================================
