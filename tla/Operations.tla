----------------------------- MODULE Operations -----------------------------
(***************************************************************************)
(* Servers, the reports about them, and the notifications they raise:      *)
(* internal/platformdb/operations.go and notifications.go, the             *)
(* vocabularies of internal/operations and internal/notifications, and the *)
(* handlers of cmd/server/operations_business.go, notifications.go and     *)
(* service.go (servicePublishEvent).                                       *)
(*                                                                         *)
(* A report reads the server, and then stores itself and moves the server  *)
(* in one transaction: the identifier is taken by the INSERT, the server's *)
(* row is locked by the UPDATE, and both are seen at the commit.  What     *)
(* follows is best effort.  Readers page through their notifications with  *)
(* a cursor while others arrive, are marked read, and authority is given   *)
(* and withdrawn.                                                          *)
(*                                                                         *)
(* Abstractions.  Texts, sources, correlation and entity links are left    *)
(* out; a severity is its rank.  The collections of servers and of reports *)
(* page by the same two statements as the notifications do, and stand for  *)
(* themselves in Page.  Validation that reads nothing is left out.         *)
(***************************************************************************)
EXTENDS Integers, Sequences, FiniteSets

CONSTANTS
  Requests,    \* reports in progress at once
  Servers,
  Statuses,    \* statuses an event may give a server
  NoStatus,    \* what an event says that is not about the server
  Vocabulary,  \* operations.events: the severity and the status of each event
  Mappings,    \* notifications.mappings: the severity and the audience, of some
  Permissions, \* what notifications are addressed to
  Readers,     \* users who read notifications
  Confined,    \* those of them who are confined to scopes
  Severities,  \* the ranks that reporters and publishers name
  Times,       \* moments a report may give for itself
  Never,       \* no report yet
  Limit,       \* ClampLimit
  Authorities, \* the sets of permissions that a reader's roles may give
  MaxReports,  \* bound on reports
  MaxNotices   \* bound on notifications

Ranks == 0..4
Events == DOMAIN Vocabulary

ASSUME VocabularyAssumption ==
  \A e \in Events : Vocabulary[e] \in [severity : Ranks, status : Statuses \union {NoStatus}]
ASSUME MappingsAssumption ==
  \A e \in DOMAIN Mappings : Mappings[e] \in [severity : Ranks, audience : Permissions]
ASSUME SeveritiesAssumption == Severities \subseteq Ranks
ASSUME NamesAssumption ==
  /\ NoStatus \notin Statuses /\ "unknown" \notin Statuses
  /\ Never \notin Times
  /\ Readers \intersect Permissions = {} /\ "*" \notin Permissions
  /\ Confined \subseteq Readers
ASSUME AuthoritiesAssumption == Authorities \subseteq SUBSET (Permissions \union {"*"})
ASSUME BoundsAssumption == Limit \in Nat \ {0} /\ MaxReports \in Nat /\ MaxNotices \in Nat

VARIABLES
  servers,    \* rows of servers: status and last_event_at
  reports,    \* rows of operations_events, in the order of their commits
  nextReport, \* the sequence of operations_events
  notices,    \* rows of notifications
  nextNotice, \* the sequence of notifications
  reads,      \* rows of notification_reads
  authority,  \* the permissions each reader's roles give
  job,        \* what each report is doing
  walk        \* where each reader is in the notifications

reporting == <<servers, reports, nextReport, job>>
reading == <<reads, authority, walk>>
vars == <<reporting, notices, nextNotice, reading>>

Absent == [status |-> "absent"]
Rows == [status : Statuses \union {"unknown"}, last : Times \union {Never}]
Reports == [id : Nat, server : Servers, event : Events, severity : Ranks, at : Times]

NoReport == [id |-> 0]

(* A notification is addressed to a permission or to a reader, and was      *)
(* raised by a report, or without one by an outside event or directly.     *)
Notices == [id : Nat, to : Permissions \union Readers, severity : Ranks,
            by : Reports \union {NoReport}]

Idle == [pc |-> "idle"]
Jobs == [pc : {"inserting", "updating", "committing", "announcing"}, report : Reports]

(* A walk through the notifications: the cursor, what was listed, what must *)
(* be listed before the end, and the authority its request was resolved to. *)
Walks == [pc : {"between", "paging", "ended"}, cursor : Nat, got : SUBSET Nat,
          due : SUBSET Nat, twice : BOOLEAN, unread : BOOLEAN,
          as : Authorities]

Init ==
  /\ servers = [s \in Servers |-> Absent]
  /\ reports = <<>>
  /\ nextReport = 1
  /\ notices = {}
  /\ nextNotice = 1
  /\ reads = {}
  /\ authority \in [Readers -> Authorities]
  /\ job = [r \in Requests |-> Idle]
  /\ walk = [u \in Readers |-> Idle]

-----------------------------------------------------------------------------
(* Servers and reports *)

(* EscalateTo: a reporter may raise a severity, and not lower it. *)
EscalateTo(floor, reported) == IF reported > floor THEN reported ELSE floor

(* A transaction holds the row of the server from its UPDATE on. *)
Locked(s) == \E r \in Requests : job[r].pc = "committing" /\ job[r].report.server = s

(* Variant: a registration starts the server afresh. *)
RegisteredAfresh(row) == [status |-> "unknown", last |-> Never]

(* UpsertServer: the status is not the registration's to write. *)
Registered(row) == IF row = Absent THEN [status |-> "unknown", last |-> Never] ELSE row

Registers ==
  \E s \in Servers :
    /\ ~Locked(s)
    /\ servers' = [servers EXCEPT ![s] = Registered(@)]
    /\ UNCHANGED <<reports, nextReport, job, notices, nextNotice, reading>>

(* serviceReportOperationsEvent: an event of the vocabulary, about a server *)
(* that is registered.  The identifier is known with the INSERT.           *)
ReportArrives(r) ==
  /\ job[r] = Idle
  /\ \E s \in Servers, e \in Events, severity \in Severities, at \in Times :
       /\ servers[s] # Absent
       /\ job' = [job EXCEPT ![r] =
            [pc |-> "inserting",
             report |-> [id |-> 0, server |-> s, event |-> e, at |-> at,
                         severity |-> EscalateTo(Vocabulary[e].severity, severity)]]]
  /\ UNCHANGED <<servers, reports, nextReport, notices, nextNotice, reading>>

Inserts(r) ==
  /\ job[r].pc = "inserting" /\ nextReport <= MaxReports
  /\ nextReport' = nextReport + 1
  /\ job' = [job EXCEPT ![r].pc = "updating", ![r].report.id = nextReport]
  /\ UNCHANGED <<servers, reports, notices, nextNotice, reading>>

(* The UPDATE waits for the row and then keeps it. *)
Updates(r) ==
  /\ job[r].pc = "updating"
  /\ ~Locked(job[r].report.server)
  /\ job' = [job EXCEPT ![r].pc = "committing"]
  /\ UNCHANGED <<servers, reports, nextReport, notices, nextNotice, reading>>

(* What a report makes of its server. *)
After(row, report) ==
  LET status == Vocabulary[report.event].status IN
  [status |-> IF status = NoStatus THEN row.status ELSE status, last |-> report.at]

(* The acknowledgement may be lost, and with it the rest of the handler. *)
Commits(r) ==
  /\ job[r].pc = "committing"
  /\ reports' = Append(reports, job[r].report)
  /\ servers' = [servers EXCEPT ![job[r].report.server] = After(@, job[r].report)]
  /\ \/ job' = [job EXCEPT ![r].pc = "announcing"]
     \/ job' = [job EXCEPT ![r] = Idle]
  /\ UNCHANGED <<nextReport, notices, nextNotice, reading>>

(* An error, or the end of the process: the transaction is rolled back. *)
Fails(r) ==
  /\ job[r].pc \in {"inserting", "updating", "committing", "announcing"}
  /\ job' = [job EXCEPT ![r] = Idle]
  /\ UNCHANGED <<servers, reports, nextReport, notices, nextNotice, reading>>

-----------------------------------------------------------------------------
(* Notifications *)

InsertNotification(to, severity, by) ==
  /\ nextNotice <= MaxNotices /\ nextNotice' = nextNotice + 1
  /\ notices' = notices \union
       {[id |-> nextNotice, to |-> to, severity |-> severity, by |-> by]}

(* Variant: the severity the reporter named is passed on as it is. *)
FromEventAsReported(e, severity, by) ==
  InsertNotification(Mappings[e].audience, severity, by)

(* FromEvent: the notification of a mapped event. *)
FromEvent(e, severity, by) ==
  InsertNotification(Mappings[e].audience, EscalateTo(Mappings[e].severity, severity), by)

(* The event is published and, if it is mapped, notified of. *)
Announces(r) ==
  /\ job[r].pc = "announcing"
  /\ LET report == job[r].report IN
     IF report.event \in DOMAIN Mappings
     THEN FromEvent(report.event, report.severity, report)
     ELSE UNCHANGED <<notices, nextNotice>>
  /\ job' = [job EXCEPT ![r] = Idle]
  /\ UNCHANGED <<servers, reports, nextReport, reading>>

(* servicePublishEvent, for an event that came from outside, and            *)
(* servicePublishNotification, for a recipient or an audience that exists. *)
Publishes ==
  /\ \/ \E e \in DOMAIN Mappings, severity \in Severities : FromEvent(e, severity, NoReport)
     \/ \E to \in Readers \union Permissions, severity \in Severities :
          InsertNotification(to, EscalateTo(1, severity), NoReport)
  /\ UNCHANGED <<reporting, reading>>

(* notificationQueryFor and the visibility predicate: what a reader sees    *)
(* with the authority a request was resolved to.                           *)
Visible(n, u, as) ==
  \/ n.to = u
  \/ u \notin Confined /\ n.to \in Permissions /\ (n.to \in as \/ "*" \in as)

VisibleTo(u, as) == {n.id : n \in {m \in notices : Visible(m, u, as)}}

(* What a walk must list by its end is what was there for its reader when   *)
(* it began, as long as it stays there for him.                            *)
Withdrawn(u, ids) ==
  IF walk[u].pc \in {"between", "paging"} THEN [walk[u] EXCEPT !.due = @ \ ids] ELSE walk[u]

(* Roles, mappings and memberships change outside these tables. *)
AuthorityChanges ==
  \E u \in Readers, perms \in Authorities :
    /\ authority' = [authority EXCEPT ![u] = perms]
    /\ walk' = [walk EXCEPT ![u] =
                  Withdrawn(u, {n.id : n \in {m \in notices : ~Visible(m, u, perms)}})]
    /\ UNCHANGED <<reporting, notices, nextNotice, reads>>

(* The rows of a listing: visible, below the cursor, and unread if that is  *)
(* what was asked for.                                                     *)
Listed(u, as, cursor, unread) ==
  {i \in VisibleTo(u, as) :
     (cursor = 0 \/ i < cursor) /\ (unread => <<u, i>> \notin reads)}

(* The newest of them: ORDER BY id DESC LIMIT. *)
IsPage(page, rows) ==
  /\ \A i \in page, k \in rows \ page : i > k
  /\ Cardinality(page) = Limit \/ (Cardinality(page) < Limit /\ page = rows)

(* listNotifications: the authority of the caller is resolved first. *)
StartsWalk(u) ==
  /\ walk[u].pc \in {"idle", "ended"}
  /\ \E unread \in BOOLEAN :
       walk' = [walk EXCEPT ![u] =
                 [pc |-> "paging", cursor |-> 0, got |-> {}, twice |-> FALSE, unread |-> unread,
                  due |-> Listed(u, authority[u], 0, unread), as |-> authority[u]]]
  /\ UNCHANGED <<reporting, notices, nextNotice, reads, authority>>

AsksNextPage(u) ==
  /\ walk[u].pc = "between"
  /\ walk' = [walk EXCEPT ![u].pc = "paging", ![u].as = authority[u]]
  /\ UNCHANGED <<reporting, notices, nextNotice, reads, authority>>

(* Variant: the row the cursor names is listed again. *)
CursorAboveLast(page, next) == next - 1 \in page /\ \A i \in page : next <= i + 1

(* EncodeCursor of the last row of the page. *)
CursorAfter(page, next) == next \in page /\ \A i \in page : next <= i

(* A short page is the last one. *)
ListsPage(u) ==
  /\ walk[u].pc = "paging"
  /\ LET w == walk[u]
         rows == Listed(u, w.as, w.cursor, w.unread)
     IN  \E page \in SUBSET rows, next \in 0..MaxNotices + 1 :
           /\ IsPage(page, rows)
           /\ IF Cardinality(page) = Limit THEN CursorAfter(page, next) ELSE next = 0
           /\ walk' = [walk EXCEPT ![u] =
                [w EXCEPT !.pc = IF Cardinality(page) = Limit THEN "between" ELSE "ended",
                          !.cursor = next, !.got = @ \union page,
                          !.twice = @ \/ page \intersect w.got # {}]]
  /\ UNCHANGED <<reporting, notices, nextNotice, reads, authority>>

(* markNotificationRead and MarkNotificationRead: one statement; what is    *)
(* not visible is answered like what does not exist.                       *)
MarksRead(u) ==
  \E i \in VisibleTo(u, authority[u]) :
    /\ reads' = reads \union {<<u, i>>}
    /\ walk' = IF walk[u] # Idle /\ walk[u].unread
               THEN [walk EXCEPT ![u] = Withdrawn(u, {i})] ELSE walk
    /\ UNCHANGED <<reporting, notices, nextNotice, authority>>

Next ==
  \/ Registers
  \/ \E r \in Requests :
       \/ ReportArrives(r) \/ Inserts(r) \/ Updates(r) \/ Commits(r)
       \/ Announces(r) \/ Fails(r)
  \/ Publishes
  \/ AuthorityChanges
  \/ \E u \in Readers :
       StartsWalk(u) \/ AsksNextPage(u) \/ ListsPage(u) \/ MarksRead(u)

Spec == Init /\ [][Next]_vars

-----------------------------------------------------------------------------
(* Properties *)

(* Rows, reports in progress and walks have the shape of their types.       *)
TypeOK ==
  /\ servers \in [Servers -> Rows \union {Absent}]
  /\ reports \in Seq(Reports)
  /\ nextReport \in Nat \ {0} /\ nextNotice \in Nat \ {0}
  /\ notices \subseteq Notices
  /\ reads \subseteq Readers \X Nat
  /\ authority \in [Readers -> Authorities]
  /\ job \in [Requests -> Jobs \union {Idle}]
  /\ walk \in [Readers -> Walks \union {Idle}]

About(s) == {k \in 1..Len(reports) : reports[k].server = s}

Telling(s) == {k \in About(s) : Vocabulary[reports[k].event].status # NoStatus}

LastOf(ks, k) == k \in ks /\ \A j \in ks : j <= k

(* A server is what the last report about it that was stored says of it,    *)
(* however reports overlap, fail half way, or cross registrations of the   *)
(* same server: no status without a stored report behind it, and none that *)
(* was stored and not applied (InsertOperationsEvent: "the two belong      *)
(* together").                                                             *)
StatusExplained ==
  \A s \in Servers :
    IF servers[s] = Absent THEN About(s) = {}
    ELSE /\ \/ Telling(s) = {} /\ servers[s].status = "unknown"
            \/ \E k \in Telling(s) :
                 LastOf(Telling(s), k) /\ servers[s].status = Vocabulary[reports[k].event].status
         /\ \/ About(s) = {} /\ servers[s].last = Never
            \/ \E k \in About(s) : LastOf(About(s), k) /\ servers[s].last = reports[k].at

(* A notification of a report is of one that is stored, it is the only one, *)
(* and it is no milder than what the reporter, the vocabulary of           *)
(* operations and the table of notifications say - although the two tables *)
(* are kept apart and each may be the milder one.                          *)
NoticesBacked ==
  \A n \in notices : n.by # NoReport =>
    /\ \E k \in 1..Len(reports) : reports[k] = n.by
    /\ n.by.event \in DOMAIN Mappings
    /\ n.to = Mappings[n.by.event].audience
    /\ n.severity >= n.by.severity /\ n.severity >= Mappings[n.by.event].severity
    /\ n.severity >= Vocabulary[n.by.event].severity
    /\ \A m \in notices : m.by = n.by => m = n

(* A walk by cursors lists everything that was there for the reader when it *)
(* began and stayed, and lists nothing twice, whatever arrives, is marked  *)
(* read, appears or disappears between its pages ("keyset paging is stable *)
(* under insertion", internal/notifications).                              *)
WalkComplete ==
  \A u \in Readers : walk[u].pc # "idle" =>
    ~walk[u].twice /\ (walk[u].pc = "ended" => walk[u].due \subseteq walk[u].got)

-----------------------------------------------------------------------------
(* The inductive invariant *)

(* Reports that are stored or on their way: each has an identifier of its   *)
(* own and a registered server, and one transaction has a server's row.    *)
ReportsApart ==
  /\ \A k \in 1..Len(reports) :
       /\ reports[k].id < nextReport
       /\ servers[reports[k].server] # Absent
       /\ \A j \in 1..Len(reports) : reports[j].id = reports[k].id => j = k
  /\ \A r \in Requests : job[r] # Idle =>
       /\ servers[job[r].report.server] # Absent
       /\ job[r].report.severity >= Vocabulary[job[r].report.event].severity
       /\ job[r].pc # "inserting" =>
            /\ job[r].report.id < nextReport
            /\ \A q \in Requests : job[q] # Idle /\ job[q].pc # "inserting"
                                    /\ job[q].report.id = job[r].report.id => q = r
       /\ job[r].pc \in {"updating", "committing"} =>
            \A k \in 1..Len(reports) : reports[k].id # job[r].report.id
  /\ \A r, q \in Requests :
       job[r].pc = "committing" /\ job[q].pc = "committing"
         /\ job[r].report.server = job[q].report.server => q = r

(* A report that is about to be announced is stored and not yet announced,  *)
(* and what was announced is stored.                                       *)
AnnouncedOnce ==
  /\ \A r \in Requests : job[r].pc = "announcing" =>
       /\ \E k \in 1..Len(reports) : reports[k] = job[r].report
       /\ \A n \in notices : n.by # job[r].report
  /\ \A n \in notices : n.id < nextNotice /\ n.id >= 1

(* What a walk owes its reader is still visible to him, is unread if the    *)
(* unread is what he walks, and was listed or is below the cursor; what    *)
(* was listed is not.                                                      *)
WalksOwe ==
  \A u \in Readers : walk[u].pc \in {"between", "paging"} =>
    LET w == walk[u] IN
    /\ w.due \subseteq VisibleTo(u, authority[u])
    /\ w.pc = "paging" => w.due \subseteq VisibleTo(u, w.as)
    /\ w.unread => \A i \in w.due : <<u, i>> \notin reads
    /\ \A i \in w.due : i \in w.got \/ w.cursor = 0 \/ i < w.cursor
    /\ IF w.cursor = 0 THEN w.got = {} ELSE \A i \in w.got : i >= w.cursor
    /\ w.pc = "between" => w.cursor # 0

IInv ==
  /\ TypeOK
  /\ ReportsApart
  /\ AnnouncedOnce
  /\ WalksOwe
  /\ StatusExplained
  /\ NoticesBacked
  /\ WalkComplete

-----------------------------------------------------------------------------
(* What documents say and the code does not do *)

(* "A stored event whose status was not applied leaves a dashboard          *)
(* disagreeing with its own history" (InsertOperationsEvent): the newest   *)
(* report of the history, which is listed by identifier, is the one whose  *)
(* status the server has.                                                  *)
DashboardAgrees ==
  \A s \in Servers : servers[s] # Absent =>
    \A k \in Telling(s) :
      (\A j \in Telling(s) : reports[j].id <= reports[k].id)
        => servers[s].status = Vocabulary[reports[k].event].status
=============================================================================
