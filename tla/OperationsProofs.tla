-------------------------- MODULE OperationsProofs --------------------------
(***************************************************************************)
(* Servers, reports, notifications and walks for any number of requests,   *)
(* servers, readers, rows and pages, and for any two vocabularies.         *)
(***************************************************************************)
EXTENDS Operations, TLAPS

LEMMA Appended ==
  ASSUME NEW S, NEW before \in Seq(S), NEW x \in S, NEW after, after = Append(before, x)
  PROVE  /\ after \in Seq(S) /\ Len(before) \in Nat /\ Len(after) = Len(before) + 1
         /\ \A k \in 1..Len(before) : after[k] = before[k] /\ after[k] \in S
         /\ after[Len(before) + 1] = x
  OBVIOUS

LEMMA WorkingJobs ==
  ASSUME TypeOK, NEW r \in Requests, job[r] # Idle
  PROVE  job[r] \in Jobs /\ job[r].report \in Reports
  BY DEF TypeOK, Jobs

LEMMA StoredReports ==
  ASSUME TypeOK
  PROVE  \A k \in 1..Len(reports) :
           reports[k] \in Reports /\ reports[k].server \in Servers /\ reports[k].id \in Nat
  <1>1. \A k \in 1..Len(reports) : reports[k] \in Reports
    BY DEF TypeOK
  <1>2. QED
    BY <1>1 DEF Reports

LEMMA WalkingWalks ==
  ASSUME TypeOK, NEW u \in Readers, walk[u] # Idle
  PROVE  walk[u] \in Walks
  BY DEF TypeOK

LEMMA VisibleIds ==
  ASSUME TypeOK, NEW u \in Readers, NEW as
  PROVE  VisibleTo(u, as) \subseteq {n.id : n \in notices} /\ VisibleTo(u, as) \subseteq Nat
  BY DEF TypeOK, VisibleTo, Notices

LEMMA EscalatedRank ==
  ASSUME NEW floor \in Ranks, NEW reported \in Ranks
  PROVE  /\ EscalateTo(floor, reported) \in Ranks
         /\ EscalateTo(floor, reported) >= floor /\ EscalateTo(floor, reported) >= reported
  BY DEF EscalateTo, Ranks

(* What a job, a row of servers and a walk may become. *)
LEMMA WithdrawnWalk ==
  ASSUME TypeOK, NEW u \in Readers, NEW ids
  PROVE  /\ Withdrawn(u, ids) \in Walks \union {Idle}
         /\ Withdrawn(u, ids).pc = walk[u].pc
         /\ walk[u].pc \notin {"between", "paging"} => Withdrawn(u, ids) = walk[u]
         /\ walk[u].pc \in {"between", "paging"} =>
              /\ Withdrawn(u, ids).due = walk[u].due \ ids
              /\ Withdrawn(u, ids).got = walk[u].got
              /\ Withdrawn(u, ids).cursor = walk[u].cursor
              /\ Withdrawn(u, ids).twice = walk[u].twice
              /\ Withdrawn(u, ids).unread = walk[u].unread
              /\ Withdrawn(u, ids).as = walk[u].as
  <1>1. CASE walk[u].pc \in {"between", "paging"}
    <2>1. walk[u] \in Walks
      BY <1>1 DEF TypeOK, Idle
    <2>2. Withdrawn(u, ids) = [walk[u] EXCEPT !.due = @ \ ids]
      BY <1>1 DEF Withdrawn
    <2>3. QED
      BY <1>1, <2>1, <2>2 DEF Walks
  <1>2. CASE walk[u].pc \notin {"between", "paging"}
    BY <1>2 DEF Withdrawn, TypeOK
  <1>3. QED
    BY <1>1, <1>2

-----------------------------------------------------------------------------
(* Types *)

LEMMA NoticeTypes ==
  ASSUME TypeOK, NEW to \in Permissions \union Readers, NEW severity \in Ranks,
         NEW by \in Reports \union {NoReport}, InsertNotification(to, severity, by)
  PROVE  notices' \subseteq Notices /\ nextNotice' \in Nat \ {0}
  BY DEF TypeOK, InsertNotification, Notices

LEMMA MappedTypes ==
  ASSUME TypeOK, NEW e \in DOMAIN Mappings, NEW severity \in Ranks,
         NEW by \in Reports \union {NoReport}, FromEvent(e, severity, by)
  PROVE  /\ notices' \subseteq Notices /\ nextNotice' \in Nat \ {0}
         /\ Mappings[e].severity \in Ranks /\ Mappings[e].audience \in Permissions
  <1>1. Mappings[e].severity \in Ranks /\ Mappings[e].audience \in Permissions
    BY MappingsAssumption
  <1>2. EscalateTo(Mappings[e].severity, severity) \in Ranks
    BY <1>1, EscalatedRank
  <1>3. QED
    BY <1>1, <1>2, NoticeTypes DEF FromEvent

LEMMA PublishedTypes ==
  ASSUME TypeOK, Publishes
  PROVE  notices' \subseteq Notices /\ nextNotice' \in Nat \ {0}
  <1>1. CASE \E e \in DOMAIN Mappings, severity \in Severities : FromEvent(e, severity, NoReport)
    BY <1>1, MappedTypes, SeveritiesAssumption
  <1>2. CASE \E to \in Readers \union Permissions, severity \in Severities :
               InsertNotification(to, EscalateTo(1, severity), NoReport)
    <2>1. PICK to \in Readers \union Permissions, severity \in Severities :
               InsertNotification(to, EscalateTo(1, severity), NoReport)
      BY <1>2
    <2>2. EscalateTo(1, severity) \in Ranks
      BY <2>1, EscalatedRank, SeveritiesAssumption DEF Ranks
    <2>3. QED
      BY <2>1, <2>2, NoticeTypes
  <1>3. QED
    BY <1>1, <1>2 DEF Publishes

LEMMA TypeStep == TypeOK /\ ReportsApart /\ [Next]_vars => TypeOK'
  <1> SUFFICES ASSUME TypeOK, ReportsApart, [Next]_vars PROVE TypeOK'
    OBVIOUS
  <1>1. ASSUME Registers PROVE TypeOK'
    <2>1. PICK s \in Servers : servers' = [servers EXCEPT ![s] = Registered(@)]
      BY <1>1 DEF Registers
    <2>2. Registered(servers[s]) \in Rows
      BY DEF TypeOK, Registered, Rows
    <2>3. QED
      BY <1>1, <2>1, <2>2 DEF TypeOK, Registers, reading
  <1>2. ASSUME NEW r \in Requests, ReportArrives(r) PROVE TypeOK'
    <2>1. PICK s \in Servers, e \in Events, severity \in Severities, at \in Times :
            /\ servers[s] # Absent
            /\ job' = [job EXCEPT ![r] =
              [pc |-> "inserting",
               report |-> [id |-> 0, server |-> s, event |-> e, at |-> at,
                           severity |-> EscalateTo(Vocabulary[e].severity, severity)]]]
      BY <1>2, Zenon DEF ReportArrives
    <2>2. EscalateTo(Vocabulary[e].severity, severity) \in Ranks
      BY EscalatedRank, VocabularyAssumption, SeveritiesAssumption
    <2>3. [id |-> 0, server |-> s, event |-> e, at |-> at,
           severity |-> EscalateTo(Vocabulary[e].severity, severity)] \in Reports
      BY <2>2 DEF Reports
    <2>4. job'[r] \in Jobs /\ \A q \in Requests \ {r} : job'[q] = job[q]
      BY <2>1, <2>3 DEF TypeOK, Jobs
    <2>5. job' \in [Requests -> Jobs \union {Idle}]
      BY <2>1, <2>4 DEF TypeOK
    <2>6. QED
      BY <1>2, <2>5 DEF TypeOK, ReportArrives, reading
  <1>3. ASSUME NEW r \in Requests, Inserts(r) PROVE TypeOK'
    <2>1. job[r] \in Jobs /\ job[r].report \in Reports
      BY <1>3, WorkingJobs DEF Inserts, Idle
    <2>2. job' \in [Requests -> Jobs \union {Idle}] /\ nextReport' \in Nat \ {0}
      <3>1. nextReport \in Nat /\ nextReport' \in Nat \ {0}
        BY <1>3 DEF TypeOK, Inserts
      <3>2. [job[r].report EXCEPT !.id = nextReport] \in Reports
        BY <2>1, <3>1 DEF Reports
      <3>3. job' = [job EXCEPT ![r] = [[job[r] EXCEPT !.pc = "updating"]
                      EXCEPT !.report = [job[r].report EXCEPT !.id = nextReport]]]
        BY <1>3, <2>1 DEF Inserts, TypeOK, Jobs
      <3>4. [[job[r] EXCEPT !.pc = "updating"]
               EXCEPT !.report = [job[r].report EXCEPT !.id = nextReport]] \in Jobs
        BY <2>1, <3>2 DEF Jobs
      <3>5. QED
        BY <3>1, <3>3, <3>4 DEF TypeOK
    <2>3. QED
      BY <1>3, <2>2 DEF TypeOK, Inserts, reading
  <1>4. ASSUME NEW r \in Requests, Updates(r) PROVE TypeOK'
    <2>1. job[r] \in Jobs
      BY <1>4, WorkingJobs DEF Updates, Idle
    <2>2. job' \in [Requests -> Jobs \union {Idle}]
      BY <1>4, <2>1 DEF TypeOK, Updates, Jobs
    <2>3. QED
      BY <1>4, <2>2 DEF TypeOK, Updates, reading
  <1>5. ASSUME NEW r \in Requests, Commits(r) PROVE TypeOK'
    <2>1. job[r] \in Jobs /\ job[r].report \in Reports
      BY <1>5, WorkingJobs DEF Commits, Idle
    <2>2. job' \in [Requests -> Jobs \union {Idle}]
      BY <1>5, <2>1 DEF TypeOK, Commits, Jobs
    <2>3. reports' \in Seq(Reports)
      BY <1>5, <2>1, Appended DEF TypeOK, Commits
    <2>4. After(servers[job[r].report.server], job[r].report) \in Rows
      <3>1. servers[job[r].report.server] \in Rows
        BY <1>5, <2>1 DEF TypeOK, ReportsApart, Reports, Commits, Idle
      <3>2. Vocabulary[job[r].report.event].status \in Statuses \union {NoStatus}
        BY <2>1, VocabularyAssumption DEF Reports
      <3>3. QED
        BY <2>1, <3>1, <3>2 DEF After, Rows, Reports
    <2>5. servers' \in [Servers -> Rows \union {Absent}]
      BY <1>5, <2>4 DEF TypeOK, Commits
    <2>6. QED
      BY <1>5, <2>2, <2>3, <2>5 DEF TypeOK, Commits, reading
  <1>6. ASSUME NEW r \in Requests, Announces(r) PROVE TypeOK'
    <2>1. job[r] \in Jobs /\ job[r].report \in Reports
      BY <1>6, WorkingJobs DEF Announces, Idle
    <2>2. job' \in [Requests -> Jobs \union {Idle}]
      BY <1>6 DEF TypeOK, Announces
    <2>3. notices' \subseteq Notices /\ nextNotice' \in Nat \ {0}
      BY <1>6, <2>1, MappedTypes DEF TypeOK, Announces, Reports
    <2>4. QED
      BY <1>6, <2>2, <2>3 DEF TypeOK, Announces, reading
  <1>7. ASSUME NEW r \in Requests, Fails(r) PROVE TypeOK'
    BY <1>7 DEF TypeOK, Fails, reading
  <1>8. ASSUME Publishes PROVE TypeOK'
    BY <1>8, PublishedTypes DEF TypeOK, Publishes, reporting, reading
  <1>9. ASSUME AuthorityChanges PROVE TypeOK'
    <2>1. PICK u \in Readers, perms \in Authorities :
            /\ authority' = [authority EXCEPT ![u] = perms]
            /\ walk' = [walk EXCEPT ![u] =
                 Withdrawn(u, {n.id : n \in {m \in notices : ~Visible(m, u, perms)}})]
      BY <1>9 DEF AuthorityChanges
    <2>2. walk' \in [Readers -> Walks \union {Idle}]
      BY <2>1, WithdrawnWalk DEF TypeOK
    <2>3. QED
      BY <1>9, <2>1, <2>2 DEF TypeOK, AuthorityChanges, reporting
  <1>10. ASSUME NEW u \in Readers, StartsWalk(u) PROVE TypeOK'
    <2>1. PICK unread \in BOOLEAN :
       walk' = [walk EXCEPT ![u] =
                 [pc |-> "paging", cursor |-> 0, got |-> {}, twice |-> FALSE, unread |-> unread,
                  due |-> Listed(u, authority[u], 0, unread), as |-> authority[u]]]
      BY <1>10 DEF StartsWalk
    <2>2. Listed(u, authority[u], 0, unread) \subseteq Nat
      BY VisibleIds DEF Listed
    <2>3. walk' \in [Readers -> Walks \union {Idle}]
      BY <2>1, <2>2 DEF TypeOK, Walks
    <2>4. QED
      BY <1>10, <2>3 DEF TypeOK, StartsWalk, reporting
  <1>11. ASSUME NEW u \in Readers, AsksNextPage(u) PROVE TypeOK'
    <2>1. walk[u] \in Walks
      BY <1>11, WalkingWalks DEF AsksNextPage, Idle
    <2>2. walk' \in [Readers -> Walks \union {Idle}]
      BY <1>11, <2>1 DEF TypeOK, AsksNextPage, Walks
    <2>3. QED
      BY <1>11, <2>2 DEF TypeOK, AsksNextPage, reporting
  <1>12. ASSUME NEW u \in Readers, ListsPage(u) PROVE TypeOK'
    <2>1. walk[u] \in Walks
      BY <1>12, WalkingWalks DEF ListsPage, Idle
    <2>2. PICK page \in SUBSET Listed(u, walk[u].as, walk[u].cursor, walk[u].unread),
               next \in 0..MaxNotices + 1 :
           walk' = [walk EXCEPT ![u] =
                [walk[u] EXCEPT !.pc = IF Cardinality(page) = Limit THEN "between" ELSE "ended",
                          !.cursor = next, !.got = @ \union page,
                          !.twice = @ \/ page \intersect walk[u].got # {}]]
      BY <1>12 DEF ListsPage
    <2>3. page \subseteq Nat /\ next \in Nat
      <3>1. VisibleTo(u, walk[u].as) \subseteq Nat
        BY VisibleIds
      <3>2. page \subseteq VisibleTo(u, walk[u].as)
        BY <2>2 DEF Listed
      <3>3. next \in Nat
        BY <2>2, BoundsAssumption
      <3>4. QED
        BY <3>1, <3>2, <3>3
    <2>4. walk' \in [Readers -> Walks \union {Idle}]
      <3>1. walk[u].got \union page \subseteq Nat
        BY <2>1, <2>3 DEF Walks
      <3>2. (walk[u].twice \/ page \intersect walk[u].got # {}) \in BOOLEAN
        BY <2>1 DEF Walks
      <3>3. QED
        BY <2>1, <2>2, <2>3, <3>1, <3>2 DEF TypeOK, Walks
    <2>5. QED
      BY <1>12, <2>4 DEF TypeOK, ListsPage, reporting
  <1>13. ASSUME NEW u \in Readers, MarksRead(u) PROVE TypeOK'
    <2>1. PICK i \in VisibleTo(u, authority[u]) :
            /\ reads' = reads \union {<<u, i>>}
            /\ walk' = IF walk[u] # Idle /\ walk[u].unread
                       THEN [walk EXCEPT ![u] = Withdrawn(u, {i})] ELSE walk
      BY <1>13 DEF MarksRead
    <2>2. i \in Nat
      BY <2>1, VisibleIds
    <2>3. walk' \in [Readers -> Walks \union {Idle}]
      BY <2>1, WithdrawnWalk DEF TypeOK
    <2>4. reads' \subseteq Readers \X Nat
      BY <2>1, <2>2 DEF TypeOK
    <2>5. QED
      BY <1>13, <2>3, <2>4 DEF TypeOK, MarksRead, reporting
  <1>14. CASE UNCHANGED vars
    BY <1>14 DEF TypeOK, vars, reporting, reading
  <1>15. QED
    BY <1>1, <1>2, <1>3, <1>4, <1>5, <1>6, <1>7, <1>8, <1>9, <1>10, <1>11, <1>12,
       <1>13, <1>14 DEF Next
-----------------------------------------------------------------------------
(* Reports and servers *)

(* Steps that leave the tables and jobs of reporting alone. *)
LEMMA ReportingKept ==
  ASSUME UNCHANGED reporting
  PROVE  (ReportsApart => ReportsApart') /\ (StatusExplained => StatusExplained')
  <1>1. servers' = servers /\ reports' = reports /\ nextReport' = nextReport /\ job' = job
    BY DEF reporting
  <1>2. ReportsApart => ReportsApart'
    BY <1>1 DEF ReportsApart
  <1>3. StatusExplained => StatusExplained'
    BY <1>1 DEF StatusExplained, Telling, About, LastOf
  <1>4. QED
    BY <1>2, <1>3

(* Once a report has been committed its job only goes on to announce it. *)
LEMMA JobsLeft ==
  ASSUME TypeOK, ReportsApart, NEW r \in Requests,
         servers' = servers, reports' = reports, nextReport' = nextReport,
         job' = [job EXCEPT ![r] = Idle]
  PROVE  ReportsApart'
  <1>1. \A q \in Requests : job'[q] = job[q] \/ job'[q] = Idle
    BY DEF TypeOK
  <1>2. Idle.pc = "idle"
    BY DEF Idle
  <1>3. QED
    BY <1>1, <1>2 DEF ReportsApart

LEMMA CommittedRows ==
  ASSUME TypeOK, ReportsApart, NEW r \in Requests, Commits(r)
  PROVE  /\ job[r] \in Jobs /\ job[r].report \in Reports
         /\ Len(reports) \in Nat /\ Len(reports') = Len(reports) + 1
         /\ \A k \in 1..Len(reports) : reports'[k] = reports[k] /\ reports[k] \in Reports
         /\ reports'[Len(reports) + 1] = job[r].report
         /\ \A s \in Servers : s # job[r].report.server => servers'[s] = servers[s]
         /\ servers'[job[r].report.server] = After(servers[job[r].report.server], job[r].report)
         /\ servers[job[r].report.server] \in Rows
         /\ servers[job[r].report.server] # Absent
         /\ \A s \in Servers : servers[s] # Absent => servers'[s] # Absent
  <1>1. job[r] # Idle
    BY DEF Commits, Idle
  <1>2. job[r] \in Jobs /\ job[r].report \in Reports /\ job[r].report.server \in Servers
    BY <1>1, WorkingJobs DEF Reports
  <1>3. servers[job[r].report.server] \in Rows /\ servers[job[r].report.server] # Absent
    BY <1>1, <1>2 DEF TypeOK, ReportsApart
  <1>4. \A k \in 1..Len(reports) : reports'[k] = reports[k] /\ reports[k] \in Reports
    BY <1>2, Appended DEF TypeOK, Commits
  <1>5. Len(reports) \in Nat /\ Len(reports') = Len(reports) + 1
          /\ reports'[Len(reports) + 1] = job[r].report
    BY <1>2, Appended DEF TypeOK, Commits
  <1>6. \A s \in Servers : s # job[r].report.server => servers'[s] = servers[s]
    BY <1>2 DEF TypeOK, Commits
  <1>7. servers'[job[r].report.server] = After(servers[job[r].report.server], job[r].report)
    BY <1>2 DEF TypeOK, Commits
  <1>8. After(servers[job[r].report.server], job[r].report) # Absent
    BY DEF After, Absent
  <1>9. QED
    BY <1>2, <1>3, <1>4, <1>5, <1>6, <1>7, <1>8

LEMMA ApartStep == TypeOK /\ ReportsApart /\ [Next]_vars => ReportsApart'
  <1> SUFFICES ASSUME TypeOK, ReportsApart, [Next]_vars PROVE ReportsApart'
    OBVIOUS
  <1> USE DEF Idle
  <1>1. ASSUME Registers PROVE ReportsApart'
    <2>1. PICK s \in Servers : servers' = [servers EXCEPT ![s] = Registered(@)]
      BY <1>1 DEF Registers
    <2>2. \A t \in Servers : servers[t] # Absent => servers'[t] # Absent
      BY <2>1 DEF TypeOK, Registered, Absent
    <2>3. \A k \in 1..Len(reports) : reports[k].server \in Servers
      BY StoredReports
    <2>4. \A r \in Requests : job[r] # Idle => job[r].report.server \in Servers
      BY WorkingJobs DEF Reports
    <2>5. QED
      BY <1>1, <2>2, <2>3, <2>4 DEF ReportsApart, Registers
  <1>2. ASSUME NEW r \in Requests, ReportArrives(r) PROVE ReportsApart'
    <2>1. PICK s \in Servers, e \in Events, severity \in Severities, at \in Times :
            /\ servers[s] # Absent
            /\ job' = [job EXCEPT ![r] =
              [pc |-> "inserting",
               report |-> [id |-> 0, server |-> s, event |-> e, at |-> at,
                           severity |-> EscalateTo(Vocabulary[e].severity, severity)]]]
      BY <1>2, Zenon DEF ReportArrives
    <2>2. EscalateTo(Vocabulary[e].severity, severity) >= Vocabulary[e].severity
      BY EscalatedRank, VocabularyAssumption, SeveritiesAssumption
    <2>3. /\ \A q \in Requests \ {r} : job'[q] = job[q]
          /\ job'[r].pc = "inserting" /\ job'[r].report.server = s /\ job'[r].report.event = e
          /\ job'[r].report.severity = EscalateTo(Vocabulary[e].severity, severity)
      BY <2>1 DEF TypeOK
    <2>4. QED
      BY <1>2, <2>1, <2>2, <2>3 DEF ReportsApart, ReportArrives
  <1>3. ASSUME NEW r \in Requests, Inserts(r) PROVE ReportsApart'
    <2>1. job[r] \in Jobs /\ job[r].report \in Reports
      BY <1>3, WorkingJobs DEF Inserts
    <2>2. /\ \A q \in Requests \ {r} : job'[q] = job[q]
          /\ job'[r].pc = "updating" /\ job'[r].report.id = nextReport
          /\ job'[r].report.server = job[r].report.server
          /\ job'[r].report.event = job[r].report.event
          /\ job'[r].report.severity = job[r].report.severity
      BY <1>3, <2>1 DEF TypeOK, Inserts, Jobs, Reports
    <2>3. nextReport \in Nat /\ nextReport' = nextReport + 1
      BY <1>3 DEF TypeOK, Inserts
    <2>4. \A k \in 1..Len(reports) : reports[k].id \in Nat
      BY StoredReports
    <2>5. \A q \in Requests : job[q] # Idle => job[q].report.id \in Nat
      BY WorkingJobs DEF Reports
    <2>6. servers' = servers /\ reports' = reports /\ job[r].pc = "inserting"
      BY <1>3 DEF Inserts
    <2>7. ASSUME NEW k \in 1..Len(reports)
          PROVE  /\ reports[k].id < nextReport' /\ reports[k].id # nextReport
                 /\ servers[reports[k].server] # Absent
                 /\ \A j \in 1..Len(reports) : reports[j].id = reports[k].id => j = k
      BY <2>3, <2>4 DEF ReportsApart
    <2>8. ASSUME NEW q \in Requests, job'[q] # Idle
          PROVE  /\ servers[job'[q].report.server] # Absent
                 /\ job'[q].report.severity >= Vocabulary[job'[q].report.event].severity
                 /\ job'[q].pc # "inserting" =>
                      /\ job'[q].report.id < nextReport'
                      /\ \A p \in Requests : job'[p] # Idle /\ job'[p].pc # "inserting"
                            /\ job'[p].report.id = job'[q].report.id => p = q
      <3>1. CASE q = r
        BY <2>2, <2>3, <2>5, <2>6, <3>1 DEF ReportsApart
      <3>2. CASE q # r
        <4>1. job'[q] = job[q] /\ job[q].report.id \in Nat
          BY <2>2, <2>5, <2>8, <3>2
        <4>2. job[q].pc # "inserting" => job[q].report.id < nextReport
          BY <2>8, <4>1 DEF ReportsApart
        <4>3. QED
          BY <2>2, <2>3, <2>8, <4>1, <4>2 DEF ReportsApart
      <3>3. QED
        BY <3>1, <3>2
    <2>9. ASSUME NEW q \in Requests, job'[q].pc \in {"updating", "committing"},
                 NEW k \in 1..Len(reports)
          PROVE  reports[k].id # job'[q].report.id
      BY <2>2, <2>7, <2>9 DEF ReportsApart
    <2>10. ASSUME NEW p \in Requests, NEW q \in Requests,
                  job'[p].pc = "committing", job'[q].pc = "committing",
                  job'[p].report.server = job'[q].report.server
           PROVE  q = p
      BY <2>2, <2>10 DEF ReportsApart
    <2>11. QED
      BY <2>6, <2>7, <2>8, <2>9, <2>10 DEF ReportsApart
  <1>4. ASSUME NEW r \in Requests, Updates(r) PROVE ReportsApart'
    <2>1. job[r] \in Jobs
      BY <1>4, WorkingJobs DEF Updates
    <2>2. /\ \A q \in Requests \ {r} : job'[q] = job[q]
          /\ job'[r].pc = "committing" /\ job'[r].report = job[r].report
      BY <1>4, <2>1 DEF TypeOK, Updates, Jobs
    <2>3. QED
      BY <1>4, <2>2 DEF ReportsApart, Updates, Locked
  <1>5. ASSUME NEW r \in Requests, Commits(r) PROVE ReportsApart'
    <2>1. \A q \in Requests \ {r} : job'[q] = job[q]
      BY <1>5 DEF TypeOK, Commits
    <2>2. job'[r] = Idle \/ (job'[r].pc = "announcing" /\ job'[r].report = job[r].report)
      BY <1>5, CommittedRows DEF TypeOK, Commits, Jobs
    <2>3. nextReport' = nextReport /\ job[r].pc = "committing"
      BY <1>5 DEF Commits
    <2>4. \A k \in 1..Len(reports) : reports[k].server \in Servers
      BY StoredReports
    <2>5. \A q \in Requests : job[q] # Idle => job[q].report.server \in Servers
      BY WorkingJobs DEF Reports
    <2>6. ASSUME NEW k \in 1..Len(reports')
          PROVE  /\ reports'[k].id < nextReport'
                 /\ servers'[reports'[k].server] # Absent
                 /\ \A j \in 1..Len(reports') : reports'[j].id = reports'[k].id => j = k
      BY <1>5, <2>3, <2>4, <2>5, CommittedRows DEF ReportsApart
    <2>7. ASSUME NEW q \in Requests, job'[q] # Idle
          PROVE  /\ servers'[job'[q].report.server] # Absent
                 /\ job'[q].report.severity >= Vocabulary[job'[q].report.event].severity
                 /\ job'[q].pc # "inserting" =>
                      /\ job'[q].report.id < nextReport'
                      /\ \A p \in Requests : job'[p] # Idle /\ job'[p].pc # "inserting"
                            /\ job'[p].report.id = job'[q].report.id => p = q
      BY <1>5, <2>1, <2>2, <2>3, <2>5, <2>7, CommittedRows DEF ReportsApart
    <2>8. ASSUME NEW q \in Requests, job'[q].pc \in {"updating", "committing"},
                 NEW k \in 1..Len(reports')
          PROVE  reports'[k].id # job'[q].report.id
      <3>1. q # r /\ job'[q] = job[q]
        BY <2>1, <2>2, <2>8
      <3>2. job[q].report.id # job[r].report.id
        BY <2>3, <2>8, <3>1 DEF ReportsApart
      <3>3. QED
        BY <1>5, <2>8, <3>1, <3>2, CommittedRows DEF ReportsApart
    <2>9. ASSUME NEW p \in Requests, NEW q \in Requests,
                 job'[p].pc = "committing", job'[q].pc = "committing",
                 job'[p].report.server = job'[q].report.server
          PROVE  q = p
      BY <2>1, <2>2, <2>9 DEF ReportsApart
    <2>10. QED
      BY <2>6, <2>7, <2>8, <2>9 DEF ReportsApart
  <1>6. ASSUME NEW r \in Requests, Announces(r) \/ Fails(r) PROVE ReportsApart'
    BY <1>6, JobsLeft DEF Announces, Fails, Idle
  <1>7. ASSUME UNCHANGED reporting PROVE ReportsApart'
    BY <1>7, ReportingKept
  <1>8. QED
    BY <1>1, <1>2, <1>3, <1>4, <1>5, <1>6, <1>7 DEF Next, Publishes, AuthorityChanges,
       StartsWalk, AsksNextPage, ListsPage, MarksRead, vars

LEMMA StatusKept ==
  ASSUME servers' = servers, reports' = reports, StatusExplained
  PROVE  StatusExplained'
  BY DEF StatusExplained, Telling, About, LastOf

LEMMA StatusStep == TypeOK /\ ReportsApart /\ StatusExplained /\ [Next]_vars => StatusExplained'
  <1> SUFFICES ASSUME TypeOK, ReportsApart, StatusExplained, [Next]_vars PROVE StatusExplained'
    OBVIOUS
  <1>1. ASSUME Registers PROVE StatusExplained'
    <2>1. PICK s \in Servers : servers' = [servers EXCEPT ![s] = Registered(@)]
      BY <1>1 DEF Registers
    <2>2. reports' = reports
      BY <1>1 DEF Registers
    <2>3. \A t \in Servers : servers'[t] = servers[t]
            \/ (servers[t] = Absent /\ servers'[t] = [status |-> "unknown", last |-> Never])
      BY <2>1 DEF TypeOK, Registered
    <2>4. [status |-> "unknown", last |-> Never] # Absent
      BY DEF Absent
    <2>5. \A t \in Servers : About(t) = {} => Telling(t) = {}
      BY DEF Telling
    <2>6. \A t \in Servers : About(t)' = About(t) /\ Telling(t)' = Telling(t)
      BY <2>2 DEF About, Telling
    <2>7. QED
      BY <2>2, <2>3, <2>4, <2>5, <2>6 DEF StatusExplained, LastOf
  <1>2. ASSUME NEW r \in Requests, Commits(r) PROVE StatusExplained'
    <2> SUFFICES ASSUME NEW s \in Servers
                 PROVE  IF servers'[s] = Absent THEN About(s)' = {}
                        ELSE /\ \/ Telling(s)' = {} /\ servers'[s].status = "unknown"
                                \/ \E k \in Telling(s)' : LastOf(Telling(s)', k)
                                     /\ servers'[s].status = Vocabulary[reports'[k].event].status
                             /\ \/ About(s)' = {} /\ servers'[s].last = Never
                                \/ \E k \in About(s)' : LastOf(About(s)', k)
                                     /\ servers'[s].last = reports'[k].at
      BY DEF StatusExplained, LastOf
    <2>1. CASE s # job[r].report.server
      <3>1. About(s)' = About(s)
        BY <1>2, <2>1, CommittedRows DEF About
      <3>2. Telling(s)' = Telling(s)
        <4>1. \A k \in About(s) : reports'[k] = reports[k]
          BY <1>2, CommittedRows DEF About
        <4>2. QED
          BY <3>1, <4>1 DEF Telling
      <3>3. servers'[s] = servers[s] /\ \A k \in About(s) : reports'[k] = reports[k]
        BY <1>2, <2>1, CommittedRows DEF About
      <3>4. QED
        BY <3>1, <3>2, <3>3 DEF StatusExplained, Telling
    <2>2. CASE s = job[r].report.server
      <3>1. PICK new : new = Len(reports) + 1
        OBVIOUS
      <3>2. new \in Nat /\ reports'[new] = job[r].report
        BY <1>2, <3>1, CommittedRows
      <3>3. new \in About(s)' /\ LastOf(About(s)', new)
        BY <1>2, <2>2, <3>1, CommittedRows DEF About, LastOf
      <3>4. \A k \in About(s)' : k # new => k \in About(s) /\ reports'[k] = reports[k]
        BY <1>2, <3>1, CommittedRows DEF About
      <3>5. \A k \in About(s) : k \in About(s)' /\ reports'[k] = reports[k]
        BY <1>2, <3>1, CommittedRows DEF About
      <3>6. servers'[s] = After(servers[s], job[r].report) /\ servers'[s] # Absent
        BY <1>2, <2>2, CommittedRows DEF After, Absent
      <3>7. servers'[s].last = reports'[new].at
        BY <3>2, <3>6 DEF After
      <3>8. CASE Vocabulary[job[r].report.event].status # NoStatus
        <4>1. new \in Telling(s)' /\ LastOf(Telling(s)', new)
          BY <3>2, <3>3, <3>8 DEF Telling, LastOf
        <4>2. servers'[s].status = Vocabulary[reports'[new].event].status
          BY <3>2, <3>6, <3>8 DEF After
        <4>3. QED
          BY <3>3, <3>6, <3>7, <4>1, <4>2
      <3>9. CASE Vocabulary[job[r].report.event].status = NoStatus
        <4>1. Telling(s)' = Telling(s)
          BY <3>2, <3>4, <3>5, <3>9 DEF Telling
        <4>2. servers'[s].status = servers[s].status
          BY <3>6, <3>9 DEF After
        <4>3. \A k \in Telling(s) : reports'[k] = reports[k]
          BY <3>5 DEF Telling
        <4>4. servers[s] # Absent
          BY <1>2, <2>2, CommittedRows
        <4>5. QED
          BY <3>3, <3>6, <3>7, <4>1, <4>2, <4>3, <4>4 DEF StatusExplained
      <3>10. QED
        BY <3>8, <3>9
    <2>3. QED
      BY <2>1, <2>2
  <1>3. ASSUME servers' = servers, reports' = reports PROVE StatusExplained'
    BY <1>3, StatusKept
  <1>4. QED
    BY <1>1, <1>2, <1>3 DEF Next, ReportArrives, Inserts, Updates, Announces, Fails, Publishes,
       AuthorityChanges, StartsWalk, AsksNextPage, ListsPage, MarksRead, vars, reporting
-----------------------------------------------------------------------------
(* Notifications *)

LEMMA NewNotice ==
  ASSUME TypeOK, NEW to, NEW severity, NEW by, InsertNotification(to, severity, by)
  PROVE  \A n \in notices' :
           n \in notices \/ n = [id |-> nextNotice, to |-> to, severity |-> severity, by |-> by]
  BY DEF InsertNotification

(* Steps after which every notification was there or is of no report. *)
LEMMA NoticesKept ==
  ASSUME TypeOK, NoticesBacked, AnnouncedOnce,
         \A n \in notices' : n \in notices
           \/ (n.by = NoReport /\ n.id = nextNotice /\ nextNotice' = nextNotice + 1),
         nextNotice' = nextNotice \/ nextNotice' = nextNotice + 1,
         \A k \in 1..Len(reports) : k \in 1..Len(reports') /\ reports'[k] = reports[k],
         \A r \in Requests : job'[r].pc = "announcing" =>
           job[r].pc = "announcing" /\ job'[r].report = job[r].report /\ job[r].report # NoReport
  PROVE  NoticesBacked' /\ AnnouncedOnce'
  <1>1. NoticesBacked'
    BY DEF NoticesBacked
  <1>2. nextNotice \in Nat \ {0}
    BY DEF TypeOK
  <1>3. \A n \in notices' : n.id < nextNotice' /\ n.id >= 1
    <2>1. \A n \in notices : n.id \in Nat
      BY DEF TypeOK, Notices
    <2>2. QED
      BY <1>2, <2>1 DEF AnnouncedOnce
  <1>4. QED
    BY <1>1, <1>3 DEF AnnouncedOnce

LEMMA ReportsAreNot == NoReport \notin Reports
  <1> SUFFICES ASSUME NoReport \in Reports PROVE FALSE
    OBVIOUS
  <1>1. DOMAIN NoReport = {"id"}
    BY DEF NoReport
  <1>2. DOMAIN NoReport = {"id", "server", "event", "severity", "at"}
    BY DEF Reports
  <1>3. "server" # "id"
    OBVIOUS
  <1>4. QED
    BY <1>1, <1>2, <1>3

LEMMA NoticeStep ==
  TypeOK /\ ReportsApart /\ AnnouncedOnce /\ NoticesBacked /\ [Next]_vars
    => AnnouncedOnce' /\ NoticesBacked'
  <1> SUFFICES ASSUME TypeOK, ReportsApart, AnnouncedOnce, NoticesBacked, [Next]_vars
               PROVE  AnnouncedOnce' /\ NoticesBacked'
    OBVIOUS
  <1>0. \A r \in Requests : job[r].pc = "announcing" => job[r].report # NoReport
    BY WorkingJobs, ReportsAreNot DEF Idle
  <1>1. ASSUME NEW r \in Requests, Commits(r) PROVE AnnouncedOnce' /\ NoticesBacked'
    <2>1. \A q \in Requests \ {r} : job'[q] = job[q]
      BY <1>1 DEF TypeOK, Commits
    <2>2. job'[r] = Idle \/ (job'[r].pc = "announcing" /\ job'[r].report = job[r].report)
      <3>1. job[r] \in Jobs
        BY <1>1, CommittedRows
      <3>2. QED
        BY <1>1, <3>1 DEF TypeOK, Commits, Jobs
    <2>3. notices' = notices /\ nextNotice' = nextNotice /\ job[r].pc = "committing"
      BY <1>1 DEF Commits
    <2>4. \A k \in 1..Len(reports) : k \in 1..Len(reports') /\ reports'[k] = reports[k]
      BY <1>1, CommittedRows
    <2>5. NoticesBacked'
      BY <2>3, <2>4 DEF NoticesBacked
    <2>6. \A n \in notices : n.by # job[r].report
      <3>1. SUFFICES ASSUME NEW n \in notices, n.by = job[r].report PROVE FALSE
        OBVIOUS
      <3>2. job[r].report \in Reports
        BY <1>1, CommittedRows
      <3>3. PICK k \in 1..Len(reports) : reports[k] = job[r].report
        BY <3>1, <3>2, ReportsAreNot DEF NoticesBacked
      <3>4. QED
        BY <2>3, <3>3 DEF ReportsApart, Idle
    <2>7. \E k \in 1..Len(reports') : reports'[k] = job[r].report
      <3>1. Len(reports) + 1 \in 1..Len(reports')
        BY <1>1, CommittedRows
      <3>2. QED
        BY <1>1, <3>1, CommittedRows
    <2>8. AnnouncedOnce'
      BY <2>1, <2>2, <2>3, <2>4, <2>6, <2>7 DEF AnnouncedOnce, Idle
    <2>9. QED
      BY <2>5, <2>8
  <1>2. ASSUME NEW r \in Requests, Announces(r) PROVE AnnouncedOnce' /\ NoticesBacked'
    <2>1. PICK report : report = job[r].report
      OBVIOUS
    <2>2. report \in Reports /\ report # NoReport /\ job[r].pc = "announcing"
      BY <1>2, <2>1, WorkingJobs, ReportsAreNot DEF Announces, Idle
    <2>3. /\ \A q \in Requests \ {r} : job'[q] = job[q]
          /\ job'[r] = Idle /\ reports' = reports
      BY <1>2 DEF TypeOK, Announces
    <2>4. CASE report.event \notin DOMAIN Mappings
      <3>1. notices' = notices /\ nextNotice' = nextNotice
        BY <1>2, <2>1, <2>4 DEF Announces
      <3>2. QED
        BY <1>0, <2>3, <3>1, NoticesKept DEF Idle
    <2>5. CASE report.event \in DOMAIN Mappings
      <3>1. PICK e : e = report.event
        OBVIOUS
      <3>2. FromEvent(e, report.severity, report) /\ e \in DOMAIN Mappings
        BY <1>2, <2>1, <2>5, <3>1 DEF Announces
      <3>3. /\ Mappings[e].severity \in Ranks /\ report.severity \in Ranks
            /\ EscalateTo(Mappings[e].severity, report.severity) >= Mappings[e].severity
            /\ EscalateTo(Mappings[e].severity, report.severity) >= report.severity
            /\ EscalateTo(Mappings[e].severity, report.severity) \in Ranks
        BY <2>2, <3>2, EscalatedRank, MappingsAssumption DEF Reports
      <3>4. PICK new : new = [id |-> nextNotice, to |-> Mappings[e].audience,
                              severity |-> EscalateTo(Mappings[e].severity, report.severity),
                              by |-> report]
        OBVIOUS
      <3>5. notices' = notices \union {new} /\ nextNotice' = nextNotice + 1
        BY <3>2, <3>4 DEF FromEvent, InsertNotification
      <3>6. (\E k \in 1..Len(reports) : reports[k] = report) /\ \A n \in notices : n.by # report
        BY <2>1, <2>2 DEF AnnouncedOnce
      <3>7. report.severity >= Vocabulary[e].severity
        BY <2>1, <2>2, <3>1 DEF ReportsApart, Idle
      <3>8. Vocabulary[e].severity \in Ranks
        BY <2>2, <3>1, VocabularyAssumption DEF Reports
      <3>9. new.severity >= Vocabulary[e].severity
        BY <3>3, <3>4, <3>7, <3>8 DEF Ranks
      <3>10. NoticesBacked'
        <4>1. ASSUME NEW n \in notices', n.by # NoReport
              PROVE  /\ \E k \in 1..Len(reports') : reports'[k] = n.by
                     /\ n.by.event \in DOMAIN Mappings
                     /\ n.to = Mappings[n.by.event].audience
                     /\ n.severity >= n.by.severity /\ n.severity >= Mappings[n.by.event].severity
                     /\ n.severity >= Vocabulary[n.by.event].severity
          <5>1. CASE n = new
            BY <2>3, <3>1, <3>2, <3>3, <3>4, <3>6, <3>9, <5>1
          <5>2. CASE n \in notices
            BY <2>3, <4>1, <5>2 DEF NoticesBacked
          <5>3. QED
            BY <3>5, <5>1, <5>2
        <4>2. ASSUME NEW n \in notices', n.by # NoReport, NEW m \in notices', m.by = n.by
              PROVE  m = n
          BY <3>4, <3>5, <3>6, <4>2 DEF NoticesBacked
        <4>3. QED
          BY <4>1, <4>2 DEF NoticesBacked
      <3>11. AnnouncedOnce'
        <4>1. ASSUME NEW q \in Requests, job'[q].pc = "announcing"
              PROVE  job[q].pc = "announcing" /\ job'[q].report = job[q].report
                       /\ job[q].report # report
          <5>1. q # r /\ job'[q] = job[q]
            BY <2>3, <4>1 DEF Idle
          <5>2. QED
            BY <2>1, <2>2, <4>1, <5>1 DEF ReportsApart, Idle
        <4>2. \A n \in notices' : n.id < nextNotice' /\ n.id >= 1
          <5>1. nextNotice \in Nat \ {0} /\ \A n \in notices : n.id \in Nat
            BY DEF TypeOK, Notices
          <5>2. QED
            BY <3>4, <3>5, <5>1 DEF AnnouncedOnce
        <4>3. QED
          BY <2>3, <3>4, <3>5, <4>1, <4>2 DEF AnnouncedOnce
      <3>12. QED
        BY <3>10, <3>11
    <2>6. QED
      BY <2>4, <2>5
  <1>3. ASSUME NEW r \in Requests, ReportArrives(r) \/ Inserts(r) \/ Updates(r) \/ Fails(r)
        PROVE  AnnouncedOnce' /\ NoticesBacked'
    <2>1. /\ notices' = notices /\ nextNotice' = nextNotice /\ reports' = reports
          /\ \A q \in Requests \ {r} : job'[q] = job[q]
      BY <1>3 DEF TypeOK, ReportArrives, Inserts, Updates, Fails
    <2>2. job'[r].pc # "announcing"
      <3>1. CASE ReportArrives(r)
        BY <3>1 DEF TypeOK, ReportArrives
      <3>2. CASE Inserts(r) \/ Updates(r)
        <4>1. job[r] \in Jobs
          BY <3>2, WorkingJobs DEF Inserts, Updates, Idle
        <4>2. QED
          BY <3>2, <4>1 DEF TypeOK, Inserts, Updates, Jobs
      <3>3. CASE Fails(r)
        BY <3>3 DEF TypeOK, Fails, Idle
      <3>4. QED
        BY <1>3, <3>1, <3>2, <3>3
    <2>3. QED
      BY <1>0, <2>1, <2>2, NoticesKept
  <1>4. ASSUME Publishes PROVE AnnouncedOnce' /\ NoticesBacked'
    <2>1. /\ \A n \in notices' : n \in notices \/ (n.by = NoReport /\ n.id = nextNotice)
          /\ nextNotice' = nextNotice + 1
      BY <1>4, NewNotice DEF Publishes, FromEvent, InsertNotification
    <2>2. reports' = reports /\ job' = job
      BY <1>4 DEF Publishes, reporting
    <2>3. QED
      BY <1>0, <2>1, <2>2, NoticesKept
  <1>5. ASSUME notices' = notices, nextNotice' = nextNotice, reports' = reports, job' = job
        PROVE  AnnouncedOnce' /\ NoticesBacked'
    BY <1>0, <1>5, NoticesKept
  <1>6. QED
    BY <1>1, <1>2, <1>3, <1>4, <1>5 DEF Next, Registers,
       AuthorityChanges, StartsWalk, AsksNextPage, ListsPage, MarksRead, vars, reporting
-----------------------------------------------------------------------------
(* Walks *)

(* What a walk owes, of a walk and of what its reader sees. *)
WalkOwes(u) ==
  /\ walk[u].due \subseteq VisibleTo(u, authority[u])
  /\ walk[u].pc = "paging" => walk[u].due \subseteq VisibleTo(u, walk[u].as)
  /\ walk[u].unread => \A i \in walk[u].due : <<u, i>> \notin reads
  /\ \A i \in walk[u].due : i \in walk[u].got \/ walk[u].cursor = 0 \/ i < walk[u].cursor
  /\ IF walk[u].cursor = 0 THEN walk[u].got = {} ELSE \A i \in walk[u].got : i >= walk[u].cursor
  /\ walk[u].pc = "between" => walk[u].cursor # 0

WalkTold(u) ==
  walk[u].pc # "idle" =>
    ~walk[u].twice /\ (walk[u].pc = "ended" => walk[u].due \subseteq walk[u].got)

Walking(u) == walk[u].pc \in {"between", "paging"}

LEMMA WalksOf ==
  /\ WalksOwe <=> \A u \in Readers : Walking(u) => WalkOwes(u)
  /\ WalkComplete <=> \A u \in Readers : WalkTold(u)
  BY DEF WalksOwe, WalkOwes, WalkComplete, WalkTold, Walking

(* A walk that a step leaves alone, or only owes less. *)
LEMMA OwesLess ==
  ASSUME TypeOK, NEW u \in Readers, Walking(u) => WalkOwes(u), WalkTold(u),
         NEW ids, walk'[u] = walk[u] \/ walk'[u] = Withdrawn(u, ids),
         notices \subseteq notices',
         Walking(u) => \A i \in walk'[u].due :
           /\ i \in VisibleTo(u, authority[u])'
           /\ walk[u].unread => <<u, i>> \notin reads'
  PROVE  (Walking(u) => WalkOwes(u))' /\ WalkTold(u)'
  <1>1. CASE Walking(u)
    <2>1. /\ walk'[u].pc = walk[u].pc /\ walk'[u].due \subseteq walk[u].due
          /\ walk'[u].got = walk[u].got /\ walk'[u].cursor = walk[u].cursor
          /\ walk'[u].twice = walk[u].twice /\ walk'[u].unread = walk[u].unread
          /\ walk'[u].as = walk[u].as
      BY <1>1, WithdrawnWalk DEF Walking
    <2>2. PICK as : as = walk[u].as
      OBVIOUS
    <2>3. VisibleTo(u, as) \subseteq VisibleTo(u, as)'
      BY DEF VisibleTo, Visible
    <2>4. VisibleTo(u, walk[u].as)' = VisibleTo(u, as)'
      BY <2>1, <2>2 DEF VisibleTo, Visible
    <2>5. QED
      BY <1>1, <2>1, <2>2, <2>3, <2>4 DEF Walking, WalkOwes, WalkTold
  <1>2. CASE ~Walking(u)
    <2>1. walk'[u] = walk[u]
      BY <1>2, WithdrawnWalk DEF Walking
    <2>2. QED
      BY <1>2, <2>1 DEF Walking, WalkTold
  <1>3. QED
    BY <1>1, <1>2

(* Every step that leaves a walk, its reader's authority and his reads      *)
(* alone.                                                                  *)
LEMMA WalkKept ==
  ASSUME TypeOK, NEW u \in Readers, Walking(u) => WalkOwes(u), WalkTold(u),
         walk'[u] = walk[u], notices \subseteq notices', authority'[u] = authority[u],
         \A i : <<u, i>> \in reads' => <<u, i>> \in reads
  PROVE  (Walking(u) => WalkOwes(u))' /\ WalkTold(u)'
  <1>1. VisibleTo(u, authority[u]) \subseteq VisibleTo(u, authority[u])'
    BY DEF VisibleTo, Visible
  <1>2. QED
    BY <1>1, OwesLess DEF WalkOwes

LEMMA WalkStep ==
  TypeOK /\ AnnouncedOnce /\ WalksOwe /\ WalkComplete /\ [Next]_vars => WalksOwe' /\ WalkComplete'
  <1> SUFFICES ASSUME TypeOK, AnnouncedOnce, WalksOwe, WalkComplete, [Next]_vars, NEW v \in Readers
               PROVE  (Walking(v) => WalkOwes(v))' /\ WalkTold(v)'
    BY DEF WalksOwe, WalkOwes, WalkComplete, WalkTold, Walking
  <1>0. (Walking(v) => WalkOwes(v)) /\ WalkTold(v)
    BY WalksOf
  <1>1. ASSUME notices \subseteq notices', UNCHANGED reading
        PROVE  (Walking(v) => WalkOwes(v))' /\ WalkTold(v)'
    BY <1>0, <1>1, WalkKept DEF reading
  <1>2. ASSUME AuthorityChanges PROVE (Walking(v) => WalkOwes(v))' /\ WalkTold(v)'
    <2>1. PICK u \in Readers, perms \in Authorities :
            /\ authority' = [authority EXCEPT ![u] = perms]
            /\ walk' = [walk EXCEPT ![u] =
                 Withdrawn(u, {n.id : n \in {m \in notices : ~Visible(m, u, perms)}})]
      BY <1>2 DEF AuthorityChanges
    <2>2. notices' = notices /\ reads' = reads
      BY <1>2 DEF AuthorityChanges
    <2>3. CASE v # u
      BY <1>0, <2>1, <2>2, <2>3, WalkKept DEF TypeOK
    <2>4. CASE v = u
      <3>1. PICK ids : ids = {n.id : n \in {m \in notices : ~Visible(m, u, perms)}}
        OBVIOUS
      <3>2. walk'[u] = Withdrawn(u, ids) /\ authority'[u] = perms
        BY <2>1, <3>1 DEF TypeOK
      <3>3. ASSUME Walking(u), NEW i \in walk'[u].due
            PROVE  i \in VisibleTo(u, authority[u])' /\ (walk[u].unread => <<u, i>> \notin reads')
        <4>1. i \in walk[u].due /\ i \notin ids
          BY <3>2, <3>3, WithdrawnWalk DEF Walking
        <4>2. PICK n \in notices : n.id = i
          BY <1>0, <2>4, <3>3, <4>1, VisibleIds DEF WalkOwes
        <4>3. Visible(n, u, perms)
          BY <3>1, <4>1, <4>2
        <4>4. Visible(n, u, authority'[u])
          BY <3>2, <4>3
        <4>5. i \in VisibleTo(u, authority[u])'
          BY <2>2, <4>2, <4>4 DEF VisibleTo, Visible
        <4>6. QED
          BY <1>0, <2>2, <2>4, <3>3, <4>1, <4>5 DEF WalkOwes
      <3>4. QED
        BY <1>0, <2>2, <2>4, <3>2, <3>3, OwesLess
    <2>5. QED
      BY <2>3, <2>4
  <1>3. ASSUME NEW u \in Readers, StartsWalk(u) PROVE (Walking(v) => WalkOwes(v))' /\ WalkTold(v)'
    <2>1. PICK unread \in BOOLEAN :
       walk' = [walk EXCEPT ![u] =
                 [pc |-> "paging", cursor |-> 0, got |-> {}, twice |-> FALSE, unread |-> unread,
                  due |-> Listed(u, authority[u], 0, unread), as |-> authority[u]]]
      BY <1>3 DEF StartsWalk
    <2>2. notices' = notices /\ reads' = reads /\ authority' = authority
      BY <1>3 DEF StartsWalk
    <2>3. CASE v # u
      BY <1>0, <2>1, <2>2, <2>3, WalkKept DEF TypeOK
    <2>4. CASE v = u
      <3>1. /\ walk'[u].pc = "paging" /\ walk'[u].cursor = 0 /\ walk'[u].got = {}
            /\ walk'[u].twice = FALSE /\ walk'[u].unread = unread
            /\ walk'[u].due = Listed(u, authority[u], 0, unread) /\ walk'[u].as = authority[u]
        BY <2>1 DEF TypeOK
      <3>2. /\ Listed(u, authority[u], 0, unread) \subseteq VisibleTo(u, authority[u])
            /\ unread => \A i \in Listed(u, authority[u], 0, unread) : <<u, i>> \notin reads
        BY DEF Listed
      <3>3. VisibleTo(u, authority[u])' = VisibleTo(u, authority[u])
        BY <2>2 DEF VisibleTo, Visible
      <3>4. VisibleTo(u, walk[u].as)' = VisibleTo(u, authority[u])
        BY <2>2, <3>1 DEF VisibleTo, Visible
      <3>5. QED
        BY <2>2, <2>4, <3>1, <3>2, <3>3, <3>4 DEF WalkOwes, WalkTold
    <2>5. QED
      BY <2>3, <2>4
  <1>4. ASSUME NEW u \in Readers, AsksNextPage(u) PROVE (Walking(v) => WalkOwes(v))' /\ WalkTold(v)'
    <2>1. notices' = notices /\ reads' = reads /\ authority' = authority /\ walk[u].pc = "between"
      BY <1>4 DEF AsksNextPage
    <2>2. CASE v # u
      BY <1>0, <1>4, <2>1, <2>2, WalkKept DEF TypeOK, AsksNextPage
    <2>3. CASE v = u
      <3>1. walk[u] \in Walks /\ WalkOwes(u) /\ WalkTold(u)
        BY <1>0, <2>1, <2>3, WalkingWalks DEF Walking, Idle
      <3>2. /\ walk'[u].pc = "paging" /\ walk'[u].cursor = walk[u].cursor
            /\ walk'[u].got = walk[u].got /\ walk'[u].twice = walk[u].twice
            /\ walk'[u].unread = walk[u].unread /\ walk'[u].due = walk[u].due
            /\ walk'[u].as = authority[u]
        BY <1>4, <3>1 DEF TypeOK, AsksNextPage, Walks
      <3>3. VisibleTo(u, authority[u])' = VisibleTo(u, authority[u])
        BY <2>1 DEF VisibleTo, Visible
      <3>4. VisibleTo(u, walk[u].as)' = VisibleTo(u, authority[u])
        BY <2>1, <3>2 DEF VisibleTo, Visible
      <3>5. QED
        BY <2>1, <2>3, <3>1, <3>2, <3>3, <3>4 DEF WalkOwes, WalkTold
    <2>4. QED
      BY <2>2, <2>3
  <1>5. ASSUME NEW u \in Readers, ListsPage(u) PROVE (Walking(v) => WalkOwes(v))' /\ WalkTold(v)'
    <2>1. /\ notices' = notices /\ reads' = reads /\ authority' = authority
          /\ walk[u].pc = "paging"
      BY <1>5 DEF ListsPage
    <2>2. PICK rows : rows = Listed(u, walk[u].as, walk[u].cursor, walk[u].unread)
      OBVIOUS
    <2>3. PICK page \in SUBSET rows, next \in 0..MaxNotices + 1 :
           /\ IsPage(page, rows)
           /\ IF Cardinality(page) = Limit THEN CursorAfter(page, next) ELSE next = 0
           /\ walk' = [walk EXCEPT ![u] =
                [walk[u] EXCEPT !.pc = IF Cardinality(page) = Limit THEN "between" ELSE "ended",
                          !.cursor = next, !.got = @ \union page,
                          !.twice = @ \/ page \intersect walk[u].got # {}]]
      BY <1>5, <2>2 DEF ListsPage
    <2>4. CASE v # u
      BY <1>0, <2>1, <2>3, <2>4, WalkKept DEF TypeOK
    <2>5. CASE v = u
      <3>1. walk[u] \in Walks /\ WalkOwes(u) /\ WalkTold(u)
        BY <1>0, <2>1, <2>5, WalkingWalks DEF Walking, Idle
      <3>2. /\ walk'[u].pc = (IF Cardinality(page) = Limit THEN "between" ELSE "ended")
            /\ walk'[u].cursor = next /\ walk'[u].got = walk[u].got \union page
            /\ walk'[u].twice = (walk[u].twice \/ page \intersect walk[u].got # {})
            /\ walk'[u].unread = walk[u].unread /\ walk'[u].due = walk[u].due
        BY <2>3, <3>1 DEF TypeOK, Walks
      <3>3. /\ rows \subseteq Nat /\ \A i \in rows : i >= 1
            /\ walk[u].cursor \in Nat /\ next \in Nat /\ walk[u].got \subseteq Nat
            /\ walk[u].due \subseteq Nat
        <4>1. VisibleTo(u, walk[u].as) \subseteq {n.id : n \in notices}
          BY VisibleIds
        <4>2. \A n \in notices : n.id \in Nat /\ n.id >= 1
          BY DEF TypeOK, Notices, AnnouncedOnce
        <4>3. rows \subseteq VisibleTo(u, walk[u].as)
          BY <2>2 DEF Listed
        <4>4. next \in Nat
          BY <2>3, BoundsAssumption
        <4>5. QED
          BY <3>1, <4>1, <4>2, <4>3, <4>4 DEF Walks
      <3>4. \A i \in rows : i \notin walk[u].got
        BY <2>2, <3>1, <3>3 DEF Listed, WalkOwes
      <3>5. walk'[u].twice = FALSE
        BY <2>1, <2>3, <3>1, <3>2, <3>4 DEF WalkTold, Walks
      <3>6. \A i \in walk[u].due : i \in walk[u].got \/ i \in rows
        BY <2>1, <2>2, <3>1 DEF Listed, WalkOwes
      <3>7. CASE Cardinality(page) # Limit
        <4>1. page = rows
          BY <2>3, <3>7 DEF IsPage
        <4>2. QED
          BY <2>5, <3>2, <3>5, <3>6, <3>7, <4>1 DEF Walking, WalkTold
      <3>8. CASE Cardinality(page) = Limit
        <4>1. next \in page /\ \A i \in page : next <= i
          BY <2>3, <3>8 DEF CursorAfter
        <4>2. \A i \in walk[u].due : i \in walk'[u].got \/ i < next
          <5>1. \A i \in rows \ page : i < next
            BY <2>3, <3>3, <4>1 DEF IsPage
          <5>2. QED
            BY <3>2, <3>6, <5>1
        <4>3. \A i \in walk'[u].got : i >= next
          <5>1. walk[u].cursor = 0 \/ next < walk[u].cursor
            BY <2>2, <2>3, <4>1 DEF Listed
          <5>2. \A i \in walk[u].got : i >= next
            BY <3>1, <3>3, <5>1 DEF WalkOwes
          <5>3. QED
            BY <2>3, <3>2, <3>3, <4>1, <5>2
        <4>4. next # 0
          BY <2>3, <3>3, <4>1
        <4>5. walk'[u].pc = "between"
          BY <3>2, <3>8
        <4>6. VisibleTo(u, authority[u])' = VisibleTo(u, authority[u])
          BY <2>1 DEF VisibleTo, Visible
        <4>7. WalkOwes(u)'
          BY <2>1, <3>1, <3>2, <4>2, <4>3, <4>4, <4>5, <4>6 DEF WalkOwes
        <4>8. QED
          BY <2>5, <3>5, <4>5, <4>7 DEF WalkTold
      <3>9. QED
        BY <3>7, <3>8
    <2>6. QED
      BY <2>4, <2>5
  <1>6. ASSUME NEW u \in Readers, MarksRead(u) PROVE (Walking(v) => WalkOwes(v))' /\ WalkTold(v)'
    <2>1. PICK i \in VisibleTo(u, authority[u]) :
            /\ reads' = reads \union {<<u, i>>}
            /\ walk' = IF walk[u] # Idle /\ walk[u].unread
                       THEN [walk EXCEPT ![u] = Withdrawn(u, {i})] ELSE walk
      BY <1>6 DEF MarksRead
    <2>2. notices' = notices /\ authority' = authority
      BY <1>6 DEF MarksRead
    <2>3. CASE v # u
      <3>1. walk'[v] = walk[v] /\ \A k : <<v, k>> \in reads' => <<v, k>> \in reads
        BY <2>1, <2>3 DEF TypeOK
      <3>2. QED
        BY <1>0, <2>2, <3>1, WalkKept
    <2>4. CASE v = u
      <3>1. walk'[u] = walk[u] \/ walk'[u] = Withdrawn(u, {i})
        BY <2>1 DEF TypeOK
      <3>2. ASSUME Walking(u), NEW k \in walk'[u].due
            PROVE  k \in VisibleTo(u, authority[u])' /\ (walk[u].unread => <<u, k>> \notin reads')
        <4>1. k \in walk[u].due
          BY <3>1, <3>2, WithdrawnWalk DEF Walking
        <4>2. walk[u].unread => k # i
          <5>1. walk[u] # Idle
            BY <3>2 DEF Walking, Idle
          <5>2. walk[u].unread => walk'[u] = Withdrawn(u, {i})
            BY <2>1, <5>1 DEF TypeOK
          <5>3. QED
            BY <3>2, <5>2, WithdrawnWalk DEF Walking
        <4>3. VisibleTo(u, authority[u])' = VisibleTo(u, authority[u])
          BY <2>2 DEF VisibleTo, Visible
        <4>4. QED
          BY <1>0, <2>1, <2>4, <3>2, <4>1, <4>2, <4>3 DEF WalkOwes
      <3>3. QED
        BY <1>0, <2>2, <2>4, <3>1, <3>2, OwesLess
    <2>5. QED
      BY <2>3, <2>4
  <1>7. QED
    <2>1. \A r \in Requests : Announces(r) => notices \subseteq notices' /\ UNCHANGED reading
      BY DEF Announces, FromEvent, InsertNotification
    <2>2. Publishes => notices \subseteq notices' /\ UNCHANGED reading
      BY DEF Publishes, FromEvent, InsertNotification
    <2>3. QED
      BY <1>1, <1>2, <1>3, <1>4, <1>5, <1>6, <2>1, <2>2 DEF Next, Registers, ReportArrives,
         Inserts, Updates, Commits, Fails, vars

-----------------------------------------------------------------------------
(* Theorems *)

LEMMA InitInv == Init => IInv
  <1> SUFFICES ASSUME Init PROVE IInv
    OBVIOUS
  <1>1. TypeOK
    BY DEF Init, TypeOK
  <1>2. Len(reports) = 0 /\ \A s \in Servers : servers[s] = Absent /\ About(s) = {}
    BY DEF Init, About
  <1>3. ReportsApart /\ StatusExplained
    BY <1>2 DEF Init, ReportsApart, StatusExplained, Idle
  <1>4. AnnouncedOnce /\ NoticesBacked
    BY DEF Init, AnnouncedOnce, NoticesBacked, Idle
  <1>5. WalksOwe /\ WalkComplete
    BY DEF Init, WalksOwe, WalkComplete, Idle
  <1>6. QED
    BY <1>1, <1>3, <1>4, <1>5 DEF IInv

LEMMA StepInv == IInv /\ [Next]_vars => IInv'
  BY TypeStep, ApartStep, StatusStep, NoticeStep, WalkStep DEF IInv

(* The inductive invariant holds in every reachable state. *)
THEOREM Invariance == Spec => []IInv
  <1>1. QED
    BY InitInv, StepInv, PTL DEF Spec

(* Rows, reports in progress and walks have the shape of their types. *)
THEOREM TypeCorrect == Spec => []TypeOK
  <1>1. IInv => TypeOK
    BY DEF IInv
  <1>2. QED
    BY <1>1, Invariance, PTL

(* A server's status is the one its last stored report gave it: no status   *)
(* without a report, none stored and not applied (InsertOperationsEvent).  *)
THEOREM StatusIsExplained == Spec => []StatusExplained
  <1>1. IInv => StatusExplained
    BY DEF IInv
  <1>2. QED
    BY <1>1, Invariance, PTL

(* A report is notified of once, after it is stored, and no more mildly     *)
(* than it, its vocabulary and the table of notifications say              *)
(* (serviceReportOperationsEvent, FromEvent, EscalateTo).                  *)
THEOREM NoticesAreBacked == Spec => []NoticesBacked
  <1>1. IInv => NoticesBacked
    BY DEF IInv
  <1>2. QED
    BY <1>1, Invariance, PTL

(* A walk by cursors misses nothing that was there throughout and lists     *)
(* nothing twice, for every page size (ListNotifications).                 *)
THEOREM WalksAreComplete == Spec => []WalkComplete
  <1>1. IInv => WalkComplete
    BY DEF IInv
  <1>2. QED
    BY <1>1, Invariance, PTL
=============================================================================
