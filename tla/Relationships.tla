--------------------------- MODULE Relationships ---------------------------
(***************************************************************************)
(* Edges between Global IDs: CreateRelationship, LookupRelationship,       *)
(* ListRelationships and DeleteRelationship                                *)
(* (internal/platformdb/relationships.go) and the service endpoints over   *)
(* them (cmd/server/relationships.go).                                     *)
(*                                                                         *)
(* Each request is one transaction at READ COMMITTED.  What it inserts or  *)
(* deletes takes effect at its commit; until then whoever wants the same   *)
(* edge waits.  Identifiers come from sequences, which give every value    *)
(* once and take none back.                                                *)
(*                                                                         *)
(* Abstractions.  The end user is verified before the transaction begins;  *)
(* an unverified one gets his refusal and nothing happens.  The audit      *)
(* entry and the outbox row are written by adjacent statements of the      *)
(* same transaction with the same contents, so one record, numbered as     *)
(* the outbox row is, stands for both.  Global IDs are never deleted.      *)
(***************************************************************************)
EXTENDS Integers, FiniteSets

CONSTANTS
  Requests,  \* concurrent requests
  Known,     \* Global IDs in global_entities
  Unknown,   \* strings that are no Global ID
  Relations, \* forward labels
  Inverse,   \* relationVocabulary: the label of each from the other end
  NoRow,     \* nothing was found or written
  Asked(_),  \* bound: the requests that are made
  MaxAsks    \* bound: how many of them change something

Labels == Relations \union {Inverse[rel] : rel \in Relations}
Endpoints == Known \union Unknown
Facts == [from : Endpoints, rel : Relations, to : Endpoints]
Rows == [id : Nat, fact : Facts]

ASSUME EndpointsAssumption == Known \intersect Unknown = {}
ASSUME InverseAssumption ==
  /\ DOMAIN Inverse = Relations
  /\ \A rel \in Relations : Inverse[rel] \in Relations => Inverse[rel] = rel
  /\ \A rel, other \in Relations : Inverse[rel] = Inverse[other] => rel = other
ASSUME NoRowAssumption == NoRow \notin Rows
ASSUME MaxAsksAssumption == MaxAsks \in Nat

VARIABLES
  edges,   \* the committed rows of entity_relationships
  nextId,  \* its sequence
  events,  \* the committed outbox rows of relationships, with their audit entries
  nextSeq, \* the sequence of outbox_events
  job,     \* what each request is doing
  seen,    \* rows that were committed at some time during each request
  asks     \* requests made so far

tables == <<edges, nextId, events, nextSeq>>
vars == <<tables, job, seen, asks>>

Events == [seq : Nat, kind : {"created", "deleted"}, row : Rows]
Creates == [does : {"create"}, from : Endpoints, label : Labels, to : Endpoints]
Lookups == [does : {"lookup"}, from : Endpoints, label : Labels, to : Endpoints]
Deletes == [does : {"delete"}, id : 1..MaxAsks]
Asks == Creates \union Lookups \union Deletes

Said == {"created", "existing", "deleted", "absent", "refused", "missing", "failed"}
Idle == [pc |-> "idle"]
Jobs == [pc : {"inserting", "selecting", "deleting", "recording", "committing"},
         ask : Creates \union Deletes, row : Rows \union {NoRow}, seq : Nat]
Answers == [pc : {"answered"}, ask : Asks,
            row : Rows \union {NoRow}, said : Said]

Init ==
  /\ edges = {}
  /\ nextId = 1
  /\ events = {}
  /\ nextSeq = 1
  /\ job = [r \in Requests |-> Idle]
  /\ seen = [r \in Requests |-> {}]
  /\ asks = 0

-----------------------------------------------------------------------------
(* Labels *)

Edge(from, rel, to) == [from |-> from, rel |-> rel, to |-> to]

(* The canonical label of an inverse one. *)
Forward(label) == CHOOSE rel \in Relations : Inverse[rel] = label

(* normalizeRelation: the row a spelling is stored as. *)
Normal(from, label, to) ==
  IF label \in Relations THEN Edge(from, label, to) ELSE Edge(to, Forward(label), from)

(* The fact a creation asserts. *)
FactOf(ask) == Normal(ask.from, ask.label, ask.to)

(* Variant: the endpoints are used as they were given. *)
MatchesAsGiven(row, ask) == row.fact.from = ask.from /\ row.fact.to = ask.to

(* The row that LookupRelationship and the second statement look for. *)
Matches(row, ask) == row.fact = FactOf(ask)

(* ListRelationships: what is seen from one end. *)
Views(g) ==
  {[other |-> row.fact.to, label |-> row.fact.rel, direction |-> "outgoing"]
     : row \in {e \in edges : e.fact.from = g}}
  \union
  {[other |-> row.fact.from, label |-> Inverse[row.fact.rel], direction |-> "incoming"]
     : row \in {e \in edges : e.fact.to = g}}

-----------------------------------------------------------------------------
(* Requests *)

Busy(r) == job[r].pc \notin {"idle", "answered"}

(* A request that has written its row and not yet committed. *)
Holds(r) == job[r].pc = "recording" \/ (job[r].pc = "committing" /\ job[r].seq # 0)

Tell(r, ask, said, row) ==
  job' = [job EXCEPT ![r] = [pc |-> "answered", ask |-> ask, row |-> row, said |-> said]]

Answer(r, said, row) == Tell(r, job[r].ask, said, row)

Start(r, ask, pc) ==
  /\ job' = [job EXCEPT ![r] = [pc |-> pc, ask |-> ask, row |-> NoRow, seq |-> 0]]
  /\ seen' = [seen EXCEPT ![r] = edges]

(* A label of neither vocabulary and an actor that is nobody are refused    *)
(* like an edge from a Global ID to itself: before the transaction.        *)
AsksCreate(r) ==
  /\ ~Busy(r) /\ asks < MaxAsks /\ asks' = asks + 1
  /\ \E ask \in Creates :
       /\ Asked(ask)
       /\ \/ ask.from # ask.to /\ Start(r, ask, "inserting")
          \/ ask.from = ask.to /\ Tell(r, ask, "refused", NoRow) /\ UNCHANGED seen
  /\ UNCHANGED tables

AsksDelete(r) ==
  /\ ~Busy(r) /\ asks < MaxAsks /\ asks' = asks + 1
  /\ \E ask \in Deletes : Asked(ask) /\ Start(r, ask, "deleting")
  /\ UNCHANGED tables

(* LookupRelationship: one statement, and nothing is allocated. *)
LooksUp(r) ==
  /\ ~Busy(r)
  /\ \E ask \in Lookups :
       /\ Asked(ask)
       /\ \/ \E row \in edges : Matches(row, ask) /\ Tell(r, ask, "existing", row)
          \/ (\A row \in edges : ~Matches(row, ask)) /\ Tell(r, ask, "absent", NoRow)
  /\ seen' = [seen EXCEPT ![r] = edges]
  /\ UNCHANGED <<tables, asks>>

(* Somebody's uncommitted insertion or deletion of the edge. *)
Awaited(r, fact) == \E q \in Requests \ {r} : Holds(q) /\ job[q].row.fact = fact

Writes(r, row) == job' = [job EXCEPT ![r].pc = "recording", ![r].row = row]

(* INSERT ... ON CONFLICT DO NOTHING.  The sequence is advanced whatever    *)
(* comes of it.                                                            *)
Inserts(r) ==
  /\ job[r].pc = "inserting"
  /\ LET fact == FactOf(job[r].ask) IN
     /\ ~Awaited(r, fact)
     /\ nextId' = nextId + 1
     /\ IF \E row \in edges : row.fact = fact
        THEN job' = [job EXCEPT ![r].pc = "selecting"]
        ELSE IF {fact.from, fact.to} \subseteq Known
        THEN Writes(r, [id |-> nextId, fact |-> fact])
        ELSE Answer(r, "refused", NoRow)
  /\ UNCHANGED <<edges, events, nextSeq, seen, asks>>

(* The second statement, which sees what is committed by now. *)
Selects(r) ==
  /\ job[r].pc = "selecting"
  /\ \/ \E row \in edges :
          Matches(row, job[r].ask) /\ job' = [job EXCEPT ![r].pc = "committing", ![r].row = row]
     \/ /\ \A row \in edges : ~Matches(row, job[r].ask)
        /\ Answer(r, "missing", NoRow)
  /\ UNCHANGED <<tables, seen, asks>>

(* DELETE ... RETURNING; a row that is gone is deleted all the same. *)
DeletesRow(r) ==
  /\ job[r].pc = "deleting"
  /\ \/ \E row \in edges :
          row.id = job[r].ask.id /\ ~Awaited(r, row.fact) /\ Writes(r, row)
     \/ /\ \A row \in edges : row.id # job[r].ask.id
        /\ Answer(r, "deleted", NoRow)
  /\ UNCHANGED <<tables, seen, asks>>

(* Variant: a creation that found its edge is recorded as well. *)
RecordsAgain(r) ==
  /\ job[r].pc \in {"recording", "committing"} /\ job[r].seq = 0
  /\ nextSeq' = nextSeq + 1
  /\ job' = [job EXCEPT ![r].pc = "committing", ![r].seq = nextSeq]
  /\ UNCHANGED <<edges, nextId, events, seen, asks>>

(* The audit entry and the event, for a row that was written only. *)
Records(r) ==
  /\ job[r].pc = "recording"
  /\ nextSeq' = nextSeq + 1
  /\ job' = [job EXCEPT ![r].pc = "committing", ![r].seq = nextSeq]
  /\ UNCHANGED <<edges, nextId, events, seen, asks>>

(* What the commit of a request makes of the tables. *)
Committed(r) ==
  LET row == job[r].row IN
  IF job[r].seq = 0 THEN UNCHANGED <<edges, events>>
  ELSE LET kind == IF job[r].ask.does = "create" THEN "created" ELSE "deleted" IN
       /\ edges' = IF kind = "created" THEN edges \union {row} ELSE edges \ {row}
       /\ events' = events \union {[seq |-> job[r].seq, kind |-> kind, row |-> row]}

(* The answer of a commit that succeeded: 201, 200 or 204. *)
Outcome(r) ==
  IF job[r].ask.does = "delete" THEN "deleted"
  ELSE IF job[r].seq = 0 THEN "existing" ELSE "created"

(* The acknowledgement may be lost: the caller is told that it failed. *)
Commits(r) ==
  /\ job[r].pc = "committing"
  /\ Committed(r)
  /\ seen' = [q \in Requests |-> IF Busy(q) THEN seen[q] \union edges' ELSE seen[q]]
  /\ Answer(r, Outcome(r), job[r].row) \/ Answer(r, "failed", NoRow)
  /\ UNCHANGED <<nextId, nextSeq, asks>>

(* A statement fails, or the Core dies: the transaction is rolled back. *)
Fails(r) ==
  /\ Busy(r)
  /\ Answer(r, "failed", NoRow)
  /\ UNCHANGED <<tables, seen, asks>>

Next ==
  \E r \in Requests :
    \/ AsksCreate(r) \/ AsksDelete(r) \/ LooksUp(r)
    \/ Inserts(r) \/ Selects(r) \/ DeletesRow(r)
    \/ Records(r) \/ Commits(r) \/ Fails(r)

Spec == Init /\ [][Next]_vars

-----------------------------------------------------------------------------
(* Properties *)

(* Tables, sequences, requests and answers have the shape of their types. *)
TypeOK ==
  /\ edges \subseteq Rows
  /\ nextId \in Nat \ {0} /\ nextSeq \in Nat \ {0}
  /\ events \subseteq Events
  /\ job \in [Requests -> {Idle} \union Jobs \union Answers]
  /\ seen \in [Requests -> SUBSET Rows]
  /\ asks \in 0..MaxAsks

(* What a consumer knows who applies the events in the order of the        *)
(* outbox: a row per fact whose last event is its creation.                *)
Replayed ==
  {e.row : e \in {c \in events :
     /\ c.kind = "created"
     /\ \A x \in events : x.row.fact = c.row.fact => x.seq <= c.seq}}

(* The events of the relationships, read in the order of their rows, tell   *)
(* the table exactly: one edge for a fact however many requests assert it, *)
(* no deletion numbered before the creation it undoes, and one event for a *)
(* row that came and one for a row that went - none for a call that found  *)
(* its work done or was rolled back (CreateRelationship: "calling this     *)
(* twice for one edge must not read as two mutations").                    *)
EventsTellTable ==
  /\ edges = Replayed
  /\ \A e, f \in events : e.kind = f.kind /\ e.row.id = f.row.id => e = f

(* A row is what a creation asked for, in whichever spelling. *)
Means(row, ask) ==
  IF ask.label \in Relations
  THEN row.fact = Edge(ask.from, ask.label, ask.to)
  ELSE row.fact.from = ask.to /\ row.fact.to = ask.from /\ Inverse[row.fact.rel] = ask.label

True(a, during) ==
  /\ a.said \in {"created", "existing"} => a.row \in during /\ Means(a.row, a.ask)
  /\ a.said = "deleted" => \A row \in during : row.id = a.ask.id => row \notin edges
  /\ a.said = "absent" => \A row \in during : ~Means(row, a.ask)
  /\ a.said = "missing" => \E row \in during : Means(row, a.ask) /\ row \notin edges

(* What one end of an edge is shown finds the edge again, spelled as it is  *)
(* shown - but for a relation that is its own inverse.                     *)
ListingsHold ==
  \A g \in Known : \A v \in Views(g) :
    v.label \notin {rel \in Relations : Inverse[rel] = rel}
      => \E row \in edges : row.fact = Normal(g, v.label, v.other)

(* Every answer is true of the time of its request: the row it names was    *)
(* there and is the fact that was asked for; what is answered as deleted    *)
(* is there no more, nor ever again; an existing edge is missed only if it *)
(* was there and was deleted meanwhile.  What one end of an edge is shown   *)
(* finds the edge again (LookupRelationship: "in either spelling").        *)
AnswersHold ==
  /\ ListingsHold
  /\ \A r \in Requests : job[r].pc = "answered" =>
       True(job[r], seen[r])

(* The inductive invariant behind them.  A request that has written has    *)
(* its edge to itself until it commits: nobody else has written it, what   *)
(* it deletes is still there, what it creates is not, and its event is     *)
(* numbered after all that tell of the edge.                               *)
Writing(r) ==
  LET j == job[r] IN
  /\ j.row \in Rows
  /\ j.ask.does = "delete" => j.row \in edges /\ j.row.id = j.ask.id
  /\ j.ask.does = "create" =>
       /\ Means(j.row, j.ask)
       /\ j.row.id < nextId
       /\ \A e \in events : e.row.id # j.row.id
       /\ \A row \in edges : row.fact # j.row.fact
  /\ j.seq # 0 =>
       /\ j.seq < nextSeq
       /\ \A e \in events : e.row.fact = j.row.fact => e.seq < j.seq

Apart(q, r) ==
  job[q].row.fact # job[r].row.fact /\ job[q].row.id # job[r].row.id

(* A request that has written nothing. *)
Reading(r) ==
  LET j == job[r] IN
  /\ j.pc \in {"inserting", "selecting", "committing"} => j.ask.does = "create"
  /\ j.pc \in {"inserting", "selecting"} => j.ask.from # j.ask.to
  /\ j.pc = "deleting" => j.ask.does = "delete"
  /\ j.seq = 0
  /\ j.pc = "selecting" => \E row \in seen[r] : Means(row, j.ask)
  /\ j.pc = "committing" => j.row \in seen[r] /\ Means(j.row, j.ask)

(* What was there and is no more was told to have gone; what is there was  *)
(* told to have come.                                                      *)
Told ==
  /\ \A e \in events : e.row.id < nextId /\ e.seq < nextSeq
  /\ \A row \in edges : \E e \in events : e.kind = "created" /\ e.row = row
  /\ \A row, other \in edges : row.fact = other.fact => row = other
  /\ \A e \in events : e.kind = "deleted" =>
       e.row \notin edges /\ \E c \in events : c.kind = "created" /\ c.row = e.row
  /\ \A r \in Requests : \A row \in seen[r] :
       \E e \in events : e.kind = "created" /\ e.row = row

IInv ==
  /\ TypeOK
  /\ EventsTellTable
  /\ AnswersHold
  /\ Told
  /\ \A r \in Requests :
       /\ Busy(r) => edges \subseteq seen[r]
       /\ Holds(r) => Writing(r)
       /\ Busy(r) /\ ~Holds(r) => Reading(r)
       /\ \A q \in Requests \ {r} : Holds(q) /\ Holds(r) => Apart(q, r)
=============================================================================
