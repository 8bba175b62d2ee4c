------------------------ MODULE RelationshipsProofs ------------------------
(***************************************************************************)
(* Edges and answers for any number of requests, Global IDs, relations and *)
(* calls.                                                                  *)
(***************************************************************************)
EXTENDS Relationships, TLAPS

LEMMA BusyJobs ==
  ASSUME TypeOK, NEW r \in Requests, Busy(r)
  PROVE  job[r] \in Jobs
  BY DEF TypeOK, Busy, Idle, Answers

LEMMA AnsweredJobs ==
  ASSUME TypeOK, NEW r \in Requests, job[r].pc = "answered"
  PROVE  job[r] \in Answers
  BY DEF TypeOK, Idle, Jobs

(* What a spelling is stored as is a fact, and means it. *)
LEMMA Normalised ==
  ASSUME NEW ask \in Creates \union Lookups
  PROVE  /\ FactOf(ask) \in Facts
         /\ \A row \in Rows : row.fact = FactOf(ask) <=> Means(row, ask)
  <1>1. ask.from \in Endpoints /\ ask.to \in Endpoints /\ ask.label \in Labels
    BY DEF Creates, Lookups
  <1>2. CASE ask.label \in Relations
    BY <1>1, <1>2 DEF FactOf, Normal, Means, Edge, Facts
  <1>3. CASE ask.label \notin Relations
    <2>1. PICK rel \in Relations : Inverse[rel] = ask.label
      BY <1>1, <1>3 DEF Labels
    <2>2. Forward(ask.label) \in Relations /\ Inverse[Forward(ask.label)] = ask.label
      BY <2>1 DEF Forward
    <2>3. FactOf(ask) = Edge(ask.to, Forward(ask.label), ask.from)
      BY <1>3 DEF FactOf, Normal
    <2>4. FactOf(ask) \in Facts
      BY <1>1, <2>2, <2>3 DEF Edge, Facts
    <2>5. ASSUME NEW row \in Rows PROVE row.fact = FactOf(ask) <=> Means(row, ask)
      <3>1. row.fact \in Facts
        BY DEF Rows
      <3>2. row.fact = FactOf(ask) =>
              row.fact.from = ask.to /\ row.fact.to = ask.from /\ Inverse[row.fact.rel] = ask.label
        BY <2>2, <2>3 DEF Edge
      <3>3. ASSUME row.fact.from = ask.to, row.fact.to = ask.from, Inverse[row.fact.rel] = ask.label
            PROVE  row.fact = FactOf(ask)
        <4>1. row.fact.rel = Forward(ask.label)
          BY <2>2, <3>1, <3>3, InverseAssumption DEF Facts
        <4>2. QED
          BY <2>3, <3>1, <3>3, <4>1 DEF Edge, Facts
      <3>4. QED
        BY <1>3, <3>2, <3>3 DEF Means
    <2>6. QED
      BY <2>4, <2>5
  <1>4. QED
    BY <1>2, <1>3

(* What a listing shows is the row's own spelling, or the spelling that     *)
(* becomes it.                                                             *)
LEMMA ListingsAlwaysHold == edges \subseteq Rows => ListingsHold
  <1> SUFFICES ASSUME edges \subseteq Rows, NEW g \in Known, NEW v \in Views(g),
                      v.label \notin {rel \in Relations : Inverse[rel] = rel}
               PROVE  \E row \in edges : row.fact = Normal(g, v.label, v.other)
    BY DEF ListingsHold
  <1>1. CASE \E row \in edges : row.fact.from = g
               /\ v = [other |-> row.fact.to, label |-> row.fact.rel, direction |-> "outgoing"]
    <2>1. PICK row \in edges : row.fact.from = g
               /\ v = [other |-> row.fact.to, label |-> row.fact.rel, direction |-> "outgoing"]
      BY <1>1
    <2>2. row.fact \in Facts
      BY DEF Rows
    <2>3. row.fact = Normal(g, v.label, v.other)
      BY <2>1, <2>2 DEF Normal, Edge, Facts
    <2>4. QED
      BY <2>3
  <1>2. CASE \E row \in edges : row.fact.to = g
               /\ v = [other |-> row.fact.from, label |-> Inverse[row.fact.rel], direction |-> "incoming"]
    <2>1. PICK row \in edges : row.fact.to = g
               /\ v = [other |-> row.fact.from, label |-> Inverse[row.fact.rel], direction |-> "incoming"]
      BY <1>2
    <2>2. row.fact \in Facts
      BY DEF Rows
    <2>3. v.label \notin Relations
      BY <2>1, <2>2, InverseAssumption DEF Facts
    <2>4. Forward(v.label) = row.fact.rel
      BY <2>1, <2>2, InverseAssumption DEF Facts, Forward
    <2>5. row.fact = Normal(g, v.label, v.other)
      BY <2>1, <2>2, <2>3, <2>4 DEF Normal, Edge, Facts
    <2>6. QED
      BY <2>5
  <1>3. QED
    BY <1>1, <1>2 DEF Views

LEMMA InitIInv == Init => IInv
  <1> SUFFICES ASSUME Init PROVE IInv
    OBVIOUS
  <1>1. TypeOK
    BY MaxAsksAssumption DEF Init, TypeOK
  <1>2. EventsTellTable
    BY DEF Init, EventsTellTable, Replayed
  <1>3. AnswersHold
    BY <1>1, ListingsAlwaysHold DEF Init, AnswersHold, TypeOK, Idle
  <1>4. Told
    BY DEF Init, Told
  <1>5. \A r \in Requests : ~Holds(r) /\ ~Busy(r)
    BY DEF Init, Holds, Busy, Idle
  <1>6. QED
    BY <1>1, <1>2, <1>3, <1>4, <1>5 DEF IInv

(* A step of one request that changes neither table: what the others have  *)
(* written and read stands.                                                *)
LEMMA QuietStep ==
  ASSUME IInv, TypeOK', NEW r \in Requests,
         edges' = edges, events' = events, nextId' >= nextId, nextSeq' >= nextSeq,
         \A q \in Requests \ {r} : job'[q] = job[q] /\ seen'[q] = seen[q],
         seen'[r] \subseteq seen[r] \union edges,
         Busy(r)' => edges \subseteq seen'[r],
         Holds(r)' => Writing(r)',
         Holds(r)' => \A q \in Requests \ {r} : Holds(q) => job[q].row.fact # job'[r].row.fact
                                                         /\ job[q].row.id # job'[r].row.id,
         (Busy(r) /\ ~Holds(r))' => Reading(r)',
         job'[r].pc = "answered" => True(job[r], seen[r])'
  PROVE  IInv'
  <1>1. EventsTellTable'
    BY DEF IInv, EventsTellTable, Replayed
  <1>2. AnswersHold'
    <2>1. ListingsHold'
      BY ListingsAlwaysHold DEF IInv, AnswersHold, ListingsHold, Views
    <2>2. ASSUME NEW q \in Requests, job'[q].pc = "answered" PROVE True(job[q], seen[q])'
      BY <2>2 DEF IInv, AnswersHold, True
    <2>3. QED
      BY <2>1, <2>2 DEF AnswersHold
  <1>3. Told'
    <2>1. \A e \in events' : e.row.id < nextId' /\ e.seq < nextSeq'
      <3>1. \A e \in events : e.row.id \in Nat /\ e.seq \in Nat
        BY DEF IInv, TypeOK, Events, Rows
      <3>2. nextId \in Nat /\ nextSeq \in Nat /\ nextId' \in Nat /\ nextSeq' \in Nat
        BY DEF IInv, TypeOK
      <3>3. QED
        BY <3>1, <3>2 DEF IInv, Told
    <2>2. \A q \in Requests : \A row \in seen'[q] :
            \E e \in events : e.kind = "created" /\ e.row = row
      BY DEF IInv, Told
    <2>3. QED
      BY <2>1, <2>2 DEF IInv, Told
  <1>4. ASSUME NEW q \in Requests PROVE Holds(q)' => Writing(q)'
    <2>1. CASE q = r
      BY <2>1
    <2>2. CASE q # r
      <3>1. job'[q] = job[q]
        BY <2>2
      <3>2. Holds(q)' => Writing(q)
        BY <3>1 DEF IInv, Holds
      <3>3. Holds(q)' => job[q] \in Jobs
        BY <3>1, BusyJobs DEF IInv, Holds, Busy
      <3>4. nextId \in Nat /\ nextSeq \in Nat /\ nextId' \in Nat /\ nextSeq' \in Nat
        BY DEF IInv, TypeOK
      <3>5. QED
        BY <3>1, <3>2, <3>3, <3>4 DEF Writing, Jobs, Rows
    <2>3. QED
      BY <2>1, <2>2
  <1>5. ASSUME NEW q \in Requests PROVE (Busy(q) /\ ~Holds(q))' => Reading(q)'
    BY DEF IInv, Busy, Holds, Reading
  <1>6. ASSUME NEW q \in Requests, NEW p \in Requests \ {q}, Holds(p)', Holds(q)'
        PROVE  Apart(p, q)'
    <2>1. CASE p = r
      BY <1>6, <2>1 DEF Apart, Holds
    <2>2. CASE q = r
      BY <1>6, <2>2 DEF Apart, Holds
    <2>3. CASE p # r /\ q # r
      BY <1>6, <2>3 DEF IInv, Apart, Holds
    <2>4. QED
      BY <2>1, <2>2, <2>3
  <1>7. ASSUME NEW q \in Requests PROVE Busy(q)' => edges' \subseteq seen'[q]
    BY DEF IInv, Busy
  <1>8. QED
    BY <1>1, <1>2, <1>3, <1>4, <1>5, <1>6, <1>7 DEF IInv

(* The step tells its request an answer. *)
LEMMA TellStep ==
  ASSUME IInv, NEW r \in Requests, NEW ask \in Asks, NEW said \in Said,
         NEW row \in Rows \union {NoRow}, Tell(r, ask, said, row),
         edges' = edges, events' = events, nextId' \in Nat, nextSeq' \in Nat,
         nextId' >= nextId, nextSeq' >= nextSeq, asks' \in 0..MaxAsks,
         seen' \in [Requests -> SUBSET Rows],
         \A q \in Requests \ {r} : seen'[q] = seen[q],
         seen'[r] \subseteq seen[r] \union edges,
         True([ask |-> ask, row |-> row, said |-> said], seen'[r])
  PROVE  IInv'
  <1>1. nextId \in Nat \ {0} /\ nextSeq \in Nat \ {0}
    BY DEF IInv, TypeOK
  <1>2. [pc |-> "answered", ask |-> ask, row |-> row, said |-> said] \in Answers
    BY DEF Answers
  <1>3. TypeOK'
    <2>1. job' \in [Requests -> {Idle} \union Jobs \union Answers]
      BY <1>2 DEF IInv, TypeOK, Tell
    <2>2. nextId' \in Nat \ {0} /\ nextSeq' \in Nat \ {0}
      BY <1>1
    <2>3. QED
      BY <2>1, <2>2 DEF IInv, TypeOK
  <1>4. job'[r] = [pc |-> "answered", ask |-> ask, row |-> row, said |-> said]
    BY DEF IInv, TypeOK, Tell
  <1>5. \A q \in Requests \ {r} : job'[q] = job[q]
    BY DEF IInv, TypeOK, Tell
  <1>6. ~Holds(r)' /\ ~Busy(r)'
    BY <1>4 DEF Holds, Busy
  <1>7. True(job[r], seen[r])'
    BY <1>4 DEF True
  <1>8. QED
    BY <1>3, <1>5, <1>6, <1>7, QuietStep

LEMMA AsksCreateStep ==
  ASSUME IInv, NEW r \in Requests, AsksCreate(r)
  PROVE  IInv'
  <1>1. PICK ask \in Creates :
          \/ ask.from # ask.to /\ Start(r, ask, "inserting")
          \/ ask.from = ask.to /\ Tell(r, ask, "refused", NoRow) /\ UNCHANGED seen
    BY DEF AsksCreate
  <1>2. UNCHANGED tables /\ asks' \in 0..MaxAsks
    BY MaxAsksAssumption DEF AsksCreate, IInv, TypeOK
  <1>3. nextId \in Nat \ {0} /\ nextSeq \in Nat \ {0}
    BY DEF IInv, TypeOK
  <1>4. CASE ask.from # ask.to /\ Start(r, ask, "inserting")
    <2>1. [pc |-> "inserting", ask |-> ask, row |-> NoRow, seq |-> 0] \in Jobs
      BY DEF Jobs
    <2>2. TypeOK'
      BY <1>2, <1>4, <2>1 DEF IInv, TypeOK, Start, tables
    <2>3. job'[r] = [pc |-> "inserting", ask |-> ask, row |-> NoRow, seq |-> 0]
      BY <1>4 DEF IInv, TypeOK, Start
    <2>4. \A q \in Requests \ {r} : job'[q] = job[q] /\ seen'[q] = seen[q]
      BY <1>4 DEF IInv, TypeOK, Start
    <2>5. seen'[r] = edges
      BY <1>4 DEF IInv, TypeOK, Start
    <2>6. ~Holds(r)' /\ Reading(r)'
      BY <1>4, <2>3 DEF Holds, Reading, Creates
    <2>7. QED
      BY <1>2, <1>3, <2>2, <2>3, <2>4, <2>5, <2>6, QuietStep DEF tables
  <1>5. CASE ask.from = ask.to /\ Tell(r, ask, "refused", NoRow) /\ UNCHANGED seen
    <2>1. True([ask |-> ask, row |-> NoRow, said |-> "refused"], seen'[r])
      BY DEF True
    <2>2. seen' \in [Requests -> SUBSET Rows]
      BY <1>5 DEF IInv, TypeOK
    <2>3. QED
      BY <1>2, <1>3, <1>5, <2>1, <2>2, TellStep DEF tables, Asks, Said
  <1>6. QED
    BY <1>1, <1>4, <1>5

LEMMA AsksDeleteStep ==
  ASSUME IInv, NEW r \in Requests, AsksDelete(r)
  PROVE  IInv'
  <1>1. PICK ask \in Deletes : Start(r, ask, "deleting")
    BY DEF AsksDelete
  <1>2. UNCHANGED tables /\ asks' \in 0..MaxAsks
    BY MaxAsksAssumption DEF AsksDelete, IInv, TypeOK
  <1>3. nextId \in Nat \ {0} /\ nextSeq \in Nat \ {0}
    BY DEF IInv, TypeOK
  <1>4. [pc |-> "deleting", ask |-> ask, row |-> NoRow, seq |-> 0] \in Jobs
    BY DEF Jobs
  <1>5. TypeOK'
    BY <1>1, <1>2, <1>4 DEF IInv, TypeOK, Start, tables
  <1>6. job'[r] = [pc |-> "deleting", ask |-> ask, row |-> NoRow, seq |-> 0]
    BY <1>1 DEF IInv, TypeOK, Start
  <1>7. \A q \in Requests \ {r} : job'[q] = job[q] /\ seen'[q] = seen[q]
    BY <1>1 DEF IInv, TypeOK, Start
  <1>8. seen'[r] = edges
    BY <1>1 DEF IInv, TypeOK, Start
  <1>9. ~Holds(r)' /\ Reading(r)'
    BY <1>1, <1>6 DEF Holds, Reading, Deletes
  <1>10. QED
    BY <1>2, <1>3, <1>5, <1>6, <1>7, <1>8, <1>9, QuietStep DEF tables

LEMMA LooksUpStep ==
  ASSUME IInv, NEW r \in Requests, LooksUp(r)
  PROVE  IInv'
  <1>1. PICK ask \in Lookups :
          \/ \E row \in edges : Matches(row, ask) /\ Tell(r, ask, "existing", row)
          \/ (\A row \in edges : ~Matches(row, ask)) /\ Tell(r, ask, "absent", NoRow)
    BY DEF LooksUp
  <1>2. UNCHANGED <<tables, asks>> /\ seen' = [seen EXCEPT ![r] = edges]
    BY DEF LooksUp
  <1>3. nextId \in Nat \ {0} /\ nextSeq \in Nat \ {0} /\ asks \in 0..MaxAsks /\ edges \subseteq Rows
    BY DEF IInv, TypeOK
  <1>4. /\ seen' \in [Requests -> SUBSET Rows] /\ seen'[r] = edges
        /\ \A q \in Requests \ {r} : seen'[q] = seen[q]
    BY <1>2 DEF IInv, TypeOK
  <1>5. \A row \in edges : Matches(row, ask) <=> Means(row, ask)
    BY <1>3, Normalised DEF Matches
  <1>6. CASE \E row \in edges : Matches(row, ask) /\ Tell(r, ask, "existing", row)
    <2>1. PICK row \in edges : Matches(row, ask) /\ Tell(r, ask, "existing", row)
      BY <1>6
    <2>2. True([ask |-> ask, row |-> row, said |-> "existing"], seen'[r])
      BY <1>4, <1>5, <2>1 DEF True
    <2>3. QED
      BY <1>2, <1>3, <1>4, <2>1, <2>2, TellStep DEF tables, Asks, Said
  <1>7. CASE (\A row \in edges : ~Matches(row, ask)) /\ Tell(r, ask, "absent", NoRow)
    <2>1. True([ask |-> ask, row |-> NoRow, said |-> "absent"], seen'[r])
      BY <1>4, <1>5, <1>7 DEF True
    <2>2. QED
      BY <1>2, <1>3, <1>4, <1>7, <2>1, TellStep DEF tables, Asks, Said
  <1>8. QED
    BY <1>1, <1>6, <1>7

LEMMA FailsStep ==
  ASSUME IInv, NEW r \in Requests, Fails(r)
  PROVE  IInv'
  <1>1. job[r] \in Jobs
    BY BusyJobs DEF IInv, Fails
  <1>2. nextId \in Nat \ {0} /\ nextSeq \in Nat \ {0} /\ asks \in 0..MaxAsks
    BY DEF IInv, TypeOK
  <1>3. UNCHANGED <<tables, seen, asks>> /\ Tell(r, job[r].ask, "failed", NoRow)
    BY DEF Fails, Answer
  <1>4. PICK ask : ask = job[r].ask
    OBVIOUS
  <1>5. ask \in Asks
    BY <1>1, <1>4 DEF Jobs, Asks
  <1>6. seen' \in [Requests -> SUBSET Rows] /\ seen' = seen
    BY <1>3 DEF IInv, TypeOK
  <1>7. True([ask |-> ask, row |-> NoRow, said |-> "failed"], seen'[r])
    BY DEF True
  <1>8. QED
    BY <1>2, <1>3, <1>4, <1>5, <1>6, <1>7, TellStep DEF tables, Said

(* A job that goes on without an answer. *)
LEMMA GoesOn ==
  ASSUME IInv, NEW r \in Requests, NEW j \in Jobs, job' = [job EXCEPT ![r] = j],
         edges' = edges, events' = events, nextId' \in Nat, nextSeq' \in Nat,
         nextId' >= nextId, nextSeq' >= nextSeq, asks' = asks, seen' = seen
  PROVE  /\ TypeOK'
         /\ job'[r] = j
         /\ \A q \in Requests \ {r} : job'[q] = job[q]
  <1>1. nextId \in Nat \ {0} /\ nextSeq \in Nat \ {0}
    BY DEF IInv, TypeOK
  <1>2. job' \in [Requests -> {Idle} \union Jobs \union Answers]
    BY DEF IInv, TypeOK
  <1>3. nextId' \in Nat \ {0} /\ nextSeq' \in Nat \ {0}
    BY <1>1
  <1>4. TypeOK'
    BY <1>2, <1>3 DEF IInv, TypeOK
  <1>5. QED
    BY <1>4 DEF IInv, TypeOK

LEMMA InsertsStep ==
  ASSUME IInv, NEW r \in Requests, Inserts(r)
  PROVE  IInv'
  <1>1. job[r] \in Jobs /\ job[r].pc = "inserting" /\ Reading(r)
    BY BusyJobs DEF IInv, Inserts, Busy, Holds
  <1>2. nextId \in Nat \ {0} /\ nextSeq \in Nat \ {0} /\ asks \in 0..MaxAsks /\ edges \subseteq Rows
    BY DEF IInv, TypeOK
  <1>3. PICK ask \in Creates : ask = job[r].ask
    BY <1>1 DEF Reading, Jobs, Creates, Deletes
  <1>4. PICK fact \in Facts : fact = FactOf(ask)
    BY Normalised
  <1>5. /\ nextId' = nextId + 1 /\ UNCHANGED <<edges, events, nextSeq, seen, asks>>
        /\ ~Awaited(r, fact)
    BY <1>3, <1>4 DEF Inserts
  <1>6. nextId' \in Nat /\ nextSeq' \in Nat /\ nextId' >= nextId /\ nextSeq' >= nextSeq
    BY <1>2, <1>5
  <1>7. CASE \E row \in edges : row.fact = fact
    <2>1. job' = [job EXCEPT ![r].pc = "selecting"]
      BY <1>3, <1>4, <1>7 DEF Inserts
    <2>2. PICK j : j = [job[r] EXCEPT !.pc = "selecting"]
      OBVIOUS
    <2>3. j \in Jobs /\ j.pc = "selecting" /\ j.ask = ask /\ j.seq = 0
      BY <1>1, <1>3, <2>2 DEF Jobs, Reading
    <2>4. job' = [job EXCEPT ![r] = j]
      BY <2>1, <2>2 DEF IInv, TypeOK
    <2>5. /\ TypeOK' /\ job'[r] = j
          /\ \A q \in Requests \ {r} : job'[q] = job[q]
      BY <1>5, <1>6, <2>3, <2>4, GoesOn
    <2>6. \E row \in edges : Means(row, ask)
      BY <1>2, <1>4, <1>7, Normalised
    <2>7. edges \subseteq seen[r]
      BY <1>1 DEF IInv, Busy
    <2>8. Reading(r)' /\ ~Holds(r)'
      BY <1>1, <1>3, <1>5, <2>3, <2>5, <2>6, <2>7 DEF Reading, Holds, Creates
    <2>9. QED
      BY <1>5, <1>6, <2>3, <2>5, <2>7, <2>8, QuietStep
  <1>8. CASE (\A row \in edges : row.fact # fact) /\ {fact.from, fact.to} \subseteq Known
    <2>1. PICK row : row = [id |-> nextId, fact |-> fact]
      OBVIOUS
    <2>2. row \in Rows /\ row.fact = fact /\ row.id = nextId
      BY <1>2, <2>1 DEF Rows
    <2>3. Writes(r, row)
      BY <1>3, <1>4, <1>8, <2>1 DEF Inserts
    <2>4. PICK j : j = [job[r] EXCEPT !.pc = "recording", !.row = row]
      OBVIOUS
    <2>5. j \in Jobs /\ j.pc = "recording" /\ j.ask = ask /\ j.row = row /\ j.seq = job[r].seq
      BY <1>1, <1>3, <2>2, <2>4 DEF Jobs
    <2>6. job' = [job EXCEPT ![r] = j]
      BY <2>3, <2>4 DEF IInv, TypeOK, Writes
    <2>7. /\ TypeOK' /\ job'[r] = j
          /\ \A q \in Requests \ {r} : job'[q] = job[q]
      BY <1>5, <1>6, <2>5, <2>6, GoesOn
    <2>8. Means(row, ask)
      BY <1>4, <2>2, Normalised
    <2>9. \A e \in events : e.row.id # row.id
      <3>1. \A e \in events : e.row.id < nextId /\ e.row.id \in Nat
        BY DEF IInv, Told, TypeOK, Events, Rows
      <3>2. QED
        BY <1>2, <2>2, <3>1
    <2>10. job[r].seq = 0
      BY <1>1 DEF Reading
    <2>11. Writing(r)'
      BY <1>2, <1>5, <1>8, <2>2, <2>5, <2>7, <2>8, <2>9, <2>10 DEF Writing, Creates
    <2>12. ASSUME NEW q \in Requests \ {r}, Holds(q)
           PROVE  job[q].row.fact # row.fact /\ job[q].row.id # row.id
      <3>1. job[q].row.fact # row.fact
        BY <1>5, <2>2, <2>12 DEF Awaited
      <3>2. Writing(q) /\ job[q] \in Jobs
        BY <2>12, BusyJobs DEF IInv, Holds, Busy
      <3>3. CASE job[q].ask.does = "create"
        BY <1>2, <2>2, <3>1, <3>2, <3>3 DEF Writing, Rows
      <3>4. CASE job[q].ask.does = "delete"
        BY <2>9, <3>1, <3>2, <3>4 DEF Writing, IInv, Told
      <3>5. QED
        BY <3>1, <3>2, <3>3, <3>4 DEF Jobs, Creates, Deletes
    <2>13. Holds(r)' /\ Busy(r)' /\ ~(job'[r].pc = "answered")
      BY <2>5, <2>7 DEF Holds, Busy
    <2>14. edges \subseteq seen[r]
      BY <1>1 DEF IInv, Busy
    <2>15. QED
      BY <1>5, <1>6, <2>5, <2>7, <2>11, <2>12, <2>13, <2>14, QuietStep
  <1>9. CASE (\A row \in edges : row.fact # fact) /\ ~({fact.from, fact.to} \subseteq Known)
    <2>1. Tell(r, ask, "refused", NoRow)
      BY <1>3, <1>4, <1>9 DEF Inserts, Answer
    <2>2. True([ask |-> ask, row |-> NoRow, said |-> "refused"], seen'[r])
      BY DEF True
    <2>3. seen' \in [Requests -> SUBSET Rows] /\ seen' = seen
      BY <1>5 DEF IInv, TypeOK
    <2>4. QED
      BY <1>2, <1>5, <1>6, <2>1, <2>2, <2>3, TellStep DEF Asks, Said
  <1>10. QED
    BY <1>7, <1>8, <1>9

LEMMA SelectsStep ==
  ASSUME IInv, NEW r \in Requests, Selects(r)
  PROVE  IInv'
  <1>1. job[r] \in Jobs /\ job[r].pc = "selecting" /\ Reading(r) /\ Busy(r)
    BY BusyJobs DEF IInv, Selects, Busy, Holds
  <1>2. nextId \in Nat \ {0} /\ nextSeq \in Nat \ {0} /\ asks \in 0..MaxAsks /\ edges \subseteq Rows
    BY DEF IInv, TypeOK
  <1>3. PICK ask \in Creates : ask = job[r].ask
    BY <1>1 DEF Reading, Jobs, Creates, Deletes
  <1>4. UNCHANGED <<tables, seen, asks>> /\ edges \subseteq seen[r]
    BY <1>1 DEF Selects, IInv
  <1>4a. nextId' \in Nat /\ nextSeq' \in Nat /\ nextId' >= nextId /\ nextSeq' >= nextSeq
    BY <1>2, <1>4 DEF tables
  <1>5. \A row \in Rows : Matches(row, ask) <=> Means(row, ask)
    BY Normalised DEF Matches
  <1>6. CASE \E row \in edges :
          Matches(row, ask) /\ job' = [job EXCEPT ![r].pc = "committing", ![r].row = row]
    <2>1. PICK row \in edges :
            Matches(row, ask) /\ job' = [job EXCEPT ![r].pc = "committing", ![r].row = row]
      BY <1>6
    <2>2. PICK j : j = [job[r] EXCEPT !.pc = "committing", !.row = row]
      OBVIOUS
    <2>3. j \in Jobs /\ j.pc = "committing" /\ j.ask = ask /\ j.row = row /\ j.seq = 0
      BY <1>1, <1>2, <1>3, <2>2 DEF Jobs, Reading
    <2>4. job' = [job EXCEPT ![r] = j]
      BY <2>1, <2>2 DEF IInv, TypeOK
    <2>5. /\ TypeOK' /\ job'[r] = j
          /\ \A q \in Requests \ {r} : job'[q] = job[q]
      BY <1>2, <1>4, <1>4a, <2>3, <2>4, GoesOn DEF tables
    <2>6. Reading(r)' /\ ~Holds(r)'
      BY <1>2, <1>4, <1>5, <2>1, <2>3, <2>5 DEF Reading, Holds, Creates
    <2>7. QED
      BY <1>2, <1>4, <2>3, <2>5, <2>6, QuietStep DEF tables
  <1>7. CASE (\A row \in edges : ~Matches(row, ask)) /\ Tell(r, ask, "missing", NoRow)
    <2>1. PICK row \in seen[r] : Means(row, ask)
      BY <1>1, <1>3 DEF Reading
    <2>2. row \in Rows
      BY DEF IInv, TypeOK
    <2>3. row \notin edges
      BY <1>5, <1>7, <2>1, <2>2
    <2>5. True([ask |-> ask, row |-> NoRow, said |-> "missing"], seen'[r])
      BY <1>4, <2>1, <2>3 DEF True, tables
    <2>6. seen' \in [Requests -> SUBSET Rows] /\ seen' = seen
      BY <1>4 DEF IInv, TypeOK
    <2>7. QED
      BY <1>2, <1>4, <1>7, <2>5, <2>6, TellStep DEF tables, Asks, Said
  <1>8. QED
    BY <1>3, <1>6, <1>7 DEF Selects, Answer

LEMMA DeletesRowStep ==
  ASSUME IInv, NEW r \in Requests, DeletesRow(r)
  PROVE  IInv'
  <1>1. job[r] \in Jobs /\ job[r].pc = "deleting" /\ Reading(r) /\ Busy(r)
    BY BusyJobs DEF IInv, DeletesRow, Busy, Holds
  <1>2. nextId \in Nat \ {0} /\ nextSeq \in Nat \ {0} /\ asks \in 0..MaxAsks /\ edges \subseteq Rows
    BY DEF IInv, TypeOK
  <1>3. PICK ask \in Deletes : ask = job[r].ask
    BY <1>1 DEF Reading, Jobs, Creates, Deletes
  <1>4. UNCHANGED <<tables, seen, asks>> /\ edges \subseteq seen[r]
    BY <1>1 DEF DeletesRow, IInv
  <1>4a. nextId' \in Nat /\ nextSeq' \in Nat /\ nextId' >= nextId /\ nextSeq' >= nextSeq
    BY <1>2, <1>4 DEF tables
  <1>5. CASE \E row \in edges : row.id = ask.id /\ ~Awaited(r, row.fact) /\ Writes(r, row)
    <2>1. PICK row \in edges : row.id = ask.id /\ ~Awaited(r, row.fact) /\ Writes(r, row)
      BY <1>5
    <2>2. PICK j : j = [job[r] EXCEPT !.pc = "recording", !.row = row]
      OBVIOUS
    <2>3. j \in Jobs /\ j.pc = "recording" /\ j.ask = ask /\ j.row = row /\ j.seq = 0
      BY <1>1, <1>2, <1>3, <2>2 DEF Jobs, Reading
    <2>4. job' = [job EXCEPT ![r] = j]
      BY <2>1, <2>2 DEF IInv, TypeOK, Writes
    <2>5. /\ TypeOK' /\ job'[r] = j
          /\ \A q \in Requests \ {r} : job'[q] = job[q]
      BY <1>2, <1>4, <1>4a, <2>3, <2>4, GoesOn DEF tables
    <2>6. Writing(r)'
      BY <1>2, <1>4, <2>1, <2>3, <2>5 DEF Writing, Deletes, tables
    <2>7. ASSUME NEW q \in Requests \ {r}, Holds(q)
          PROVE  job[q].row.fact # row.fact /\ job[q].row.id # row.id
      <3>1. job[q].row.fact # row.fact
        BY <2>1, <2>7 DEF Awaited
      <3>2. Writing(q) /\ job[q] \in Jobs
        BY <2>7, BusyJobs DEF IInv, Holds, Busy
      <3>3. PICK e \in events : e.kind = "created" /\ e.row = row
        BY <2>1 DEF IInv, Told
      <3>4. CASE job[q].ask.does = "create"
        BY <3>1, <3>2, <3>3, <3>4 DEF Writing
      <3>5. CASE job[q].ask.does = "delete"
        <4>1. PICK f \in events : f.kind = "created" /\ f.row = job[q].row
          BY <3>2, <3>5 DEF Writing, IInv, Told
        <4>2. job[q].row.id = row.id => e = f
          BY <3>3, <4>1 DEF IInv, EventsTellTable
        <4>3. QED
          BY <3>1, <3>3, <4>1, <4>2
      <3>6. QED
        BY <3>2, <3>4, <3>5 DEF Jobs, Creates, Deletes
    <2>8. Holds(r)' /\ Busy(r)' /\ ~(job'[r].pc = "answered")
      BY <2>3, <2>5 DEF Holds, Busy
    <2>9. QED
      BY <1>2, <1>4, <2>3, <2>5, <2>6, <2>7, <2>8, QuietStep DEF tables
  <1>6. CASE (\A row \in edges : row.id # ask.id) /\ Tell(r, ask, "deleted", NoRow)
    <2>1. True([ask |-> ask, row |-> NoRow, said |-> "deleted"], seen'[r])
      BY <1>4, <1>6 DEF True, tables
    <2>2. seen' \in [Requests -> SUBSET Rows] /\ seen' = seen
      BY <1>4 DEF IInv, TypeOK
    <2>3. QED
      BY <1>2, <1>4, <1>6, <2>1, <2>2, TellStep DEF tables, Asks, Said
  <1>7. QED
    BY <1>3, <1>5, <1>6 DEF DeletesRow, Answer

LEMMA RecordsStep ==
  ASSUME IInv, NEW r \in Requests, Records(r)
  PROVE  IInv'
  <1>1. job[r] \in Jobs /\ job[r].pc = "recording" /\ Holds(r) /\ Writing(r) /\ Busy(r)
    BY BusyJobs DEF IInv, Records, Busy, Holds
  <1>2. nextId \in Nat \ {0} /\ nextSeq \in Nat \ {0} /\ asks \in 0..MaxAsks
    BY DEF IInv, TypeOK
  <1>3. nextSeq' = nextSeq + 1 /\ UNCHANGED <<edges, nextId, events, seen, asks>>
    BY DEF Records
  <1>3a. nextId' \in Nat /\ nextSeq' \in Nat /\ nextId' >= nextId /\ nextSeq' >= nextSeq
    BY <1>2, <1>3
  <1>4. PICK j : j = [job[r] EXCEPT !.pc = "committing", !.seq = nextSeq]
    OBVIOUS
  <1>5. j \in Jobs /\ j.pc = "committing" /\ j.ask = job[r].ask /\ j.row = job[r].row /\ j.seq = nextSeq
    BY <1>1, <1>2, <1>4 DEF Jobs
  <1>6. job' = [job EXCEPT ![r] = j]
    BY <1>4 DEF IInv, TypeOK, Records
  <1>7. /\ TypeOK' /\ job'[r] = j
        /\ \A q \in Requests \ {r} : job'[q] = job[q]
    BY <1>3, <1>3a, <1>5, <1>6, GoesOn
  <1>8. Writing(r)'
    <2>1. \A e \in events : e.seq < nextSeq
      BY DEF IInv, Told
    <2>2. QED
      BY <1>1, <1>2, <1>3, <1>5, <1>7, <2>1 DEF Writing
  <1>9. Holds(r)' /\ Busy(r)' /\ ~(job'[r].pc = "answered") /\ edges \subseteq seen[r]
    BY <1>1, <1>2, <1>5, <1>7 DEF Holds, Busy, IInv
  <1>10. \A q \in Requests \ {r} : Holds(q) => job[q].row.fact # job'[r].row.fact
                                              /\ job[q].row.id # job'[r].row.id
    BY <1>1, <1>5, <1>7 DEF IInv, Apart
  <1>11. QED
    BY <1>2, <1>3, <1>7, <1>8, <1>9, <1>10, QuietStep

(* A commit that changes nothing: the edge was there. *)
LEMMA CommitsNothing ==
  ASSUME IInv, NEW r \in Requests, Commits(r), job[r].seq = 0
  PROVE  IInv'
  <1>1. job[r] \in Jobs /\ job[r].pc = "committing" /\ Reading(r) /\ Busy(r)
    BY BusyJobs DEF IInv, Commits, Busy, Holds
  <1>2. nextId \in Nat \ {0} /\ nextSeq \in Nat \ {0} /\ asks \in 0..MaxAsks
    BY DEF IInv, TypeOK
  <1>3. PICK ask \in Creates : ask = job[r].ask
    BY <1>1 DEF Reading, Jobs, Creates, Deletes
  <1>4. PICK row \in Rows : row = job[r].row
    BY <1>1 DEF Reading, IInv, TypeOK
  <1>5. edges' = edges /\ events' = events /\ UNCHANGED <<nextId, nextSeq, asks>>
    BY DEF Commits, Committed
  <1>6. seen' = seen
    <2>1. \A q \in Requests : Busy(q) => seen[q] \union edges = seen[q]
      BY DEF IInv
    <2>2. seen \in [Requests -> SUBSET Rows]
      BY DEF IInv, TypeOK
    <2>3. seen' = [q \in Requests |-> IF Busy(q) THEN seen[q] \union edges ELSE seen[q]]
      BY <1>5 DEF Commits
    <2>4. \A q \in Requests : seen'[q] = seen[q]
      BY <2>1, <2>3
    <2>5. QED
      BY <2>2, <2>3, <2>4
  <1>7. seen' \in [Requests -> SUBSET Rows]
    BY <1>6 DEF IInv, TypeOK
  <1>8. Tell(r, ask, "existing", row) \/ Tell(r, ask, "failed", NoRow)
    BY <1>3, <1>4 DEF Commits, Answer, Outcome, Creates
  <1>9. True([ask |-> ask, row |-> row, said |-> "existing"], seen'[r])
    BY <1>1, <1>3, <1>4, <1>6 DEF True, Reading
  <1>10. True([ask |-> ask, row |-> NoRow, said |-> "failed"], seen'[r])
    BY DEF True
  <1>11. QED
    BY <1>2, <1>5, <1>6, <1>7, <1>8, <1>9, <1>10, TellStep DEF Asks, Said

(* A commit that makes or takes a row.  row and kind are what it records.  *)
LEMMA CommitsRow ==
  ASSUME IInv, NEW r \in Requests, Commits(r), job[r].seq # 0
  PROVE  IInv'
  <1>1. job[r] \in Jobs /\ job[r].pc = "committing" /\ Writing(r) /\ Holds(r) /\ Busy(r)
    BY BusyJobs DEF IInv, Commits, Busy, Holds
  <1>2. /\ nextId \in Nat \ {0} /\ nextSeq \in Nat \ {0} /\ asks \in 0..MaxAsks
        /\ edges \subseteq Rows /\ events \subseteq Events /\ seen \in [Requests -> SUBSET Rows]
        /\ job \in [Requests -> {Idle} \union Jobs \union Answers]
    BY DEF IInv, TypeOK
  <1>3. PICK ask \in Creates \union Deletes : ask = job[r].ask
    BY <1>1 DEF Jobs
  <1>4. PICK row \in Rows : row = job[r].row
    BY <1>1 DEF Writing
  <1>5. PICK seq \in Nat : seq = job[r].seq
    BY <1>1 DEF Jobs
  <1>6. PICK kind \in {"created", "deleted"} :
          kind = IF ask.does = "create" THEN "created" ELSE "deleted"
    OBVIOUS
  <1>7. PICK new \in Events : new = [seq |-> seq, kind |-> kind, row |-> row]
    BY DEF Events
  <1>8. /\ edges' = IF kind = "created" THEN edges \union {row} ELSE edges \ {row}
        /\ events' = events \union {new}
        /\ UNCHANGED <<nextId, nextSeq, asks>>
    BY <1>3, <1>4, <1>5, <1>6, <1>7 DEF Commits, Committed
  <1>9. seen' = [q \in Requests |-> IF Busy(q) THEN seen[q] \union edges' ELSE seen[q]]
    BY DEF Commits
  <1>10. new.seq = seq /\ new.kind = kind /\ new.row = row
    BY <1>7
  <1>11. PICK a \in Answers :
           /\ job' = [job EXCEPT ![r] = a]
           /\ a.pc = "answered" /\ a.ask = ask
           /\ \/ kind = "created" /\ a.said = "created" /\ a.row = row
              \/ kind = "deleted" /\ a.said = "deleted" /\ a.row = row
              \/ a.said = "failed"
    <2>1. \/ Tell(r, ask, IF ask.does = "delete" THEN "deleted" ELSE "created", row)
          \/ Tell(r, ask, "failed", NoRow)
      BY <1>3, <1>4 DEF Commits, Answer, Outcome
    <2>2. kind = "deleted" <=> ask.does = "delete"
      BY <1>6 DEF Creates, Deletes
    <2>3. ask \in Asks
      BY DEF Asks
    <2>4. CASE Tell(r, ask, "failed", NoRow)
      <3>1. [pc |-> "answered", ask |-> ask, row |-> NoRow, said |-> "failed"] \in Answers
        BY <2>3 DEF Answers, Said
      <3>2. QED
        BY <2>4, <3>1 DEF Tell
    <2>5. CASE Tell(r, ask, IF ask.does = "delete" THEN "deleted" ELSE "created", row)
      <3>1. PICK said : said = IF ask.does = "delete" THEN "deleted" ELSE "created"
        OBVIOUS
      <3>2. [pc |-> "answered", ask |-> ask, row |-> row, said |-> said] \in Answers
        BY <2>3, <3>1 DEF Answers, Said
      <3>3. QED
        BY <1>6, <2>2, <2>5, <3>1, <3>2 DEF Tell
    <2>6. QED
      BY <2>1, <2>4, <2>5
  <1>12. job'[r] = a /\ \A q \in Requests \ {r} : job'[q] = job[q]
    BY <1>2, <1>11
  <1>13. /\ kind = "deleted" => row \in edges /\ row.id = ask.id
         /\ kind = "created" =>
              /\ Means(row, ask) /\ row.id < nextId
              /\ \A e \in events : e.row.id # row.id
              /\ \A other \in edges : other.fact # row.fact
         /\ seq < nextSeq
         /\ \A e \in events : e.row.fact = row.fact => e.seq < seq
    BY <1>1, <1>3, <1>4, <1>5, <1>6 DEF Writing, Creates, Deletes
  <1>14. TypeOK'
    <2>1. edges' \subseteq Rows /\ events' \subseteq Events
      BY <1>2, <1>8
    <2>2. job' \in [Requests -> {Idle} \union Jobs \union Answers]
      BY <1>2, <1>11
    <2>3. seen' \in [Requests -> SUBSET Rows]
      BY <1>2, <1>9, <2>1
    <2>4. QED
      BY <1>2, <1>8, <2>1, <2>2, <2>3 DEF TypeOK
  <1>15. \A other \in Rows : (\E e \in events : e.kind = "created" /\ e.row = other) /\ other \notin edges
           => other \notin edges'
    BY <1>8, <1>13
  <1>16. \A other \in Rows : (\E e \in events : e.kind = "created" /\ e.row = other)
           /\ kind = "deleted" /\ other.id = row.id => other = row
    BY <1>13 DEF IInv, Told, EventsTellTable
  <1>17. EventsTellTable'
    <2>1. ASSUME NEW other \in edges' PROVE other \in Replayed'
      <3>1. CASE kind = "created" /\ other = row
        <4>1. \A e \in events' : e.row.fact = row.fact => e.seq <= new.seq
          BY <1>2, <1>8, <1>10, <1>13 DEF Events
        <4>2. QED
          BY <1>8, <1>10, <3>1, <4>1 DEF Replayed
      <3>2. CASE other \in edges /\ other.fact # row.fact
        <4>1. PICK e \in events :
                /\ e.kind = "created" /\ e.row = other
                /\ \A x \in events : x.row.fact = e.row.fact => x.seq <= e.seq
          BY <3>2 DEF IInv, EventsTellTable, Replayed
        <4>2. QED
          BY <1>8, <1>10, <3>2, <4>1 DEF Replayed
      <3>3. QED
        <4>1. CASE kind = "created"
          BY <1>8, <1>13, <3>1, <3>2, <4>1
        <4>2. CASE kind = "deleted"
          <5>1. other \in edges /\ other # row /\ row \in edges
            BY <1>8, <1>13, <4>2
          <5>2. other.fact # row.fact
            BY <5>1 DEF IInv, Told
          <5>3. QED
            BY <3>2, <5>1, <5>2
        <4>3. QED
          BY <4>1, <4>2
    <2>2. ASSUME NEW other \in Replayed' PROVE other \in edges'
      <3>1. PICK e \in events' :
              /\ e.kind = "created" /\ e.row = other
              /\ \A x \in events' : x.row.fact = e.row.fact => x.seq <= e.seq
        BY <2>2 DEF Replayed
      <3>2. CASE e = new
        BY <1>8, <1>10, <3>1, <3>2
      <3>3. CASE e # new
        <4>1. e \in events
          BY <1>8, <3>3
        <4>2. other \in Replayed
          BY <1>8, <3>1, <4>1 DEF Replayed
        <4>3. other \in edges
          BY <4>2 DEF IInv, EventsTellTable
        <4>4. kind = "deleted" => other # row
          <5>1. SUFFICES ASSUME other = row PROVE FALSE
            OBVIOUS
          <5>2. e.seq \in Nat /\ e.seq < seq
            BY <1>2, <1>13, <3>1, <4>1, <5>1 DEF Events
          <5>3. seq <= e.seq
            BY <1>8, <1>10, <3>1, <5>1
          <5>4. QED
            BY <5>2, <5>3
        <4>5. QED
          BY <1>8, <4>3, <4>4
      <3>4. QED
        BY <3>2, <3>3
    <2>3. edges' = Replayed'
      BY <2>1, <2>2
    <2>4. ASSUME NEW e \in events, e.kind = kind, e.row.id = row.id PROVE FALSE
      <3>1. CASE kind = "created"
        BY <1>13, <2>4, <3>1
      <3>2. CASE kind = "deleted"
        <4>1. e.row \in Rows
          BY <1>2 DEF Events
        <4>2. e.row \notin edges /\ \E c \in events : c.kind = "created" /\ c.row = e.row
          BY <2>4, <3>2 DEF IInv, Told
        <4>3. e.row = row
          BY <1>16, <2>4, <3>2, <4>1, <4>2
        <4>4. QED
          BY <1>13, <3>2, <4>2, <4>3
      <3>3. QED
        BY <3>1, <3>2
    <2>5. \A e, f \in events' : e.kind = f.kind /\ e.row.id = f.row.id => e = f
      BY <1>8, <1>10, <2>4 DEF IInv, EventsTellTable
    <2>6. QED
      BY <2>3, <2>5 DEF EventsTellTable
  <1>18. Told'
    <2>1. \A e \in events' : e.row.id < nextId' /\ e.seq < nextSeq'
      <3>1. row.id < nextId
        BY <1>13 DEF IInv, Told
      <3>2. QED
        BY <1>8, <1>10, <1>13, <3>1 DEF IInv, Told
    <2>2. \A other \in edges' : \E e \in events' : e.kind = "created" /\ e.row = other
      BY <1>8, <1>10 DEF IInv, Told
    <2>3. \A other, another \in edges' : other.fact = another.fact => other = another
      BY <1>8, <1>13 DEF IInv, Told
    <2>4. ASSUME NEW e \in events', e.kind = "deleted"
          PROVE  e.row \notin edges' /\ \E c \in events' : c.kind = "created" /\ c.row = e.row
      <3>1. CASE e = new
        <4>1. row \in edges /\ row \notin edges'
          BY <1>8, <1>10, <1>13, <2>4, <3>1
        <4>2. QED
          BY <1>8, <1>10, <3>1, <4>1 DEF IInv, Told
      <3>2. CASE e # new
        <4>1. e \in events /\ e.row \in Rows
          BY <1>2, <1>8, <3>2 DEF Events
        <4>2. e.row \notin edges /\ \E c \in events : c.kind = "created" /\ c.row = e.row
          BY <2>4, <4>1 DEF IInv, Told
        <4>3. QED
          BY <1>8, <1>15, <4>1, <4>2
      <3>3. QED
        BY <3>1, <3>2
    <2>5. \A q \in Requests : \A other \in seen'[q] :
            \E e \in events' : e.kind = "created" /\ e.row = other
      BY <1>8, <1>9, <2>2 DEF IInv, Told
    <2>6. QED
      BY <2>1, <2>2, <2>3, <2>4, <2>5 DEF Told
  <1>19. AnswersHold'
    <2>1. ListingsHold'
      <3>1. edges' \subseteq Rows
        BY <1>14 DEF TypeOK
      <3>2. (edges \subseteq Rows => ListingsHold)'
        BY ListingsAlwaysHold, PTL
      <3>3. QED
        BY <3>1, <3>2
    <2>2. ASSUME NEW q \in Requests \ {r}, job'[q].pc = "answered" PROVE True(job[q], seen[q])'
      <3>1. job'[q] = job[q] /\ ~Busy(q) /\ True(job[q], seen[q])
        BY <1>12, <2>2 DEF IInv, AnswersHold, Busy
      <3>2. seen'[q] = seen[q]
        BY <1>9, <3>1
      <3>3. \A other \in seen[q] : other \in Rows
                   /\ (other \notin edges => other \notin edges')
        BY <1>2, <1>15 DEF IInv, Told
      <3>4. QED
        BY <3>1, <3>2, <3>3 DEF True
    <2>3. True(job[r], seen[r])'
      <3>1. seen'[r] = seen[r] \union edges' /\ edges \subseteq seen[r]
        BY <1>1, <1>9 DEF IInv
      <3>2. ASSUME a.said = "created" PROVE a.row \in seen'[r] /\ Means(a.row, ask)
        BY <1>8, <1>11, <1>13, <3>1, <3>2
      <3>3. ASSUME a.said = "deleted", NEW other \in seen'[r], other.id = a.ask.id
            PROVE  other \notin edges'
        <4>1. kind = "deleted" /\ row \in edges /\ row.id = ask.id /\ row \notin edges'
          BY <1>8, <1>11, <1>13, <3>3
        <4>2. other \in seen[r] /\ other \in Rows
          BY <1>2, <1>8, <3>1, <3>3, <4>1
        <4>3. \E e \in events : e.kind = "created" /\ e.row = other
          BY <4>2 DEF IInv, Told
        <4>4. other = row
          BY <1>11, <1>16, <3>3, <4>1, <4>2, <4>3
        <4>5. QED
          BY <4>1, <4>4
      <3>4. QED
        BY <1>11, <1>12, <3>2, <3>3 DEF True
    <2>4. QED
      BY <2>1, <2>2, <2>3 DEF AnswersHold
  <1>20. ~Holds(r)' /\ ~Busy(r)'
    BY <1>11, <1>12 DEF Holds, Busy
  <1>21. ASSUME NEW q \in Requests, Busy(q)' PROVE edges' \subseteq seen'[q]
    <2>1. Busy(q)
      BY <1>12, <1>20, <1>21 DEF Busy
    <2>2. QED
      BY <1>9, <2>1
  <1>22. ASSUME NEW q \in Requests, Holds(q)' PROVE Writing(q)'
    <2>1. q # r /\ job'[q] = job[q] /\ Holds(q) /\ Busy(q)
      BY <1>12, <1>20, <1>22 DEF Holds, Busy
    <2>2. Writing(q) /\ job[q] \in Jobs /\ job[q].row.fact # row.fact /\ job[q].row.id # row.id
      BY <1>1, <1>4, <2>1, BusyJobs DEF IInv, Apart
    <2>3. job[q].ask.does = "delete" => job[q].row \in edges'
      BY <1>8, <2>2 DEF Writing
    <2>4. job[q].ask.does = "create" =>
            /\ Means(job[q].row, job[q].ask)
            /\ job[q].row.id < nextId'
            /\ \A e \in events' : e.row.id # job[q].row.id
            /\ \A other \in edges' : other.fact # job[q].row.fact
      BY <1>8, <1>10, <2>2 DEF Writing
    <2>5. job[q].seq # 0 =>
            /\ job[q].seq < nextSeq'
            /\ \A e \in events' : e.row.fact = job[q].row.fact => e.seq < job[q].seq
      BY <1>8, <1>10, <2>2 DEF Writing
    <2>6. QED
      BY <2>1, <2>2, <2>3, <2>4, <2>5 DEF Writing
  <1>23. ASSUME NEW q \in Requests, Busy(q)', ~Holds(q)' PROVE Reading(q)'
    <2>1. q # r /\ job'[q] = job[q] /\ ~Holds(q) /\ Busy(q)
      BY <1>12, <1>20, <1>23 DEF Holds, Busy
    <2>2. Reading(q) /\ seen[q] \subseteq seen'[q]
      BY <1>9, <2>1 DEF IInv
    <2>3. QED
      BY <2>1, <2>2 DEF Reading
  <1>24. ASSUME NEW q \in Requests, NEW p \in Requests \ {q}, Holds(p)', Holds(q)'
         PROVE  Apart(p, q)'
    BY <1>12, <1>20, <1>24 DEF IInv, Apart, Holds
  <1>25. QED
    BY <1>14, <1>17, <1>18, <1>19, <1>21, <1>22, <1>23, <1>24 DEF IInv

LEMMA NextIInv == IInv /\ [Next]_vars => IInv'
  <1> SUFFICES ASSUME IInv, [Next]_vars PROVE IInv'
    OBVIOUS
  <1>1. CASE UNCHANGED vars
    <2>1. TypeOK'
      BY <1>1 DEF IInv, TypeOK, vars, tables
    <2>2. EventsTellTable' /\ Told'
      BY <1>1 DEF IInv, EventsTellTable, Replayed, Told, vars, tables
    <2>3. AnswersHold'
      BY <1>1 DEF IInv, AnswersHold, ListingsHold, Views, True, vars, tables
    <2>4. ASSUME NEW r \in Requests
          PROVE  /\ Busy(r)' = Busy(r) /\ Holds(r)' = Holds(r)
                 /\ Writing(r)' = Writing(r) /\ Reading(r)' = Reading(r)
                 /\ \A q \in Requests : Apart(q, r)' = Apart(q, r)
      BY <1>1 DEF Busy, Holds, Writing, Reading, Apart, vars, tables
    <2>5. QED
      BY <1>1, <2>1, <2>2, <2>3, <2>4 DEF IInv, vars, tables
  <1>2. CASE Next
    <2>1. PICK r \in Requests :
            \/ AsksCreate(r) \/ AsksDelete(r) \/ LooksUp(r)
            \/ Inserts(r) \/ Selects(r) \/ DeletesRow(r)
            \/ Records(r) \/ Commits(r) \/ Fails(r)
      BY <1>2 DEF Next
    <2>2. QED
      BY <2>1, AsksCreateStep, AsksDeleteStep, LooksUpStep, InsertsStep, SelectsStep,
         DeletesRowStep, RecordsStep, CommitsNothing, CommitsRow, FailsStep
  <1>3. QED
    BY <1>1, <1>2

(* Whoever has written an edge has it to himself until he commits, in      *)
(* every reachable state.                                                  *)
THEOREM Invariance == Spec => []IInv
  BY InitIInv, NextIInv, PTL DEF Spec

(* Tables, requests and answers have the shape of their types.             *)
THEOREM TypeCorrect == Spec => []TypeOK
  <1>1. IInv => TypeOK
    BY DEF IInv
  <1>2. QED
    BY <1>1, Invariance, PTL

(* The events in the order of the outbox tell the table of relationships    *)
(* exactly, one event for each row that came or went.                      *)
THEOREM EventsDoTellTable == Spec => []EventsTellTable
  <1>1. IInv => EventsTellTable
    BY DEF IInv
  <1>2. QED
    BY <1>1, Invariance, PTL

(* Every answer to a create, a deletion or a lookup is true of the time of  *)
(* its request, and every listing reads back.                              *)
THEOREM AnswersAreTrue == Spec => []AnswersHold
  <1>1. IInv => AnswersHold
    BY DEF IInv
  <1>2. QED
    BY <1>1, Invariance, PTL
=============================================================================
