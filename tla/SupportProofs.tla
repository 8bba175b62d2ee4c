---------------------------- MODULE SupportProofs ----------------------------
(***************************************************************************)
(* Support records for any number of requests, records and severities, any *)
(* targets and any length of time.                                         *)
(***************************************************************************)
EXTENDS Support, TLAPS

LEMMA RowsArePresent == \A r \in Rows : r # Absent
  BY DEF Rows, Absent, Statuses

LEMMA InitIInv == Init => IInv
  <1> SUFFICES ASSUME Init PROVE IInv
    OBVIOUS
  <1>1. TypeOK
    BY MaxTimeAssumption DEF Init, TypeOK
  <1>2. MomentsRecorded
    BY DEF Init, MomentsRecorded, Exists
  <1>3. \A h \in Handlers : Knows(job[h])
    BY DEF Init, Knows, Idle
  <1>4. QED
    BY <1>1, <1>2, <1>3 DEF IInv

(* A step that leaves the rows alone and does not turn time back keeps     *)
(* what every request knew.                                                *)
LEMMA KnowledgeKept ==
  ASSUME IInv, record' = record, allocated \subseteq allocated', now \in Int, now' \in Int, now <= now',
         NEW h \in Handlers, job'[h] = job[h]
  PROVE  Knows(job[h])'
  <1>1. Knows(job[h])
    BY DEF IInv
  <1>2. job[h].pc = "writing" => record[job[h].id].created \in Int
    <2>1. SUFFICES ASSUME job[h].pc = "writing" PROVE record[job[h].id].created \in Int
      OBVIOUS
    <2>2. job[h].id \in Ids /\ Exists(job[h].id)
      BY <1>1, <2>1 DEF IInv, TypeOK, Idle, Creating, Updating, Announcing, Knows
    <2>3. QED
      BY <2>2 DEF IInv, TypeOK, Exists, Rows
  <1>3. QED
    BY <1>1, <1>2 DEF Knows, Exists

LEMMA AllocateStep ==
  ASSUME IInv, NEW h \in Handlers, Allocate(h)
  PROVE  IInv'
  <1>1. PICK i \in Ids :
          /\ allocated' = allocated \union {i}
          /\ job' = [job EXCEPT ![h] = [pc |-> "allocated", id |-> i]]
    BY DEF Allocate
  <1>2. record' = record /\ now' = now
    BY DEF Allocate
  <1>3. TypeOK'
    BY <1>1, <1>2 DEF IInv, TypeOK, Creating
  <1>4. MomentsRecorded'
    BY <1>1, <1>2 DEF IInv, MomentsRecorded, Exists
  <1>5. ASSUME NEW g \in Handlers PROVE Knows(job[g])'
    <2>1. CASE g = h
      BY <1>1, <2>1 DEF IInv, TypeOK, Knows
    <2>2. CASE g # h
      BY <1>1, <1>2, <2>2, KnowledgeKept DEF IInv, TypeOK
    <2>3. QED
      BY <2>1, <2>2
  <1>6. QED
    BY <1>3, <1>4, <1>5 DEF IInv

LEMMA InsertStep ==
  ASSUME IInv, NEW h \in Handlers, Insert(h)
  PROVE  IInv'
  <1> DEFINE i == job[h].id
  <1>1. i \in allocated /\ i \in Ids /\ ~Exists(i)
    <2>1. job[h].pc = "allocated" /\ ~Exists(i)
      BY DEF Insert
    <2>2. i \in allocated
      BY <2>1 DEF IInv, Knows
    <2>3. QED
      BY <2>1, <2>2 DEF IInv, TypeOK
  <1>2. PICK s \in Severities :
          record' = [record EXCEPT ![i] =
                       [status |-> "new", severity |-> s, created |-> now,
                        acknowledged |-> Never, resolved |-> Never]]
    BY DEF Insert
  <1>3. /\ job' = [job EXCEPT ![h] = [pc |-> "announcing", id |-> i, event |-> "created"]]
        /\ allocated' = allocated /\ now' = now
    BY DEF Insert
  <1>4. record'[i] \in Rows
    BY <1>1, <1>2 DEF IInv, TypeOK, Rows, Statuses, Moments
  <1>5. TypeOK'
    BY <1>1, <1>2, <1>3, <1>4 DEF IInv, TypeOK, Announcing
  <1>6. MomentsRecorded'
    <2>1. \A k \in Ids \ {i} : record'[k] = record[k]
      BY <1>2 DEF IInv, TypeOK
    <2>2. /\ record'[i].status = "new" /\ record'[i].created = now
          /\ record'[i].acknowledged = Never /\ record'[i].resolved = Never
      BY <1>1, <1>2 DEF IInv, TypeOK
    <2>3. QED
      BY <1>1, <1>3, <2>1, <2>2 DEF IInv, TypeOK, MomentsRecorded, Exists
  <1>7. ASSUME NEW g \in Handlers PROVE Knows(job[g])'
    <2>1. CASE g = h
      <3>1. job'[g] = [pc |-> "announcing", id |-> i, event |-> "created"]
        BY <1>3, <2>1 DEF IInv, TypeOK
      <3>2. QED
        BY <1>4, <3>1, RowsArePresent DEF Knows, Exists
    <2>2. CASE g # h
      <3>1. job'[g] = job[g] /\ Knows(job[g])
        BY <1>3, <2>2 DEF IInv, TypeOK
      <3>2. job[g].pc \in {"checked", "writing", "announcing"} =>
              job[g].id # i /\ record'[job[g].id] = record[job[g].id]
        BY <1>1, <1>2, <3>1 DEF IInv, TypeOK, Knows
      <3>3. QED
        BY <1>3, <3>1, <3>2 DEF Knows, Exists
    <2>3. QED
      BY <2>1, <2>2
  <1>8. QED
    BY <1>5, <1>6, <1>7 DEF IInv

LEMMA ReadStep ==
  ASSUME IInv, NEW h \in Handlers, Read(h)
  PROVE  IInv'
  <1>1. PICK i \in Ids, w \in Requests :
          /\ Exists(i)
          /\ w.status # Unchanged => CanTransition(record[i].status, w.status)
          /\ job' = [job EXCEPT ![h] =
                       [pc |-> "checked", id |-> i, read |-> record[i].status, want |-> w,
                        began |-> 0, overtaken |-> {}]]
    BY DEF Read
  <1>2. allocated' = allocated /\ record' = record /\ now' = now
    BY DEF Read
  <1>3. record[i].status \in Statuses
    BY <1>1 DEF IInv, TypeOK, Exists, Rows
  <1>4. TypeOK'
    BY <1>1, <1>2, <1>3, MaxTimeAssumption DEF IInv, TypeOK, Updating
  <1>5. MomentsRecorded'
    BY <1>2 DEF IInv, MomentsRecorded, Exists
  <1>6. ASSUME NEW g \in Handlers PROVE Knows(job[g])'
    <2>1. CASE g = h
      BY <1>1, <1>2, <2>1 DEF IInv, TypeOK, Knows, Exists
    <2>2. CASE g # h
      BY <1>1, <1>2, <2>2, KnowledgeKept DEF IInv, TypeOK
    <2>3. QED
      BY <2>1, <2>2
  <1>7. QED
    BY <1>4, <1>5, <1>6 DEF IInv

LEMMA BeginStep ==
  ASSUME IInv, NEW h \in Handlers, Begin(h)
  PROVE  IInv'
  <1>1. allocated' = allocated /\ record' = record /\ now' = now
    BY DEF Begin
  <1>2. job[h].pc = "checked" /\ job[h] \in Updating
    BY DEF Begin, IInv, TypeOK, Idle, Creating, Updating, Announcing
  <1>3. job' = [job EXCEPT ![h] = [job[h] EXCEPT !.pc = "writing", !.began = now]]
    BY <1>2 DEF Begin, IInv, TypeOK, Updating
  <1>4. job'[h] \in Updating
    BY <1>2, <1>3 DEF IInv, TypeOK, Updating
  <1>5. TypeOK'
    BY <1>1, <1>3, <1>4 DEF IInv, TypeOK
  <1>6. MomentsRecorded'
    BY <1>1 DEF IInv, MomentsRecorded, Exists
  <1>7. ASSUME NEW g \in Handlers PROVE Knows(job[g])'
    <2>1. CASE g = h
      <3>1. /\ job'[g].pc = "writing" /\ job'[g].began = now
            /\ job'[g].id = job[g].id /\ job'[g].want = job[g].want
            /\ job'[g].read = job[g].read /\ job'[g].overtaken = job[g].overtaken
        BY <1>2, <1>3, <2>1 DEF IInv, TypeOK, Updating
      <3>2. Knows(job[g]) /\ Exists(job[g].id)
        BY <1>2, <2>1 DEF IInv, Knows
      <3>3. now \in record[job[g].id].created..now
        <4>1. job[g].id \in Ids
          BY <1>2, <2>1 DEF Updating
        <4>2. /\ record[job[g].id].created # Never
              /\ record[job[g].id].created \in record[job[g].id].created..now
          BY <3>2, <4>1 DEF IInv, TypeOK, MomentsRecorded, Exists, Rows, Never
        <4>3. QED
          BY <3>2, <4>1, <4>2 DEF IInv, TypeOK, Exists, Rows
      <3>4. QED
        BY <1>1, <1>2, <2>1, <3>1, <3>2, <3>3 DEF Knows, Exists
    <2>2. CASE g # h
      BY <1>1, <1>3, <2>2, KnowledgeKept DEF IInv, TypeOK
    <2>3. QED
      BY <2>1, <2>2
  <1>8. QED
    BY <1>5, <1>6, <1>7 DEF IInv

(* What an update makes of a row, field by field. *)
LEMMA WrittenFields ==
  ASSUME NEW r \in Rows, NEW j \in Updating
  PROVE  /\ Written(r, j) \in Rows
         /\ Written(r, j).status = Given(j.want.status, r.status)
         /\ Written(r, j).severity = Given(j.want.severity, r.severity)
         /\ Written(r, j).created = r.created
         /\ Written(r, j).acknowledged =
              Stamp(r.acknowledged, j.want.status \notin {Unchanged, "new"}, j.began)
         /\ Written(r, j).resolved =
              Stamp(r.resolved, j.want.status \in {"resolved", "closed"}, j.began)
  <1>1. /\ Given(j.want.status, r.status) \in Statuses
        /\ Given(j.want.severity, r.severity) \in Severities
    BY DEF Rows, Updating, Requests, Given
  <1>2. /\ Stamp(r.acknowledged, j.want.status \notin {Unchanged, "new"}, j.began) \in Moments
        /\ Stamp(r.resolved, j.want.status \in {"resolved", "closed"}, j.began) \in Moments
    BY DEF Rows, Updating, Stamp, Moments
  <1>3. QED
    BY <1>1, <1>2 DEF Written, Rows

(* The moments of a row stay recorded and in order when it is written by a *)
(* transaction that began between its creation and now.                    *)
LEMMA WrittenMoments ==
  ASSUME NEW r \in Rows, NEW j \in Updating, NEW t \in 0..MaxTime,
         j.began \in r.created..t,
         r.status # "new" => r.acknowledged # Never,
         r.status \in {"resolved", "closed"} => r.resolved # Never,
         r.resolved # Never => r.acknowledged # Never,
         {r.created, r.acknowledged, r.resolved} \ {Never} \subseteq r.created..t
  PROVE  LET w == Written(r, j) IN
         /\ w.status # "new" => w.acknowledged # Never
         /\ w.status \in {"resolved", "closed"} => w.resolved # Never
         /\ w.resolved # Never => w.acknowledged # Never
         /\ {w.created, w.acknowledged, w.resolved} \ {Never} \subseteq w.created..t
  <1> DEFINE w == Written(r, j)
  <1>1. /\ w.status = Given(j.want.status, r.status)
        /\ w.created = r.created
        /\ w.acknowledged = Stamp(r.acknowledged, j.want.status \notin {Unchanged, "new"}, j.began)
        /\ w.resolved = Stamp(r.resolved, j.want.status \in {"resolved", "closed"}, j.began)
    BY WrittenFields
  <1>2. j.began # Never /\ "resolved" # Unchanged /\ "closed" # Unchanged
    BY UnchangedAssumption DEF Updating, Never
  <1> HIDE DEF w
  <1>3. w.status # "new" => w.acknowledged # Never
    BY <1>1, <1>2 DEF Given, Stamp
  <1>4. w.status \in {"resolved", "closed"} => w.resolved # Never
    BY <1>1, <1>2 DEF Given, Stamp
  <1>5. w.resolved # Never => w.acknowledged # Never
    BY <1>1, <1>2 DEF Stamp
  <1>6. {w.created, w.acknowledged, w.resolved} \ {Never} \subseteq w.created..t
    BY <1>1 DEF Stamp
  <1>7. QED
    BY <1>3, <1>4, <1>5, <1>6 DEF w

(* What a request knows it was overtaken by when record i is written. *)
Overtaken(j, i) ==
  [j EXCEPT !.overtaken = @ \union Changes(record[i].status, record'[i].status)]

LEMMA OvertakenFields ==
  ASSUME NEW j \in Updating, NEW i
  PROVE  /\ Overtaken(j, i) \in Updating
         /\ Overtaken(j, i).pc = j.pc /\ Overtaken(j, i).id = j.id
         /\ Overtaken(j, i).read = j.read /\ Overtaken(j, i).want = j.want
         /\ Overtaken(j, i).began = j.began
         /\ Overtaken(j, i).overtaken
              = j.overtaken \union Changes(record[i].status, record'[i].status)
  <1> DEFINE more == j.overtaken \union Changes(record[i].status, record'[i].status)
  <1>1. more \in SUBSET {"moved", "resolved", "left"}
    BY DEF Updating, Changes
  <1>2. Overtaken(j, i) = [j EXCEPT !.overtaken = more]
    BY DEF Overtaken
  <1> HIDE DEF more
  <1>3. QED
    BY <1>1, <1>2 DEF Updating, more

(* What a writing request may rely on, and what its step does. *)
LEMMA WriteFacts ==
  ASSUME IInv, NEW h \in Handlers, Write(h)
  PROVE  LET i == job[h].id IN
         /\ job[h] \in Updating /\ i \in Ids /\ Exists(i) /\ record[i] \in Rows
         /\ job[h].began \in record[i].created..now
         /\ record' = [record EXCEPT ![i] = Written(record[i], job[h])]
         /\ job'[h] = [pc |-> "announcing", id |-> i, event |-> EventOf(job[h])]
         /\ \A g \in Handlers \ {h} :
              job'[g] = IF Reads(job[g], i) THEN Overtaken(job[g], i) ELSE job[g]
         /\ allocated' = allocated /\ now' = now
  <1>1. job[h].pc = "writing"
    BY DEF Write
  <1>2. job[h] \in Updating
    BY <1>1 DEF IInv, TypeOK, Idle, Creating, Updating, Announcing
  <1>3. job[h].id \in Ids
    BY <1>2 DEF Updating
  <1>4. Exists(job[h].id) /\ job[h].began \in record[job[h].id].created..now
    BY <1>1 DEF IInv, Knows
  <1>5. record[job[h].id] \in Rows
    BY <1>3, <1>4 DEF IInv, TypeOK, Exists
  <1>6. QED
    BY <1>2, <1>3, <1>4, <1>5 DEF Write, Overtaken

LEMMA WriteStep ==
  ASSUME IInv, NEW h \in Handlers, Write(h)
  PROVE  IInv'
  <1> DEFINE i == job[h].id
  <1>1. /\ job[h] \in Updating /\ i \in Ids /\ Exists(i) /\ record[i] \in Rows
        /\ job[h].began \in record[i].created..now
        /\ record' = [record EXCEPT ![i] = Written(record[i], job[h])]
        /\ job'[h] = [pc |-> "announcing", id |-> i, event |-> EventOf(job[h])]
        /\ \A g \in Handlers \ {h} :
             job'[g] = IF Reads(job[g], i) THEN Overtaken(job[g], i) ELSE job[g]
        /\ allocated' = allocated /\ now' = now
    BY WriteFacts
  <1>2. /\ record'[i] = Written(record[i], job[h])
        /\ \A k \in Ids \ {i} : record'[k] = record[k]
    BY <1>1 DEF IInv, TypeOK
  <1>3. record'[i] \in Rows /\ record'[i].created = record[i].created
    BY <1>1, <1>2, WrittenFields
  <1>4. TypeOK'
    <2>1. job'[h] \in Announcing
      BY <1>1 DEF Announcing, EventOf
    <2>2. ASSUME NEW g \in Handlers \ {h}
          PROVE  job'[g] \in {Idle} \union Creating \union Updating \union Announcing
      <3>1. CASE Reads(job[g], i)
        <4>1. job[g] \in Updating
          BY <3>1 DEF IInv, TypeOK, Reads, Idle, Creating, Updating, Announcing
        <4>2. job'[g] = Overtaken(job[g], i)
          BY <1>1, <3>1
        <4>3. job'[g] \in Updating
          BY <4>1, <4>2, OvertakenFields
        <4>4. QED
          BY <4>3
      <3>2. CASE ~Reads(job[g], i)
        BY <1>1, <3>2 DEF IInv, TypeOK
      <3>3. QED
        BY <3>1, <3>2
    <2>3. job' \in [Handlers -> {Idle} \union Creating \union Updating \union Announcing]
      <3>1. job' = [g \in Handlers |-> job'[g]]
        BY DEF Write
      <3>2. QED
        BY <2>1, <2>2, <3>1
    <2>4. record' \in [Ids -> Rows \union {Absent}]
      BY <1>1, <1>3 DEF IInv, TypeOK
    <2>5. QED
      BY <1>1, <2>3, <2>4 DEF IInv, TypeOK
  <1>5. MomentsRecorded'
    <2>1. ASSUME NEW k \in Ids \ {i}, record'[k] # Absent
          PROVE  /\ k \in allocated
                 /\ record[k].status # "new" => record[k].acknowledged # Never
                 /\ record[k].status \in {"resolved", "closed"} => record[k].resolved # Never
                 /\ record[k].resolved # Never => record[k].acknowledged # Never
                 /\ {record[k].created, record[k].acknowledged, record[k].resolved} \ {Never}
                      \subseteq record[k].created..now
      BY <1>2, <2>1 DEF IInv, MomentsRecorded, Exists
    <2>2. LET w == record'[i] IN
            /\ i \in allocated
            /\ w.status # "new" => w.acknowledged # Never
            /\ w.status \in {"resolved", "closed"} => w.resolved # Never
            /\ w.resolved # Never => w.acknowledged # Never
            /\ {w.created, w.acknowledged, w.resolved} \ {Never} \subseteq w.created..now
      <3>1. LET r == record[i] IN
            /\ i \in allocated
            /\ r.status # "new" => r.acknowledged # Never
            /\ r.status \in {"resolved", "closed"} => r.resolved # Never
            /\ r.resolved # Never => r.acknowledged # Never
            /\ {r.created, r.acknowledged, r.resolved} \ {Never} \subseteq r.created..now
        BY <1>1 DEF IInv, MomentsRecorded
      <3>2. now \in 0..MaxTime
        BY DEF IInv, TypeOK
      <3>3. record[i] \in Rows /\ job[h] \in Updating /\ job[h].began \in record[i].created..now
        BY <1>1
      <3>4. LET w == Written(record[i], job[h]) IN
            /\ w.status # "new" => w.acknowledged # Never
            /\ w.status \in {"resolved", "closed"} => w.resolved # Never
            /\ w.resolved # Never => w.acknowledged # Never
            /\ {w.created, w.acknowledged, w.resolved} \ {Never} \subseteq w.created..now
        BY <3>1, <3>2, <3>3, WrittenMoments
      <3>5. QED
        BY <1>2, <3>1, <3>4
    <2>3. QED
      BY <1>1, <1>2, <2>1, <2>2 DEF MomentsRecorded, Exists
  <1>6. ASSUME NEW g \in Handlers PROVE Knows(job[g])'
    <2>1. CASE g = h
      <3>1. job'[g].pc = "announcing" /\ job'[g].id = i
        BY <1>1, <2>1
      <3>2. QED
        BY <1>3, <3>1, RowsArePresent DEF Knows, Exists
    <2>2. CASE g # h /\ Reads(job[g], i)
      <3>1. job[g] \in Updating /\ job[g].pc \in {"checked", "writing"} /\ job[g].id = i
        BY <2>2 DEF IInv, TypeOK, Reads, Idle, Creating, Updating, Announcing
      <3>2. job'[g] = Overtaken(job[g], i)
        BY <1>1, <2>2
      <3>3. /\ job'[g].pc = job[g].pc /\ job'[g].id = i
            /\ job'[g].read = job[g].read /\ job'[g].want = job[g].want
            /\ job'[g].began = job[g].began
            /\ job'[g].overtaken
                 = job[g].overtaken \union Changes(record[i].status, record'[i].status)
        BY <3>1, <3>2, OvertakenFields
      <3>4. Knows(job[g])
        BY DEF IInv
      <3>5. /\ job'[g].overtaken = {} => record'[i].status = job[g].read
            /\ job[g].read # "resolved" /\ "resolved" \notin job'[g].overtaken
                 => record'[i].status # "resolved"
            /\ job[g].read = "resolved" /\ "left" \notin job'[g].overtaken
                 => record'[i].status = "resolved"
        BY <3>1, <3>3, <3>4 DEF Knows, Changes
      <3>6. QED
        BY <1>1, <1>3, <3>1, <3>3, <3>4, <3>5, RowsArePresent DEF Knows, Exists
    <2>3. CASE g # h /\ ~Reads(job[g], i)
      <3>1. job'[g] = job[g] /\ Knows(job[g])
        BY <1>1, <2>3 DEF IInv
      <3>2. CASE job[g].pc \in {"checked", "writing"}
        <4>1. job[g] \in Updating
          BY <3>2 DEF IInv, TypeOK, Idle, Creating, Updating, Announcing
        <4>2. record'[job[g].id] = record[job[g].id]
          BY <1>2, <2>3, <3>2, <4>1 DEF Reads, Updating
        <4>3. QED
          BY <1>1, <3>1, <4>2, <3>2 DEF Knows, Exists
      <3>3. CASE job[g].pc = "announcing"
        <4>1. job[g] \in Announcing
          BY <3>3 DEF IInv, TypeOK, Idle, Creating, Updating, Announcing
        <4>2. job[g].id \in Ids
          BY <4>1 DEF Announcing
        <4>3. QED
          BY <1>2, <1>3, <3>1, <3>3, <4>2, RowsArePresent DEF Knows, Exists
      <3>4. CASE job[g].pc \notin {"checked", "writing", "announcing"}
        BY <1>1, <3>1, <3>4 DEF Knows
      <3>5. QED
        BY <3>2, <3>3, <3>4
    <2>4. QED
      BY <2>1, <2>2, <2>3
  <1>7. QED
    BY <1>4, <1>5, <1>6 DEF IInv

(* A request that ends, or stops, forgets what it knew. *)
LEMMA ForgetStep ==
  ASSUME IInv, NEW h \in Handlers, job' = [job EXCEPT ![h] = Idle],
         UNCHANGED <<allocated, record, now>>
  PROVE  IInv'
  <1>1. TypeOK'
    BY DEF IInv, TypeOK
  <1>2. MomentsRecorded'
    BY DEF IInv, MomentsRecorded, Exists
  <1>3. ASSUME NEW g \in Handlers PROVE Knows(job[g])'
    <2>1. CASE g = h
      <3>1. job'[g].pc = "idle"
        BY <2>1 DEF IInv, TypeOK, Idle
      <3>2. QED
        BY <3>1 DEF Knows
    <2>2. CASE g # h
      BY <2>2, KnowledgeKept DEF IInv, TypeOK
    <2>3. QED
      BY <2>1, <2>2
  <1>4. QED
    BY <1>1, <1>2, <1>3 DEF IInv

LEMMA TickStep ==
  ASSUME IInv, Tick
  PROVE  IInv'
  <1>1. now \in 0..MaxTime /\ now' \in 0..MaxTime /\ now <= now'
    BY MaxTimeAssumption DEF IInv, TypeOK, Tick
  <1>2. allocated' = allocated /\ record' = record /\ job' = job
    BY DEF Tick
  <1>3. TypeOK'
    BY <1>1, <1>2 DEF IInv, TypeOK
  <1>4. MomentsRecorded'
    <2>1. ASSUME NEW i \in Ids, Exists(i)
          PROVE  {record[i].created, record[i].acknowledged, record[i].resolved} \ {Never}
                   \subseteq record[i].created..now'
      <3>1. record[i] \in Rows
        BY <2>1 DEF IInv, TypeOK, Exists
      <3>2. {record[i].created, record[i].acknowledged, record[i].resolved} \ {Never}
              \subseteq record[i].created..now
        BY <2>1 DEF IInv, MomentsRecorded
      <3>3. record[i].created..now \subseteq record[i].created..now'
        BY <1>1, <3>1 DEF Rows
      <3>4. QED
        BY <3>2, <3>3
    <2>2. QED
      BY <1>2, <2>1 DEF IInv, MomentsRecorded, Exists
  <1>5. ASSUME NEW g \in Handlers PROVE Knows(job[g])'
    BY <1>1, <1>2, KnowledgeKept
  <1>6. QED
    BY <1>3, <1>4, <1>5 DEF IInv

(* What every request assumes of the record it read holds, whatever other  *)
(* requests did since.                                                     *)
THEOREM Invariance == Spec => []IInv
  <1>1. ASSUME IInv, [Next]_vars PROVE IInv'
    <2>1. CASE UNCHANGED vars
      BY <1>1, <2>1 DEF vars, IInv, TypeOK, MomentsRecorded, Knows, Exists
    <2>2. CASE \E h \in Handlers : Announce(h) \/ Stops(h)
      BY <1>1, <2>2, ForgetStep DEF Announce, Stops
    <2>3. QED
      BY <1>1, <2>1, <2>2, AllocateStep, InsertStep, ReadStep, BeginStep, WriteStep, TickStep
         DEF Next
  <1>2. QED
    BY <1>1, InitIInv, PTL DEF Spec

(* Type correctness of support records. *)
THEOREM TypeCorrect == Spec => []TypeOK
  <1>1. IInv => TypeOK
    BY DEF IInv
  <1>2. QED
    BY <1>1, Invariance, PTL

(* Every moment a status implies is recorded, after the record's creation  *)
(* and not in the future.                                                  *)
THEOREM MomentsAreRecorded == Spec => []MomentsRecorded
  <1>1. IInv => MomentsRecorded
    BY DEF IInv
  <1>2. QED
    BY <1>1, Invariance, PTL

(* The three things a step does to the rows: nothing, add one that was     *)
(* absent, or write one.                                                   *)
LEMMA RecordSteps ==
  ASSUME IInv, [Next]_vars
  PROVE  \/ record' = record
         \/ \E h \in Handlers : Insert(h)
         \/ \E h \in Handlers : Write(h)
  BY DEF Next, vars, Allocate, Read, Begin, Announce, Stops, Tick

(* No request, however late, moves a moment once it is recorded.           *)
THEOREM MomentsDoStand == Spec => MomentsStand
  <1> DEFINE Stand == \A i \in Ids : Exists(i) =>
                        /\ record'[i].created = record[i].created
                        /\ record[i].acknowledged \in {Never, record'[i].acknowledged}
                        /\ record[i].resolved \in {Never, record'[i].resolved}
  <1>1. ASSUME IInv, [Next]_vars PROVE Stand
    <2>1. CASE record' = record
      BY <2>1
    <2>2. CASE \E h \in Handlers : Insert(h)
      BY <1>1, <2>2 DEF Insert, IInv, TypeOK
    <2>3. ASSUME NEW h \in Handlers, Write(h), NEW i \in Ids, Exists(i)
          PROVE  /\ record'[i].created = record[i].created
                 /\ record[i].acknowledged \in {Never, record'[i].acknowledged}
                 /\ record[i].resolved \in {Never, record'[i].resolved}
      <3>1. /\ job[h] \in Updating /\ record[job[h].id] \in Rows
            /\ record' = [record EXCEPT ![job[h].id] = Written(record[job[h].id], job[h])]
        BY <1>1, <2>3, WriteFacts
      <3>2. CASE i # job[h].id
        BY <1>1, <3>1, <3>2 DEF IInv, TypeOK
      <3>3. CASE i = job[h].id
        <4>1. record'[i] = Written(record[i], job[h])
          BY <1>1, <3>1, <3>3 DEF IInv, TypeOK
        <4>2. QED
          BY <3>1, <3>3, <4>1, WrittenFields DEF Stamp
      <3>4. QED
        BY <3>2, <3>3
    <2>4. QED
      BY <1>1, <2>1, <2>2, <2>3, RecordSteps
  <1>2. IInv /\ [Next]_vars => [Stand]_vars
    BY <1>1
  <1>3. QED
    BY <1>2, Invariance, PTL DEF Spec, MomentsStand

(* Only a request's own write takes it from its transaction to its event. *)
LEMMA CommitsAreWrites ==
  ASSUME IInv, [Next]_vars, NEW h \in Handlers, Commits(h)
  PROVE  Write(h)
  <1>1. job[h].pc = "writing" /\ job'[h].pc = "announcing"
    BY DEF Commits
  <1>2. ASSUME NEW g \in Handlers, Write(g) PROVE g = h
    <2>1. SUFFICES ASSUME g # h PROVE FALSE
      OBVIOUS
    <2>2. job'[h] = IF Reads(job[h], job[g].id) THEN Overtaken(job[h], job[g].id) ELSE job[h]
      BY <1>2, <2>1, WriteFacts
    <2>3. job[h] \in Updating
      BY <1>1 DEF IInv, TypeOK, Idle, Creating, Updating, Announcing
    <2>4. job'[h].pc = job[h].pc
      BY <2>2, <2>3, OvertakenFields
    <2>5. QED
      BY <1>1, <2>4
  <1>3. ASSUME NEW g \in Handlers,
               Allocate(g) \/ Insert(g) \/ Read(g) \/ Begin(g) \/ Announce(g) \/ Stops(g)
        PROVE  FALSE
    <2>1. CASE g = h
      BY <1>1, <1>3, <2>1
         DEF Allocate, Insert, Read, Begin, Announce, Stops, IInv, TypeOK, Idle
    <2>2. CASE g # h
      <3>1. job'[h] = job[h]
        BY <1>3, <2>2 DEF Allocate, Insert, Read, Begin, Announce, Stops, IInv, TypeOK
      <3>2. QED
        BY <1>1, <3>1
    <2>3. QED
      BY <2>1, <2>2
  <1>4. job' # job
    BY <1>1
  <1>5. QED
    BY <1>2, <1>3, <1>4 DEF Next, vars, Tick

(* What a write makes of a row that may have changed since it was read. *)
LEMMA Committing ==
  ASSUME IInv, [Next]_vars, NEW h \in Handlers, Commits(h)
  PROVE  /\ job[h] \in Updating /\ Knows(job[h]) /\ job[h].pc = "writing"
         /\ record'[job[h].id].status = Given(job[h].want.status, record[job[h].id].status)
         /\ job'[h].event = EventOf(job[h])
  <1> DEFINE i == job[h].id
  <1>1. Write(h) /\ job[h].pc = "writing" /\ Knows(job[h])
    BY CommitsAreWrites DEF Commits, IInv
  <1>2. /\ job[h] \in Updating /\ i \in Ids /\ record[i] \in Rows
        /\ record' = [record EXCEPT ![i] = Written(record[i], job[h])]
        /\ job'[h] = [pc |-> "announcing", id |-> i, event |-> EventOf(job[h])]
    BY <1>1, WriteFacts
  <1>3. record'[i].status = Given(job[h].want.status, record[i].status)
    <2>1. record'[i] = Written(record[i], job[h])
      BY <1>2 DEF IInv, TypeOK
    <2>2. QED
      BY <1>2, <2>1, WrittenFields
  <1>4. QED
    BY <1>1, <1>2, <1>3

(* Updates move records along the lifecycle's graph, unless the status was *)
(* changed under them.                                                     *)
THEOREM LifecycleIsHeld == Spec => LifecycleHeld
  <1> DEFINE Held == \A h \in Handlers : Commits(h) /\ job[h].overtaken = {} =>
               LET from == record[job[h].id].status
                   to == record'[job[h].id].status
               IN  from # to => from # "closed" /\ to # "new"
                                /\ (to = "acknowledged" => from = "new")
  <1>1. ASSUME IInv, [Next]_vars PROVE Held
    <2>1. SUFFICES ASSUME NEW h \in Handlers, Commits(h), job[h].overtaken = {},
                          record[job[h].id].status # record'[job[h].id].status
                   PROVE  /\ record[job[h].id].status # "closed"
                          /\ record'[job[h].id].status # "new"
                          /\ record'[job[h].id].status = "acknowledged"
                               => record[job[h].id].status = "new"
      OBVIOUS
    <2>2. /\ record[job[h].id].status = job[h].read
          /\ job[h].want.status # Unchanged => CanTransition(job[h].read, job[h].want.status)
          /\ record'[job[h].id].status = Given(job[h].want.status, job[h].read)
      BY <1>1, <2>1, Committing DEF Knows
    <2>3. QED
      BY <2>1, <2>2 DEF Given, CanTransition
  <1>2. IInv /\ [Next]_vars => [Held]_vars
    BY <1>1
  <1>3. QED
    BY <1>2, Invariance, PTL DEF Spec, LifecycleHeld

(* A resolution is announced by who brings it about; announced twice only  *)
(* by updates that overlapped, and passed over only where it was restated  *)
(* and undone meanwhile.                                                   *)
THEOREM ResolutionIsAnnounced == Spec => ResolutionAnnounced
  <1> DEFINE Told == \A h \in Handlers : Commits(h) =>
        LET from == record[job[h].id].status
            to == record'[job[h].id].status
            announced == job'[h].event = "resolved"
        IN  /\ announced => to = "resolved"
            /\ announced /\ from = "resolved" => "resolved" \in job[h].overtaken
            /\ from # "resolved" /\ to = "resolved" /\ ~announced => "left" \in job[h].overtaken
  <1>1. ASSUME IInv, [Next]_vars PROVE Told
    <2> SUFFICES ASSUME NEW h \in Handlers, Commits(h)
                 PROVE  LET from == record[job[h].id].status
                            to == record'[job[h].id].status
                            announced == job'[h].event = "resolved"
                        IN  /\ announced => to = "resolved"
                            /\ announced /\ from = "resolved" => "resolved" \in job[h].overtaken
                            /\ from # "resolved" /\ to = "resolved" /\ ~announced
                                 => "left" \in job[h].overtaken
      OBVIOUS
    <2>1. /\ record'[job[h].id].status = Given(job[h].want.status, record[job[h].id].status)
          /\ job'[h].event = IF Given(job[h].want.status, job[h].read) = "resolved"
                                /\ job[h].read # "resolved" THEN "resolved" ELSE "updated"
      BY <1>1, Committing DEF EventOf
    <2>2. /\ job[h].read # "resolved" /\ "resolved" \notin job[h].overtaken
               => record[job[h].id].status # "resolved"
          /\ job[h].read = "resolved" /\ "left" \notin job[h].overtaken
               => record[job[h].id].status = "resolved"
      BY <1>1, Committing DEF Knows
    <2>3. QED
      BY <2>1, <2>2 DEF Given
  <1>2. IInv /\ [Next]_vars => [Told]_vars
    BY <1>1
  <1>3. QED
    BY <1>2, Invariance, PTL DEF Spec, ResolutionAnnounced

(* The SLA rules, at one moment and at the next, of a row that is not in   *)
(* the future.                                                             *)
LEMMA Worsening ==
  ASSUME NEW r \in Rows, NEW t \in Nat, r.created <= t
  PROVE  /\ Missed(r, t) => Missed(r, t + 1)
         /\ AtRisk(r, t) => AtRisk(r, t + 1)
         /\ Missed(r, t + 1) => AtRisk(r, t) \/ Missed(r, t)
  <1>1. r.created \in Int /\ \A due \in Targets(r) : due \in Int
    BY MaxTimeAssumption, TargetsAssumption DEF Rows, Targets, RespondBy, ResolveBy
  <1>2. \A due \in Targets(r) : t > due => t + 1 > due
    BY <1>1
  <1>3. \A due \in Targets(r) :
          5 * (t - r.created) >= 4 * (due - r.created)
            => 5 * ((t + 1) - r.created) >= 4 * (due - r.created)
    BY <1>1
  <1>4. \A due \in Targets(r) :
          t + 1 > due => 5 * (t - r.created) >= 4 * (due - r.created)
    BY <1>1
  <1>5. QED
    BY <1>2, <1>3, <1>4 DEF Missed, AtRisk

(* Time only worsens the SLA state of an open record, one degree at a time, *)
(* and leaves that of a resolved one alone.                                *)
THEOREM ClockDoesOnlyWorsen == Spec => ClockOnlyWorsens
  <1> DEFINE Worsens == now' # now =>
               \A i \in Ids : Exists(i) =>
                 LET before == SLA(record[i], now)
                     after == SLA(record'[i], now')
                 IN  \/ after = before
                     \/ /\ record[i].resolved = Never
                        /\ before \in {"on_track", "at_risk"}
                        /\ Outlook[after] = Outlook[before] + 1
  <1>1. ASSUME IInv, [Next]_vars PROVE Worsens
    <2>1. SUFFICES ASSUME now' # now, NEW i \in Ids, Exists(i)
                   PROVE  LET before == SLA(record[i], now)
                              after == SLA(record'[i], now')
                          IN  \/ after = before
                              \/ /\ record[i].resolved = Never
                                 /\ before \in {"on_track", "at_risk"}
                                 /\ Outlook[after] = Outlook[before] + 1
      OBVIOUS
    <2>2. now' = now + 1 /\ record' = record
      BY <1>1, <2>1 DEF Next, vars, Allocate, Insert, Read, Begin, Write, Announce, Stops, Tick
    <2>3. record[i] \in Rows /\ now \in Nat /\ record[i].created <= now
      <3>1. record[i] \in Rows /\ now \in 0..MaxTime
        BY <1>1, <2>1 DEF IInv, TypeOK, Exists
      <3>2. record[i].created \in record[i].created..now
        <4>1. record[i].created # Never
          BY <3>1 DEF Rows, Never
        <4>2. QED
          BY <1>1, <2>1, <4>1 DEF IInv, MomentsRecorded
      <3>3. QED
        BY <3>1, <3>2, MaxTimeAssumption DEF Rows
    <2>4. /\ Missed(record[i], now) => Missed(record[i], now')
          /\ AtRisk(record[i], now) => AtRisk(record[i], now')
          /\ Missed(record[i], now') => AtRisk(record[i], now) \/ Missed(record[i], now)
      BY <2>2, <2>3, Worsening
    <2>5. /\ Outlook["at_risk"] = Outlook["on_track"] + 1
          /\ Outlook["breached"] = Outlook["at_risk"] + 1
      BY DEF Outlook
    <2>6. QED
      BY <2>2, <2>4, <2>5 DEF SLA
  <1>2. IInv /\ [Next]_vars => [Worsens]_vars
    BY <1>1
  <1>3. QED
    BY <1>2, Invariance, PTL DEF Spec, ClockOnlyWorsens
=============================================================================
