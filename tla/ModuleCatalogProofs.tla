------------------------- MODULE ModuleCatalogProofs -------------------------
(***************************************************************************)
(* The module catalogue for any number of Cores, builds, modules and       *)
(* roles, and any number of starts and changes.                            *)
(***************************************************************************)
EXTENDS ModuleCatalog, TLAPS

LEMMA FilesFacts ==
  /\ Len(Files) = 7
  /\ \A i \in 1..7 : Files[i] \in FileNames
  /\ \A f \in FileNames : \E i \in 1..7 : f = Files[i]
  /\ \A i, j \in 1..7 : Files[i] = Files[j] => i = j
  /\ Files[1] = "001_init" /\ Files[7] = "018_module_administration"
  <1>1. Len(Files) = 7
    BY DEF Files
  <1>2. /\ Files[1] = "001_init" /\ Files[2] = "003_rbac_scopes"
        /\ Files[3] = "013_real_modules" /\ Files[4] = "015_real_module_rbac"
        /\ Files[5] = "016_nextcloud_module" /\ Files[6] = "017_nextcloud_rbac"
        /\ Files[7] = "018_module_administration"
    BY DEF Files
  <1>3. FileNames = {Files[i] : i \in 1..7}
    BY <1>1 DEF FileNames
  <1>4. \A i \in 1..7 : i = 1 \/ i = 2 \/ i = 3 \/ i = 4 \/ i = 5 \/ i = 6 \/ i = 7
    OBVIOUS
  <1>5. \A i, j \in 1..7 : Files[i] = Files[j] => i = j
    BY <1>2, <1>4
  <1>6. QED
    BY <1>1, <1>2, <1>3, <1>5

(* What a file may do to one row: seed it, register it, hide it, add       *)
(* grants to it, or bring its status into the vocabulary.                  *)
RowStep(m, old, new) ==
  \/ new = old
  \/ /\ m \in Legacy /\ old.status = "absent"
     /\ new = [old EXCEPT !.status = "planned", !.enabled = TRUE]
  \/ new = [old EXCEPT !.status = "ready", !.enabled = TRUE]
  \/ m \in Retired /\ new = [old EXCEPT !.enabled = FALSE]
  \/ \E S \in SUBSET Roles : new = [old EXCEPT !.roles = @ \cup S]
  \/ old.status = "ready" /\ new = [old EXCEPT !.status = "active"]
  \/ old.status = "planned" /\ new = [old EXCEPT !.status = "disabled"]

LEMMA EffectOnRow ==
  ASSUME NEW k \in [Modules -> Rows], NEW f \in FileNames, NEW m \in Modules
  PROVE  RowStep(m, k[m], Effect(f, k)[m])
  <1> DEFINE P(r) == RowStep(m, k[m], r)
  <1>1. P(Seeded(k)[m])
    BY DEF RowStep, Seeded
  <1>2. \A S : P(Registered(S, k)[m])
    BY DEF RowStep, Registered
  <1>3. P(Hidden(Retired, Registered(Derived, k))[m])
    <2>1. Hidden(Retired, Registered(Derived, k))[m] =
            IF m \in Retired THEN [Registered(Derived, k)[m] EXCEPT !.enabled = FALSE]
            ELSE Registered(Derived, k)[m]
      BY DEF Hidden
    <2>2. m \in Retired => Registered(Derived, k)[m] = k[m]
      BY ModulesAssumption DEF Registered
    <2>3. CASE m \in Retired
      BY <2>1, <2>2, <2>3 DEF RowStep
    <2>4. QED
      BY <1>2, <2>1, <2>3
  <1>4. P(Normalised(k)[m])
    BY DEF RowStep, Normalised, Rows, Statuses
  <1>5. ASSUME NEW g, \A x \in DOMAIN g : g[x] \in SUBSET Roles
        PROVE  P(Granted(g, k)[m])
    BY <1>5 DEF RowStep, Granted
  <1>6. P(Granted(Policy, k)[m])
    BY <1>5, RolesAssumption
  <1>7. P(Granted([x \in Derived |-> k[SourceOf[x]].roles], k)[m])
    <2>1. \A x \in Derived : k[SourceOf[x]].roles \in SUBSET Roles
      BY ModulesAssumption DEF Modules, Rows
    <2>2. QED
      BY <2>1, <1>5
  <1>8. P(Granted([x \in Direct |-> {Owner}], k)[m])
    BY <1>5, RolesAssumption
  <1> HIDE DEF P
  <1>9. P(Effect(f, k)[m])
    BY <1>1, <1>2, <1>3, <1>4, <1>6, <1>7, <1>8 DEF Effect
  <1>10. QED
    BY <1>9 DEF P

(* What such a step preserves of a row.                                    *)
Kept(m, old, new) ==
  /\ new \in Rows
  /\ new.updated_by = old.updated_by
  /\ old.status # "absent" => new.status # "absent"
  /\ new.status = "planned" =>
       old.status = "planned" \/ (m \in Legacy /\ old.status = "absent")
  /\ old.status \notin {"absent", "planned"} =>
       /\ (old.status = "disabled" => ~old.enabled) => (new.status = "disabled" => ~new.enabled)
       /\ (old.status # "disabled" => old.enabled \/ m \in Retired) =>
            (new.status # "disabled" => new.enabled \/ m \in Retired)

LEMMA RowStepKeeps ==
  ASSUME NEW m, NEW old \in Rows, NEW new, RowStep(m, old, new)
  PROVE  Kept(m, old, new)
  <1>1. CASE new = old
    BY <1>1 DEF Kept
  <1>2. CASE /\ m \in Legacy /\ old.status = "absent"
             /\ new = [old EXCEPT !.status = "planned", !.enabled = TRUE]
    BY <1>2 DEF Kept, Rows, Statuses
  <1>3. CASE new = [old EXCEPT !.status = "ready", !.enabled = TRUE]
    BY <1>3 DEF Kept, Rows, Statuses
  <1>4. CASE m \in Retired /\ new = [old EXCEPT !.enabled = FALSE]
    BY <1>4 DEF Kept, Rows
  <1>5. CASE \E S \in SUBSET Roles : new = [old EXCEPT !.roles = @ \cup S]
    BY <1>5 DEF Kept, Rows
  <1>6. CASE old.status = "ready" /\ new = [old EXCEPT !.status = "active"]
    BY <1>6 DEF Kept, Rows, Statuses, ModuleStatuses
  <1>7. CASE old.status = "planned" /\ new = [old EXCEPT !.status = "disabled"]
    BY <1>7 DEF Kept, Rows, Statuses, ModuleStatuses
  <1>8. QED
    BY <1>1, <1>2, <1>3, <1>4, <1>5, <1>6, <1>7 DEF RowStep

LEMMA EffectFacts ==
  ASSUME NEW k \in [Modules -> Rows], NEW f \in FileNames
  PROVE  /\ Effect(f, k) \in [Modules -> Rows]
         /\ \A m \in Modules : Kept(m, k[m], Effect(f, k)[m])
         /\ f = Files[1] => \A m \in Legacy : Effect(f, k)[m].status # "absent"
         /\ f = Files[7] =>
              \A m \in Modules : Effect(f, k)[m].status \in ModuleStatuses \cup {"absent"}
  <1>1. Effect(f, k) = [m \in Modules |-> Effect(f, k)[m]]
    <2> DEFINE OnModules(g) == g = [m \in Modules |-> g[m]]
    <2>1. OnModules(Seeded(k)) /\ OnModules(Normalised(k))
      BY DEF Seeded, Normalised
    <2>2. \A S : OnModules(Registered(S, k)) /\ OnModules(Granted(S, k))
      BY DEF Registered, Granted
    <2>3. \A S, new : OnModules(Hidden(S, new))
      BY DEF Hidden
    <2> HIDE DEF OnModules
    <2>4. OnModules(Effect(f, k))
      BY <2>1, <2>2, <2>3 DEF Effect
    <2>5. QED
      BY <2>4 DEF OnModules
  <1>2. ASSUME NEW m \in Modules
        PROVE  Kept(m, k[m], Effect(f, k)[m])
    BY EffectOnRow, RowStepKeeps
  <1>3. f = Files[1] => \A m \in Legacy : Effect(f, k)[m].status # "absent"
    <2> SUFFICES ASSUME f = Files[1], NEW m \in Legacy
                 PROVE  Effect(f, k)[m].status # "absent"
      OBVIOUS
    <2>1. Effect(f, k) = Seeded(k)
      BY FilesFacts DEF Effect
    <2>2. m \in Modules /\ k[m] \in Rows
      BY DEF Modules
    <2>3. QED
      BY <2>1, <2>2 DEF Seeded, Rows
  <1>4. f = Files[7] =>
          \A m \in Modules : Effect(f, k)[m].status \in ModuleStatuses \cup {"absent"}
    <2> SUFFICES ASSUME f = Files[7], NEW m \in Modules
                 PROVE  Effect(f, k)[m].status \in ModuleStatuses \cup {"absent"}
      OBVIOUS
    <2>1. Effect(f, k) = Normalised(k)
      BY FilesFacts DEF Effect
    <2>2. k[m] \in Rows
      OBVIOUS
    <2>3. QED
      BY <2>1, <2>2 DEF Normalised, Rows, Statuses, ModuleStatuses
  <1>5. QED
    <2>1. \A m \in Modules : Effect(f, k)[m] \in Rows
      BY <1>2 DEF Kept
    <2>2. QED
      BY <1>1, <1>2, <1>3, <1>4, <2>1

-----------------------------------------------------------------------------
(* The invariant, action by action.                                        *)

LEMMA InitIInv == Init => IInv
  <1> SUFFICES ASSUME Init PROVE IInv
    OBVIOUS
  <1>1. SomeBuild \in Builds
    BY BuildsAssumption DEF SomeBuild
  <1>2. Absent \in Rows
    BY DEF Absent, Rows, Statuses
  <1>3. TypeOK
    <2>1. /\ catalog \in [Modules -> Rows] /\ first \in [FileNames -> Bodies \cup {NoBody}]
          /\ ledger \in [FileNames -> [checksum : Bodies \cup {NoBody}, source : Bodies \cup {NoBody}]]
      BY <1>2 DEF Init, NoRecord
    <2>2. /\ pc \in [Cores -> {"down", "waiting", "applying", "recording", "serving"}]
          /\ build \in [Cores -> Builds] /\ at \in [Cores -> 1..Len(Files) + 1]
          /\ \A c \in Cores : pc[c] = "down" /\ at[c] = 1
      BY <1>1, FilesFacts DEF Init
    <2>3. QED
      BY <1>1, <2>1, <2>2 DEF Init, TypeOK
  <1>4. \A c \in Cores : ~Busy(c) /\ pc[c] # "serving"
    BY DEF Init, Busy
  <1>5. unfinished
    BY DEF Init
  <1>6. EditedStands /\ DisabledIsHidden
    BY DEF Init, EditedStands, DisabledIsHidden, Absent
  <1>7. LedgerTrue
    BY DEF Init, LedgerTrue
  <1>8. QED
    BY <1>3, <1>4, <1>5, <1>6, <1>7 DEF IInv, OneReplay, ClosedByTheLast, HasApplied,
       OnlyKnownStatuses, LegacySeeded, NothingPlanned, SourceCurrent

(* A Core that is at a file holds the lock, so nobody else is.             *)
LEMMA Alone ==
  ASSUME IInv, NEW c \in Cores, Busy(c)
  PROVE  unfinished /\ lock = c /\ \A d \in Cores \ {c} : ~Busy(d)
  BY DEF IInv, OneReplay

LEMMA StartStep ==
  ASSUME IInv, NEW c \in Cores, Start(c)
  PROVE  IInv'
  <1>1. PICK b \in Builds : build' = [build EXCEPT ![c] = b]
    BY DEF Start
  <1>2. /\ pc' = [pc EXCEPT ![c] = "waiting"] /\ at' = [at EXCEPT ![c] = 1]
        /\ pc[c] = "down" /\ starts' = starts + 1
        /\ UNCHANGED <<catalog, ledger, lock, edits, history>>
    BY DEF Start
  <1>3. TypeOK'
    BY <1>1, <1>2, FilesFacts DEF IInv, TypeOK, history
  <1>4. ~Busy(c) /\ ~Busy(c)' /\ pc'[c] # "serving"
    BY <1>2 DEF IInv, TypeOK, Busy
  <1>5. \A d \in Cores \ {c} : pc'[d] = pc[d] /\ at'[d] = at[d] /\ build'[d] = build[d]
    BY <1>1, <1>2 DEF IInv, TypeOK
  <1>6. OneReplay' /\ ClosedByTheLast' /\ LegacySeeded' /\ NothingPlanned'
    BY <1>2, <1>4, <1>5 DEF IInv, OneReplay, ClosedByTheLast, LegacySeeded,
       NothingPlanned, HasApplied, Busy, AllKnown, history
  <1>7. OnlyKnownStatuses' /\ EditedStands' /\ DisabledIsHidden'
    BY <1>2 DEF IInv, OnlyKnownStatuses, AllKnown, EditedStands, DisabledIsHidden, history
  <1>8. LedgerTrue'
    BY <1>2, <1>4, <1>5 DEF IInv, LedgerTrue, Busy, File, Body, history
  <1>9. SourceCurrent'
    BY <1>2, <1>4, <1>5 DEF IInv, SourceCurrent, HasSource, Busy, history
  <1>10. QED
    BY <1>3, <1>6, <1>7, <1>8, <1>9 DEF IInv

LEMMA TakeLockStep ==
  ASSUME IInv, NEW c \in Cores, TakeLock(c)
  PROVE  IInv'
  <1>1. /\ pc[c] = "waiting" /\ lock = NoCore /\ lock' = c
        /\ pc' = [pc EXCEPT ![c] = "applying"] /\ unfinished' = TRUE
        /\ UNCHANGED <<catalog, ledger, build, at, starts, edits, edited, asLeft,
                       latest, first, unrecorded>>
    BY DEF TakeLock, LockFree
  <1>2. TypeOK'
    BY <1>1 DEF IInv, TypeOK
  <1>3. \A d \in Cores : ~Busy(d)
    BY <1>1, NobodyAssumption DEF IInv, OneReplay
  <1>4. at[c] = 1 /\ pc'[c] = "applying" /\ \A d \in Cores \ {c} : pc'[d] = pc[d]
    BY <1>1 DEF IInv, TypeOK
  <1>5. OneReplay'
    BY <1>1, <1>3, <1>4 DEF OneReplay, Busy
  <1>6. \A d \in Cores, i \in 1..7 : ~HasApplied(d, i)'
    <2>1. ~HasApplied(c, 1)' /\ \A i \in 1..7 : ~HasApplied(c, i)'
      BY <1>1, <1>4 DEF HasApplied
    <2>2. \A d \in Cores \ {c}, i \in 1..7 : ~HasApplied(d, i)'
      BY <1>3, <1>4 DEF HasApplied, Busy
    <2>3. QED
      BY <2>1, <2>2
  <1>7. ClosedByTheLast' /\ LegacySeeded' /\ NothingPlanned'
    BY <1>1, <1>4, <1>6, FilesFacts DEF IInv, ClosedByTheLast, LegacySeeded, NothingPlanned
  <1>8. OnlyKnownStatuses' /\ EditedStands' /\ DisabledIsHidden'
    BY <1>1 DEF IInv, OnlyKnownStatuses, EditedStands, DisabledIsHidden
  <1>9. LedgerTrue'
    BY <1>1, <1>3, <1>4 DEF IInv, LedgerTrue, Busy
  <1>10. SourceCurrent'
    BY <1>1, <1>3, <1>4 DEF SourceCurrent, Busy
  <1>11. QED
    BY <1>2, <1>5, <1>7, <1>8, <1>9, <1>10 DEF IInv

LEMMA ApplyStep ==
  ASSUME IInv, NEW c \in Cores, Apply(c)
  PROVE  IInv'
  <1> DEFINE f == File(c)
  <1>1. /\ pc[c] = "applying" /\ at[c] \in 1..7 /\ catalog' = Effect(f, catalog)
        /\ first' = [first EXCEPT ![f] = IF @ = NoBody THEN Body(c) ELSE @]
        /\ pc' = [pc EXCEPT ![c] = "recording"]
        /\ UNCHANGED <<ledger, lock, build, at, starts, edits, unfinished, edited,
                       asLeft, latest, unrecorded>>
    BY FilesFacts DEF Apply, IInv, TypeOK
  <1>2. f \in FileNames /\ Body(c) \in Bodies /\ f = Files[at[c]]
    BY <1>1, FilesFacts, BuildsAssumption DEF File, Body, IInv, TypeOK
  <1>3. /\ Busy(c) /\ unfinished /\ lock = c /\ \A d \in Cores \ {c} : ~Busy(d)
    BY <1>1, Alone DEF Busy
  <1>4. pc'[c] = "recording" /\ \A d \in Cores \ {c} : pc'[d] = pc[d]
    BY <1>1 DEF IInv, TypeOK
  <1>5. /\ catalog' \in [Modules -> Rows]
        /\ \A m \in Modules : Kept(m, catalog[m], catalog'[m])
    BY <1>1, <1>2, EffectFacts DEF IInv, TypeOK
  <1>6. TypeOK'
    <2>1. first' \in [FileNames -> Bodies \cup {NoBody}]
      BY <1>1, <1>2 DEF IInv, TypeOK
    <2>2. QED
      BY <1>1, <1>4, <1>5, <2>1, FilesFacts DEF IInv, TypeOK
  <1>7. OneReplay'
    BY <1>1, <1>3, <1>4 DEF OneReplay, Busy
  <1>8. \A d \in Cores, i \in 1..7 : HasApplied(d, i)' => d = c /\ (HasApplied(c, i) \/ i = at[c])
    BY <1>1, <1>3, <1>4 DEF HasApplied, Busy
  <1>9. ClosedByTheLast'
    <2> SUFFICES ASSUME NEW d \in Cores, HasApplied(d, 7)' PROVE AllKnown'
      BY FilesFacts DEF ClosedByTheLast
    <2>1. at[c] = 7
      BY <1>1, <1>8 DEF HasApplied
    <2>2. QED
      BY <1>1, <1>2, <2>1, EffectFacts DEF AllKnown, IInv, TypeOK
  <1>10. OnlyKnownStatuses'
    BY <1>1, <1>3 DEF OnlyKnownStatuses
  <1>11. LegacySeeded'
    <2> SUFFICES ASSUME NEW d \in Cores, HasApplied(d, 1)' \/ pc'[d] = "serving", NEW m \in Legacy
                 PROVE  catalog'[m].status # "absent"
      BY DEF LegacySeeded
    <2>1. m \in Modules
      BY DEF Modules
    <2>2. CASE catalog[m].status # "absent"
      BY <1>5, <2>1, <2>2 DEF Kept
    <2>3. CASE catalog[m].status = "absent"
      <3>1. HasApplied(d, 1)'
        BY <1>4, <2>3 DEF IInv, LegacySeeded
      <3>2. at[c] = 1
        BY <1>8, <2>3, <3>1 DEF IInv, LegacySeeded
      <3>3. QED
        BY <1>1, <1>2, <3>2, EffectFacts DEF IInv, TypeOK
    <2>4. QED
      BY <2>2, <2>3
  <1>12. NothingPlanned'
    <2> SUFFICES ASSUME NEW d \in Cores, pc'[d] = "serving", NEW m \in Modules
                 PROVE  catalog'[m].status # "planned"
      BY DEF NothingPlanned
    <2>1. pc[d] = "serving"
      BY <1>4
    <2>2. catalog[m].status # "planned" /\ (m \in Legacy => catalog[m].status # "absent")
      BY <2>1 DEF IInv, NothingPlanned, LegacySeeded
    <2>3. QED
      BY <1>5, <2>2 DEF Kept
  <1>13. EditedStands' /\ DisabledIsHidden'
    BY <1>5 DEF IInv, EditedStands, DisabledIsHidden, Kept
  <1>14. LedgerTrue'
    <2>1. first'[f] # NoBody /\ \A g \in FileNames \ {f} : first'[g] = first[g]
      BY <1>1, <1>2, BuildsAssumption DEF IInv, TypeOK
    <2>2. File(c)' = f /\ Body(c)' = Body(c)
      BY <1>1 DEF File, Body
    <2>3. \A d \in Cores : pc'[d] = "recording" => d = c
      BY <1>3, <1>4 DEF Busy
    <2>4. \A g \in FileNames \ unrecorded : ledger[g] = NoRecord => first[g] = NoBody
      BY <1>1, <1>3 DEF IInv, LedgerTrue, Busy
    <2>5. ASSUME NEW g \in FileNames \ unrecorded
          PROVE  IF ledger[g] = NoRecord
                 THEN \/ first'[g] = NoBody
                      \/ \E d \in Cores : pc'[d] = "recording" /\ File(d)' = g /\ first'[g] = Body(d)'
                 ELSE ledger[g].checksum = first'[g] /\ first'[g] # NoBody
      <3>1. CASE g = f /\ ledger[g] = NoRecord
        <4>1. first'[g] = Body(c)
          BY <1>1, <1>2, <2>4, <3>1 DEF IInv, TypeOK
        <4>2. QED
          BY <1>4, <2>2, <3>1, <4>1
      <3>2. CASE g = f /\ ledger[g] # NoRecord
        <4>1. ledger[g].checksum = first[g] /\ first[g] # NoBody
          BY <3>2 DEF IInv, LedgerTrue
        <4>2. QED
          BY <1>1, <1>2, <3>2, <4>1 DEF IInv, TypeOK
      <3>3. CASE g # f
        BY <2>1, <2>4, <3>3 DEF IInv, LedgerTrue
      <3>4. QED
        BY <3>1, <3>2, <3>3
    <2>6. QED
      BY <1>1, <2>1, <2>2, <2>3, <2>5 DEF LedgerTrue
  <1>15. SourceCurrent'
    BY <1>1, <1>3, <1>4 DEF IInv, SourceCurrent, HasSource, Busy
  <1>16. QED
    BY <1>6, <1>7, <1>9, <1>10, <1>11, <1>12, <1>13, <1>14, <1>15 DEF IInv

LEMMA RecordStep ==
  ASSUME IInv, NEW c \in Cores, Record(c)
  PROVE  IInv'
  <1> DEFINE f == File(c)
  <1>1. /\ pc[c] = "recording" /\ at[c] \in 1..7
        /\ ledger' = [ledger EXCEPT ![f] = Recorded(@, Body(c))]
        /\ pc' = [pc EXCEPT ![c] = "applying"] /\ at' = [at EXCEPT ![c] = @ + 1]
        /\ UNCHANGED <<catalog, lock, build, starts, edits, history>>
    BY FilesFacts DEF Record, IInv, TypeOK
  <1>2. f \in FileNames /\ Body(c) \in Bodies /\ f = Files[at[c]] /\ Body(c) # NoBody
    BY <1>1, FilesFacts, BuildsAssumption DEF File, Body, IInv, TypeOK
  <1>3. /\ Busy(c) /\ unfinished /\ lock = c /\ \A d \in Cores \ {c} : ~Busy(d)
    BY <1>1, Alone DEF Busy
  <1>4. /\ pc'[c] = "applying" /\ at'[c] = at[c] + 1
        /\ \A d \in Cores \ {c} : pc'[d] = pc[d] /\ at'[d] = at[d]
    BY <1>1 DEF IInv, TypeOK
  <1>5. /\ ledger'[f] # NoRecord /\ ledger'[f].source = Body(c)
        /\ ledger'[f].checksum = IF ledger[f] = NoRecord THEN Body(c) ELSE ledger[f].checksum
        /\ ledger'[f] \in [checksum : Bodies \cup {NoBody}, source : Bodies \cup {NoBody}]
        /\ \A g \in FileNames \ {f} : ledger'[g] = ledger[g]
    <2>1. ledger[f] \in [checksum : Bodies \cup {NoBody}, source : Bodies \cup {NoBody}]
      BY <1>2 DEF IInv, TypeOK
    <2>2. ledger'[f] = Recorded(ledger[f], Body(c)) /\ \A g \in FileNames \ {f} : ledger'[g] = ledger[g]
      BY <1>1, <1>2 DEF IInv, TypeOK
    <2>3. QED
      BY <1>2, <2>1, <2>2 DEF Recorded, NoRecord
  <1>6. TypeOK'
    <2>1. ledger' \in [FileNames -> [checksum : Bodies \cup {NoBody}, source : Bodies \cup {NoBody}]]
      BY <1>1, <1>5 DEF IInv, TypeOK
    <2>2. QED
      BY <1>1, <1>4, <2>1, FilesFacts DEF IInv, TypeOK, history
  <1>7. OneReplay'
    BY <1>1, <1>3, <1>4 DEF OneReplay, Busy, history
  <1>8. \A d \in Cores, i \in 1..7 : HasApplied(d, i)' => HasApplied(d, i)
    BY <1>1, <1>3, <1>4 DEF HasApplied, Busy
  <1>9. ClosedByTheLast' /\ LegacySeeded' /\ NothingPlanned'
    BY <1>1, <1>4, <1>8, FilesFacts DEF IInv, ClosedByTheLast, LegacySeeded, NothingPlanned, AllKnown
  <1>10. OnlyKnownStatuses' /\ EditedStands' /\ DisabledIsHidden'
    BY <1>1 DEF IInv, OnlyKnownStatuses, AllKnown, EditedStands, DisabledIsHidden, history
  <1>11. LedgerTrue'
    <2>1. \A d \in Cores : pc'[d] # "recording"
      BY <1>3, <1>4 DEF Busy
    <2>2. \A g \in FileNames \ unrecorded : g # f /\ ledger[g] = NoRecord => first[g] = NoBody
      BY <1>1, <1>3 DEF IInv, LedgerTrue, Busy
    <2>3. f \notin unrecorded => ledger'[f].checksum = first[f] /\ first[f] # NoBody
      <3>1. first[f] # NoBody
        BY <1>1 DEF IInv, LedgerTrue
      <3>2. f \notin unrecorded /\ ledger[f] = NoRecord => first[f] = Body(c)
        BY <1>2, <1>3, <3>1 DEF IInv, LedgerTrue, Busy
      <3>3. QED
        BY <1>2, <1>5, <3>1, <3>2 DEF IInv, LedgerTrue
    <2>4. \A g \in FileNames \ unrecorded : g # f /\ ledger[g] # NoRecord =>
            ledger[g].checksum = first[g] /\ first[g] # NoBody
      BY DEF IInv, LedgerTrue
    <2>5. QED
      BY <1>1, <1>5, <2>1, <2>2, <2>3, <2>4 DEF LedgerTrue, history
  <1>12. SourceCurrent'
    <2>1. ASSUME NEW i \in 1..7, i < at'[c] PROVE HasSource(Files[i], build[c])'
      <3>1. CASE i = at[c]
        BY <1>1, <1>2, <1>5, <3>1 DEF HasSource, Body
      <3>2. CASE i # at[c]
        <4>1. i < at[c] /\ Files[i] \in FileNames /\ Files[i] # f
          BY <1>1, <1>2, <1>4, <2>1, <3>2, FilesFacts
        <4>2. HasSource(Files[i], build[c])
          BY <1>3, <4>1, FilesFacts DEF IInv, SourceCurrent
        <4>3. QED
          BY <1>1, <1>5, <4>1, <4>2 DEF HasSource
      <3>3. QED
        BY <3>1, <3>2
    <2>2. \A d \in Cores : Busy(d)' => d = c
      BY <1>3, <1>4 DEF Busy
    <2>3. QED
      BY <1>1, <1>3, <2>1, <2>2, FilesFacts DEF SourceCurrent, history
  <1>13. QED
    BY <1>6, <1>7, <1>9, <1>10, <1>11, <1>12 DEF IInv

LEMMA FinishStep ==
  ASSUME IInv, NEW c \in Cores, Finish(c)
  PROVE  IInv'
  <1>1. /\ pc[c] = "applying" /\ at[c] = 8 /\ lock' = Released(c)
        /\ pc' = [pc EXCEPT ![c] = "serving"] /\ unfinished' = FALSE
        /\ edited' = (edited /\ asLeft = NoCatalog) /\ asLeft' = catalog /\ latest' = build[c]
        /\ UNCHANGED <<catalog, ledger, build, at, starts, edits, first, unrecorded>>
    BY FilesFacts DEF Finish, IInv, TypeOK
  <1>2. Busy(c) /\ lock = c /\ \A d \in Cores \ {c} : ~Busy(d)
    BY <1>1, Alone DEF Busy
  <1>3. pc'[c] = "serving" /\ \A d \in Cores \ {c} : pc'[d] = pc[d]
    BY <1>1 DEF IInv, TypeOK
  <1>4. lock' = NoCore
    BY <1>1, <1>2 DEF Released
  <1>5. TypeOK'
    <2>1. edited' \in BOOLEAN
      BY <1>1, Zenon DEF IInv, TypeOK
    <2>2. QED
      BY <1>1, <1>3, <1>4, <2>1 DEF IInv, TypeOK
  <1>6. \A d \in Cores : ~Busy(d)'
    BY <1>2, <1>3 DEF Busy
  <1>7. OneReplay' /\ ClosedByTheLast'
    BY <1>6 DEF OneReplay, ClosedByTheLast, HasApplied
  <1>8. HasApplied(c, 7) /\ HasApplied(c, 1)
    BY <1>1, <1>2 DEF HasApplied
  <1>9. AllKnown
    BY <1>8, FilesFacts DEF IInv, ClosedByTheLast
  <1>10. OnlyKnownStatuses'
    BY <1>1, <1>9 DEF OnlyKnownStatuses, AllKnown
  <1>11. LegacySeeded' /\ NothingPlanned'
    BY <1>1, <1>6, <1>8, <1>9 DEF IInv, LegacySeeded, NothingPlanned, HasApplied, AllKnown, ModuleStatuses
  <1>12. EditedStands' /\ DisabledIsHidden'
    BY <1>1 DEF IInv, EditedStands, DisabledIsHidden
  <1>13. LedgerTrue'
    BY <1>1, <1>2, <1>3, <1>6 DEF IInv, LedgerTrue, Busy
  <1>14. SourceCurrent'
    <2>1. \A i \in 1..7 : HasSource(Files[i], build[c])
      BY <1>1, <1>2, FilesFacts DEF IInv, SourceCurrent
    <2>2. \A f \in FileNames : HasSource(f, build[c])
      BY <2>1, FilesFacts
    <2>3. QED
      BY <1>1, <1>6, <2>2 DEF SourceCurrent, HasSource
  <1>15. QED
    BY <1>5, <1>7, <1>10, <1>11, <1>12, <1>13, <1>14 DEF IInv

LEMMA StopStep ==
  ASSUME IInv, NEW c \in Cores, Stop(c)
  PROVE  IInv'
  <1>1. /\ lock' = Released(c) /\ pc' = [pc EXCEPT ![c] = "down"]
        /\ unrecorded' = unrecorded \cup
             {f \in FileNames : pc[c] = "recording" /\ f = File(c) /\ ledger[f] = NoRecord}
        /\ build' = [build EXCEPT ![c] = SomeBuild] /\ at' = [at EXCEPT ![c] = 1]
        /\ UNCHANGED <<catalog, ledger, starts, edits, unfinished, edited, asLeft, latest, first>>
    BY DEF Stop
  <1>2. pc'[c] = "down" /\ \A d \in Cores \ {c} :
          pc'[d] = pc[d] /\ at'[d] = at[d] /\ build'[d] = build[d]
    BY <1>1 DEF IInv, TypeOK
  <1>3. TypeOK'
    <2>1. SomeBuild \in Builds
      BY BuildsAssumption DEF SomeBuild
    <2>2. build' \in [Cores -> Builds] /\ at' \in [Cores -> 1..Len(Files) + 1]
      BY <1>1, <2>1, FilesFacts DEF IInv, TypeOK
    <2>3. QED
      BY <1>1, <1>2, <2>2 DEF IInv, TypeOK, Released
  <1>4. \A d \in Cores : Busy(d)' => Busy(d) /\ d # c
    BY <1>2 DEF Busy
  <1>5. OneReplay'
    BY <1>1, <1>4 DEF IInv, OneReplay, Released
  <1>6. \A d \in Cores, i \in 1..7 : HasApplied(d, i)' => HasApplied(d, i)
    BY <1>1, <1>2, <1>4 DEF HasApplied
  <1>7. ClosedByTheLast' /\ LegacySeeded' /\ NothingPlanned'
    BY <1>1, <1>2, <1>6, FilesFacts DEF IInv, ClosedByTheLast, LegacySeeded, NothingPlanned, AllKnown
  <1>8. OnlyKnownStatuses' /\ EditedStands' /\ DisabledIsHidden'
    BY <1>1 DEF IInv, OnlyKnownStatuses, AllKnown, EditedStands, DisabledIsHidden
  <1>9. LedgerTrue'
    <2>1. \A d \in Cores : pc'[d] = "recording" => pc[d] = "recording" /\ first[File(d)] # NoBody
      BY <1>2 DEF IInv, LedgerTrue
    <2>2. ASSUME NEW f \in FileNames \ unrecorded'
          PROVE  IF ledger[f] = NoRecord
                 THEN \/ first[f] = NoBody
                      \/ \E d \in Cores : pc'[d] = "recording" /\ File(d) = f /\ first[f] = Body(d)
                 ELSE ledger[f].checksum = first[f] /\ first[f] # NoBody
      <3>1. f \in FileNames \ unrecorded
        BY <1>1
      <3>2. CASE ledger[f] # NoRecord
        BY <3>1, <3>2 DEF IInv, LedgerTrue
      <3>3. CASE ledger[f] = NoRecord
        <4>1. ~(pc[c] = "recording" /\ File(c) = f)
          BY <1>1, <3>3
        <4>2. \/ first[f] = NoBody
              \/ \E d \in Cores : pc[d] = "recording" /\ File(d) = f /\ first[f] = Body(d)
          BY <3>1, <3>3 DEF IInv, LedgerTrue
        <4>3. QED
          BY <1>2, <3>3, <4>1, <4>2
      <3>4. QED
        BY <3>2, <3>3
    <2>3. \A d \in Cores : pc'[d] = "recording" => File(d)' = File(d) /\ Body(d)' = Body(d)
      BY <1>2 DEF File, Body
    <2>4. QED
      BY <1>1, <2>1, <2>2, <2>3 DEF LedgerTrue
  <1>10. SourceCurrent'
    BY <1>1, <1>2, <1>4 DEF IInv, SourceCurrent, HasSource
  <1>11. QED
    BY <1>3, <1>5, <1>7, <1>8, <1>9, <1>10 DEF IInv

(* An administrator's change of a row that keeps the row consistent.       *)
LEMMA EditStep ==
  ASSUME IInv, NEW m \in Modules, NEW row \in Rows, Edit(m, row),
         row.status \in ModuleStatuses \cup {catalog[m].status},
         row.status # "absent",
         row.enabled <=> row.status # "disabled"
  PROVE  IInv'
  <1>1. /\ catalog' = [catalog EXCEPT ![m] = row] /\ edits' = edits + 1 /\ edited' = TRUE
        /\ asLeft' = IF unfinished THEN NoCatalog ELSE catalog'
        /\ UNCHANGED <<ledger, lock, process, starts, unfinished, latest, first, unrecorded>>
    BY DEF Edit
  <1>2. PICK s \in Cores : pc[s] = "serving"
    BY DEF Edit
  <1>3. catalog'[m] = row /\ \A n \in Modules \ {m} : catalog'[n] = catalog[n]
    BY <1>1 DEF IInv, TypeOK
  <1>4. row.status # "planned"
    BY <1>2 DEF IInv, NothingPlanned, ModuleStatuses
  <1>5. TypeOK'
    <2>1. catalog' \in [Modules -> Rows] /\ asLeft' \in [Modules -> Rows] \cup {NoCatalog}
      BY <1>1 DEF IInv, TypeOK
    <2>2. QED
      BY <1>1, <2>1 DEF IInv, TypeOK, process
  <1>6. OneReplay' /\ \A d \in Cores, i \in 1..7 : HasApplied(d, i)' <=> HasApplied(d, i)
    BY <1>1 DEF IInv, OneReplay, HasApplied, Busy, process
  <1>7. AllKnown => AllKnown'
    BY <1>3 DEF AllKnown
  <1>8. ClosedByTheLast' /\ OnlyKnownStatuses'
    BY <1>1, <1>6, <1>7, FilesFacts DEF IInv, ClosedByTheLast, OnlyKnownStatuses
  <1>9. LegacySeeded'
    <2>1. \A n \in Legacy : n \in Modules
      BY DEF Modules
    <2>2. \A n \in Legacy : catalog[n].status # "absent"
      BY <1>2 DEF IInv, LegacySeeded
    <2>3. QED
      BY <1>3, <2>1, <2>2 DEF LegacySeeded
  <1>10. NothingPlanned'
    BY <1>1, <1>2, <1>3, <1>4 DEF IInv, NothingPlanned, process
  <1>11. EditedStands' /\ DisabledIsHidden'
    BY <1>3, <1>4 DEF IInv, EditedStands, DisabledIsHidden
  <1>12. LedgerTrue' /\ SourceCurrent'
    BY <1>1 DEF IInv, LedgerTrue, SourceCurrent, HasSource, Busy, File, Body, process
  <1>13. QED
    BY <1>5, <1>6, <1>8, <1>9, <1>10, <1>11, <1>12 DEF IInv

LEMMA CreateStep ==
  ASSUME IInv, NEW m \in Modules, NEW roles \in SUBSET Roles, Create(m, roles)
  PROVE  IInv'
  <1> DEFINE row == [status |-> "disabled", enabled |-> FALSE, updated_by |-> TRUE, roles |-> roles]
  <1>1. row \in Rows /\ row.status = "disabled" /\ row.enabled = FALSE
    BY DEF Rows, Statuses, ModuleStatuses
  <1>2. Edit(m, row)
    BY DEF Create
  <1>3. QED
    BY <1>1, <1>2, EditStep DEF ModuleStatuses

LEMMA UpdateStep ==
  ASSUME IInv, NEW m \in Modules, NEW status \in Statuses, NEW roles \in SUBSET Roles,
         Update(m, status, roles)
  PROVE  IInv'
  <1> DEFINE row == Patched(catalog[m], status, roles)
  <1>1. catalog[m] \in Rows /\ catalog[m].status # "absent"
        /\ status \in ModuleStatuses \cup {catalog[m].status}
    BY DEF Update, Exists, IInv, TypeOK
  <1>2. row \in Rows /\ row.status = status /\ (row.enabled <=> status # "disabled")
    BY <1>1 DEF Patched, Rows
  <1>3. status # "absent"
    BY <1>1 DEF ModuleStatuses
  <1>4. Edit(m, row)
    BY DEF Update
  <1> HIDE DEF row
  <1>5. QED
    BY <1>1, <1>2, <1>3, <1>4, EditStep

LEMMA StepIInv == IInv /\ [Next]_vars => IInv'
  <1> SUFFICES ASSUME IInv, [Next]_vars PROVE IInv'
    OBVIOUS
  <1>1. ASSUME NEW c \in Cores, Start(c) \/ Migrate(c) \/ Stop(c) PROVE IInv'
    BY <1>1, StartStep, TakeLockStep, ApplyStep, RecordStep, FinishStep, StopStep DEF Migrate
  <1>2. CASE Administrate
    BY <1>2, BoundsAssumption, CreateStep, UpdateStep DEF Administrate
  <1>3. CASE UNCHANGED vars
    BY <1>3 DEF vars, process, history, IInv, TypeOK, OneReplay, ClosedByTheLast,
       OnlyKnownStatuses, AllKnown, LegacySeeded, NothingPlanned, EditedStands,
       DisabledIsHidden, LedgerTrue, SourceCurrent, HasSource, HasApplied, Busy, File, Body
  <1>4. QED
    BY <1>1, <1>2, <1>3 DEF Next

-----------------------------------------------------------------------------
(* What holds in every reachable state.                                    *)

(* IInv: whoever replays holds the lock alone, the last file has closed    *)
(* the vocabulary for whoever completes, and the ledger follows.           *)
THEOREM Invariance == Spec => []IInv
  BY InitIInv, StepIInv, PTL DEF Spec

(* Type correctness of the catalogue, the ledger and the Cores.            *)
THEOREM TypeCorrect == Spec => []TypeOK
  <1>1. IInv => TypeOK
    BY DEF IInv
  <1>2. QED
    BY <1>1, Invariance, PTL

(* withMigrationLock: no two Cores are between their first file and their  *)
(* last record at once.                                                    *)
THEOREM ReplaysExclude ==
  Spec => [](\A c, d \in Cores : Busy(c) /\ Busy(d) => c = d)
  <1>1. IInv => \A c, d \in Cores : Busy(c) /\ Busy(d) => c = d
    BY DEF IInv, OneReplay
  <1>2. QED
    BY <1>1, Invariance, PTL

(* A Core begins to serve a catalogue of known statuses, however many      *)
(* starts died in the middle and whatever administrators did meanwhile.    *)
THEOREM VocabularyIsClosed == Spec => []OnlyKnownStatuses
  <1>1. IInv => OnlyKnownStatuses
    BY DEF IInv
  <1>2. QED
    BY <1>1, Invariance, PTL

(* In the middle of any replay too, what an administrator disabled is not  *)
(* in the launcher and what he did not is, but for the modules that        *)
(* 013_real_modules.sql retires, which every start hides.                  *)
THEOREM LauncherAgrees == Spec => []DisabledIsHidden
  <1>1. IInv => DisabledIsHidden
    BY DEF IInv
  <1>2. QED
    BY <1>1, Invariance, PTL

(* The ledger reports drift, and nothing but drift, for every file whose   *)
(* first application was recorded.                                         *)
THEOREM LedgerReportsDrift == Spec => []DriftReported
  <1>1. IInv => DriftReported
    <2> SUFFICES ASSUME IInv, ~unfinished, NEW f \in FileNames \ unrecorded
                 PROVE  f \in Drifted <=> BodyOf[latest][f] # first[f]
      BY DEF DriftReported
    <2>1. ledger[f] # NoRecord /\ ledger[f].source = BodyOf[latest][f]
      BY DEF IInv, SourceCurrent, HasSource
    <2>2. ledger[f].checksum = first[f]
      BY <2>1 DEF IInv, LedgerTrue
    <2>3. QED
      BY <2>1, <2>2 DEF Drifted
  <1>2. QED
    BY <1>1, Invariance, PTL

-----------------------------------------------------------------------------
(* What replays add and what they repeat.                                  *)

LEMMA FilesInOrder ==
  /\ Files[1] = "001_init" /\ Files[2] = "003_rbac_scopes"
  /\ Files[3] = "013_real_modules" /\ Files[4] = "015_real_module_rbac"
  /\ Files[5] = "016_nextcloud_module" /\ Files[6] = "017_nextcloud_rbac"
  /\ Files[7] = "018_module_administration"
  BY DEF Files

LEMMA EffectInOrder ==
  ASSUME NEW k
  PROVE  /\ Effect(Files[1], k) = Seeded(k)
         /\ Effect(Files[2], k) = Granted(Policy, k)
         /\ Effect(Files[3], k) = Hidden(Retired, Registered(Derived, k))
         /\ Effect(Files[4], k) = Granted([m \in Derived |-> k[SourceOf[m]].roles], k)
         /\ Effect(Files[5], k) = Registered(Direct, k)
         /\ Effect(Files[6], k) = Granted([m \in Direct |-> {Owner}], k)
         /\ Effect(Files[7], k) = Normalised(k)
  BY FilesInOrder DEF Effect

Live(row) == row.status \in {"ready", "active"} /\ row.enabled

(* What each file adds to a row, and that none takes it away again.        *)
LEMMA EffectAdds ==
  ASSUME NEW k \in [Modules -> Rows], NEW i \in 1..7, NEW m \in Modules
  PROVE  /\ k[m].roles \subseteq Effect(Files[i], k)[m].roles
         /\ m \notin Retired /\ Live(k[m]) => Live(Effect(Files[i], k)[m])
         /\ i # 2 /\ m \in Legacy => Effect(Files[i], k)[m].roles = k[m].roles
         /\ i = 2 /\ m \in Legacy => Policy[m] \subseteq Effect(Files[i], k)[m].roles
         /\ i = 3 /\ m \in Derived => Live(Effect(Files[i], k)[m])
         /\ m \in Retired /\ (i = 3 \/ ~k[m].enabled) => ~Effect(Files[i], k)[m].enabled
         /\ i = 4 /\ m \in Derived => k[SourceOf[m]].roles \subseteq Effect(Files[i], k)[m].roles
         /\ i = 5 /\ m \in Direct => Live(Effect(Files[i], k)[m])
         /\ i = 6 /\ m \in Direct => Owner \in Effect(Files[i], k)[m].roles
  <1> DEFINE new == Effect(Files[i], k)[m]
  <1>1. k[m] \in Rows
    OBVIOUS
  <1>2. /\ m \in Legacy => m \notin Derived /\ m \notin Direct
        /\ m \in Retired => m \notin Legacy /\ m \notin Derived /\ m \notin Direct
    BY ModulesAssumption
  <1>3. CASE i = 1
    <2>1. new = Seeded(k)[m]
      BY <1>3, EffectInOrder
    <2>2. new.roles = k[m].roles /\ (Live(k[m]) \/ m \notin Legacy => new = k[m])
      BY <1>1, <2>1 DEF Seeded, Rows, Live
    <2>3. QED
      BY <1>2, <1>3, <2>2
  <1>4. CASE i = 2
    <2>1. new = Granted(Policy, k)[m] /\ DOMAIN Policy = Legacy
      BY <1>4, EffectInOrder, RolesAssumption
    <2>2. new = IF m \in Legacy THEN [k[m] EXCEPT !.roles = @ \cup Policy[m]] ELSE k[m]
      BY <2>1 DEF Granted
    <2>3. /\ new.roles = IF m \in Legacy THEN k[m].roles \cup Policy[m] ELSE k[m].roles
          /\ new.enabled = k[m].enabled /\ (Live(k[m]) => Live(new))
      BY <1>1, <2>2 DEF Rows, Live
    <2>4. QED
      BY <1>4, <2>3
  <1>5. CASE i = 3 \/ i = 5
    <2> DEFINE S == IF i = 3 THEN Derived ELSE Direct
               row == Registered(S, k)[m]
    <2>1. new = IF i = 3 /\ m \in Retired THEN [row EXCEPT !.enabled = FALSE] ELSE row
      <3>1. Hidden(Retired, Registered(Derived, k))[m] =
              IF m \in Retired THEN [Registered(Derived, k)[m] EXCEPT !.enabled = FALSE]
              ELSE Registered(Derived, k)[m]
        BY DEF Hidden
      <3>2. QED
        BY <1>5, <3>1, EffectInOrder
    <2>2. row = IF m \in S THEN [k[m] EXCEPT !.status = "ready", !.enabled = TRUE] ELSE k[m]
      BY DEF Registered
    <2>3. row \in Rows /\ row.roles = k[m].roles /\ (Live(k[m]) \/ m \in S => Live(row))
      BY <1>1, <2>2 DEF Rows, Live, Statuses
    <2> HIDE DEF row
    <2>4. CASE m \notin Retired
      BY <1>5, <2>1, <2>3, <2>4
    <2>5. CASE m \in Retired
      <3>1. row = k[m]
        BY <1>2, <2>2, <2>5
      <3>2. CASE i = 3
        <4>1. new.roles = k[m].roles /\ ~new.enabled
          BY <1>1, <2>1, <2>5, <3>1, <3>2 DEF Rows
        <4>2. QED
          BY <1>2, <2>5, <3>2, <4>1
      <3>3. CASE i = 5
        BY <1>2, <2>1, <2>5, <3>1, <3>3
      <3>4. QED
        BY <1>5, <3>2, <3>3
    <2>6. QED
      BY <2>4, <2>5
  <1>6. CASE i = 4
    <2>1. new = Granted([n \in Derived |-> k[SourceOf[n]].roles], k)[m]
      BY <1>6, EffectInOrder
    <2>2. new = IF m \in Derived THEN [k[m] EXCEPT !.roles = @ \cup k[SourceOf[m]].roles] ELSE k[m]
      BY <2>1 DEF Granted
    <2>3. /\ new.roles = IF m \in Derived THEN k[m].roles \cup k[SourceOf[m]].roles ELSE k[m].roles
          /\ new.enabled = k[m].enabled /\ (Live(k[m]) => Live(new))
      BY <1>1, <2>2 DEF Rows, Live
    <2>4. QED
      BY <1>2, <1>6, <2>3
  <1>7. CASE i = 6
    <2>1. new = Granted([n \in Direct |-> {Owner}], k)[m]
      BY <1>7, EffectInOrder
    <2>2. new = IF m \in Direct THEN [k[m] EXCEPT !.roles = @ \cup {Owner}] ELSE k[m]
      BY <2>1 DEF Granted
    <2>3. /\ new.roles = IF m \in Direct THEN k[m].roles \cup {Owner} ELSE k[m].roles
          /\ new.enabled = k[m].enabled /\ (Live(k[m]) => Live(new))
      BY <1>1, <2>2 DEF Rows, Live
    <2>4. QED
      BY <1>2, <1>7, <2>3
  <1>8. CASE i = 7
    <2>1. new = Normalised(k)[m]
      BY <1>8, EffectInOrder
    <2>2. \/ new = k[m]
          \/ k[m].status = "ready" /\ new = [k[m] EXCEPT !.status = "active"]
          \/ ~Live(k[m]) /\ new = [k[m] EXCEPT !.status = "disabled"]
      BY <2>1 DEF Normalised, Live, ModuleStatuses
    <2>3. new.roles = k[m].roles /\ new.enabled = k[m].enabled /\ (Live(k[m]) => Live(new))
      BY <1>1, <2>2 DEF Rows, Live
    <2>4. QED
      BY <1>8, <2>3
  <1>9. QED
    BY <1>3, <1>4, <1>5, <1>6, <1>7, <1>8

(* A replay of a settled catalogue only moves what is registered between   *)
(* ready and active, and the last file moves it back.                      *)
LEMMA EffectRepeats ==
  ASSUME NEW k \in [Modules -> Rows], NEW now \in [Modules -> Rows], NEW i \in 1..7,
         Settled(k), InReplayOf(k, now)
  PROVE  InReplayOf(k, Effect(Files[i], now)) /\ (i = 7 => Effect(Files[i], now) = k)
  <1> DEFINE Ready(m) == [k[m] EXCEPT !.status = "ready"]
             Kin(m) == m \in Derived \cup Direct
  <1>1. \A m \in Modules : now[m] = k[m] \/ (Kin(m) /\ now[m] = Ready(m))
    BY DEF InReplayOf
  <1>2. \A m \in Modules : k[m] \in Rows /\ now[m].roles = k[m].roles /\ now[m].enabled = k[m].enabled
    BY <1>1 DEF Rows
  <1>3. Legacy \cup Derived \cup Direct \subseteq Modules /\ \A m \in Derived : SourceOf[m] \in Modules
    BY ModulesAssumption DEF Modules
  <1>4. ASSUME NEW g, DOMAIN g \subseteq Modules, \A m \in DOMAIN g : g[m] \subseteq k[m].roles
        PROVE  InReplayOf(k, Granted(g, now))
    <2> SUFFICES ASSUME NEW m \in Modules PROVE Granted(g, now)[m] = now[m]
      BY <1>1 DEF InReplayOf
    <2>1. m \in DOMAIN g => now[m].roles \cup g[m] = now[m].roles
      BY <1>2, <1>4
    <2>2. now[m] \in Rows
      OBVIOUS
    <2>3. QED
      BY <2>1, <2>2 DEF Granted, Rows
  <1>5. ASSUME NEW S \in SUBSET (Derived \cup Direct)
        PROVE  InReplayOf(k, Registered(S, now))
    <2> SUFFICES ASSUME NEW m \in Modules
                 PROVE  \/ Registered(S, now)[m] = k[m]
                        \/ Kin(m) /\ Registered(S, now)[m] = Ready(m)
      BY DEF InReplayOf
    <2>1. CASE m \in S
      <3>1. Registered(S, now)[m] = [now[m] EXCEPT !.status = "ready", !.enabled = TRUE]
        BY <2>1 DEF Registered
      <3>2. k[m].enabled = TRUE
        BY <1>2, <2>1 DEF Settled, Rows
      <3>3. k[m] \in Rows /\ (now[m] = k[m] \/ now[m] = Ready(m))
        BY <1>1
      <3>4. [now[m] EXCEPT !.status = "ready", !.enabled = TRUE] = Ready(m)
        BY <3>2, <3>3 DEF Rows
      <3>5. QED
        BY <2>1, <3>1, <3>4
    <2>2. CASE m \notin S
      BY <1>1, <2>2 DEF Registered
    <2>3. QED
      BY <2>1, <2>2
  <1>6. Normalised(now) = k
    <2>1. ASSUME NEW m \in Modules PROVE Normalised(now)[m] = k[m]
      <3>1. k[m] \in Rows /\ k[m].status \in ModuleStatuses \cup {"absent"}
        BY DEF Settled
      <3>2. CASE now[m] = k[m]
        BY <3>1, <3>2 DEF Normalised, ModuleStatuses
      <3>3. CASE Kin(m) /\ now[m] = Ready(m)
        <4>1. k[m].status = "active"
          BY <3>3 DEF Settled
        <4>2. now[m].status = "ready" /\ [now[m] EXCEPT !.status = "active"] = k[m]
          BY <3>1, <3>3, <4>1 DEF Rows
        <4>3. QED
          BY <4>2 DEF Normalised
      <3>4. QED
        BY <1>1, <3>2, <3>3
    <2>2. Normalised(now) = [m \in Modules |-> Normalised(now)[m]]
      BY DEF Normalised
    <2>3. QED
      BY <2>1, <2>2
  <1>7. InReplayOf(k, Seeded(now))
    <2> SUFFICES ASSUME NEW m \in Modules PROVE Seeded(now)[m] = now[m]
      BY <1>1 DEF InReplayOf
    <2>1. m \in Legacy => now[m].status # "absent"
      BY <1>1, <1>2 DEF Settled, Rows
    <2>2. QED
      BY <2>1 DEF Seeded
  <1>8. CASE i = 1
    <2>1. Effect(Files[i], now) = Seeded(now)
      BY <1>8, EffectInOrder
    <2>2. QED
      BY <1>7, <1>8, <2>1
  <1>9. CASE i = 2
    <2>1. Effect(Files[i], now) = Granted(Policy, now)
      BY <1>9, EffectInOrder
    <2>2. DOMAIN Policy = Legacy /\ \A m \in Legacy : Policy[m] \subseteq k[m].roles
      BY RolesAssumption DEF Settled
    <2>3. QED
      BY <1>3, <1>4, <1>9, <2>1, <2>2
  <1>10. CASE i = 3
    <2> DEFINE new == Registered(Derived, now)
    <2>1. Effect(Files[i], now) = Hidden(Retired, new) /\ InReplayOf(k, new)
      BY <1>5, <1>10, EffectInOrder
    <2>2. ASSUME NEW m \in Modules PROVE Hidden(Retired, new)[m] = new[m]
      <3>1. CASE m \in Retired
        <4>1. new[m] = k[m] /\ k[m] \in Rows /\ k[m].enabled = FALSE
          BY <1>1, <1>2, <3>1, ModulesAssumption DEF Settled, Registered, Rows
        <4>2. QED
          BY <3>1, <4>1 DEF Hidden, Rows
      <3>2. CASE m \notin Retired
        BY <3>2 DEF Hidden
      <3>3. QED
        BY <3>1, <3>2
    <2> HIDE DEF new
    <2>3. InReplayOf(k, Hidden(Retired, new))
      BY <2>1, <2>2 DEF InReplayOf
    <2>4. QED
      BY <1>10, <2>1, <2>3
  <1>11. CASE i = 5
    <2>1. Effect(Files[i], now) = Registered(Direct, now)
      BY <1>11, EffectInOrder
    <2>2. QED
      BY <1>5, <1>11, <2>1
  <1>12. CASE i = 4
    <2> DEFINE g == [m \in Derived |-> now[SourceOf[m]].roles]
    <2>1. Effect(Files[i], now) = Granted(g, now)
      BY <1>12, EffectInOrder
    <2>2. DOMAIN g = Derived /\ \A m \in Derived : g[m] \subseteq k[m].roles
      BY <1>2, <1>3 DEF Settled
    <2> HIDE DEF g
    <2>3. QED
      BY <1>3, <1>4, <1>12, <2>1, <2>2
  <1>13. CASE i = 6
    <2> DEFINE g == [m \in Direct |-> {Owner}]
    <2>1. Effect(Files[i], now) = Granted(g, now)
      BY <1>13, EffectInOrder
    <2>2. DOMAIN g = Direct /\ \A m \in Direct : g[m] \subseteq k[m].roles
      BY DEF Settled
    <2> HIDE DEF g
    <2>3. QED
      BY <1>3, <1>4, <1>13, <2>1, <2>2
  <1>14. CASE i = 7
    <2>1. Effect(Files[i], now) = k
      BY <1>6, <1>14, EffectInOrder
    <2>2. InReplayOf(k, k)
      BY DEF InReplayOf
    <2>3. QED
      BY <2>1, <2>2
  <1>15. QED
    BY <1>8, <1>9, <1>10, <1>12, <1>13, <1>14, <1>11

LEMMA InitRestart == Init => RestartInv
  BY DEF Init, RestartInv, AddedSoFar, RestartSettled, HasApplied, Busy

(* Only a file that is applied adds to what a replay has applied.          *)
LEMMA AppliedNext ==
  ASSUME IInv, NEW c \in Cores, Start(c) \/ TakeLock(c) \/ Record(c) \/ Stop(c)
  PROVE  \A d \in Cores, i \in 1..7 : HasApplied(d, i)' => HasApplied(d, i)
  <1>1. \A d \in Cores \ {c} : pc'[d] = pc[d] /\ at'[d] = at[d]
    BY DEF IInv, TypeOK, Start, TakeLock, Record, Stop
  <1>2. \A d \in Cores \ {c}, i \in 1..7 : HasApplied(d, i)' => HasApplied(d, i)
    BY <1>1 DEF HasApplied, Busy
  <1>3. \A i \in 1..7 : HasApplied(c, i)' => HasApplied(c, i)
    <2>1. CASE Start(c) \/ Stop(c)
      <3>1. pc'[c] \in {"waiting", "down"}
        BY <2>1 DEF IInv, TypeOK, Start, Stop
      <3>2. QED
        BY <3>1 DEF HasApplied, Busy
    <2>2. CASE TakeLock(c)
      <3>1. pc'[c] = "applying" /\ at'[c] = 1
        BY <2>2 DEF IInv, TypeOK, TakeLock
      <3>2. QED
        BY <3>1 DEF HasApplied
    <2>3. CASE Record(c)
      <3>1. pc[c] = "recording" /\ pc'[c] = "applying" /\ at[c] \in 1..8 /\ at'[c] = at[c] + 1
        BY <2>3, FilesFacts DEF IInv, TypeOK, Record
      <3>2. QED
        BY <3>1 DEF HasApplied, Busy
    <2>4. QED
      BY <2>1, <2>2, <2>3
  <1>4. QED
    BY <1>2, <1>3

LEMMA RestartKept ==
  ASSUME RestartInv, UNCHANGED <<catalog, edited, asLeft>>, unfinished => unfinished',
         \A d \in Cores, i \in 1..7 : HasApplied(d, i)' => HasApplied(d, i)
  PROVE  RestartInv'
  <1>1. AddedSoFar'
    BY DEF RestartInv, AddedSoFar, Undisturbed
  <1>2. RestartSettled'
    BY FilesFacts DEF RestartInv, RestartSettled
  <1>3. QED
    BY <1>1, <1>2 DEF RestartInv

LEMMA ApplyRestart ==
  ASSUME IInv, RestartInv, NEW c \in Cores, Apply(c)
  PROVE  RestartInv'
  <1> DEFINE n == at[c]
             new == Effect(Files[n], catalog)
  <1>1. /\ n \in 1..7 /\ pc[c] = "applying" /\ catalog' = new
        /\ pc' = [pc EXCEPT ![c] = "recording"]
        /\ UNCHANGED <<at, unfinished, edited, asLeft>>
    BY FilesFacts DEF Apply, File, IInv, TypeOK
  <1>2. unfinished /\ \A d \in Cores \ {c} : ~Busy(d)
    BY <1>1, Alone DEF Busy
  <1>3. catalog \in [Modules -> Rows]
    BY DEF IInv, TypeOK
  <1>4. pc'[c] = "recording" /\ \A d \in Cores \ {c} : pc'[d] = pc[d]
    BY <1>1 DEF IInv, TypeOK
  <1>5. ASSUME NEW d \in Cores, NEW i \in 1..7, HasApplied(d, i)'
        PROVE  d = c /\ (i = n \/ (i < n /\ HasApplied(c, i)))
    BY <1>1, <1>2, <1>4, <1>5 DEF HasApplied, Busy
  <1>6. /\ Legacy \cup Derived \cup Direct \cup Retired \subseteq Modules
        /\ \A m \in Derived : SourceOf[m] \in Legacy
        /\ \A m \in Derived \cup Direct : m \notin Retired
    BY ModulesAssumption DEF Modules
  <1> HIDE DEF n
  <1>7. AddedSoFar'
    <2>1. \A m \in Modules :
            /\ catalog[m].roles \subseteq catalog'[m].roles
            /\ m \notin Retired /\ Live(catalog[m]) => Live(catalog'[m])
            /\ m \in Retired /\ (n = 3 \/ ~catalog[m].enabled) => ~catalog'[m].enabled
            /\ n # 2 /\ m \in Legacy => catalog'[m].roles = catalog[m].roles
            /\ n = 2 /\ m \in Legacy => Policy[m] \subseteq catalog'[m].roles
            /\ n = 3 /\ m \in Derived => Live(catalog'[m])
            /\ n = 4 /\ m \in Derived => catalog[SourceOf[m]].roles \subseteq catalog'[m].roles
            /\ n = 5 /\ m \in Direct => Live(catalog'[m])
            /\ n = 6 /\ m \in Direct => Owner \in catalog'[m].roles
      BY <1>1, <1>3, EffectAdds
    <2>2. SUFFICES ASSUME Undisturbed, NEW d \in Cores
          PROVE  /\ HasApplied(d, 2)' => \A m \in Legacy : Policy[m] \subseteq catalog'[m].roles
                 /\ HasApplied(d, 3)' => \A m \in Derived : Live(catalog'[m])
                 /\ HasApplied(d, 3)' => \A m \in Retired : ~catalog'[m].enabled
                 /\ HasApplied(d, 4)' =>
                      \A m \in Derived : catalog'[SourceOf[m]].roles \subseteq catalog'[m].roles
                 /\ HasApplied(d, 5)' => \A m \in Direct : Live(catalog'[m])
                 /\ HasApplied(d, 6)' => \A m \in Direct : Owner \in catalog'[m].roles
      BY <1>1 DEF AddedSoFar, Undisturbed, Live
    <2>3. /\ HasApplied(c, 2) => \A m \in Legacy : Policy[m] \subseteq catalog[m].roles
          /\ HasApplied(c, 3) => \A m \in Derived : Live(catalog[m])
          /\ HasApplied(c, 3) => \A m \in Retired : ~catalog[m].enabled
          /\ HasApplied(c, 4) => \A m \in Derived : catalog[SourceOf[m]].roles \subseteq catalog[m].roles
          /\ HasApplied(c, 5) => \A m \in Direct : Live(catalog[m])
          /\ HasApplied(c, 6) => \A m \in Direct : Owner \in catalog[m].roles
      BY <2>2 DEF RestartInv, AddedSoFar, Live
    <2> HIDE DEF new
    <2>4. HasApplied(d, 2)' => \A m \in Legacy : Policy[m] \subseteq catalog'[m].roles
      BY <1>5, <1>6, <2>1, <2>3
    <2>5. HasApplied(d, 3)' => \A m \in Derived : Live(catalog'[m])
      BY <1>5, <1>6, <2>1, <2>3
    <2>6. HasApplied(d, 4)' =>
            \A m \in Derived : catalog'[SourceOf[m]].roles \subseteq catalog'[m].roles
      <3> SUFFICES ASSUME HasApplied(d, 4)', NEW m \in Derived
                   PROVE  catalog'[SourceOf[m]].roles \subseteq catalog'[m].roles
        OBVIOUS
      <3>1. n = 4 \/ (4 < n /\ HasApplied(c, 4))
        BY <1>5
      <3>2. catalog'[SourceOf[m]].roles = catalog[SourceOf[m]].roles
        BY <1>1, <1>6, <2>1, <3>1
      <3>3. QED
        BY <1>6, <2>1, <2>3, <3>1, <3>2
    <2>7. HasApplied(d, 5)' => \A m \in Direct : Live(catalog'[m])
      BY <1>5, <1>6, <2>1, <2>3
    <2>8. HasApplied(d, 6)' => \A m \in Direct : Owner \in catalog'[m].roles
      BY <1>5, <1>6, <2>1, <2>3
    <2>9. HasApplied(d, 3)' => \A m \in Retired : ~catalog'[m].enabled
      BY <1>5, <1>6, <2>1, <2>3
    <2>10. QED
      BY <2>4, <2>5, <2>6, <2>7, <2>8, <2>9
  <1>8. RestartSettled'
    <2> SUFFICES ASSUME ~edited, asLeft # NoCatalog
                 PROVE  /\ Settled(asLeft) /\ InReplayOf(asLeft, catalog')
                        /\ ~unfinished' \/ (\E d \in Cores : HasApplied(d, Len(Files))')
                             => catalog' = asLeft
      BY <1>1 DEF RestartSettled, Settled
    <2>1. Settled(asLeft) /\ InReplayOf(asLeft, catalog) /\ asLeft \in [Modules -> Rows]
      BY DEF RestartInv, RestartSettled, IInv, TypeOK
    <2>2. InReplayOf(asLeft, new) /\ (n = 7 => new = asLeft)
      BY <1>1, <1>3, <2>1, EffectRepeats
    <2>3. \A d \in Cores : HasApplied(d, 7)' => n = 7
      BY <1>1, <1>5
    <2>4. QED
      BY <1>1, <1>2, <2>1, <2>2, <2>3, FilesFacts
  <1>9. QED
    BY <1>7, <1>8 DEF RestartInv

LEMMA FinishSettles ==
  ASSUME IInv, RestartInv, NEW c \in Cores, Finish(c)
  PROVE  /\ RestartInv'
         /\ ~edited /\ asLeft # NoCatalog => catalog' = asLeft
  <1>1. /\ pc[c] = "applying" /\ at[c] = 8 /\ pc' = [pc EXCEPT ![c] = "serving"]
        /\ unfinished' = FALSE /\ edited' = (edited /\ asLeft = NoCatalog)
        /\ asLeft' = catalog /\ catalog' = catalog
    BY FilesFacts DEF Finish, IInv, TypeOK
  <1>2. \A d \in Cores : ~Busy(d)'
    <2>1. \A d \in Cores \ {c} : ~Busy(d)
      BY <1>1, Alone DEF Busy
    <2>2. pc'[c] = "serving" /\ \A d \in Cores \ {c} : pc'[d] = pc[d]
      BY <1>1 DEF IInv, TypeOK
    <2>3. QED
      BY <2>1, <2>2 DEF Busy
  <1>3. \A i \in 1..7 : HasApplied(c, i)
    BY <1>1 DEF HasApplied, Busy
  <1>4. AddedSoFar'
    BY <1>2 DEF AddedSoFar, HasApplied
  <1>5. Undisturbed => Settled(catalog)
    <2> SUFFICES ASSUME Undisturbed PROVE Settled(catalog)
      OBVIOUS
    <2>1. Legacy \cup Derived \cup Direct \subseteq Modules
      BY DEF Modules
    <2>2. AllKnown /\ \A m \in Legacy : catalog[m].status # "absent"
      BY <1>3, FilesFacts DEF IInv, ClosedByTheLast, LegacySeeded
    <2>3. /\ \A m \in Legacy : Policy[m] \subseteq catalog[m].roles
          /\ \A m \in Retired : ~catalog[m].enabled
          /\ \A m \in Derived \cup Direct :
               catalog[m].status \in {"ready", "active"} /\ catalog[m].enabled
          /\ \A m \in Derived : catalog[SourceOf[m]].roles \subseteq catalog[m].roles
          /\ \A m \in Direct : Owner \in catalog[m].roles
      BY <1>3 DEF RestartInv, AddedSoFar
    <2>4. \A m \in Derived \cup Direct : catalog[m].status = "active"
      BY <2>1, <2>2, <2>3 DEF AllKnown, ModuleStatuses
    <2>5. QED
      BY <2>2, <2>3, <2>4 DEF Settled, AllKnown
  <1>6. RestartSettled'
    <2> SUFFICES ASSUME ~edited', asLeft' # NoCatalog
                 PROVE  Settled(catalog) /\ InReplayOf(catalog, catalog)
      BY <1>1 DEF RestartSettled
    <2>1. Undisturbed
      BY <1>1 DEF Undisturbed
    <2>2. QED
      BY <1>5, <2>1 DEF InReplayOf
  <1>7. ~edited /\ asLeft # NoCatalog => catalog' = asLeft
    BY <1>1, <1>3, FilesFacts DEF RestartInv, RestartSettled
  <1>8. QED
    BY <1>4, <1>6, <1>7 DEF RestartInv

LEMMA EditRestart ==
  ASSUME IInv, NEW m, NEW row, Edit(m, row)
  PROVE  RestartInv'
  <1>1. /\ edited' = TRUE /\ (unfinished => asLeft' = NoCatalog)
        /\ UNCHANGED <<process, lock, unfinished>>
    BY DEF Edit
  <1>2. RestartSettled'
    BY <1>1 DEF RestartSettled
  <1>3. AddedSoFar'
    <2>1. CASE unfinished
      BY <1>1, <2>1 DEF AddedSoFar, Undisturbed
    <2>2. CASE ~unfinished
      <3>1. \A d \in Cores : ~Busy(d)
        BY <2>2 DEF IInv, OneReplay
      <3>2. \A d \in Cores : ~Busy(d)'
        BY <1>1, <3>1 DEF Busy, process
      <3>3. QED
        BY <3>2 DEF AddedSoFar, HasApplied
    <2>3. QED
      BY <2>1, <2>2
  <1>4. QED
    BY <1>2, <1>3 DEF RestartInv

LEMMA StepRestart ==
  ASSUME IInv, RestartInv, [Next]_vars
  PROVE  /\ RestartInv'
         /\ unfinished /\ ~unfinished' /\ ~edited /\ asLeft # NoCatalog => catalog' = asLeft
  <1>1. ASSUME NEW c \in Cores, Start(c) \/ TakeLock(c) \/ Record(c) \/ Stop(c)
        PROVE  RestartInv' /\ (unfinished => unfinished')
    <2>1. UNCHANGED <<catalog, edited, asLeft>> /\ (unfinished => unfinished')
      BY <1>1 DEF Start, TakeLock, Record, Stop, history
    <2>2. QED
      BY <1>1, <2>1, AppliedNext, RestartKept
  <1>2. ASSUME NEW c \in Cores, Apply(c)
        PROVE  RestartInv' /\ (unfinished => unfinished')
    BY <1>2, ApplyRestart DEF Apply
  <1>3. CASE Administrate
    <2>1. PICK m, row : Edit(m, row)
      BY <1>3 DEF Administrate, Create, Update
    <2>2. unfinished' = unfinished
      BY <2>1 DEF Edit
    <2>3. QED
      BY <2>1, <2>2, EditRestart
  <1>4. CASE UNCHANGED vars
    <2>1. UNCHANGED <<catalog, edited, asLeft, unfinished, pc, at>>
      BY <1>4 DEF vars, process, history
    <2>2. \A d \in Cores, i \in 1..7 : HasApplied(d, i)' => HasApplied(d, i)
      BY <2>1 DEF HasApplied, Busy
    <2>3. QED
      BY <2>1, <2>2, RestartKept
  <1>5. QED
    BY <1>1, <1>2, <1>3, <1>4, FinishSettles DEF Next, Migrate

(* Restarting any number of Cores, wherever they die, leaves the catalogue *)
(* as the replay before left it, unless an administrator changed it: the   *)
(* files together are idempotent, though single ones undo each other.      *)
THEOREM RestartsChangeNothing == Spec => RestartChangesNothing
  <1>1. Init => IInv /\ RestartInv
    BY InitIInv, InitRestart
  <1>2. IInv /\ RestartInv /\ [Next]_vars =>
          /\ (IInv /\ RestartInv)'
          /\ [unfinished /\ ~unfinished' /\ ~edited /\ asLeft # NoCatalog
                 => catalog' = asLeft]_vars
    BY StepIInv, StepRestart
  <1>3. QED
    BY <1>1, <1>2, PTL DEF Spec, RestartChangesNothing
=============================================================================
