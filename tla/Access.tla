------------------------------- MODULE Access -------------------------------
(***************************************************************************)
(* Who may read what: internal/platformdb/rbac.go and internal/authz, and  *)
(* the handlers that ask them (main.go, business.go, support.go,           *)
(* operations_business.go, ai.go, search.go), for one read permission and  *)
(* the administrator's wildcard.                                           *)
(*                                                                         *)
(* A request reads the caller's roles, then his permissions, then the      *)
(* record, and then asks for scope grants, candidate by candidate; each is *)
(* a query of its own.  Meanwhile operators change mappings, registrations *)
(* change a record's owner, publishers the search index, and two           *)
(* administrators grant and revoke, each in a transaction with its audit   *)
(* record.                                                                 *)
(*                                                                         *)
(* Requests only read, so one at a time is modelled.  Every grant is for   *)
(* the read permission; modules of a profile decide nothing here; the      *)
(* gateway's own permission, ai.query, is taken as held.                   *)
(***************************************************************************)
EXTENDS Integers, Sequences, FiniteSets, SequencesExt

CONSTANTS Users,          \* the principals, by their Global IDs
          Roles,
          ConfinedRoles,  \* authz.DefaultConfinedRoles
          RoleGives,      \* role_permissions, of the two in question
          Clients,        \* the customers that own records
          Servers,        \* the records of operations
          Incidents,      \* the records of support
          Ranking,        \* of any records, the order a search ranks them in
          Grantable,      \* bound: the grants that administrators handle
          Holdings,       \* bound: the sets of roles a caller may have
          Administrators, \* the requests that grant and revoke
          Limit,          \* the length of a page of results
          Candidates,     \* how many hits are examined for it at most
          MaxChanges,     \* bound: what changes under requests and walks
          None,           \* no owner, no document, no request
          Wild            \* the wildcard "*" of scope ids

Read == "read"
All == "*"
Records == Servers \union Incidents

Global == [type |-> "global", id |-> Wild]
Scopes == {Global} \union [type : {"client"}, id : Clients \union Incidents \union {Wild}]
                   \union [type : {"resource"}, id : Records \union Clients \union {Wild}]
Grants == [caller : Users, scope : Scopes]

VARIABLES held,     \* the enabled roles a caller's groups are mapped to
          grants,   \* principal_scopes
          owner,    \* client_id of servers and support_records
          index,    \* the search index: the scope a document carries
          edit,     \* the administrators' transactions
          trail,    \* audit_events: the last record about a grant
          muddled,  \* history: grants that two administrators had in hand at once
          req,      \* the request
          saw,      \* history: the states it could have seen since it began
          judged,   \* history: what this step allowed or refused
          walk,     \* a caller's way through the results of one search
          changes   \* bound: how much has changed

tables == <<held, grants, owner, index>>
audits == <<edit, trail, muddled>>
gateVars == <<tables, audits, req, saw, judged, walk, changes>>

Doors == {"record", "collection", "gateway", "search"}
Phases == {"roles", "permissions", "resolved", "admitted", "judging", "paging"}

Edits == [op : {"granted", "revoked"}, grant : Grantable,
          phase : {"writing", "recording", "committing"}, news : BOOLEAN]
Results == [record : Records, scope : Scopes]
Reads == [phase : Phases, left : Seq(Scopes), roles : SUBSET Roles,
          permissions : SUBSET {Read, All}, scope : Scopes, hits : Seq(Results), used : Nat,
          page : Seq(Records), total : Nat, caller : Users, door : Doors,
          record : Records \union {None}]
Moments == [roles : SUBSET Roles, grants : SUBSET Grants]
Walks == [caller : Users, offset : Nat \union {None}, shown : Seq(Records),
          stirred : BOOLEAN, owed : SUBSET Records]

(* What the system is set up with: no confined role carries the wildcard   *)
(* (authz.go:135), a search ranks what it finds and nothing else (the last *)
(* tie is broken by id), and a page is no longer than what is examined.    *)
ASSUME GateAssumption ==
    /\ ConfinedRoles \subseteq Roles /\ RoleGives \in [Roles -> SUBSET {Read, All}]
    /\ \A role \in ConfinedRoles : All \notin RoleGives[role]
    /\ Ranking \in [SUBSET Records -> Seq(Records)]
    /\ \A found \in SUBSET Records :
          ToSet(Ranking[found]) = found /\ IsInjective(Ranking[found])
    /\ Limit \in Nat \ {0} /\ Candidates \in Nat /\ Limit =< Candidates
    /\ {None, Wild} \intersect (Clients \union Records) = {}
    /\ None \notin Nat \union Scopes \union Edits \union Reads \union Walks \union {"granted"}
    /\ Grantable \subseteq Grants /\ Holdings \subseteq SUBSET Roles

-----------------------------------------------------------------------------
(* The rules. *)

(* HasScopedPermission. *)
Covers(grant, caller, scope) ==
    /\ grant.caller = caller
    /\ \/ grant.scope = Global
       \/ grant.scope.type = scope.type /\ grant.scope.id \in {scope.id, Wild}

HasScopedPermission(caller, scope) == \E grant \in grants : Covers(grant, caller, scope)

(* The scopes Evaluator.scoped asks for in turn. *)
CandidatesFor(scope) ==
    <<scope>> \o (IF scope.id # Wild THEN <<[scope EXCEPT !.id = Wild]>> ELSE << >>)
              \o (IF scope.type # "global" THEN <<Global>> ELSE << >>)

PermissionsOf(roles) == UNION {RoleGives[role] : role \in roles}

IsConfined(roles) == roles \intersect ConfinedRoles # {}

(* Variant: the role's permission is enough for everybody. *)
PassesByRole(roles, permissions) == permissions # {}

(* Evaluate, as far as the profile decides it. *)
Passes(roles, permissions) ==
    All \in permissions \/ (Read \in permissions /\ ~IsConfined(roles))

(* serverScope and supportScope. *)
ScopeOf(record) ==
    IF owner[record] # None
    THEN [type |-> "client", id |-> owner[record]]
    ELSE [type |-> "resource", id |-> record]

(* aiSourceRules: the type of scope depends on what kind a source is. *)
GatewayType(record) == IF record \in Servers THEN "resource" ELSE "client"

(* aiFragment: its ID on whose the record is. *)
GatewayScope(record) ==
    [type |-> GatewayType(record),
     id |-> IF owner[record] # None THEN owner[record] ELSE record]

(* The documents a search finds: those that carry a permission of the      *)
(* caller's roles, in the order of their rank.                             *)
Found(permissions) ==
    IF permissions = {} THEN << >> ELSE Ranking[{record \in Records : index[record] # None}]

-----------------------------------------------------------------------------
(* History. *)

NoVerdict == [door |-> "none"]

(* By roles and grants as given, may the caller read in the scope? *)
May(roles, given, caller, scope) ==
    \/ Passes(roles, PermissionsOf(roles))
    \/ \E g \in given : Covers(g, caller, scope)

(* What the state a step leads to is, for the caller of a request. *)
Moment(caller) ==
    [roles |-> held'[caller], grants |-> {g \in grants' : g.caller = caller}]

(* Every state there has been since the request began. *)
Witness == saw' = IF req' = None THEN {} ELSE saw \union {Moment(req'.caller)}

(* Does this one state allow the read by itself? *)
Entitles(m, caller, scope) ==
    \/ All \in PermissionsOf(m.roles)
    \/ Read \in PermissionsOf(m.roles) /\ ~IsConfined(m.roles)
    \/ \E g \in m.grants : Covers(g, caller, scope)

(* The documents that a search finds and the caller may read. *)
Findable(caller) ==
    {x \in Records : /\ index'[x] # None /\ PermissionsOf(held'[caller]) # {}
                     /\ May(held'[caller], grants', caller, index'[x])}

(* A step outside the request.  A walk owes what may be read throughout,   *)
(* and is stirred when roles or index change under it.                     *)
Aside ==
    /\ UNCHANGED req /\ judged' = NoVerdict /\ Witness
    /\ walk' = IF walk = None THEN None
               ELSE [walk EXCEPT !.owed = @ \intersect (Findable(walk.caller) \union ToSet(walk.shown)),
                                 !.stirred = @ \/ held' # held \/ index' # index]

Counted == changes < MaxChanges /\ changes' = changes + 1

-----------------------------------------------------------------------------
GateInit ==
    /\ held \in [Users -> Holdings]
    /\ grants \in SUBSET Grantable
    /\ owner \in [Records -> Clients \union {None}]
    /\ index = [record \in Records |-> ScopeOf(record)]
    /\ edit = [a \in Administrators |-> None]
    /\ trail = [g \in Grantable |-> IF g \in grants THEN "granted" ELSE None]
    /\ muddled = {} /\ changes = 0
    /\ req = None /\ saw = {} /\ judged = NoVerdict /\ walk = None

(* An operator changes mappings, or a role; the caller changes groups. *)
RolesChange(caller) ==
    /\ \E roles \in Holdings : held' = [held EXCEPT ![caller] = roles]
    /\ held' # held /\ Counted
    /\ UNCHANGED <<grants, owner, index, audits>> /\ Aside

(* A server is registered again; a support record keeps its client. *)
OwnerChanges(server) ==
    /\ \E client \in Clients \union {None} : owner' = [owner EXCEPT ![server] = client]
    /\ owner' # owner /\ Counted
    /\ UNCHANGED <<held, grants, index, audits>> /\ Aside

(* A publisher indexes a record, with the scope it has, or deletes it. *)
Indexes(record) ==
    /\ \E scope \in {ScopeOf(record), None} : index' = [index EXCEPT ![record] = scope]
    /\ index' # index /\ Counted
    /\ UNCHANGED <<held, grants, owner, audits>> /\ Aside

-----------------------------------------------------------------------------
(* AddScopeGrant and DeleteScopeGrant. *)

AsksEdit(a, op, grant) ==
    /\ edit[a] = None /\ Counted
    /\ edit' = [edit EXCEPT ![a] = [op |-> op, grant |-> grant, phase |-> "writing", news |-> FALSE]]
    /\ muddled' = IF \E b \in Administrators : edit[b] # None /\ edit[b].grant = grant
                  THEN muddled \union {grant} ELSE muddled
    /\ UNCHANGED <<tables, trail>> /\ Aside

(* PostgreSQL makes a statement wait for the transaction that has the row; *)
(* a DELETE does not see a row that another is about to insert.            *)
Awaits(a, b) ==
    /\ b # a /\ edit[b] # None /\ edit[b].news /\ edit[b].grant = edit[a].grant
    /\ edit[a].op = "granted" \/ edit[b].op = "revoked"

InPhase(a, phase) == edit[a] # None /\ edit[a].phase = phase

(* INSERT ... ON CONFLICT DO NOTHING, or DELETE. *)
Writes(a) ==
    /\ InPhase(a, "writing") /\ \A b \in Administrators : ~Awaits(a, b)
    /\ edit' = [edit EXCEPT ![a].phase = "recording",
                            ![a].news = (edit[a].op = "granted") # (edit[a].grant \in grants)]
    /\ UNCHANGED <<tables, trail, muddled, changes>> /\ Aside

(* The audit record is inserted. *)
Audits(a) ==
    /\ InPhase(a, "recording")
    /\ edit' = [edit EXCEPT ![a].phase = "committing"]
    /\ UNCHANGED <<tables, trail, muddled, changes>> /\ Aside

GrantsAfter(a) ==
    CASE ~edit[a].news -> grants
      [] edit[a].op = "granted" -> grants \union {edit[a].grant}
      [] OTHER -> grants \ {edit[a].grant}

(* The commit, which shows both, whether its answer arrives or not. *)
Commits(a) ==
    /\ InPhase(a, "committing")
    /\ grants' = GrantsAfter(a)
    /\ trail' = [trail EXCEPT ![edit[a].grant] = edit[a].op]
    /\ edit' = [edit EXCEPT ![a] = None]
    /\ UNCHANGED <<held, owner, index, muddled, changes>> /\ Aside

(* Variant: the record is best effort, and its failure fails nothing. *)
RefusedOpen(a) ==
    /\ edit[a] # None
    /\ grants' = IF edit[a].phase = "recording" THEN GrantsAfter(a) ELSE grants
    /\ edit' = [edit EXCEPT ![a] = None]
    /\ UNCHANGED <<held, owner, index, trail, muddled, changes>> /\ Aside

(* A permission unknown, an audit record not durable, a connection gone:   *)
(* the transaction is rolled back.                                         *)
Refused(a) ==
    /\ edit[a] # None
    /\ edit' = [edit EXCEPT ![a] = None]
    /\ UNCHANGED <<tables, trail, muddled, changes>> /\ Aside

-----------------------------------------------------------------------------
(* A request. *)

Lesser(a, b) == IF a < b THEN a ELSE b

Asked(caller, door, record) ==
    [caller |-> caller, door |-> door, record |-> record, phase |-> "roles", left |-> << >>,
     roles |-> {}, permissions |-> {}, scope |-> Global, hits |-> << >>, used |-> 0,
     page |-> << >>, total |-> 0]

(* authenticate: the token is good, and carries the caller's groups. *)
Begins(caller, door, record) ==
    /\ req = None
    /\ UNCHANGED <<tables, audits, changes>>
    /\ req' = Asked(caller, door, record) /\ judged' = NoVerdict /\ Witness
    /\ IF door = "search"
       THEN /\ walk # None => walk.caller = caller /\ walk.offset # None
            /\ walk' = IF walk # None THEN walk
                       ELSE [caller |-> caller, offset |-> 0, shown |-> << >>, stirred |-> FALSE,
                             owed |-> Findable(caller)]
       ELSE UNCHANGED walk

(* A step of the request that shows and refuses nothing. *)
Goes(next) ==
    /\ req' = next /\ judged' = NoVerdict
    /\ UNCHANGED <<tables, audits, walk, changes>> /\ Witness

Reading(phase) == req # None /\ req.phase = phase

(* Evaluate begins. *)
Judging(r, scope) == [r EXCEPT !.phase = "judging", !.scope = scope, !.left = CandidatesFor(scope)]

(* The first of the queries of ResolveAccess. *)
ReadsRoles ==
    /\ Reading("roles")
    /\ Goes([req EXCEPT !.phase = "permissions", !.roles = held[req.caller]])

(* The token has no groups and UserInfo does not answer, or answers for    *)
(* somebody else (enrich): the caller has no roles.                        *)
LosesGroups ==
    /\ Reading("roles")
    /\ req' = [req EXCEPT !.phase = "resolved"]
    /\ judged' = NoVerdict
    /\ walk' = IF req.door = "search" THEN [walk EXCEPT !.stirred = TRUE] ELSE walk
    /\ UNCHANGED <<tables, audits, changes>> /\ Witness

(* The second. *)
ReadsPermissions ==
    /\ Reading("permissions")
    /\ Goes([req EXCEPT !.phase = "resolved", !.permissions = PermissionsOf(held[req.caller])])

(* authorize: a listing spans the whole platform. *)
Authorizes ==
    /\ Reading("resolved") /\ req.door = "collection"
    /\ Goes(Judging(req, Global))

(* resolveScopedEntity, getServer and resolveSupportRecord, before they    *)
(* look anything up: only who is confined is not asked for it all.         *)
MeetsGate ==
    /\ Reading("resolved") /\ req.door = "record" /\ ~IsConfined(req.roles)
    /\ Goes(Judging(req, Global))

(* The record is read, once, and its scope is decided on. *)
LooksUp ==
    /\ \/ Reading("resolved") /\ req.door = "record" /\ IsConfined(req.roles)
       \/ Reading("admitted")
    /\ Goes(Judging(req, ScopeOf(req.record)))

(* assembleContext, of a source: no gate, and a scope of its own. *)
Assembles ==
    /\ Reading("resolved") /\ req.door = "gateway"
    /\ Goes(Judging(req, GatewayScope(req.record)))

(* Examine the next hit. *)
NextHit(r) ==
    IF r.used < Len(r.hits) /\ Len(r.page) < Limit
    THEN Judging(r, r.hits[r.used + 1].scope)
    ELSE [r EXCEPT !.phase = "paging"]

(* The candidates that a provider answers with, from an offset on. *)
HitsFrom(found, offset) ==
    LET window == SubSeq(found, offset + 1, Lesser(offset + Candidates, Len(found)))
    IN [i \in DOMAIN window |-> [record |-> window[i], scope |-> index[window[i]]]]

(* The provider is asked for them from the cursor on. *)
Searches ==
    /\ Reading("resolved") /\ req.door = "search"
    /\ LET found == Found(req.permissions) IN
       Goes(NextHit([req EXCEPT !.hits = HitsFrom(found, walk.offset), !.total = Len(found)]))

(* What follows a decision. *)
After(ok) ==
    CASE req.door = "record" /\ req.scope = Global -> IF ok THEN [req EXCEPT !.phase = "admitted"] ELSE None
      [] req.door = "search" ->
           NextHit([req EXCEPT !.used = @ + 1,
                               !.page = IF ok THEN Append(@, req.hits[req.used + 1].record) ELSE @])
      [] OTHER -> None

Decides(ok) ==
    /\ req' = After(ok)
    /\ judged' = [ok |-> ok, door |-> req.door, caller |-> req.caller, scope |-> req.scope,
                  record |-> IF req.door = "search" THEN req.hits[req.used + 1].record ELSE req.record,
                  torn |-> ~(req.permissions \subseteq PermissionsOf(req.roles)), saw |-> saw]
    /\ UNCHANGED <<tables, audits, walk, changes>> /\ Witness

(* The profile decides. *)
PassesAtOnce ==
    /\ Reading("judging") /\ Passes(req.roles, req.permissions)
    /\ Decides(TRUE)

(* Or the grants do, one candidate after the other. *)
AsksGrants ==
    /\ Reading("judging") /\ ~Passes(req.roles, req.permissions)
    /\ IF HasScopedPermission(req.caller, Head(req.left))
       THEN Decides(TRUE)
       ELSE IF Len(req.left) = 1
            THEN Decides(FALSE)
            ELSE Goes([req EXCEPT !.left = Tail(@)])

(* Variant: the next page begins after as many as were shown. *)
OffsetAfterShown == walk.offset + Len(req.page)

(* Where the next page begins. *)
OffsetAfter == walk.offset + req.used

(* The page is answered, with a cursor unless that was all. *)
Pages ==
    /\ Reading("paging")
    /\ walk' = [walk EXCEPT !.shown = @ \o req.page,
                            !.offset = IF OffsetAfter < req.total THEN OffsetAfter ELSE None]
    /\ req' = None /\ judged' = NoVerdict
    /\ UNCHANGED <<tables, audits, changes>> /\ Witness

(* The caller searches for something else. *)
Forgets ==
    /\ walk # None /\ req = None
    /\ walk' = None /\ judged' = NoVerdict
    /\ UNCHANGED <<tables, audits, req, changes>> /\ Witness

(* A query fails: 503, and nothing is shown. *)
BreaksOff == req # None /\ Goes(None)

GateNext ==
    \/ \E caller \in Users :
          \/ RolesChange(caller)
          \/ \E door \in {"record", "gateway"} : \E record \in Records : Begins(caller, door, record)
          \/ \E door \in {"collection", "search"} : Begins(caller, door, None)
    \/ \E server \in Servers : OwnerChanges(server)
    \/ \E record \in Records : Indexes(record)
    \/ \E a \in Administrators :
          \/ \E op \in {"granted", "revoked"} : \E grant \in Grantable : AsksEdit(a, op, grant)
          \/ Writes(a) \/ Audits(a) \/ Commits(a) \/ Refused(a)
    \/ ReadsRoles \/ LosesGroups \/ ReadsPermissions
    \/ Authorizes \/ MeetsGate \/ LooksUp \/ Assembles
    \/ Searches \/ PassesAtOnce \/ AsksGrants \/ Pages \/ Forgets \/ BreaksOff

GateSpec == GateInit /\ [][GateNext]_gateVars
-----------------------------------------------------------------------------
(* Properties. *)

(* Whatever door a read goes through and whatever changes under it, what   *)
(* is shown was allowed by one state of the tables that the request lived  *)
(* through, roles, permissions and grants together: nothing is put         *)
(* together from a role of one moment and a grant or confinement of        *)
(* another.  One case excepted, and no other (see OneState): the           *)
(* permissions, read after the roles, are more than those roles give,      *)
(* because the mappings changed between these two queries.                 *)
ReadsEntitled ==
    (judged # NoVerdict /\ judged.ok) =>
       judged.torn \/ \E m \in judged.saw : Entitles(m, judged.caller, judged.scope)

(* A search can be walked to its end by its cursors: when there is no      *)
(* further page, every document the caller's search finds and he might     *)
(* read throughout has been shown, and none twice, though grants came and  *)
(* went.  (It is not so when roles or the index change under the walk: the *)
(* cursor is an offset into what the provider finds.)                      *)
SearchesComplete ==
    (walk # None /\ walk.offset = None /\ ~walk.stirred) =>
       walk.owed \subseteq ToSet(walk.shown) /\ IsInjective(walk.shown)

(* Grants are on record: unless two administrators had it in hand at once, *)
(* a grant is in force exactly when the last record about it says so,      *)
(* whatever failed and whichever answers were lost.                        *)
TrailTells ==
    \A grant \in Grantable \ muddled : grant \in grants <=> trail[grant] = "granted"

-----------------------------------------------------------------------------
(* The inductive invariant behind them. *)

GateTypeOK ==
    /\ held \in [Users -> SUBSET Roles] /\ grants \subseteq Grantable
    /\ owner \in [Records -> Clients \union {None}] /\ index \in [Records -> Scopes \union {None}]
    /\ edit \in [Administrators -> Edits \union {None}]
    /\ trail \in [Grantable -> {"granted", "revoked", None}] /\ muddled \subseteq Grantable
    /\ req \in Reads \union {None} /\ saw \subseteq Moments /\ walk \in Walks \union {None}

(* A grant that is not muddled is in one hand at most, and what has been   *)
(* written there makes the difference between its record and the table.    *)
InOneHand ==
    \A a, b \in Administrators :
       (edit[a] # None /\ edit[b] # None /\ edit[a].grant = edit[b].grant) =>
          a = b \/ edit[a].grant \in muddled

NewsIsTrue ==
    \A a \in Administrators :
       (edit[a] # None /\ edit[a].phase # "writing" /\ edit[a].grant \notin muddled) =>
          edit[a].news = ((edit[a].op = "granted") # (edit[a].grant \in grants))

(* A request is in a phase of its door, its judging asks for candidates of *)
(* the scope, and a search belongs to a walk that goes on.                 *)
Fits(r, w) ==
    /\ r.door \in {"record", "gateway"} => r.record # None
    /\ r.phase = "admitted" => r.door = "record"
    /\ r.phase = "paging" => r.door = "search"
    /\ r.phase = "judging" =>
          r.left # << >> /\ ToSet(r.left) \subseteq ToSet(CandidatesFor(r.scope))
    /\ r.door = "search" =>
          /\ w # None /\ w.caller = r.caller /\ w.offset # None
          /\ r.phase = "judging" => r.used < Len(r.hits)

InItsPhase == req # None => Fits(req, walk)

(* The state as it is, the one the roles were read in, and the one the     *)
(* permissions were read in are among those the request has lived through. *)
Witnessed ==
    req # None =>
       /\ [roles |-> held[req.caller], grants |-> {g \in grants : g.caller = req.caller}] \in saw
       /\ req.phase = "permissions" => \E m \in saw : m.roles = req.roles
       /\ req.permissions # {} =>
             /\ \E m \in saw : m.roles = req.roles
             /\ \E m \in saw : PermissionsOf(m.roles) = req.permissions

(* The documents that a search finds and the caller may read. *)
Shows(caller) ==
    {x \in Records : /\ index[x] # None /\ PermissionsOf(held[caller]) # {}
                     /\ May(held[caller], grants, caller, index[x])}

(* The first n, and of what follows the cursor as many as are used up. *)
Before(found, n) == {found[k] : k \in 1 .. n}
Examined(found, offset, used) == {found[k] : k \in offset + 1 .. offset + used}

(* What a walk owes can be read or has been shown, and all of it that lies *)
(* before the cursor has been.                                             *)
Paid(w, found, may) ==
    /\ w.owed \subseteq may \union ToSet(w.shown)
    /\ IsInjective(w.shown)
    /\ IF w.offset = None
       THEN w.owed \subseteq ToSet(w.shown)
       ELSE /\ w.offset =< Len(found)
            /\ ToSet(w.shown) \subseteq Before(found, w.offset)
            /\ w.owed \intersect Before(found, w.offset) \subseteq ToSet(w.shown)

WalkPays ==
    (walk # None /\ ~walk.stirred) =>
       Paid(walk, Found(PermissionsOf(held[walk.caller])), Shows(walk.caller))

(* The hits are what follows the cursor; of what has been examined the     *)
(* page has all that is owed, and nothing twice.                           *)
Collects(r, w, found, scopes) ==
    /\ r.total = Len(found) /\ r.used =< Len(r.hits) /\ w.offset + Len(r.hits) =< Len(found)
    /\ \A k \in DOMAIN r.hits :
          LET x == found[w.offset + k] IN r.hits[k] = [record |-> x, scope |-> scopes[x]]
    /\ IsInjective(r.page) /\ ToSet(r.page) \subseteq Examined(found, w.offset, r.used)
    /\ w.owed \intersect Examined(found, w.offset, r.used) \subseteq ToSet(r.page)

(* A hit that is owed passes at the first candidate. *)
Judges(r, w) ==
    LET hit == r.hits[r.used + 1] IN
    r.scope = hit.scope /\ (r.left = CandidatesFor(r.scope) \/ hit.record \notin w.owed)

(* While the walk is not stirred, a search has what is true. *)
Pays(r, w, roles, found, scopes) ==
    /\ r.phase # "roles" => r.roles = roles
    /\ r.phase \notin {"roles", "permissions"} => r.permissions = PermissionsOf(roles)
    /\ IF r.phase \in {"judging", "paging"}
       THEN Collects(r, w, found, scopes)
       ELSE r.used = 0 /\ r.page = << >>
    /\ r.phase = "judging" => Judges(r, w)

PagePays ==
    (req # None /\ req.door = "search" /\ ~walk.stirred) =>
       Pays(req, walk, held[req.caller], Found(PermissionsOf(held[req.caller])), index)

GateIInv ==
    /\ GateTypeOK /\ InItsPhase /\ InOneHand /\ NewsIsTrue /\ Witnessed /\ WalkPays /\ PagePays
    /\ TrailTells /\ ReadsEntitled /\ SearchesComplete

-----------------------------------------------------------------------------
(* What documents say and the code does not do. *)

(* What getServer and resolveSupportRecord answer as the tables are. *)
EndpointShows(caller, record) ==
    /\ IsConfined(held[caller]) \/ May(held[caller], grants, caller, Global)
    /\ May(held[caller], grants, caller, ScopeOf(record))

(* ai.go:43, "exactly what the equivalent read endpoint uses": while       *)
(* nothing changes, the gateway answers about a record as its endpoint.    *)
GatewayAgrees ==
    (judged # NoVerdict /\ judged.door = "gateway" /\ changes = 0) =>
       judged.ok = EndpointShows(judged.caller, judged.record)

(* main.go:244-245, "Access is resolved once per request rather than per   *)
(* handler, so a single request cannot observe two different authorization *)
(* states": what a request is shown, one state of the tables allows.       *)
OneState ==
    (judged # NoVerdict /\ judged.ok) =>
       \E m \in judged.saw : Entitles(m, judged.caller, judged.scope)
=============================================================================
