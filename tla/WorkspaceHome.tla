---------------------------- MODULE WorkspaceHome ----------------------------
(***************************************************************************)
(* The page of the workspace: the register of contracts, which is walked   *)
(* page by page with cursors, and the form that creates a Draft, while     *)
(* administrators publish and colleagues create.                           *)
(*                                                                         *)
(* Every request is one transaction of the API, in one step; how they      *)
(* interleave inside is the subject of ContractWorkspace.  The version     *)
(* with number n is versions[n].                                           *)
(***************************************************************************)
EXTENDS ContractValues

CONSTANTS
  Tenants, Home,  \* the tenants, and the one of the signed-in user
  Offers,         \* definitions administrators try to publish
  Colleagues,     \* bodies of the colleagues' creations
  Ids,            \* identifiers of contracts, with the order of the database
  OwnIds,         \* bound: those the creations of the user get
  Times,          \* milliseconds createdAt may show
  Inputs,         \* texts that may be typed, for each type of field
  DefaultLimit,   \* CONTRACT_REGISTER_DEFAULT_LIMIT
  MaxLimit,       \* CONTRACT_REGISTER_MAX_LIMIT
  Addresses,      \* addresses the user may go to without a button
  MaxVisits,      \* bound: times the user does so
  MaxVersions     \* bound: versions of the template

\* Definitions a tenant may have published.
Publishable == {canonicalTemplateDefinition(c) : c \in Offers} \ {None}

ASSUME HomeAssumption ==
  /\ Home \in Tenants
  /\ Offers \subseteq Candidates /\ Publishable # {}
  /\ OwnIds \subseteq Ids
  /\ Ids \subseteq Nat /\ IsFiniteSet(Ids) /\ Times \subseteq Nat
  /\ MaxLimit \in Nat /\ DefaultLimit \in 1..MaxLimit
  /\ MaxVisits \in Nat /\ MaxVersions \in Nat

\* What a box or an input of the form may hold.
ASSUME InputsAssumption ==
  /\ \A y \in Types \ {"enum"} : Inputs[y] \subseteq STRING
  /\ \A s \in Inputs["number"] \cup {""} : NumberOf[s] \in STRING
  /\ Inputs["boolean"] \subseteq {"", "true", "false"}

\* None is neither a cursor nor a row.
ASSUME NoneAssumption ==
  /\ None \notin [createdAt : Times, id : Ids]
  /\ \A keys \in SUBSET LegalKeys :
       None \notin [tenant : Tenants, createdAt : Times, version : Nat,
                    values : [keys -> Values]]

VARIABLES
  versions,       \* definitions the tenant has published, the last is active
  contracts,      \* the committed rows of "contracts"
  load,           \* state of ContractCreationForm: the template and the form
  creation,       \* state of ContractCreationForm: the submission
  address,        \* search parameters of the page
  asked,          \* search parameters the effect of ContractRegister last ran for
  register,       \* state of ContractRegister
  requests,       \* requests of ContractRegister under way
  gone,           \* the workspace has lost the authentication
  walk,           \* history: the pages shown since one was opened afresh
  visits          \* bounded by MaxVisits

database == <<versions, contracts>>
form == <<load, creation>>
list == <<address, asked, register, requests, walk>>
vars == <<database, form, list, gone, visits>>

\* A part of the page that the behaviour leaves out (see Init).
Absent == [status |-> "absent"]

Active == versions[Len(versions)]
Exists(id, tenant) ==
  IF contracts[id] = None THEN FALSE ELSE contracts[id].tenant = tenant

-----------------------------------------------------------------------------
(***************************************************************************)
(* The database, and the others who write to it.                           *)
(***************************************************************************)

Row(tenant, time, version, values) ==
  [tenant |-> tenant, createdAt |-> time, version |-> version, values |-> values]

\* create: the clock is read under the lock of the template, but clocks of two
\* processes need not agree.
Insert(id, tenant, values) ==
  /\ contracts[id] = None
  /\ \E time \in Times :
       contracts' = [contracts EXCEPT ![id] =
                      Row(tenant, time, Len(versions), values)]

Publish(candidate) ==
  LET definition == canonicalTemplateDefinition(candidate) IN
  /\ load # Absent
  /\ Len(versions) < MaxVersions
  /\ definition # None
  /\ versions # <<>> => ~templateDefinitionsEqual(Active, definition)
  /\ versions' = Append(versions, definition)
  /\ UNCHANGED <<contracts, form, list, gone, visits>>

ColleagueCreates(id) ==
  /\ register # Absent
  /\ \E supplied \in Colleagues :
       LET saved == resolveContractValues(Active, supplied) IN
       saved.is = "values" /\ Insert(id, Home, saved.values)
  /\ UNCHANGED <<versions, form, list, gone, visits>>

-----------------------------------------------------------------------------
(***************************************************************************)
(* ContractCreationForm.                                                   *)
(***************************************************************************)

Loading(answer) == [status |-> "loading", answer |-> answer]
Unavailable == [status |-> "unavailable"]
LoadFailed == [status |-> "failed"]
Ready(version, typed) ==
  [status |-> "ready", version |-> version, form |-> typed]

Idle == [status |-> "idle"]
Submitting(values, answer) ==
  [status |-> "submitting", values |-> values, answer |-> answer]
Failed(issues) == [status |-> "failed", issues |-> issues]

\* With the form it was created from and the version that form was for.
Saved(id) ==
  [status |-> "saved", id |-> id, form |-> load.form, version |-> load.version]

ServerError == [is |-> "error"]
NoTemplate == [is |-> "noTemplate"]
Template(version) == [is |-> "template", version |-> version]
Created(id) == [is |-> "created", id |-> id]

DefaultForm(version) == createContractValueForm(versions[version], None)

\* GET the active template: it, or 404, or any failure.
ServeTemplate ==
  /\ load.status = "loading" /\ load.answer = None
  /\ load' \in {Loading(ServerError),
                Loading(IF versions = <<>> THEN NoTemplate
                        ELSE Template(Len(versions)))}
  /\ UNCHANGED <<database, creation, list, gone, visits>>

\* Mutant of TemplateLoaded: a failure is not caught.
TemplateLoadedIfAny ==
  /\ ~gone
  /\ load.status = "loading" /\ load.answer # None
  /\ load.answer.is = "template"
  /\ load' = Ready(load.answer.version, DefaultForm(load.answer.version))
  /\ UNCHANGED <<database, creation, list, gone, visits>>

\* loadTemplate after its await.
TemplateLoaded ==
  /\ ~gone
  /\ load.status = "loading" /\ load.answer # None
  /\ load' = CASE load.answer.is = "template" ->
                    Ready(load.answer.version, DefaultForm(load.answer.version))
               [] load.answer.is = "noTemplate" -> Unavailable
               [] OTHER -> LoadFailed
  /\ UNCHANGED <<database, creation, list, gone, visits>>

RetryLoad ==
  /\ ~gone
  /\ load.status \in {"unavailable", "failed"}
  /\ load' = Loading(None)
  /\ UNCHANGED <<database, creation, list, gone, visits>>

Typable(f) == IF f.type = "enum" THEN {""} \cup Range(f.options)
              ELSE Inputs[f.type]

\* update: the box of an optional field, or the input of an included one.
Update ==
  /\ ~gone
  /\ load.status = "ready" /\ creation.status # "submitting"
  /\ \E f \in Fields(versions[load.version]) :
       LET input == load.form[f.key] IN
       \E changed \in
            (IF f.required THEN {} ELSE {[input EXCEPT !.included = ~@]})
              \cup (IF input.included
                    THEN {[input EXCEPT !.value = s] : s \in Typable(f)} ELSE {}) :
         /\ changed # input
         /\ load' = [load EXCEPT !.form[f.key] = changed]
  /\ creation' = Idle
  /\ UNCHANGED <<database, list, gone, visits>>

Submit ==
  /\ ~gone
  /\ load.status = "ready" /\ creation.status # "submitting"
  /\ creation' = Submitting(
       serializeContractValueForm(versions[load.version], load.form).values, None)
  /\ UNCHANGED <<database, load, list, gone, visits>>

\* POST a contract.  The answer may be lost after the commit; the transaction
\* may fail, and has to when the model has no identifier left.
ServeCreate ==
  LET Answer(a) == creation' = [creation EXCEPT !.answer = a]
      saved == resolveContractValues(Active, creation.values)
  IN
  /\ creation.status = "submitting" /\ creation.answer = None
  /\ \/ Answer(ServerError) /\ UNCHANGED contracts
     \/ /\ versions = <<>>
        /\ Answer(NoTemplate)
        /\ UNCHANGED contracts
     \/ /\ versions # <<>> /\ saved.is = "issues"
        /\ Answer(saved)
        /\ UNCHANGED contracts
     \/ /\ versions # <<>> /\ saved.is = "values"
        /\ \E id \in OwnIds : /\ Insert(id, Home, saved.values)
                              /\ Answer(Created(id)) \/ Answer(ServerError)
  /\ UNCHANGED <<versions, load, list, gone, visits>>

\* submit after its await.
CreateAnswered ==
  /\ ~gone
  /\ creation.status = "submitting" /\ creation.answer # None
  /\ LET a == creation.answer IN
     \/ /\ a.is = "created"
        /\ load' = Ready(load.version, DefaultForm(load.version))
        /\ creation' = Saved(a.id)
     \/ /\ a.is = "noTemplate"
        /\ load' = Unavailable
        /\ creation' = Idle
     \/ /\ a.is \in {"issues", "error"}
        /\ creation' = Failed(IF a.is = "issues" THEN a.issues ELSE {})
        /\ UNCHANGED load
  /\ UNCHANGED <<database, list, gone, visits>>

-----------------------------------------------------------------------------
(***************************************************************************)
(* ContractRegister and the page it asks for.                              *)
(***************************************************************************)

\* A boundary stands for the cursor it is encoded to, and the limit 0 for
\* everything else the parser refuses: another parameter, a malformed limit, a
\* text that is not the encoding of a boundary.
Boundary(id) == [createdAt |-> contracts[id].createdAt, id |-> id]
Newest == [limit |-> None, after |-> None]
After(boundary) == [limit |-> None, after |-> boundary]

\* Mutant of Older: contracts of the same millisecond are left out.
OlderByTime(a, b) == a.createdAt < b.createdAt

\* Mutant of Older: the boundary is part of the page that follows.
OlderOrSame(a, b) ==
  \/ a.createdAt < b.createdAt
  \/ a.createdAt = b.createdAt /\ a.id <= b.id

\* a comes after b in the register.
Older(a, b) ==
  \/ a.createdAt < b.createdAt
  \/ a.createdAt = b.createdAt /\ a.id < b.id

Of(tenant) == {id \in Ids : Exists(id, tenant)}

\* parseContractRegisterQuery: the limit of an address, or None.
LimitOf(query) ==
  LET limit == IF query.limit = None THEN DefaultLimit ELSE query.limit IN
  IF limit \in 1..MaxLimit THEN limit ELSE None

\* Mutant of Rows: the pages of all the tenants.
AllRows(tenant, after) ==
  {id \in Ids : /\ contracts[id] # None
                /\ after # None => Older(Boundary(id), after)}

\* The condition of findPage.
Rows(tenant, after) ==
  {id \in Of(tenant) : after # None => Older(Boundary(id), after)}

\* The order of findPage.
NewestFirst(rows) ==
  CHOOSE s \in [1..Cardinality(rows) -> rows] :
    /\ IsInjective(s)
    /\ \A i, j \in DOMAIN s : i < j => ~Older(Boundary(s[i]), Boundary(s[j]))

\* findPage and execute: the newest of the rows, and the boundary that follows
\* when there are more.
Page(tenant, limit, after) ==
  LET rows == NewestFirst(Rows(tenant, after))
      items == SubSeq(rows, 1, IF Len(rows) < limit THEN Len(rows) ELSE limit)
  IN [is |-> "page", items |-> items,
      next |-> IF Len(rows) > limit THEN Boundary(Last(items)) ELSE None]

Request(query) == [query |-> query, active |-> TRUE, answer |-> None,
                   present |-> {}]

\* Mutant of Superseded: the cleanup of the effect is missing.
NotSuperseded == requests

\* The cleanup of the effect: its request no longer counts.
Superseded == {[r EXCEPT !.active = FALSE] : r \in requests}

\* The effect, after the cleanup of the one before: it asks for the page of the
\* address.
Open ==
  /\ asked' = address
  /\ register' = [status |-> "loading"]
  /\ requests' = Superseded \cup {Request(address)}
  /\ UNCHANGED address

\* The effect of a new address.  It comes after the rendering: until then the old
\* page is there, and an answer to the old request counts.
EffectRuns ==
  /\ ~gone
  /\ asked # address
  /\ Open
  /\ UNCHANGED <<database, form, gone, walk, visits>>

\* GET the register.
ServePage(r) ==
  /\ r.answer = None
  /\ \E a \in {ServerError, [is |-> "unauthorized"],
               IF LimitOf(r.query) = None THEN [is |-> "invalid"]
               ELSE Page(Home, LimitOf(r.query), r.query.after)} :
       requests' = (requests \ {r})
         \cup {[r EXCEPT !.answer = a,
                           !.present = IF a.is = "page"
                                       THEN Rows(Home, r.query.after) ELSE {}]}
  /\ UNCHANGED <<database, form, address, asked, register, gone, walk, visits>>

\* The walk goes on when the page is the one that follows the last one.
Walked(r) ==
  LET page == r.answer
      follows == IF walk = None THEN FALSE
                 ELSE walk.next # None /\ walk.next = r.query.after
  IN [present |-> IF follows THEN walk.present ELSE r.present,
      seen |-> IF follows THEN walk.seen \o page.items ELSE page.items,
      next |-> page.next]

\* The then and the catch of the effect.
PageAnswered(r) ==
  /\ ~gone
  /\ r.answer # None
  /\ requests' = requests \ {r}
  /\ \/ ~r.active /\ UNCHANGED <<register, gone, walk>>
     \/ /\ r.active /\ r.answer.is = "page"
        /\ register' = [status |-> "ready", query |-> r.query,
                        page |-> r.answer]
        /\ walk' = Walked(r)
        /\ UNCHANGED gone
     \/ /\ r.active /\ r.answer.is = "unauthorized"
        /\ gone' = TRUE
        /\ UNCHANGED <<register, walk>>
     \/ /\ r.active /\ r.answer.is \in {"invalid", "error"}
        /\ register' = [status |-> IF r.answer.is = "invalid"
                                   THEN "invalidPage" ELSE "failed"]
        /\ UNCHANGED <<gone, walk>>
  /\ UNCHANGED <<database, form, address, asked, visits>>

\* setSearchParams: a new address; the effect follows.
GoTo(query) ==
  /\ ~gone
  /\ address' = query
  /\ UNCHANGED <<database, form, asked, register, requests, gone, walk>>

\* "Older contracts".
OlderContracts ==
  /\ register.status = "ready"
  /\ register.page.next # None
  /\ GoTo(After(register.page.next))
  /\ UNCHANGED visits

\* "Return to newest" and "Back to newest".
ReturnToNewest ==
  /\ \/ register.status = "invalidPage"
     \/ register.status = "ready" /\ address.after # None
  /\ GoTo(Newest)
  /\ UNCHANGED visits

\* "Try again".
RetryPage ==
  /\ ~gone
  /\ register.status = "failed"
  /\ Open
  /\ UNCHANGED <<database, form, gone, walk, visits>>

\* Back, forward or a link of the browser, at any time.
Visit(query) ==
  /\ register # Absent
  /\ visits < MaxVisits
  /\ visits' = visits + 1
  /\ query # address
  /\ GoTo(query)

-----------------------------------------------------------------------------
\* Bound: the user works with one of the two parts and the other is absent;
\* nothing passes between them but the rows, which colleagues insert as the form
\* would.  With the form administrators publish; with the register there is a
\* template already, and another tenant may have a contract.
Init ==
  /\ \/ /\ load = Loading(None)
        /\ register = Absent
        /\ requests = {}
        /\ address = Newest
        /\ versions = <<>>
        /\ contracts = [id \in Ids |-> None]
     \/ /\ load = Absent
        /\ register = [status |-> "loading"]
        /\ address \in {Newest} \cup Addresses
        /\ requests = {Request(address)}
        /\ versions = <<CHOOSE d \in Publishable : TRUE>>
        /\ \E other \in Ids \cup {None}, time \in Times, t \in Tenants \ {Home} :
             contracts = [id \in Ids |-> IF id = other THEN Row(t, time, 1, <<>>)
                                         ELSE None]
  /\ asked = address
  /\ creation = Idle
  /\ gone = FALSE
  /\ walk = None
  /\ visits = 0

Next ==
  \/ \E candidate \in Offers : Publish(candidate)
  \/ \E id \in Ids : ColleagueCreates(id)
  \/ ServeTemplate \/ TemplateLoaded \/ RetryLoad
  \/ Update \/ Submit \/ ServeCreate \/ CreateAnswered
  \/ \E r \in requests : ServePage(r) \/ PageAnswered(r)
  \/ OlderContracts \/ ReturnToNewest \/ RetryPage \/ EffectRuns
  \/ \E query \in Addresses : Visit(query)

Spec == Init /\ [][Next]_vars

\* The API answers, and the event loop of the browser delivers, in the end.
Fairness ==
  /\ WF_vars(ServeTemplate \/ TemplateLoaded)
  /\ WF_vars(ServeCreate \/ CreateAnswered)
  /\ WF_vars(\E r \in requests : r.active /\ (ServePage(r) \/ PageAnswered(r)))
  /\ WF_vars(EffectRuns)

LiveSpec == Spec /\ Fairness

-----------------------------------------------------------------------------
(***************************************************************************)
(* Properties.                                                             *)
(***************************************************************************)

\* The next three are about every definition that may be published first.
Unpublished == versions = <<>>

\* Under every definition a body resolves to the defaults with the body laid over
\* them, if that is a contract the definition allows, and is refused otherwise: a
\* default fills in for an omitted value, never for one that is given or cleared
\* (resolveValues), and no default makes a contract its own definition would
\* refuse (canonicalDefault).
ResolvesToOverlay == Unpublished => EveryBodyOverlaid

\* Under every definition, the form of a contract that is sent untouched asks for
\* the values the contract has: nothing is lost, gets a default or changes its
\* type on the way through createContractValueForm, serializeContractValueForm
\* and resolveDraftEditValues.
UntouchedEditKeepsValues == Unpublished => EveryFormKept

\* The definition that is published next is taken for unchanged exactly when it
\* only moves fields and options around, and what it moves makes no difference
\* to any body (templateDefinitionsEqual).
UnchangedIsReordered == Unpublished => EqualIsReordered

\* A walk over the pages of the register, from wherever it started, shows newest
\* first, and none twice, the contracts of the tenant, and when it comes to the
\* end, or below their time, every one that was there when it started; contracts
\* of the same millisecond and contracts created meanwhile make no difference
\* (findPage, ListContracts.execute, the cursor in the address).
PagesWalkOnce ==
  LET Time(id) == contracts[id].createdAt IN
  walk # None =>
    /\ \A i, j \in DOMAIN walk.seen :
         i < j => /\ walk.seen[i] # walk.seen[j]
                  /\ Time(walk.seen[i]) >= Time(walk.seen[j])
    /\ \A id \in walk.present :
         \/ id \in Range(walk.seen)
         \/ walk.next # None /\ Time(id) <= walk.next.createdAt
    /\ \A id \in Range(walk.seen) : Exists(id, Home)

\* Once the effect has run for the address, the page that is shown is the page of
\* the address: the answer to a request that navigation has left behind never
\* shows from then on (the cleanup of the effect).  Before, the page of the
\* address before is still there.
PageIsOfAddress ==
  register.status = "ready" /\ asked = address => register.query = address

\* The value v is what was typed into the input of the field f.
Typed(f, input, v) ==
  IF f.type = "number" THEN v = canonicalNumber(Number(NumberOf[input.value]))
  ELSE v.v = input.value

\* "Saved Draft" is said of a contract that exists, has values its version
\* allows, and has every value the form showed; what it has besides are defaults
\* of its version.  So it is even when another version became active after the
\* form was loaded.
SavedIsStored ==
  creation.status = "saved" =>
    LET saved == contracts[creation.id]
        bound == versions[saved.version]
        shown == {f \in Fields(versions[creation.version]) :
                    LET input == creation.form[f.key] IN
                    input.included /\ (input.value # "" \/ f.type = "text")}
    IN /\ Exists(creation.id, Home)
       /\ Conforms(bound, saved.values)
       /\ \A f \in shown : /\ f.key \in DOMAIN saved.values
                           /\ Typed(f, creation.form[f.key], saved.values[f.key])
       /\ \A k \in DOMAIN saved.values \ {f.key : f \in shown} :
            saved.values[k] = FieldOf(bound, k).default

\* Whatever the API answers, the form comes to rest, and so does the register with
\* what it has for its address, unless the workspace is left.
HomeSettles ==
  /\ load.status = "loading" ~> load.status # "loading" \/ gone
  /\ creation.status = "submitting" ~> creation.status # "submitting" \/ gone
  /\ register.status = "loading" \/ asked # address
       ~> (register.status # "loading" /\ asked = address) \/ gone

=============================================================================
