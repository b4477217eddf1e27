-------------------------- MODULE ContractWorkspace --------------------------
(***************************************************************************)
(* The contract workspace of the API: concurrent HTTP requests that        *)
(* publish a Template, create a Contract, replace a Draft's values,        *)
(* migrate a Draft, activate or close a Contract.  Every request is one    *)
(* Prisma interactive transaction on PostgreSQL at READ COMMITTED, that    *)
(* is: a sequence of statements, each with a snapshot of its own, row      *)
(* locks held to the end, and writes that become visible at the commit.    *)
(*                                                                         *)
(* A request takes one step for each statement that locks or waits, and    *)
(* one step for the decision, the writes and the commit, which no other    *)
(* request can observe apart.                                              *)
(***************************************************************************)
EXTENDS Integers, FiniteSets

CONSTANTS
  Tenants,        \* companies; every one has its row in "tenants"
  Contracts,      \* contract identifiers
  Unissued,       \* those among them no contract ever gets
  Versions,       \* identifiers a new template version may get
  Definitions,    \* canonical template definitions, up to semanticDefinition
  Inputs,         \* bodies: supplied values, with the cleared keys of an edit
  Values,         \* resolved, canonical contract values
  Resolve,        \* resolveContractValues: Definitions -> Inputs -> Values or None
  ResolveEdit,    \* resolveDraftEditValues, of the same type
  Requests,       \* slots for requests in progress
  Commands,       \* the commands clients send in this instance
  None            \* SQL NULL, JavaScript null, "no row", "no holder"

Statuses == {"DRAFT", "ACTIVE", "CLOSED"}
Actions == {"CREATED", "EDITED", "MIGRATED", "ACTIVATED", "CLOSED"}

Row == [tenant: Tenants, version: Versions, status: Statuses,
        revision: Nat \ {0}, values: Values]
Snapshots == [status: Statuses, revision: Nat \ {0}, values: Values,
              version: Versions]
Entries == [contract: Contracts, revision: Nat \ {0}, action: Actions,
            before: Snapshots \cup {None}, after: Snapshots]
Events == [tenant: Tenants, contract: Contracts, activationRevision: Nat]
TemplateRow == [revision: Nat, active: Versions \cup {None}]
VersionRow == [tenant: Tenants, definition: Definitions]

PublishCommand == [kind: {"publish"}, tenant: Tenants, expected: Nat,
                   definition: Definitions \cup {None}]
CreateCommand == [kind: {"create"}, tenant: Tenants, input: Inputs]
EditCommand == [kind: {"edit"}, tenant: Tenants, contract: Contracts,
                expected: Nat, input: Inputs]
MigrateCommand == [kind: {"migrate"}, tenant: Tenants, contract: Contracts,
                   expected: Nat, target: Versions, input: Inputs]
StatusCommand == [kind: {"activate", "close"}, tenant: Tenants,
                  contract: Contracts, expected: Nat]
Command == PublishCommand \cup CreateCommand \cup EditCommand
             \cup MigrateCommand \cup StatusCommand

ASSUME ResolutionAssumption ==
  /\ Resolve \in [Definitions -> [Inputs -> Values \cup {None}]]
  /\ ResolveEdit \in [Definitions -> [Inputs -> Values \cup {None}]]

ASSUME CommandsAssumption == Commands \subseteq Command

ASSUME NoneAssumption ==
  /\ None \notin Requests
  /\ None \notin Versions
  /\ None \notin Values
  /\ None \notin Row
  /\ None \notin Snapshots
  /\ None \notin VersionRow

VARIABLES
  \* committed rows
  templates,      \* "logical_templates" by tenant; revision 0 is no row
  versions,       \* "template_versions"
  contracts,      \* "contracts"
  history,        \* "contract_history"
  outbox,         \* "contract_activation_outbox"
  \* row locks and who holds them
  tenantLock, templateLock, contractLock,
  \* requests in progress
  pc,             \* the statement a request is about to run
  cmd,            \* its command
  tpl,            \* the logical template row it has read
  row,            \* the contract row it has read
  answer          \* the answer the last step gave to a client, if it gave one

db == <<templates, versions, contracts, history, outbox>>
locks == <<tenantLock, templateLock, contractLock>>
session == <<pc, cmd, tpl, row, answer>>
vars == <<db, locks, session>>

NoTemplate == [revision |-> 0, active |-> None]

Snapshot(c) == [status |-> c.status, revision |-> c.revision,
                values |-> c.values, version |-> c.version]

-----------------------------------------------------------------------------
(***************************************************************************)
(* The end of a transaction.                                               *)
(***************************************************************************)

\* Mutant of Without: the connection goes back to the pool, its locks stay.
LocksLeak(lock, r) == lock

\* The locks request r leaves behind when its transaction ends.
Without(lock, r) == [k \in DOMAIN lock |-> IF lock[k] = r THEN None ELSE lock[k]]

\* The transaction of r ends, by COMMIT or by ROLLBACK: its locks go, and the
\* client gets outcome.
Finish(r, outcome) ==
  /\ pc' = [pc EXCEPT ![r] = "idle"]
  /\ cmd' = [cmd EXCEPT ![r] = None]
  /\ tpl' = [tpl EXCEPT ![r] = NoTemplate]
  /\ row' = [row EXCEPT ![r] = None]
  /\ answer' = [to |-> r, is |-> outcome]
  /\ tenantLock' = Without(tenantLock, r)
  /\ templateLock' = Without(templateLock, r)
  /\ contractLock' = Without(contractLock, r)

\* The handler throws, or returns what it read: the transaction wrote nothing.
Answer(r, outcome) == Finish(r, outcome) /\ UNCHANGED db

\* The statement after which the next one is `next`; rows and locks stay.
Continue(r, next) ==
  /\ pc' = [pc EXCEPT ![r] = next]
  /\ answer' = None
  /\ UNCHANGED <<db, cmd>>

-----------------------------------------------------------------------------
(***************************************************************************)
(* A request arrives, and the statements that lock rows.                   *)
(***************************************************************************)

FirstStatement(kind) ==
  CASE kind = "publish" -> "lockTenant"
    [] kind \in {"create", "migrate"} -> "lockTemplate"
    [] OTHER -> "selectContract"

\* Clients name identifiers the API has given out, or arbitrary ones, which no
\* randomUUID will ever produce.
Nameable(k) ==
  k.kind \notin {"publish", "create"} =>
    contracts[k.contract] # None \/ k.contract \in Unissued

\* The identifiers a creation can still get.
Free(c) == contracts[c] = None /\ c \notin Unissued

\* Bound: a creation is only received while an identifier is left for it.
IdentifierLeft ==
  Cardinality({r \in Requests : cmd[r] # None /\ cmd[r].kind = "create"})
    < Cardinality({c \in Contracts : Free(c)})

Receive(r) ==
  \E k \in Commands :
    /\ pc[r] = "idle"
    /\ Nameable(k)
    /\ k.kind = "create" => IdentifierLeft
    /\ pc' = [pc EXCEPT ![r] = FirstStatement(k.kind)]
    /\ cmd' = [cmd EXCEPT ![r] = k]
    /\ answer' = None
    /\ UNCHANGED <<db, locks, tpl, row>>

\* Mutant of LockTenant: the statement without FOR NO KEY UPDATE.
ReadTenant(r) ==
  /\ pc[r] = "lockTenant"
  /\ Continue(r, "lockTemplate")
  /\ UNCHANGED <<locks, tpl, row>>

\* lockTenant: SELECT ... FROM tenants ... FOR NO KEY UPDATE.
LockTenant(r) ==
  /\ pc[r] = "lockTenant"
  /\ tenantLock[cmd[r].tenant] = None
  /\ tenantLock' = [tenantLock EXCEPT ![cmd[r].tenant] = r]
  /\ Continue(r, "lockTemplate")
  /\ UNCHANGED <<templateLock, contractLock, tpl, row>>

AfterTemplate(kind) == IF kind = "migrate" THEN "selectContract" ELSE "execute"

\* Mutant of LockTemplate: the statement without FOR UPDATE.
ReadTemplate(r) ==
  LET t == cmd[r].tenant IN
  /\ pc[r] = "lockTemplate"
  /\ templates[t] # NoTemplate
  /\ tpl' = [tpl EXCEPT ![r] = templates[t]]
  /\ Continue(r, AfterTemplate(cmd[r].kind))
  /\ UNCHANGED <<locks, row>>

\* SELECT ... FROM logical_templates WHERE tenant_id ... FOR UPDATE: waits for
\* the holder, then reads the row as it is now.
LockTemplate(r) ==
  LET t == cmd[r].tenant IN
  /\ pc[r] = "lockTemplate"
  /\ templates[t] # NoTemplate
  /\ templateLock[t] = None
  /\ templateLock' = [templateLock EXCEPT ![t] = r]
  /\ tpl' = [tpl EXCEPT ![r] = templates[t]]
  /\ Continue(r, AfterTemplate(cmd[r].kind))
  /\ UNCHANGED <<tenantLock, contractLock, row>>

\* The same statement when the tenant has no row yet: nothing to lock.
MissTemplate(r) ==
  /\ pc[r] = "lockTemplate"
  /\ templates[cmd[r].tenant] = NoTemplate
  /\ \/ /\ cmd[r].kind = "create"
        /\ Answer(r, "ActiveTemplateRequired")
     \/ /\ cmd[r].kind # "create"
        /\ Continue(r, AfterTemplate(cmd[r].kind))
        /\ UNCHANGED <<locks, tpl, row>>

\* Mutant of Visible: the query without its tenant.
VisibleToAll(r) == contracts[cmd[r].contract] # None

\* The contract row a statement of r finds: by identifier and by tenant.
Visible(r) ==
  /\ contracts[cmd[r].contract] # None
  /\ contracts[cmd[r].contract].tenant = cmd[r].tenant

\* findLockedContract, the snapshot of the statement: which contract row, and
\* so which template version row, it joins.
SelectContract(r) ==
  /\ pc[r] = "selectContract"
  /\ \/ /\ ~Visible(r)
        /\ Answer(r, "ContractNotFound")
     \/ /\ Visible(r)
        /\ row' = [row EXCEPT ![r] = contracts[cmd[r].contract]]
        /\ Continue(r, "lockContract")
        /\ UNCHANGED <<locks, tpl>>

\* Mutant of LockContract: the statement without FOR UPDATE.
ReadContract(r) ==
  /\ pc[r] = "lockContract"
  /\ Continue(r, "execute")
  /\ UNCHANGED <<locks, tpl, row>>

\* Mutant of LockContract: the row is read by a statement before the lock.
LockAfterRead(r) ==
  /\ pc[r] = "lockContract"
  /\ contractLock[cmd[r].contract] = None
  /\ contractLock' = [contractLock EXCEPT ![cmd[r].contract] = r]
  /\ Continue(r, "execute")
  /\ UNCHANGED <<tenantLock, templateLock, tpl, row>>

\* findLockedContract, FOR UPDATE OF c: waits for the holder, then checks the
\* join again between the current contract row and the template version row of
\* the snapshot (EvalPlanQual).  When the version changed meanwhile no row
\* qualifies any more and the handler sees null.
LockContract(r) ==
  LET c == cmd[r].contract IN
  /\ pc[r] = "lockContract"
  /\ contractLock[c] = None
  /\ \/ /\ contracts[c].version # row[r].version
        /\ Answer(r, "ContractNotFound")
     \/ /\ contracts[c].version = row[r].version
        /\ contractLock' = [contractLock EXCEPT ![c] = r]
        /\ row' = [row EXCEPT ![r] = contracts[c]]
        /\ Continue(r, "execute")
        /\ UNCHANGED <<tenantLock, templateLock, tpl>>

-----------------------------------------------------------------------------
(***************************************************************************)
(* The handlers, once the rows they need are locked and read.  They decide *)
(* on what they read, never on what the tables hold at that moment.        *)
(***************************************************************************)

Executing(r, kind) == pc[r] = "execute" /\ cmd[r].kind = kind

IsCurrent(r) == row[r].revision = cmd[r].expected

\* Mutant of IsDraft: only a Closed contract is refused.
IsNotClosed(r) == row[r].status # "CLOSED"

IsDraft(r) == row[r].status = "DRAFT"

\* Mutant of Accepted: the issues are collected and not thrown.
AcceptedAnyway(values) == TRUE

\* resolveContractValues and resolveDraftEditValues throw InvalidContractValues
\* when there is an issue.
Accepted(values) == values # None

\* contract_history has one entry for a contract and a revision (unique index).
HasEntry(c, n) == \E e \in history : e.contract = c /\ e.revision = n

\* contract_activation_outbox has one event for an activation (unique index).
HasEvent(t, c, n) ==
  [tenant |-> t, contract |-> c, activationRevision |-> n] \in outbox

\* Mutant of RecordChange: the state before is read after the update.
RecordAfterTwice(r, action, after) ==
  history' = history \cup
    {[contract |-> cmd[r].contract, revision |-> after.revision,
      action |-> action, before |-> Snapshot(after), after |-> Snapshot(after)]}

\* persistHistory; an insert the unique index refuses leaves only Abort.
RecordChange(r, action, after) ==
  /\ ~HasEntry(cmd[r].contract, after.revision)
  /\ history' = history \cup
       {[contract |-> cmd[r].contract, revision |-> after.revision,
         action |-> action, before |-> Snapshot(row[r]),
         after |-> Snapshot(after)]}

\* PutActiveTemplate.execute, createInitial and publishNext.
PublishTemplate(r) ==
  LET t == cmd[r].tenant
      definition == cmd[r].definition
      first == tpl[r] = NoTemplate
      unchanged == ~first /\ versions[tpl[r].active].definition = definition
      current == tpl[r].revision = cmd[r].expected
  IN
  /\ Executing(r, "publish")
  /\ \/ ~current /\ Answer(r, "TemplateRevisionConflict")
     \/ current /\ definition = None /\ Answer(r, "InvalidTemplateDefinition")
     \/ current /\ definition # None /\ unchanged /\ Answer(r, "Unchanged")
     \/ /\ current /\ definition # None /\ ~unchanged
        /\ templates[t].revision = tpl[r].revision
        /\ \E v \in Versions :
             /\ versions[v] = None
             /\ versions' = [versions EXCEPT ![v] =
                               [tenant |-> t, definition |-> definition]]
             /\ templates' = [templates EXCEPT ![t] =
                               [revision |-> tpl[r].revision + 1, active |-> v]]
        /\ Finish(r, IF first THEN "Created" ELSE "Published")
        /\ UNCHANGED <<contracts, history, outbox>>

\* CreateContract.execute and insertContractAndHistory.
CreateContract(r) ==
  LET t == cmd[r].tenant
      values == Resolve[versions[tpl[r].active].definition][cmd[r].input]
      created == [tenant |-> t, version |-> tpl[r].active, status |-> "DRAFT",
                  revision |-> 1, values |-> values]
  IN
  /\ Executing(r, "create")
  /\ \/ ~Accepted(values) /\ Answer(r, "InvalidContractValues")
     \/ /\ Accepted(values)
        /\ \E c \in Contracts :
             /\ Free(c)
             /\ contracts' = [contracts EXCEPT ![c] = created]
             /\ history' = history \cup
                  {[contract |-> c, revision |-> 1, action |-> "CREATED",
                    before |-> None, after |-> Snapshot(created)]}
        /\ Finish(r, "Created")
        /\ UNCHANGED <<templates, versions, outbox>>

\* The columns the three UPDATE statements set, on the row as it is then.
WithValues(c, values, n) == [c EXCEPT !.values = values, !.revision = n]
WithVersion(c, version, values, n) ==
  [c EXCEPT !.version = version, !.values = values, !.revision = n]
WithStatus(c, status, n) == [c EXCEPT !.status = status, !.revision = n]

\* EditDraftValues.execute and persistDraftEdit.
EditDraftValues(r) ==
  LET c == cmd[r].contract
      values == ResolveEdit[versions[row[r].version].definition][cmd[r].input]
      same == row[r].values = values
      next == WithValues(row[r], values, row[r].revision + 1)
  IN
  /\ Executing(r, "edit")
  /\ \/ ~IsCurrent(r) /\ Answer(r, "ContractRevisionConflict")
     \/ IsCurrent(r) /\ ~IsDraft(r) /\ Answer(r, "ContractStatusConflict")
     \/ /\ IsCurrent(r) /\ IsDraft(r) /\ ~Accepted(values)
        /\ Answer(r, "InvalidContractValues")
     \/ /\ IsCurrent(r) /\ IsDraft(r) /\ Accepted(values) /\ same
        /\ Answer(r, "Unchanged")
     \/ /\ IsCurrent(r) /\ IsDraft(r) /\ Accepted(values) /\ ~same
        /\ contracts' = [contracts EXCEPT ![c] =
                          WithValues(@, values, next.revision)]
        /\ RecordChange(r, "EDITED", next)
        /\ Finish(r, "Edited")
        /\ UNCHANGED <<templates, versions, outbox>>

\* Mutant of MigratedValues: resolved under the version the Draft comes from.
ValuesUnderOldVersion(r) ==
  Resolve[versions[row[r].version].definition][cmd[r].input]

\* A migration takes complete replacement values and resolves them under the
\* target version.
MigratedValues(r) ==
  Resolve[versions[cmd[r].target].definition][cmd[r].input]

\* MigrateDraft.execute and persistMigration.
MigrateDraft(r) ==
  LET c == cmd[r].contract
      target == cmd[r].target
      known == versions[target] # None /\ versions[target].tenant = cmd[r].tenant
      allowed == known /\ IsCurrent(r) /\ IsDraft(r) /\ tpl[r].active = target
      values == MigratedValues(r)
      same == row[r].version = target /\ row[r].values = values
      next == WithVersion(row[r], target, values, row[r].revision + 1)
  IN
  /\ Executing(r, "migrate")
  /\ \/ ~known /\ Answer(r, "TemplateVersionNotFound")
     \/ known /\ ~IsCurrent(r) /\ Answer(r, "ContractRevisionConflict")
     \/ /\ known /\ IsCurrent(r) /\ ~IsDraft(r)
        /\ Answer(r, "ContractStatusConflict")
     \/ /\ known /\ IsCurrent(r) /\ IsDraft(r) /\ tpl[r].active # target
        /\ Answer(r, "TemplateVersionNotActive")
     \/ allowed /\ ~Accepted(values) /\ Answer(r, "InvalidContractValues")
     \/ allowed /\ Accepted(values) /\ same /\ Answer(r, "Unchanged")
     \/ /\ allowed /\ Accepted(values) /\ ~same
        /\ contracts' = [contracts EXCEPT ![c] =
                          WithVersion(@, target, values, next.revision)]
        /\ RecordChange(r, "MIGRATED", next)
        /\ Finish(r, "Migrated")
        /\ UNCHANGED <<templates, versions, outbox>>

\* TransitionStatus.activate and persistActivation.
ActivateContract(r) ==
  LET t == cmd[r].tenant
      c == cmd[r].contract
      next == WithStatus(row[r], "ACTIVE", row[r].revision + 1)
  IN
  /\ Executing(r, "activate")
  /\ \/ ~IsCurrent(r) /\ Answer(r, "ContractRevisionConflict")
     \/ IsCurrent(r) /\ ~IsDraft(r) /\ Answer(r, "ContractStatusConflict")
     \/ /\ IsCurrent(r) /\ IsDraft(r)
        /\ ~HasEvent(t, c, next.revision)
        /\ contracts' = [contracts EXCEPT ![c] =
                          WithStatus(@, "ACTIVE", next.revision)]
        /\ RecordChange(r, "ACTIVATED", next)
        /\ outbox' = outbox \cup
             {[tenant |-> t, contract |-> c,
               activationRevision |-> next.revision]}
        /\ Finish(r, "Activated")
        /\ UNCHANGED <<templates, versions>>

\* TransitionStatus.close and persistClosure.
CloseContract(r) ==
  LET c == cmd[r].contract
      active == row[r].status = "ACTIVE"
      next == WithStatus(row[r], "CLOSED", row[r].revision + 1)
  IN
  /\ Executing(r, "close")
  /\ \/ ~IsCurrent(r) /\ Answer(r, "ContractRevisionConflict")
     \/ IsCurrent(r) /\ ~active /\ Answer(r, "ContractStatusConflict")
     \/ /\ IsCurrent(r) /\ active
        /\ contracts' = [contracts EXCEPT ![c] =
                          WithStatus(@, "CLOSED", next.revision)]
        /\ RecordChange(r, "CLOSED", next)
        /\ Finish(r, "Closed")
        /\ UNCHANGED <<templates, versions, outbox>>

Execute(r) ==
  \/ PublishTemplate(r)
  \/ CreateContract(r)
  \/ EditDraftValues(r)
  \/ MigrateDraft(r)
  \/ ActivateContract(r)
  \/ CloseContract(r)

\* The transaction fails at any of its statements: Prisma's timeout, a lost
\* connection, a constraint, the end of the process.  PostgreSQL rolls it back.
Abort(r) == pc[r] # "idle" /\ Answer(r, "InternalError")

-----------------------------------------------------------------------------
Init ==
  /\ templates = [t \in Tenants |-> NoTemplate]
  /\ versions = [v \in Versions |-> None]
  /\ contracts = [c \in Contracts |-> None]
  /\ history = {}
  /\ outbox = {}
  /\ tenantLock = [t \in Tenants |-> None]
  /\ templateLock = [t \in Tenants |-> None]
  /\ contractLock = [c \in Contracts |-> None]
  /\ pc = [r \in Requests |-> "idle"]
  /\ cmd = [r \in Requests |-> None]
  /\ tpl = [r \in Requests |-> NoTemplate]
  /\ row = [r \in Requests |-> None]
  /\ answer = None

Next ==
  \E r \in Requests :
    \/ Receive(r)
    \/ LockTenant(r)
    \/ LockTemplate(r)
    \/ MissTemplate(r)
    \/ SelectContract(r)
    \/ LockContract(r)
    \/ Execute(r)
    \/ Abort(r)

Spec == Init /\ [][Next]_vars

-----------------------------------------------------------------------------
(***************************************************************************)
(* Properties.                                                             *)
(***************************************************************************)

\* Types of the tables, of the locks and of what a request keeps.
TypeOK ==
  /\ templates \in [Tenants -> TemplateRow]
  /\ versions \in [Versions -> VersionRow \cup {None}]
  /\ contracts \in [Contracts -> Row \cup {None}]
  /\ history \subseteq Entries
  /\ outbox \subseteq Events
  /\ tenantLock \in [Tenants -> Requests \cup {None}]
  /\ templateLock \in [Tenants -> Requests \cup {None}]
  /\ contractLock \in [Contracts -> Requests \cup {None}]
  /\ pc \in [Requests -> {"idle", "lockTenant", "lockTemplate",
                          "selectContract", "lockContract", "execute"}]
  /\ cmd \in [Requests -> Command \cup {None}]
  /\ tpl \in [Requests -> TemplateRow]
  /\ row \in [Requests -> Row \cup {None}]

Exists(c) == contracts[c] # None

EntriesOf(c) == {e \in history : e.contract = c}

\* A contract has exactly one entry for every revision from 1 to its current
\* one, and no other.
HistoryIsComplete ==
  /\ \A e \in history : Exists(e.contract)
                         /\ e.revision <= contracts[e.contract].revision
  /\ \A c \in Contracts : Exists(c) =>
       \A n \in 1..contracts[c].revision : HasEntry(c, n)
  /\ \A e, f \in history :
       e.contract = f.contract /\ e.revision = f.revision => e = f

\* The first entry is the creation, every later one starts from the state the
\* one before it left, and the last one left the state the contract row is in.
HistoryIsAChain ==
  /\ \A e \in history : e.after.revision = e.revision
                         /\ (e.revision = 1 <=> e.action = "CREATED")
                         /\ (e.revision = 1 <=> e.before = None)
  /\ \A e, f \in history :
       e.contract = f.contract /\ f.revision = e.revision + 1
         => f.before = e.after
  /\ \A e \in history :
       Exists(e.contract) /\ e.revision = contracts[e.contract].revision
         => e.after = Snapshot(contracts[e.contract])

\* Contract History is complete and a chain.  Two handlers that both believed
\* to write revision n + 1, or one that recorded a row it no longer had, would
\* break it.
HistoryIsWhole == HistoryIsComplete /\ HistoryIsAChain

\* The Outbox has exactly the events of the activations in the History, and a
\* contract has left Draft exactly when it has its one event.
OneEventPerActivation ==
  /\ outbox = {[tenant |-> contracts[e.contract].tenant, contract |-> e.contract,
                activationRevision |-> e.revision] :
                 e \in {f \in history : f.action = "ACTIVATED"}}
  /\ \A c \in Contracts : Exists(c) =>
       (contracts[c].status # "DRAFT"
          <=> \E e \in EntriesOf(c) : e.action = "ACTIVATED")
  /\ \A e, f \in outbox : e.contract = f.contract => e = f

\* What a handler decides on is still what the tables hold when it decides: the
\* locks cover every row it has read.
DecidesOnCurrentRows ==
  \A r \in Requests : pc[r] = "execute" =>
    /\ cmd[r].kind \in {"publish", "create", "migrate"} =>
         tpl[r] = templates[cmd[r].tenant]
    /\ cmd[r].kind \notin {"publish", "create"} =>
         row[r] = contracts[cmd[r].contract]

\* A saved contract always has values its own template version resolves to,
\* whatever was published or migrated meanwhile.
ValuesFitVersion ==
  \A c \in Contracts : Exists(c) =>
    /\ versions[contracts[c].version] # None
    /\ LET d == versions[contracts[c].version].definition IN
       \E i \in Inputs : contracts[c].values \in {Resolve[d][i], ResolveEdit[d][i]}

\* Tenant scope: a contract, its version, its events and the active version of
\* a template belong to one tenant.
TenantScope ==
  /\ \A c \in Contracts : Exists(c) /\ versions[contracts[c].version] # None
       => versions[contracts[c].version].tenant = contracts[c].tenant
  /\ \A t \in Tenants : templates[t] # NoTemplate =>
       /\ templates[t].active # None
       /\ versions[templates[t].active] # None
       /\ versions[templates[t].active].tenant = t
  /\ \A e \in outbox : contracts[e.contract].tenant = e.tenant

\* The row a request would write next would be refused by a unique index or by
\* the conditional update of publishNext.
Refused(r) ==
  IF cmd[r].kind = "publish"
  THEN templates[cmd[r].tenant].revision # tpl[r].revision
  ELSE /\ cmd[r].kind # "create"
       /\ IsCurrent(r)
       /\ \/ HasEntry(cmd[r].contract, cmd[r].expected + 1)
          \/ HasEvent(cmd[r].tenant, cmd[r].contract, cmd[r].expected + 1)

\* The constraints of the schema are a second line of defence that never has to
\* act: no accepted request ends as an internal error because of them.
ConstraintsNeverAct ==
  \A r \in Requests : pc[r] = "execute" => ~Refused(r)

ChangesLawfully(c) ==
  contracts'[c] # contracts[c] =>
    IF contracts[c] = None
    THEN contracts'[c].revision = 1 /\ contracts'[c].status = "DRAFT"
    ELSE LET old == contracts[c]
             new == contracts'[c]
         IN /\ new.revision = old.revision + 1
            /\ <<old.status, new.status>> \in
                 {<<"DRAFT", "DRAFT">>, <<"DRAFT", "ACTIVE">>,
                  <<"ACTIVE", "CLOSED">>}
            /\ new.status # "DRAFT" =>
                 new.values = old.values /\ new.version = old.version
            /\ new.tenant = old.tenant

\* The lifecycle: a contract changes by one revision at a time, goes from Draft
\* to Active to Closed and nowhere else, and keeps its values and its version
\* as soon as it is no Draft, although five handlers write its row.
Lifecycle == [][\A c \in Contracts : ChangesLawfully(c)]_contracts

BindsTheActiveVersion(c) ==
  /\ contracts'[c] # None
  /\ contracts[c] = None \/ contracts[c].version # contracts'[c].version
  => contracts'[c].version = templates'[contracts'[c].tenant].active

\* A contract is only ever bound to the version that is its tenant's active one
\* at the moment of the commit, by its creation as by a migration, although
\* publications run at the same time.
BoundToActiveVersion == [][\A c \in Contracts : BindsTheActiveVersion(c)]_contracts

\* An answer is true when it is given: what a conflict tells the client is the
\* case in the tables at the end of the transaction.
AnswersAreTrue ==
  [][answer' # None =>
       LET k == cmd[answer'.to] IN
         /\ answer'.is = "ContractRevisionConflict" =>
              contracts[k.contract].revision # k.expected
         /\ answer'.is = "ContractStatusConflict" =>
              /\ contracts[k.contract].revision = k.expected
              /\ contracts[k.contract].status #
                   (IF k.kind = "close" THEN "ACTIVE" ELSE "DRAFT")
         /\ answer'.is = "TemplateVersionNotActive" =>
              templates[k.tenant].active # k.target
         /\ answer'.is = "TemplateRevisionConflict" =>
              templates[k.tenant].revision # k.expected
         /\ answer'.is = "ActiveTemplateRequired" =>
              templates[k.tenant] = NoTemplate]_answer

ChangesItsOwn(r) ==
  pc[r] = "execute" /\ pc'[r] = "idle" =>
    \A c \in Contracts : contracts'[c] # contracts[c] =>
      /\ contracts'[c].tenant = cmd[r].tenant
      /\ contracts[c] # None => contracts[c].tenant = cmd[r].tenant

\* A request only changes contracts of its own tenant, whatever identifiers it
\* names.
ForeignContractsUntouched ==
  [][\A r \in Requests : ChangesItsOwn(r)]_<<pc, contracts>>

\* The states a contract has had according to its History, in the order of
\* their revisions.
StatesOf(c) ==
  [n \in 1..(IF Exists(c) THEN contracts[c].revision ELSE 0) |->
     (CHOOSE e \in history : e.contract = c /\ e.revision = n).after]

Ledger == INSTANCE ContractLedger WITH
  Accepts <- [d \in Definitions |->
               ({Resolve[d][i] : i \in Inputs} \cup
               {ResolveEdit[d][i] : i \in Inputs}) \ {None}],
  published <- [v \in Versions |->
                 IF versions[v] = None THEN None ELSE versions[v].definition],
  current <- [t \in Tenants |-> templates[t].active],
  owner <- [c \in Contracts |->
             IF Exists(c) THEN contracts[c].tenant ELSE None],
  ledger <- [c \in Contracts |-> StatesOf(c)],
  announced <- {<<e.tenant, e.contract, e.activationRevision>> : e \in outbox}

\* Whatever the interleaving of statements, waits, commits and aborts, the
\* tables behave like a ledger on which every accepted request acts at once.
ImplementsLedger == Ledger!Spec

\* README: "Missing and foreign-Tenant identifiers" get CONTRACT_NOT_FOUND, and
\* "a stale revision returns 409 CONTRACT_REVISION_CONFLICT": an own contract
\* that exists is never reported as missing.
NotFoundMeansMissing ==
  [][answer' # None /\ answer'.is = "ContractNotFound" =>
       LET k == cmd[answer'.to] IN
       contracts[k.contract] = None \/ contracts[k.contract].tenant # k.tenant
    ]_answer

\* Every request is answered, without the help of a timeout: the locks are
\* always taken in the order tenant, template, contract, and always released.
EveryRequestIsAnswered ==
  \A r \in Requests : pc[r] # "idle" ~> pc[r] = "idle"

=============================================================================
