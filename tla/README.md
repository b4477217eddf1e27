# Verification of Commandix

TLA+ specifications of the Commandix contract workspace, the TLC runs that check
them on small instances, and TLAPS proofs, for every instance, of the safety
properties of every component that is modelled.  Paths below are relative to the repository.

1. [The system](#the-system)
2. [Modules and code](#modules-and-code)
3. [Runs, bounds and fairness](#runs-bounds-and-fairness)
4. [Disagreements found](#disagreements-found)
5. [Proofs](#proofs)
6. [What is not modelled](#what-is-not-modelled)
7. [Plan](#plan)

## The system

Commandix is a multi-tenant contract workspace.  A NestJS **API** keeps templates,
contracts and their history in PostgreSQL.  A **worker** process moves activation
events from an Outbox table to RabbitMQ and consumes them again into a
notification log.  A React **web** application talks to the API with short-lived
access tokens and with a refresh credential in a cookie that rotates.

| Component | State it keeps | Operations | What makes it correct |
|---|---|---|---|
| Contract writes (`apps/api/src/modules/contract`) | `logical_templates`, `template_versions`, `contracts`, `contract_history`, `contract_activation_outbox` | publish a template, create, edit, migrate, activate, close | one history entry for each revision and one event for each activation; Draft → Active → Closed only; bindings to the active version only; tenants stay apart; refusals are true; nobody waits for ever |
| Contract reads (same module) | none | detail, history, active template, register | what is shown was committed; a timeline has no gap; a revision names one content; pages neither skip nor repeat |
| Values and definitions (`contract-values.ts`, `template-definition.ts`, `contract-values-form.tsx`) | none | make canonical, compare, resolve, fill a form, send it | what is accepted fits the definition; a default fills in for an omitted value only; saving an unchanged form changes nothing; an unchanged publication is really unchanged |
| Outbox publisher (`apps/worker/src/modules/outbox`) | rows of the Outbox, its batch, the confirm channel | poll, reserve, publish, confirm, mark, record a failure | marked means routed; every copy was counted; every event is published in the end |
| Notification consumer (`apps/worker/src/modules/notification`) | `notification_logs`, deliveries in progress | parse, record, resolve a duplicate, ack, reject, replay | one sound row per event; no message lost; acked means recorded; every message settled |
| Refresh sessions (`apps/api/src/modules/auth`) | `refresh_sessions`, `refresh_credentials` | sign in, rotate, revoke | a chain of credentials never forks; a second use ends the session and no other one |
| Browser session (`apps/web/src/shared/api/browser-session.ts`) | access token, refresh in flight | sign in, restore, request with one retry, sign out | one refresh for all refused requests; no command executed twice; requests are made as the user that is shown; everybody who waits is served |
| Browser pages (`apps/web/src/contract-detail.tsx`, `contract-creation-form.tsx`, `contract-register.tsx` and others) | the contract or the page of the register shown, the forms, the notices | load, edit, transition, create, walk over pages, reload after a conflict, navigate | notices are true; buttons come back; an edit replaces what its user has seen; the page shown is the page of the address |
| Onboarding and seed (`apps/api/src/modules/tenant`, `apps/api/src/bootstrap/seed*.ts`) | `tenants`, `users`, templates | onboard a tenant, seed two workspaces | rerunning is safe at any point and beside anything |
| Bootstrap, health, schema, deployment | — | — | see [What is not modelled](#what-is-not-modelled) |

**How they interact.**  Writers, readers, the seed and the publisher share the tables of
PostgreSQL.  Publisher and consumer share a queue of RabbitMQ and one process.  The
consumer reads contracts the API wrote.  Browser and API exchange requests whose
answers may be late or lost; the tabs of a browser share its cookie.  A page uses a
browser session, and both go on with other things at every `await`.

**What is hard.**  Statements of concurrent transactions interleave at READ
COMMITTED: each has a snapshot of its own, locking statements wait and then look
again.  A transaction may fail at any statement.  The worker may die between any two
awaits; answers of the broker arrive after a timeout, on a channel that is closed, or
for an earlier attempt.  Messages are duplicated by redelivery, by a retry and by
operators.  The seed is no transaction and may end, or run twice, at any of its
statements.  A walk over the register goes on while contracts are created.  A page's functions resume after the user has gone elsewhere.
`PROJECT.json` lists these hazards line by line with the properties aimed at them.

## Modules and code

| Module | Models | Uses |
|---|---|---|
| `ContractWorkspace` | the six transactions that write contracts and templates | |
| `ContractLedger` | what they promise together: the abstract specification | |
| `ContractReads` | detail, history and active template, read while others write | extends `ContractWorkspace` |
| `ContractWorkspaceProofs` | theorems about `ContractWorkspace` and `ContractReads`, and the proof that the first implements `ContractLedger` | extends `ContractReads` |
| `WorkspaceSeeding` | onboarding and the seed, beside the requests | extends `ContractWorkspace` |
| `WorkspaceSeedingProofs` | theorems about `WorkspaceSeeding` | extends it |
| `ContractValues` | definitions, values, the form they are typed into: pure operators | |
| `WorkspaceHome` | register and creation form of the workspace, while others publish and create | extends `ContractValues` |
| `WorkspaceHomeProofs` | theorems about `ContractValues` and `WorkspaceHome` | extends `WorkspaceHome` |
| `ActivationOutbox` | the publisher of the worker and the broker's answers | |
| `NotificationConsumer` | the consumer of the worker, dead letters, the replay | |
| `NotificationConsumerProofs` | theorems about `NotificationConsumer` | extends it |
| `ActivationDelivery` | publisher and consumer in one process | instantiates both |
| `ActivationDeliveryProofs` | theorems about `ActivationDelivery` | extends it, instantiates `NotificationConsumerProofs` |
| `RefreshSession` | the transactions on refresh sessions | |
| `RefreshSessionProofs` | theorems about `RefreshSession` | extends it |
| `BrowserSession` | a tab's tokens, its user, refresh and requests | |
| `BrowserSessionProofs` | theorems about `BrowserSession` | extends it |
| `ContractDetailPage` | the detail page of an Admin | |
| `ContractDetailPageProofs` | theorems about `ContractDetailPage` | extends it |

Each `MC…` module gives one of them its instances; `ActivationOutbox` is run inside
`ActivationDelivery`, `ContractValues` inside `WorkspaceHome`.

**ContractWorkspace.**  A request is a slot with a statement counter `pc`, its
command, and the rows it has read.  One action stands for each statement that locks
or can wait (`LockTenant`, `LockTemplate`, `SelectContract`, `LockContract`), and one
for the decision of the handler with its writes and its commit (`PublishTemplate`,
`CreateContract`, `EditDraftValues`, `MigrateDraft`, `ActivateContract`,
`CloseContract`): before the commit nobody else sees those writes, and the locks are
held until then.  `Abort` is any failure in between.  `SelectContract` and
`LockContract` are the two halves of the `SELECT … FOR UPDATE OF c` of
`findLockedContract`: the search with the statement's snapshot, and the new look at
the row after a wait.  Values are abstract; `Resolve` and `ResolveEdit` are
constants that stand for the resolution of a body under a definition.  An
identifier that is never issued (`Unissued`) lets clients name contracts that do not
exist.

**ContractLedger** knows no locks, no requests and no history table.  It has, for
each contract, the sequence of the states it was in, and for each activation an
announcement; publications, creations and changes act on it at once.
`ImplementsLedger` maps the tables to it: a contract's ledger is the `after`
snapshots of its history entries.

**ContractReads** adds readers that take no lock: each statement of a read is an
action, and the writers' actions come in between.  The detail and the template are two
statements (the row, then the relation), the history is three in one transaction,
which at READ COMMITTED do not share a snapshot.

**WorkspaceSeeding** adds tenants and users, the onboarding (one transaction) and the
runs of the seed.  A run has a position in its two loops; `FindTenant`,
`CreateTenant`, `HasUser`, `CreateUser`, `FindTemplate` and `CreateTemplate` are the
statements of `PrismaSeedWorkspaceRepository`, `SeedFails` is a failure or the end of the process
at any of them, `Start` runs the script, also again.  `CreateTemplate` waits for nothing: the
unique key of `logical_templates` is all that keeps it from a template that another seed
or a publication has made since, and the code does not catch its error, so the run fails
and has to be repeated.  A publication may lose the same race, fails then with an internal
error (`Conflict`), and its repetition finds the template: `ConstraintsNeverAct` holds
among requests, not beside a seed.

**ContractValues** is about data, so a value is its JavaScript type with its text, a
definition a sequence of fields, and a body a function of keys.  `-0`, `NaN`, a blank text, an
empty input, a key that is unknown and one that is named twice are kept; `Trim`, `Number` and the calendar are
given by constants, length limits by the sets the texts are taken from.

**WorkspaceHome** has a component of the page in a variable each: the creation form
(`load`, `creation`) and the register (`register`, with the requests under way, of which
only the latest is `active`).  `address` changes at once when the user goes somewhere, and
`asked` follows when the effect runs (`EffectRuns`): in between the old page is rendered under the
new address, and may be clicked or answered.  The API answers each request in
one step.  `createdAt` is any of `Times`, since processes have clocks of their own
and identifiers are random.  A cursor is the boundary it encodes; the limit 0
stands for every address the parser refuses.

**ActivationOutbox.**  `loop` is where `publishPending` is; `batch` holds the rows it
has read.  The channel has the publishes under way in `wire` and the answers under way
in `replies`; when it is lost, what was on it may or may not reach the broker
(`orphans`).  A row's `due` is whether its `nextAttemptAt` has passed.  `Rank` is the
order of the events by `occurredAt` and `eventId`, by which `findDue` sorts: it is fixed
by the API's clock before the commit, so a row may come after one that it precedes.

**NotificationConsumer.**  A handler is a delivery in progress: parse, look for the
contract, insert, resolve a duplicate, ack; or reject.  `live` is whether the
connection its delivery came with is still there.  Counts of copies (`queue`,
`acked`, `dlq`, `routed`) make loss and duplication visible.

**ActivationDelivery** identifies the two queues, gives messages the fields
`publish` really sends, and lets both halves stop together.

**RefreshSession.**  A request locates the session of its selector, locks it, reads
again and decides, as `rotate` and `revoke` of `PrismaRefreshSessionRepository` do.
The clock is read when the request arrives, before it waits for the lock, so a refresh that was
received before the deadline may commit after it; a request received later is refused.

**BrowserSession.**  `call` holds the runs of `requestJson` (first try, waiting for
the refresh, second try), `refresh` the request behind `refreshInFlight`, `signIn`
and `signOut` theirs, and `identity` is whom the workspace shows.  A request takes the cookie along when it is sent and changes it
when it is answered.  The API's part is one step for each request, since
`RefreshSession` has shown its transactions to be atomic; it may also answer with an error, a call
with its effect or without.

**ContractDetailPage.**  The states of the component are variables; a call of
`submitEdit`, `transition` or `reloadAfterConflict` in progress keeps what it captured
from its render.  `Elsewhere` is another Admin.  A new address and the effect that loads its contract are one
step: what the page does in between reads the old contract only, and could as well come before.

`PROJECT.json` maps each definition to the lines it stands for.  Definitions called
“Mutant of …” are deliberate bugs: each property has one that breaks it.

## Runs, bounds and fairness

| Run | Shows | Instance |
|---|---|---|
| `workspace_pair` | types, history, Outbox, bindings, lifecycle, answers, constraints, refinement of the ledger | 2 requests, 1 tenant, 1 contract and an identifier never issued, 2 versions, 2 definitions, revisions expected up to 3 |
| `workspace_live` | every request is answered; the seed is safe to rerun | 2 tenants, which are the seed's workspaces, 2 runs of the seed that start again without limit, 2 users; 3 requests of one tenant, one command for each order of locks |
| `reads_safe` | reads between commits; tenants never see or reach each other's rows | 2 tenants, 1 writer, 1 reader, all reads, 3 versions |
| `consumer` | nothing lost, evidence sound, every copy settled | 2 handlers; a duplicate, a premature one that reuses an identifier, a foreign and a malformed message; 1 fault |
| `delivery_live` | every copy is reserved, marks are final, what is marked is kept, every activation arrives | 2 events in one batch, 1 handler, 2 faults |
| `refresh_safe` | chains, reuse, what a successor is issued for, what ends a session | 2 sessions, 3 credentials, 2 requests, time 0..1 |
| `browser_live` | shared refresh, single execution, the user shown, everything ends | 1 tab, a call of a page and the identity, 2 sessions, 1 rotation of each, 1 loss |
| `page_live` | notices are true, submissions settle | 1 contract in any status, 2 functions in progress, one change of the contract |
| `home` | values, forms and definitions; pages of the register, creation, everything settles | 16 definitions of up to 2 fields, 9 values in bodies of up to 2 keys; 4 definitions published up to twice; 3 contracts in 2 milliseconds, pages of 1 or 2, one visit by other ways than a button |
| `workspace_not_found`, `delivery_notified`, `page_lost` | [disagreements](#disagreements-found) | |

**Why the bounds are enough.**  Row locks make any conflict a matter of two
requests on one contract, and of three for a cycle of waits: tenant, template and
contract are the three locks.  Three expected revisions reach Closed
(create, activate, close) and a stale expectation in each state.  Two definitions
that accept different bodies, and resolve a shared one differently, tell a resolution
under the wrong version apart.  Two events and two copies are what it takes for one
event's answer to be taken for another's and for a duplicate; a fault in an
attempt and one in its repetition are two.  Concurrent handlers are the matter of `consumer`.  Two
sessions tell a revocation of the right one from one of all.  Two requests of a tab, of which one waits
while the other is refused, are what sharing is about; with two sessions the tab can
restore the one, sign out and sign in to the other while answers of the first are still to come.
One rotation lets a call wait for a refresh that succeeds and for one that fails, and a credential be presented
again after its successor was issued; the three safety properties are proved for any number.  The late refusal of a page can show the form
while a sign-in is under way; a second sign-in beside the first is left out (the guard of `SignIn`).
Two tenants and two users let a seed end between any two records of one kind; two runs of it
race for each of them, with an onboarding and a publication in between.  Beside a seed at most one
request is in progress and it is a publication, since a seed shares nothing with requests but the
template; when every seed has completed there are three.  Three contracts, two of them
of one millisecond, and a page of one are what it takes for a boundary among equals and
for a creation that comes between two pages.  The
three properties about definitions are evaluated for all of them in the initial states.
A behaviour of `home` has the form or the register: nothing passes between them but rows, which
colleagues insert as the form would.  On the page one change of the contract, by the page or by another Admin, is enough for a conflict, for its
reload and for each notice, since the contract starts in any status; `page_lost` has two.
Actions that would leave the bounds are disabled by a guard that names the bound
(`MaxFaults`, `MaxCopies`, `MaxRevision`, `MaxLosses`, `MaxGeneration`, `MaxTime`,
`MaxVisits`, `MaxVersions`, `OwnIds`, `IdentifierLeft`); a refresh that has no generation left in the model may still fail, as any refresh may, so
no property of liveness is stopped by a bound.  Symmetry is used in safety runs only, for
slots and identifiers nothing distinguishes.

Deadlock is checked except where the system may rest: a worker with no event and a
broker with no message, a browser whose user does nothing.

**Fairness.**  `WorkspaceSeeding`: weak fairness of the steps of a request, since
PostgreSQL runs an unblocked statement; strong
fairness of its locks, since the queue of waiters of a row is first come, first served.  A seed needs
none: it may stop anywhere.
`ActivationDelivery`: weak fairness of the publisher's loop, of the broker's answers, of the
delay of an attempt, of the handlers, and of delivery: RabbitMQ delivers something as long as
it has messages and a handler is free.  `NotificationConsumer`: the last two.  Copies and faults are
finite and faults are not fair.  In the browser the API answers or the
request fails, and the event loop resumes who was answered (`BrowserSession`, `ContractDetailPage`,
`WorkspaceHome`; in the last one only for the request of the register that is still active, since the others change
nothing, and for the effect of a new address, which React runs after the rendering).  No user's click, no
arrival of a request and no failure is fair.

## Disagreements found

Each is a run that TLC ends with a counterexample.

- **`delivery_notified`** — `rabbitmq-contract-event.publisher.ts:29` spreads the row
  it read, `attemptCount` included, into the event's data; the consumer's parser
  wants exactly eight fields (README.md:384) and rejects it.  No event of the Outbox
  is ever recorded; all of them end in the dead-letter queue.
- **`workspace_not_found`** — a transition that waits for a migration of its Draft is
  told `404` although the contract is there (README.md:285, 288): the locking join
  is looked at again with the new contract row and the old version row.
- **`page_lost`** — an edit that is begun while a transition's conflict is being
  reloaded sends old values with the new revision and replaces another Admin's edit
  without a conflict (README.md:306).

Six more behaviours are in the models, where no document excludes them, and limit what the
properties say:

- The statements of one history read have different snapshots, so the contract shown
  with a history may be older than its last entry.  `TimelineIsWhole` asks for the
  entries up to the revision shown.
- With two contracts `SuccessIsTrue` fails: the page stays mounted when the user jumps in
  the browser's history to another contract, and the answer of a transition still
  under way sets its notice over the contract loaded since (`contract-detail.tsx:341`).  `page_live` has one
  contract.
- A refresh that is answered after the sign-out sets the tab's access token again
  (`browser-session.ts:91`), also when another user has signed in since.  The same can be reached without a
  sign-out: a call that is refused twice shows the form while the refresh of another call is under
  way.  `ActsAsShown` therefore leaves a tab out once a sign-in has overtaken a request or a refresh of the
  user before (`crossed`).  It speaks of one tab: the sign-in of another one changes the cookie both
  share, and the next refresh brings this tab that user's token.
- A refresh reads its time before it waits for the lock of the session (`refresh-session.service.ts` passes it
  to `rotate`), so one that was received in time succeeds although the session's time is over when it
  commits.  Its successor is refused whenever it is presented, since that is after the deadline; the access
  token that comes with it lives its minutes.  `SuccessorsAreEarned` judges the deadline by the receipt, and everything else at the commit.
- A creation whose answer is lost is reported as failed, and its repetition makes a second
  Draft.  `SavedIsStored` is about what is reported as saved.
- A seed that loses the race for a template fails, and so does a first publication that
  loses it.  README.md:34 promises that the seed is safe to rerun, not that a
  run succeeds; `SafeToRerun` says what a run that reports its completion has achieved.

## Proofs

Each theorem holds for every value of the constants that satisfies the assumptions of its
module; TLC evaluates these in every run.  “Invariant” is the inductive strengthening the
theorems rest on: TLC checked it in the instance of the component's run before it was
proved, with the number of states given.

| Module | Theorem | States |
|---|---|---|
| `ContractWorkspaceProofs` | `InductiveInvariant`, `TypeCorrect` | the invariant `IInv`, `TypeOK` |
| | `HandlersDecideOnCurrentRows` | `DecidesOnCurrentRows` |
| | `TenantsStayApart`, `TenantsChangeTheirOwn` | `TenantScope`; `ForeignContractsUntouched`, which no run repeats |
| | `LifecycleHolds`, `BindingsAreActive` | `Lifecycle`, `BoundToActiveVersion` |
| | `HistoryStaysWhole`, `ActivationsAreAnnounced` | `HistoryIsWhole`, `OneEventPerActivation` |
| | `ConstraintsAreSpare`, `ValuesFollowTheirVersion` | `ConstraintsNeverAct`, `ValuesFitVersion` |
| | `AnswersTellTheTruth` | `AnswersAreTrue` |
| | `WorkspaceIsALedger` | `ImplementsLedger`: the refinement |
| | `ReadsStayTrue` | the invariant `ReadInv` (1,167,461 states) |
| | `HistoriesAreWhole`, `RevisionsNameContents` | `TimelineIsWhole`, `RevisionNamesContents` |
| `WorkspaceSeedingProofs` | `PlacesTellTheTruth`, `SeedIsSafeToRerun` | the invariant `SeedInv` (78,721 states), `SafeToRerun` |
| `RefreshSessionProofs` | `SessionInvariant` | the invariant `IInv` (537,472 states) |
| | `ChainStaysLinear`, `ReuseEndsTheSession` | `ChainIsLinear`, `SecondUseRevokes` |
| | `RefreshesAreEarned`, `SessionsEndByTheirOwn` | `SuccessorsAreEarned`, `SessionsEndForAReason` |
| `NotificationConsumerProofs` | `ConsumerInvariant` | the invariant `IInv` (116,715 states) |
| | `CopiesBalance`, `AcknowledgedIsRecorded`, `EvidenceStaysSound` | `NothingIsLost`, `AckedIsRecorded`, `EvidenceIsSound` |
| `ActivationDeliveryProofs` | `DeliveryInvariant` | the invariant `IInv` (295,845 states) |
| | `CopiesAreReserved`, `MarkedRowsStay`, `MarkedCopiesAreKept` | `EveryCopyIsReserved`, `MarksAreFinal`, `MarkedIsKept` |
| `BrowserSessionProofs` | `BrowserInvariant` | the invariant `IInv` (1,092,656 states with one tab and 2 rotations; 132,835 with two that only ask for the identity) |
| | `CallsAreExecutedOnce`, `ReusesNeedALoss`, `TabsActAsShown` | `CallsExecuteOnce`, `ReuseNeedsALoss`, `ActsAsShown` |
| `WorkspaceHomeProofs` | `BodiesResolveToOverlays`, `UntouchedFormsAreKept`, `EqualDefinitionsAreReordered` | `ResolvesToOverlay`, `UntouchedEditKeepsValues`, `UnchangedIsReordered` |
| | `ListInvariant`, `FormInvariant` | the invariants `ListInv` and `FormInv` (257,212 states) |
| | `PagesAreOfTheirAddress`, `WalksShowEachOnce`, `SavedDraftsAreStored` | `PageIsOfAddress`, `PagesWalkOnce`, `SavedIsStored` |
| `ContractDetailPageProofs` | `PageIsTyped` | the parts of the invariant `PageInv` that hold of any number of contracts |
| | `SuccessNoticesAreTrue`, `NoticesOfOneContract` | `SuccessIsTrue`, of any number of contracts under a condition, of one without (`PageInv`: 134,559 states with one, 3,165,296 with two, of which those beyond the condition are not gone on from) |

**Assumptions.**  The resolutions map definitions and bodies to values or `None`, and clients
send commands (`ResolutionAssumption`, `CommandsAssumption`); the seed's lists of workspaces and
staff are lists and not empty, as those of `seed.ts` (`SeedingAssumption`); a message has exactly
the fields an envelope has, and there are finitely many handlers, which the prefetch bounds
(`MessagesAssumption`); an envelope names its event, and no two events have the same place in the
order, since `eventId` breaks ties (`OutboxAssumption`, `DeliveryAssumption`); definitions, bodies and
defaults are of the types JSON gives them, trimming twice is trimming once, and JavaScript reads a finite number
back from the text it writes of it (`ValuesAssumption`, `OffersAssumption`); an input of a type holds
what its element admits (`InputsAssumption`); there is something to publish, identifiers of contracts are
finitely many and times are numbers (`HomeAssumption`); bounds are numbers; and `None` is none of the values it stands beside (in all of them).

**Writes.**  None of the properties is inductive: that a handler decides on
current rows depends on the locks it took two statements before.  `IInv` is
`TypeOK /\ TablesFit /\ RequestsFit`.  `TablesFit` says what the tables owe each other
(a template's active version exists and is its tenant's; so is a contract's;
events belong to their contract's tenant).  `RequestsFit` says, for each request and
each value of its `pc`, which locks it holds and that every row it has read under
a lock is the committed one.  The proof has one lemma for each statement
(`LockTemplateKeepsIInv`, `LockContractKeepsIInv`, …).  For the six committing
actions it first reduces the action to what it does to the tables
(`PublicationCommitted`, `CreationCommitted`, `ChangeCommitted`) and then shows once
for each of these shapes that `IInv` is kept.  That no other request is
disturbed follows from mutual exclusion: a row a request has read is locked by it, so
the row that is being written is not one of them (`OthersKeepTheirReads`).
The action properties follow from `IInv` and the three shapes; so does `AnswersAreTrue`, as a
refusal is given under the locks that make what it says true: a conflict of revisions, a wrong state, an active
template that is missing.  It does not speak of the contract that is said not to be there, which
`workspace_not_found` shows to be false at times.  That the writes of a handler take effect together is
PostgreSQL's part and one step here, so no property tells a partial write apart.  The history
needs a second strengthening, `HistoryInv`: complete and a chain together, since the
`before` of a new entry is the row that is replaced, which is the `after` of the latest
entry only if there is one.  The Outbox rests on `HistoryInv`: an event is there
exactly when the history has an `ACTIVATED` entry.

**The refinement.**  Under the mapping a contract's ledger is the sequence of the snapshots in its
history.  `LedgerInv` adds to `HistoryInv` that this sequence has as many states as the contract
has revisions and that the last one is the row.  Then each commit is one step of the ledger
(`PublicationPublishes`, `CreationCreates`, `DraftIsRewritten`, `ActivationActivates`,
`ClosureCloses`), and every other statement leaves the mapped state alone.

**Reads.**  A reader holds no lock, so nothing it has seen need still be the case.  What saves it is that
commits never take anything back: `ReadInv` says of each statement's result which part of
the tables it still describes, now and later (entries up to a revision, a version that stays as it is, contents that
had their revision first).

**The seed.**  `SeedInv` reads a run's position: all workspaces before it are whole, and in
its own one there is what it has ensured so far.  No step of anybody removes a record, which is the one
lemma the interleaving with requests needs (`RecordsStay`).  `SafeToRerun` is proved
of `LiveSeeding`, the specification of its run; the proof uses no fairness.

**Refresh sessions.**  The deciding part is what a request knows after it has the lock of a session: the credential
read before is read again, and stays as it is until the commit.  The chain itself is part of the
invariant: without it a request could not tell that the successor it inserts is the first.
`SessionsEndByTheirOwn` says of a session that ends that the request that ends it is a sign-out with one of its credentials,
or a refresh, received in time, whose credential was consumed: a first use never ends one.

**The consumer.**  `NothingIsLost` is inductive but for what a handler holds, which is a cardinality; the lemmas
`OneMoreHeld`, `OneLessHeld` and `NothingHeld` are all the counting there is.  The other two need that a
handler has checked its message before it inserts and acknowledges nothing it has not found in the log.
`EvidenceStaysSound` is about the contract, its tenant and how far it has got, not about the history entry of the
activation, which the consumer never looks at.

**The delivery.**  Its invariant is that of the consumer and one of the publisher; the lemmas about the
consumer's steps are used as they are, for the instance.  The publisher's has four ideas.  `BatchFits`: what it read is pending and, except for the attempt being
worked on, counts as many attempts as the table.  `CopiesFit`: copies in the queue or beyond, on the wire and in
the hands of nobody are together no more than the attempts made, so an acknowledgement
that is late cannot be taken for one of an attempt yet to be made.  `AcksAreTrue`:
an acknowledgement among the answers still to come is preceded by a return, or the message is
routed.  `MarksFit`: what is marked was routed.  The theorem that ties both halves together is `MarkedIsKept`:
a marked event was routed, and no routed copy is lost.

**The browser.**  `TabsInv` holds for any number of tabs: what each holds is what the API issued, and
a call is sent again only after the first try was refused.  `NothingReused` is about a single tab: its cookie is the good
credential except while its refresh or its sign-in is under way.  `UserIsShown`, too: all a tab has in hand that is not
`crossed` belongs to one session, whose user it shows.

**The values.**  `Sound` says what is left of a definition when it is published: no two fields with one key, an
enumeration with distinct options, defaults that fit and are canonical; every accepted definition is sound.  Bodies
then resolve field by field (`FilledIsOverlay`), and what is resolved fits, is stored as it is and survives the
way through the texts of the form (`UntouchedIsSent`).  That two equal definitions can be rearranged into each other
needs a bijection between their fields and one between the options of each enumeration (`SameElements`,
`MatchedIsReordering`).  These theorems are about all definitions in `Candidates` and all bodies in `Bodies`, which
are any sets of them.

**The register.**  `Older` is a strict total order of the boundaries, for identifiers are distinct where times are not
(`OlderIsOrder`), so each page is a descending interval of the rows and the boundary that follows is its last row
(`PageIsSound`).  `ListInv` says that the walk as a whole is such an interval too.  What
makes it inductive is `CoverInv`: the page that may go on with the walk was read with every row in sight that the walk still
owes, although rows have been created since the page before; it holds because rows are never removed.  `RequestsInv`
is the cleanup of the effect: the one active request asks for the page the effect last ran for.

**The creation form.**  `FormInv` ties the form to the version it was loaded for, what was sent to what the form still
shows, and the contract that was saved to both.  Another version may become active between loading and saving, and
again between saving and the notice; that what was typed is still stored rests on `CreatedIsStored`: a body serialized
under one sound definition and accepted by another keeps each value that was sent.  `FormInv` uses `ListInv` for
the types of the rows.

**The page.**  The answer of success to a transition comes after the contract got to its target, and no contract
goes back (`SuccessesAreMade`); a notice of success is set by such an answer.  That the answer is about the contract
that is *shown* needs that no function is in progress on the page of a contract other than its own
(`NoCallIsOutlived`): with that condition the contract shown is the one of the address (`PageIsAddressed`), and the theorem is
about any number of contracts; on the page of a single contract the condition is an invariant.  Without it the
property is false ([why](#disagreements-found)).

**Only model-checked**: the liveness properties (`EveryRequestIsAnswered`, `EveryMessageIsSettled`,
`EveryActivationArrives`, `CallsSettle`, `SubmissionsSettle`, `HomeSettles`), since
liveness needs `ENABLED`, which is out of the prover's reach.  Every invariant and every action property a passing run checks is
stated by a theorem.

## What is not modelled

- **Sign-in**: the password hash and the token's signature are stateless; a sign-in
  appears as the rows it inserts.  The expiry of access tokens is in `BrowserSession`.
- **The history page** loads and shows; what it is answered is in `ContractReads`.
- **Texts**: the patterns of keys, slugs and emails, length limits, the encoding of cursors
  and of dates.  A text is taken from a set of those that pass, or is one that does not.
- **Inside a request of `WorkspaceHome`** nothing interleaves: a page of the register is one
  statement, and the statements of a creation are those of `ContractWorkspace`.
- **Users beyond their email**: the role and the password hash of a user that exists are not
  touched by the seed or the onboarding (they only insert), and nothing else reads them here.
- **Numbers of records in the report of a seed**: logging.
- **Cleanup of expired refresh sessions, check constraints, cascades**: no code under `src/`
  runs against them while requests are served.
- **Bootstrap, configuration, health, logging, nginx, Compose, scripts**: wiring.
- **Transaction timeouts** of Prisma are an `Abort` at any statement.
- The revision column is a 32-bit integer in the database and a natural number here:
  two thousand million changes of one contract are out of range.

## Plan

All modules above are written, and each safety property is proved.  What is left:

- A second tab in the runs of `BrowserSession`, with what it costs: the reuse of one credential by two
  tabs.  `TabsInv` is proved for any number of them.
