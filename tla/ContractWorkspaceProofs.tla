----------------------- MODULE ContractWorkspaceProofs -----------------------
(***************************************************************************)
(* What holds of ContractWorkspace and of ContractReads for any number of  *)
(* requests, readers, tenants, contracts and versions.                     *)
(*                                                                         *)
(* First the invariant of the tables and of the locks, then the refinement *)
(* of ContractLedger, then what the reads may answer.                      *)
(***************************************************************************)
EXTENDS ContractReads, SequenceTheorems, TLAPS

OnContract(k) == k.kind \in {"edit", "migrate", "activate", "close"}

\* The part of TypeOK about the tables.
DbType ==
  /\ templates \in [Tenants -> TemplateRow]
  /\ versions \in [Versions -> VersionRow \cup {None}]
  /\ contracts \in [Contracts -> Row \cup {None}]
  /\ history \subseteq Entries
  /\ outbox \subseteq Events

\* The part of TypeOK about locks and requests.
SessionType ==
  /\ tenantLock \in [Tenants -> Requests \cup {None}]
  /\ templateLock \in [Tenants -> Requests \cup {None}]
  /\ contractLock \in [Contracts -> Requests \cup {None}]
  /\ pc \in [Requests -> {"idle", "lockTenant", "lockTemplate",
                          "selectContract", "lockContract", "execute"}]
  /\ cmd \in [Requests -> Command \cup {None}]
  /\ tpl \in [Requests -> TemplateRow]
  /\ row \in [Requests -> Row \cup {None}]

\* A row of logical_templates refers to a version of its tenant.
TemplateFits(t) ==
  templates[t] = NoTemplate
    \/ /\ templates[t].revision > 0
       /\ templates[t].active \in Versions
       /\ versions[templates[t].active] # None
       /\ versions[templates[t].active].tenant = t

\* A contract refers to a version of its tenant, which has a template.
ContractFits(c) ==
  contracts[c] # None =>
    /\ c \notin Unissued
    /\ versions[contracts[c].version] # None
    /\ versions[contracts[c].version].tenant = contracts[c].tenant
    /\ templates[contracts[c].tenant] # NoTemplate

TablesFit ==
  /\ \A t \in Tenants : TemplateFits(t)
  /\ \A c \in Contracts : ContractFits(c)
  /\ \A e \in outbox : /\ contracts[e.contract] # None
                       /\ contracts[e.contract].tenant = e.tenant

\* r has read its tenant's template row and holds it.
HoldsTemplate(r) ==
  LET t == cmd[r].tenant IN
  /\ templateLock[t] = r
  /\ tpl[r] = templates[t]
  /\ templates[t] # NoTemplate

\* r has read its contract's row and holds it.
HoldsContract(r) ==
  /\ Visible(r)
  /\ contractLock[cmd[r].contract] = r
  /\ row[r] = contracts[cmd[r].contract]

\* A statement belongs to a command that runs it.
StatementFits(r) ==
  /\ pc[r] \in {"idle", "lockTenant", "lockTemplate"} => tpl[r] = NoTemplate
  /\ pc[r] # "idle" =>
       /\ cmd[r] \in Command
       /\ OnContract(cmd[r]) => \/ contracts[cmd[r].contract] # None
                                \/ cmd[r].contract \in Unissued
  /\ pc[r] = "lockTenant" => cmd[r].kind = "publish"
  /\ pc[r] = "lockTemplate" => cmd[r].kind \in {"publish", "create", "migrate"}
  /\ pc[r] \in {"selectContract", "lockContract"} => OnContract(cmd[r])

\* What r has read is locked, or nobody can change it: only a holder of the
\* tenant's row gives the tenant its first template.
ReadsAreCovered(r) ==
  /\ pc[r] = "lockTemplate" /\ cmd[r].kind = "publish" =>
       tenantLock[cmd[r].tenant] = r
  /\ pc[r] = "execute" /\ cmd[r].kind = "publish" =>
       /\ tenantLock[cmd[r].tenant] = r
       /\ HoldsTemplate(r) \/ /\ tpl[r] = NoTemplate
                              /\ templates[cmd[r].tenant] = NoTemplate
  /\ pc[r] = "execute" /\ cmd[r].kind = "create" => HoldsTemplate(r)
  /\ pc[r] = "selectContract" /\ cmd[r].kind = "migrate" =>
       HoldsTemplate(r) \/ ~Visible(r)
  /\ pc[r] \in {"lockContract", "execute"} /\ cmd[r].kind = "migrate" =>
       HoldsTemplate(r)
  /\ pc[r] = "lockContract" => Visible(r) /\ row[r] \in Row
  /\ pc[r] = "execute" /\ OnContract(cmd[r]) => HoldsContract(r)

RequestsFit == \A r \in Requests : StatementFits(r) /\ ReadsAreCovered(r)

IInv == TypeOK /\ TablesFit /\ RequestsFit

-----------------------------------------------------------------------------
(***************************************************************************)
(* Lemmas on the data.                                                     *)
(***************************************************************************)

\* The fields of a command, by its kind.
LEMMA CommandFields ==
  ASSUME NEW k \in Command
  PROVE  /\ k.kind \in {"publish", "create", "edit", "migrate", "activate",
                        "close"}
         /\ k.tenant \in Tenants
         /\ k.kind = "publish" =>
              k.expected \in Nat /\ k.definition \in Definitions \cup {None}
         /\ k.kind \in {"create", "edit", "migrate"} => k.input \in Inputs
         /\ OnContract(k) => k.contract \in Contracts /\ k.expected \in Nat
         /\ k.kind = "migrate" => k.target \in Versions
  BY DEF Command, PublishCommand, CreateCommand, EditCommand, MigrateCommand,
         StatusCommand, OnContract

\* TypeOK in its two halves.
LEMMA TypeParts == TypeOK <=> DbType /\ SessionType
  BY DEF TypeOK, DbType, SessionType

\* A contract that exists has a complete row.
LEMMA RowsAreTyped ==
  ASSUME DbType, NEW c \in Contracts, contracts[c] # None
  PROVE  contracts[c] \in Row
  BY DEF DbType

\* A version that exists has an owner and a definition.
LEMMA VersionsAreTyped ==
  ASSUME DbType, NEW v \in Versions, versions[v] # None
  PROVE  versions[v] \in VersionRow
  BY DEF DbType

\* The state a contract row is recorded in.
LEMMA SnapshotType ==
  ASSUME NEW x \in Row
  PROVE  Snapshot(x) \in Snapshots /\ Snapshot(x) # None
  BY NoneAssumption DEF Row, Snapshot, Snapshots

-----------------------------------------------------------------------------
(***************************************************************************)
(* The initial states.                                                     *)
(***************************************************************************)

\* The API starts on empty tables with no request in progress.
LEMMA InitEstablishesIInv == Init => IInv
<1> SUFFICES ASSUME Init PROVE IInv
  OBVIOUS
<1>1. TypeOK
  <2>1. NoTemplate \in TemplateRow
    BY DEF NoTemplate, TemplateRow
  <2> QED
    BY <2>1 DEF Init, TypeOK
<1>2. TablesFit
  BY DEF Init, TablesFit, TemplateFits, ContractFits
<1>3. RequestsFit
  BY DEF Init, RequestsFit, StatementFits, ReadsAreCovered, OnContract
<1> QED
  BY <1>1, <1>2, <1>3 DEF IInv

-----------------------------------------------------------------------------
(***************************************************************************)
(* The end of a transaction, and the requests that do not take the step.   *)
(***************************************************************************)

\* The other requests keep what they have read and locked.
OthersKeep(r) ==
  \A q \in Requests \ {r} :
    /\ pc'[q] = pc[q] /\ cmd'[q] = cmd[q]
    /\ tpl'[q] = tpl[q] /\ row'[q] = row[q]
    /\ \A t \in Tenants : tenantLock[t] = q => tenantLock'[t] = q
    /\ \A t \in Tenants : templateLock[t] = q => templateLock'[t] = q
    /\ \A c \in Contracts : contractLock[c] = q => contractLock'[c] = q

\* What the other requests have read stays covered while the tables are as they
\* were.
LEMMA OthersKeepTheirReads ==
  ASSUME NEW r \in Requests, IInv, UNCHANGED db, OthersKeep(r),
         NEW q \in Requests \ {r}
  PROVE  StatementFits(q)' /\ ReadsAreCovered(q)'
<1>1. StatementFits(q) /\ ReadsAreCovered(q)
  BY DEF IInv, RequestsFit
<1>2. StatementFits(q)'
  BY <1>1 DEF StatementFits, OnContract, OthersKeep, db
<1>3. pc[q] # "idle" => /\ cmd[q].tenant \in Tenants
                        /\ OnContract(cmd[q]) => cmd[q].contract \in Contracts
  BY <1>1, CommandFields DEF StatementFits
<1>4. ReadsAreCovered(q)'
  BY <1>1, <1>3 DEF ReadsAreCovered, StatementFits, HoldsTemplate,
     HoldsContract, Visible, OnContract, OthersKeep, db
<1> QED
  BY <1>2, <1>4

\* The request whose transaction ends has nothing left to cover.
LEMMA FinishedFits ==
  ASSUME NEW r \in Requests, NEW outcome, IInv, Finish(r, outcome)
  PROVE  /\ SessionType'
         /\ StatementFits(r)' /\ ReadsAreCovered(r)'
         /\ OthersKeep(r)
<1>1. SessionType
  BY TypeParts DEF IInv
<1>2. NoTemplate \in TemplateRow
  BY DEF NoTemplate, TemplateRow
<1>3. SessionType'
  BY <1>1, <1>2 DEF SessionType, Finish, Without
<1>4. pc'[r] = "idle" /\ tpl'[r] = NoTemplate
  BY <1>1 DEF SessionType, Finish
<1>5. StatementFits(r)' /\ ReadsAreCovered(r)'
  BY <1>4 DEF StatementFits, ReadsAreCovered
<1>6. ASSUME NEW q \in Requests \ {r}
      PROVE  /\ pc'[q] = pc[q] /\ cmd'[q] = cmd[q]
             /\ tpl'[q] = tpl[q] /\ row'[q] = row[q]
  BY <1>1 DEF SessionType, Finish
<1>7. ASSUME NEW q \in Requests \ {r}
      PROVE  /\ \A t \in Tenants : tenantLock[t] = q => tenantLock'[t] = q
             /\ \A t \in Tenants : templateLock[t] = q => templateLock'[t] = q
             /\ \A c \in Contracts : contractLock[c] = q => contractLock'[c] = q
  BY <1>1, NoneAssumption DEF SessionType, Finish, Without
<1> QED
  BY <1>3, <1>5, <1>6, <1>7 DEF OthersKeep

\* The tables stay well formed as long as nothing is written.
LEMMA UnwrittenTablesFit ==
  ASSUME IInv, UNCHANGED db
  PROVE  DbType' /\ TablesFit'
<1>1. DbType /\ TablesFit
  BY TypeParts DEF IInv
<1>2. DbType'
  BY <1>1 DEF DbType, db
<1>3. TablesFit'
  BY <1>1 DEF TablesFit, TemplateFits, ContractFits, db
<1> QED
  BY <1>2, <1>3

\* A request that is answered without a write keeps the invariant.
LEMMA AnswerKeepsIInv ==
  ASSUME NEW r \in Requests, NEW outcome, IInv, Answer(r, outcome)
  PROVE  IInv'
<1>1. Finish(r, outcome) /\ UNCHANGED db
  BY DEF Answer
<1>2. SessionType' /\ DbType' /\ TablesFit'
  BY <1>1, FinishedFits, UnwrittenTablesFit
<1>3. TypeOK'
  BY <1>2 DEF TypeOK, DbType, SessionType
<1>4. ASSUME NEW q \in Requests
      PROVE  StatementFits(q)' /\ ReadsAreCovered(q)'
  <2>1. CASE q = r
    BY <2>1, <1>1, FinishedFits
  <2>2. CASE q # r
    BY <2>2, <1>1, FinishedFits, OthersKeepTheirReads
  <2> QED
    BY <2>1, <2>2
<1> QED
  BY <1>2, <1>3, <1>4 DEF IInv, RequestsFit

-----------------------------------------------------------------------------
(***************************************************************************)
(* The statements that read and lock.                                      *)
(***************************************************************************)

\* A step of r that writes no table keeps the invariant when r itself fits
\* after it and no other request loses a lock.
LEMMA ReadingKeepsIInv ==
  ASSUME NEW r \in Requests, IInv, UNCHANGED db,
         SessionType', StatementFits(r)', ReadsAreCovered(r)',
         OthersKeep(r)
  PROVE  IInv'
<1>1. DbType' /\ TablesFit'
  BY UnwrittenTablesFit
<1>2. TypeOK'
  BY <1>1 DEF TypeOK, DbType, SessionType
<1>3. ASSUME NEW q \in Requests
      PROVE  StatementFits(q)' /\ ReadsAreCovered(q)'
  BY OthersKeepTheirReads
<1> QED
  BY <1>1, <1>2, <1>3 DEF IInv, RequestsFit

\* A command that arrives is one of a client, at its first statement.
LEMMA ReceiveKeepsIInv ==
  ASSUME NEW r \in Requests, IInv, Receive(r)
  PROVE  IInv'
<1>1. PICK k \in Commands :
        /\ pc[r] = "idle"
        /\ Nameable(k)
        /\ pc' = [pc EXCEPT ![r] = FirstStatement(k.kind)]
        /\ cmd' = [cmd EXCEPT ![r] = k]
        /\ UNCHANGED <<db, locks, tpl, row>>
  BY DEF Receive
<1>2. SessionType /\ StatementFits(r)
  BY TypeParts DEF IInv, RequestsFit
<1>3. k \in Command /\ k.kind \in {"publish", "create", "edit", "migrate",
                                   "activate", "close"}
  BY CommandsAssumption, CommandFields
<1>4. FirstStatement(k.kind) =
        IF k.kind = "publish" THEN "lockTenant"
        ELSE IF k.kind \in {"create", "migrate"} THEN "lockTemplate"
        ELSE "selectContract"
  BY <1>3 DEF FirstStatement
<1>5. pc'[r] = FirstStatement(k.kind) /\ cmd'[r] = k
  BY <1>1, <1>2 DEF SessionType
<1>6. SessionType'
  BY <1>1, <1>2, <1>3, <1>4 DEF SessionType, locks
<1>7. StatementFits(r)'
  BY <1>1, <1>2, <1>3, <1>4, <1>5 DEF StatementFits, Nameable, OnContract, db
<1>8. ReadsAreCovered(r)'
  BY <1>3, <1>4, <1>5 DEF ReadsAreCovered, OnContract
<1>9. ASSUME NEW q \in Requests \ {r}
      PROVE  pc'[q] = pc[q] /\ cmd'[q] = cmd[q]
  BY <1>1, <1>2 DEF SessionType
<1> QED
  BY <1>1, <1>6, <1>7, <1>8, <1>9, ReadingKeepsIInv DEF OthersKeep, locks

\* A publication takes its tenant's row.
LEMMA LockTenantKeepsIInv ==
  ASSUME NEW r \in Requests, IInv, LockTenant(r)
  PROVE  IInv'
<1>1. /\ pc[r] = "lockTenant"
      /\ tenantLock[cmd[r].tenant] = None
      /\ tenantLock' = [tenantLock EXCEPT ![cmd[r].tenant] = r]
      /\ pc' = [pc EXCEPT ![r] = "lockTemplate"]
      /\ UNCHANGED <<db, cmd, templateLock, contractLock, tpl, row>>
  BY DEF LockTenant, Continue
<1>2. SessionType /\ StatementFits(r)
  BY TypeParts DEF IInv, RequestsFit
<1>3. cmd[r] \in Command /\ cmd[r].tenant \in Tenants /\ cmd[r].kind = "publish"
  BY <1>1, <1>2, CommandFields DEF StatementFits
<1>4. pc'[r] = "lockTemplate" /\ tenantLock'[cmd[r].tenant] = r
  BY <1>1, <1>2, <1>3 DEF SessionType
<1>5. SessionType'
  BY <1>1, <1>2, <1>3 DEF SessionType
<1>6. StatementFits(r)'
  BY <1>1, <1>2, <1>3, <1>4 DEF StatementFits, OnContract
<1>7. ReadsAreCovered(r)'
  BY <1>1, <1>3, <1>4 DEF ReadsAreCovered, OnContract
<1>8. ASSUME NEW q \in Requests \ {r}
      PROVE  /\ pc'[q] = pc[q]
             /\ \A t \in Tenants : tenantLock[t] = q => tenantLock'[t] = q
  BY <1>1, <1>2, NoneAssumption DEF SessionType
<1> QED
  BY <1>1, <1>5, <1>6, <1>7, <1>8, ReadingKeepsIInv DEF OthersKeep

\* A template row that is read is held from then on.
LEMMA LockTemplateKeepsIInv ==
  ASSUME NEW r \in Requests, IInv, LockTemplate(r)
  PROVE  IInv'
<1> DEFINE t == cmd[r].tenant
<1>1. /\ pc[r] = "lockTemplate"
      /\ templates[t] # NoTemplate
      /\ templateLock[t] = None
      /\ templateLock' = [templateLock EXCEPT ![t] = r]
      /\ tpl' = [tpl EXCEPT ![r] = templates[t]]
      /\ pc' = [pc EXCEPT ![r] = AfterTemplate(cmd[r].kind)]
      /\ UNCHANGED <<db, cmd, tenantLock, contractLock, row>>
  BY DEF LockTemplate, Continue
<1>2. SessionType /\ DbType /\ StatementFits(r) /\ ReadsAreCovered(r)
  BY TypeParts DEF IInv, RequestsFit
<1>3. cmd[r] \in Command /\ t \in Tenants
        /\ cmd[r].kind \in {"publish", "create", "migrate"}
  BY <1>1, <1>2, CommandFields DEF StatementFits
<1>4. /\ pc'[r] = AfterTemplate(cmd[r].kind)
      /\ templateLock'[t] = r
      /\ tpl'[r] = templates[t]
  BY <1>1, <1>2, <1>3 DEF SessionType
<1>5. SessionType'
  BY <1>1, <1>2, <1>3 DEF SessionType, DbType, AfterTemplate
<1>6. StatementFits(r)'
  BY <1>1, <1>2, <1>3, <1>4 DEF StatementFits, OnContract, AfterTemplate, db
<1>7. HoldsTemplate(r)'
  BY <1>1, <1>4 DEF HoldsTemplate, db
<1>8. ReadsAreCovered(r)'
  BY <1>1, <1>2, <1>3, <1>4, <1>7
     DEF ReadsAreCovered, OnContract, AfterTemplate, db
<1>9. ASSUME NEW q \in Requests \ {r}
      PROVE  /\ pc'[q] = pc[q] /\ tpl'[q] = tpl[q]
             /\ \A u \in Tenants : templateLock[u] = q => templateLock'[u] = q
  BY <1>1, <1>2, NoneAssumption DEF SessionType
<1> QED
  BY <1>1, <1>5, <1>6, <1>8, <1>9, ReadingKeepsIInv DEF OthersKeep

\* Without a template row there is no contract of the tenant: a migration that
\* goes on will not find its contract.
LEMMA MissTemplateKeepsIInv ==
  ASSUME NEW r \in Requests, IInv, MissTemplate(r)
  PROVE  IInv'
<1>1. CASE Answer(r, "ActiveTemplateRequired")
  BY <1>1, AnswerKeepsIInv
<1>2. CASE /\ cmd[r].kind # "create"
           /\ Continue(r, AfterTemplate(cmd[r].kind))
           /\ UNCHANGED <<locks, tpl, row>>
  <2>1. /\ pc[r] = "lockTemplate"
        /\ templates[cmd[r].tenant] = NoTemplate
        /\ cmd[r].kind # "create"
        /\ pc' = [pc EXCEPT ![r] = AfterTemplate(cmd[r].kind)]
        /\ UNCHANGED <<db, cmd, tenantLock, templateLock, contractLock, tpl, row>>
    BY <1>2 DEF MissTemplate, Continue, locks
  <2>2. SessionType /\ DbType /\ TablesFit /\ StatementFits(r)
          /\ ReadsAreCovered(r)
    BY TypeParts DEF IInv, RequestsFit
  <2>3. /\ cmd[r] \in Command
        /\ cmd[r].tenant \in Tenants
        /\ cmd[r].kind \in {"publish", "migrate"}
        /\ cmd[r].kind = "migrate" => cmd[r].contract \in Contracts
    BY <2>1, <2>2, CommandFields DEF StatementFits, OnContract
  <2>4. pc'[r] = AfterTemplate(cmd[r].kind)
    BY <2>1, <2>2 DEF SessionType
  <2>5. SessionType'
    BY <2>1, <2>2, <2>3 DEF SessionType, AfterTemplate
  <2>6. StatementFits(r)'
    BY <2>1, <2>2, <2>3, <2>4 DEF StatementFits, OnContract, AfterTemplate, db
  <2>7. cmd[r].kind = "migrate" => ~Visible(r)
    BY <2>1, <2>2, <2>3 DEF TablesFit, ContractFits, Visible
  <2>8. ReadsAreCovered(r)'
    BY <2>1, <2>2, <2>3, <2>4, <2>7
       DEF ReadsAreCovered, StatementFits, OnContract, AfterTemplate, Visible, db
  <2>9. \A q \in Requests \ {r} : pc'[q] = pc[q]
    BY <2>1, <2>2 DEF SessionType
  <2> QED
    BY <2>1, <2>5, <2>6, <2>8, <2>9, ReadingKeepsIInv DEF OthersKeep
<1> QED
  BY <1>1, <1>2 DEF MissTemplate

\* A contract row that is joined is one of the tenant.
LEMMA SelectContractKeepsIInv ==
  ASSUME NEW r \in Requests, IInv, SelectContract(r)
  PROVE  IInv'
<1>1. CASE Answer(r, "ContractNotFound")
  BY <1>1, AnswerKeepsIInv
<1>2. CASE /\ Visible(r)
           /\ row' = [row EXCEPT ![r] = contracts[cmd[r].contract]]
           /\ Continue(r, "lockContract")
           /\ UNCHANGED <<locks, tpl>>
  <2>1. /\ pc[r] = "selectContract"
        /\ pc' = [pc EXCEPT ![r] = "lockContract"]
        /\ UNCHANGED <<db, cmd, tenantLock, templateLock, contractLock, tpl>>
    BY <1>2 DEF SelectContract, Continue, locks
  <2>2. SessionType /\ DbType /\ StatementFits(r) /\ ReadsAreCovered(r)
    BY TypeParts DEF IInv, RequestsFit
  <2>3. OnContract(cmd[r]) /\ cmd[r].contract \in Contracts
    BY <2>1, <2>2, CommandFields DEF StatementFits
  <2>4. contracts[cmd[r].contract] \in Row
    BY <1>2, <2>2, <2>3, RowsAreTyped DEF Visible
  <2>5. pc'[r] = "lockContract" /\ row'[r] = contracts[cmd[r].contract]
    BY <1>2, <2>1, <2>2 DEF SessionType
  <2>6. SessionType'
    BY <1>2, <2>1, <2>2, <2>4 DEF SessionType
  <2>7. StatementFits(r)'
    BY <2>1, <2>2, <2>3, <2>5 DEF StatementFits, OnContract, db
  <2>8. ReadsAreCovered(r)'
    BY <1>2, <2>1, <2>2, <2>3, <2>4, <2>5
       DEF ReadsAreCovered, HoldsTemplate, OnContract, Visible, db
  <2>9. \A q \in Requests \ {r} : pc'[q] = pc[q] /\ row'[q] = row[q]
    BY <1>2, <2>1, <2>2 DEF SessionType
  <2> QED
    BY <2>1, <2>6, <2>7, <2>8, <2>9, ReadingKeepsIInv DEF OthersKeep
<1> QED
  BY <1>1, <1>2 DEF SelectContract

\* A contract row that is locked is read again.
LEMMA LockContractKeepsIInv ==
  ASSUME NEW r \in Requests, IInv, LockContract(r)
  PROVE  IInv'
<1> DEFINE c == cmd[r].contract
<1>1. CASE Answer(r, "ContractNotFound")
  BY <1>1, AnswerKeepsIInv
<1>2. CASE /\ contractLock' = [contractLock EXCEPT ![c] = r]
           /\ row' = [row EXCEPT ![r] = contracts[c]]
           /\ Continue(r, "execute")
           /\ UNCHANGED <<tenantLock, templateLock, tpl>>
  <2>1. /\ pc[r] = "lockContract"
        /\ contractLock[c] = None
        /\ pc' = [pc EXCEPT ![r] = "execute"]
        /\ UNCHANGED <<db, cmd>>
    BY <1>2 DEF LockContract, Continue
  <2>2. SessionType /\ DbType /\ StatementFits(r) /\ ReadsAreCovered(r)
    BY TypeParts DEF IInv, RequestsFit
  <2>3. OnContract(cmd[r]) /\ c \in Contracts /\ Visible(r)
    BY <2>1, <2>2, CommandFields DEF StatementFits, ReadsAreCovered
  <2>4. contracts[c] \in Row
    BY <2>2, <2>3, RowsAreTyped DEF Visible
  <2>5. pc'[r] = "execute" /\ row'[r] = contracts[c] /\ contractLock'[c] = r
    BY <1>2, <2>1, <2>2, <2>3 DEF SessionType
  <2>6. SessionType'
    BY <1>2, <2>1, <2>2, <2>3, <2>4 DEF SessionType
  <2>7. StatementFits(r)'
    BY <2>1, <2>2, <2>3, <2>5 DEF StatementFits, OnContract, db
  <2>8. HoldsContract(r)'
    BY <2>1, <2>3, <2>5 DEF HoldsContract, Visible, db
  <2>9. ReadsAreCovered(r)'
    BY <1>2, <2>1, <2>2, <2>3, <2>5, <2>8
       DEF ReadsAreCovered, HoldsTemplate, OnContract, db
  <2>10. ASSUME NEW q \in Requests \ {r}
         PROVE  /\ pc'[q] = pc[q] /\ row'[q] = row[q]
                /\ \A d \in Contracts : contractLock[d] = q => contractLock'[d] = q
    BY <1>2, <2>1, <2>2, NoneAssumption DEF SessionType
  <2> QED
    BY <1>2, <2>1, <2>6, <2>7, <2>9, <2>10, ReadingKeepsIInv DEF OthersKeep
<1> QED
  BY <1>1, <1>2 DEF LockContract

-----------------------------------------------------------------------------
(***************************************************************************)
(* What the handlers write.  A step that ends a transaction either writes  *)
(* nothing or is one of three commits, and these say all that the          *)
(* properties need to know of it.                                          *)
(***************************************************************************)

\* r puts version v, which no one had, in the place of its tenant's template,
\* with another definition.
PublicationCommitted(r, v) ==
  LET t == cmd[r].tenant IN
  /\ pc[r] = "execute" /\ cmd[r].kind = "publish"
  /\ v \in Versions /\ versions[v] = None
  /\ \E d \in Definitions :
       /\ versions' = [versions EXCEPT ![v] = [tenant |-> t, definition |-> d]]
       /\ templates[t] # NoTemplate =>
            versions[templates[t].active].definition # d
  /\ templates' = [templates EXCEPT ![t] =
                     [revision |-> tpl[r].revision + 1, active |-> v]]
  /\ UNCHANGED <<contracts, history, outbox>>
  /\ \E outcome : Finish(r, outcome)

\* The values of a contract are those some body resolves to.
ResolvedUnder(values, d) ==
  \E i \in Inputs : values \in {Resolve[d][i], ResolveEdit[d][i]}

\* What the two resolutions return is a value of the definition, or none.
LEMMA ResolutionIsTyped ==
  ASSUME NEW d \in Definitions, NEW i \in Inputs
  PROVE  /\ Resolve[d][i] \in Values \cup {None}
         /\ ResolveEdit[d][i] \in Values \cup {None}
         /\ ResolvedUnder(Resolve[d][i], d)
         /\ ResolvedUnder(ResolveEdit[d][i], d)
  BY ResolutionAssumption DEF ResolvedUnder

\* r saves a new contract c in the state created.
CreationCommitted(r, c, created) ==
  /\ pc[r] = "execute" /\ cmd[r].kind = "create"
  /\ c \in Contracts /\ Free(c)
  /\ created \in Row
  /\ created.tenant = cmd[r].tenant
  /\ created.version = tpl[r].active
  /\ created.status = "DRAFT" /\ created.revision = 1
  /\ ResolvedUnder(created.values, versions[created.version].definition)
  /\ contracts' = [contracts EXCEPT ![c] = created]
  /\ history' = history \cup {[contract |-> c, revision |-> 1,
                               action |-> "CREATED", before |-> None,
                               after |-> Snapshot(created)]}
  /\ UNCHANGED <<templates, versions, outbox>>
  /\ \E outcome : Finish(r, outcome)

\* What each kind of change may do to a contract.
LawfulChange(r, action, old, new) ==
  \/ /\ action = "EDITED"
     /\ old.status = "DRAFT" /\ new.status = "DRAFT"
     /\ new.version = old.version /\ new.values # old.values
     /\ ResolvedUnder(new.values, versions[new.version].definition)
  \/ /\ action = "MIGRATED"
     /\ old.status = "DRAFT" /\ new.status = "DRAFT"
     /\ cmd[r].kind = "migrate" /\ new.version = tpl[r].active
     /\ <<new.version, new.values>> # <<old.version, old.values>>
     /\ ResolvedUnder(new.values, versions[new.version].definition)
  \/ /\ action = "ACTIVATED"
     /\ old.status = "DRAFT" /\ new.status = "ACTIVE"
     /\ new.version = old.version /\ new.values = old.values
  \/ /\ action = "CLOSED"
     /\ old.status = "ACTIVE" /\ new.status = "CLOSED"
     /\ new.version = old.version /\ new.values = old.values

\* r replaces the state of its contract c, old, by new.
ChangeCommitted(r, c, action, old, new) ==
  /\ pc[r] = "execute" /\ OnContract(cmd[r])
  /\ c \in Contracts /\ c = cmd[r].contract
  /\ contracts[c] = old /\ old \in Row /\ new \in Row
  /\ new.tenant = old.tenant /\ new.tenant = cmd[r].tenant
  /\ new.revision = old.revision + 1
  /\ versions[new.version] # None
  /\ versions[new.version].tenant = new.tenant
  /\ LawfulChange(r, action, old, new)
  /\ contracts' = [contracts EXCEPT ![c] = new]
  /\ history' = history \cup {[contract |-> c, revision |-> new.revision,
                               action |-> action, before |-> Snapshot(old),
                               after |-> Snapshot(new)]}
  /\ outbox' = IF action = "ACTIVATED"
               THEN outbox \cup {[tenant |-> new.tenant, contract |-> c,
                                  activationRevision |-> new.revision]}
               ELSE outbox
  /\ UNCHANGED <<templates, versions>>
  /\ \E outcome : Finish(r, outcome)

\* What a handler on a contract knows: the row it has read is the current one,
\* of its tenant, under a version of the tenant.
LEMMA LockedContract ==
  ASSUME NEW r \in Requests, IInv, pc[r] = "execute", OnContract(cmd[r])
  PROVE  /\ cmd[r] \in Command
         /\ cmd[r].contract \in Contracts
         /\ row[r] = contracts[cmd[r].contract]
         /\ row[r] \in Row
         /\ row[r].tenant = cmd[r].tenant
         /\ versions[row[r].version] \in VersionRow
         /\ versions[row[r].version] # None
         /\ versions[row[r].version].tenant = row[r].tenant
<1>1. DbType /\ TablesFit /\ StatementFits(r) /\ ReadsAreCovered(r)
  BY TypeParts DEF IInv, RequestsFit
<1>2. cmd[r] \in Command /\ cmd[r].contract \in Contracts
  BY <1>1, CommandFields DEF StatementFits
<1>3. HoldsContract(r)
  BY <1>1 DEF ReadsAreCovered
<1>4. row[r] = contracts[cmd[r].contract] /\ row[r] \in Row
        /\ row[r].tenant = cmd[r].tenant
  BY <1>1, <1>2, <1>3, RowsAreTyped DEF HoldsContract, Visible
<1>5. row[r].version \in Versions
  BY <1>4 DEF Row
<1>6. versions[row[r].version] # None
        /\ versions[row[r].version].tenant = row[r].tenant
  BY <1>1, <1>2, <1>3, <1>4 DEF TablesFit, ContractFits, HoldsContract, Visible
<1> QED
  BY <1>1, <1>2, <1>4, <1>5, <1>6, VersionsAreTyped

\* The same of a handler that holds its tenant's template.
LEMMA LockedTemplate ==
  ASSUME NEW r \in Requests, IInv, pc[r] = "execute", HoldsTemplate(r)
  PROVE  /\ cmd[r].tenant \in Tenants
         /\ tpl[r] = templates[cmd[r].tenant]
         /\ tpl[r].active \in Versions
         /\ versions[tpl[r].active] \in VersionRow
         /\ versions[tpl[r].active].tenant = cmd[r].tenant
<1>1. DbType /\ TablesFit /\ StatementFits(r)
  BY TypeParts DEF IInv, RequestsFit
<1>2. cmd[r].tenant \in Tenants
  BY <1>1, CommandFields DEF StatementFits
<1>3. TemplateFits(cmd[r].tenant)
  BY <1>1, <1>2 DEF TablesFit
<1> QED
  BY <1>1, <1>2, <1>3, VersionsAreTyped DEF TemplateFits, HoldsTemplate

\* PublishTemplate answers or commits a publication.
LEMMA PublishTemplateCommits ==
  ASSUME NEW r \in Requests, IInv, PublishTemplate(r)
  PROVE  \/ \E outcome : Answer(r, outcome)
         \/ \E v \in Versions : PublicationCommitted(r, v)
<1>1. SUFFICES ASSUME ~ \E outcome : Answer(r, outcome)
               PROVE  \E v \in Versions : PublicationCommitted(r, v)
  OBVIOUS
<1> DEFINE t == cmd[r].tenant
           d == cmd[r].definition
<1>2. pc[r] = "execute" /\ cmd[r].kind = "publish"
  BY DEF PublishTemplate, Executing
<1>3. /\ d # None
      /\ UNCHANGED <<contracts, history, outbox>>
      /\ \E outcome : Finish(r, outcome)
      /\ \E v \in Versions :
           /\ versions[v] = None
           /\ versions' = [versions EXCEPT ![v] = [tenant |-> t, definition |-> d]]
           /\ templates' = [templates EXCEPT ![t] =
                              [revision |-> tpl[r].revision + 1, active |-> v]]
      /\ tpl[r] # NoTemplate => versions[tpl[r].active].definition # d
  BY <1>1 DEF PublishTemplate
<1>4. d \in Definitions
  BY <1>2, <1>3, CommandFields DEF IInv, RequestsFit, StatementFits
<1>5. tpl[r] = templates[t]
  BY <1>2 DEF IInv, RequestsFit, ReadsAreCovered, HoldsTemplate
<1> QED
  BY <1>2, <1>3, <1>4, <1>5 DEF PublicationCommitted

\* CreateContract answers or commits a creation.
LEMMA CreateContractCommits ==
  ASSUME NEW r \in Requests, IInv, CreateContract(r)
  PROVE  \/ \E outcome : Answer(r, outcome)
         \/ \E c \in Contracts, created \in Row : CreationCommitted(r, c, created)
<1>1. SUFFICES ASSUME ~ \E outcome : Answer(r, outcome)
               PROVE  \E c \in Contracts, created \in Row :
                        CreationCommitted(r, c, created)
  OBVIOUS
<1> DEFINE d == versions[tpl[r].active].definition
           values == Resolve[d][cmd[r].input]
           created == [tenant |-> cmd[r].tenant, version |-> tpl[r].active,
                       status |-> "DRAFT", revision |-> 1, values |-> values]
<1>2. pc[r] = "execute" /\ cmd[r].kind = "create"
  BY DEF CreateContract, Executing
<1>3. /\ values # None
      /\ UNCHANGED <<templates, versions, outbox>>
      /\ \E outcome : Finish(r, outcome)
      /\ \E c \in Contracts :
           /\ Free(c)
           /\ contracts' = [contracts EXCEPT ![c] = created]
           /\ history' = history \cup {[contract |-> c, revision |-> 1,
                                        action |-> "CREATED", before |-> None,
                                        after |-> Snapshot(created)]}
  BY <1>1 DEF CreateContract, Accepted
<1>4. HoldsTemplate(r) /\ StatementFits(r)
  BY <1>2 DEF IInv, RequestsFit, ReadsAreCovered
<1>5. cmd[r].input \in Inputs
  BY <1>2, <1>4, CommandFields DEF StatementFits
<1>6. /\ cmd[r].tenant \in Tenants
      /\ tpl[r].active \in Versions
      /\ versions[tpl[r].active] \in VersionRow
  BY <1>2, <1>4, LockedTemplate
<1>7. d \in Definitions
  BY <1>6 DEF VersionRow
<1>8. values \in Values /\ ResolvedUnder(values, d)
  <2> HIDE DEF d
  <2> QED
    BY <1>3, <1>5, <1>7, ResolutionIsTyped
<1>9. created \in Row
  <2> HIDE DEF d, values
  <2>1. "DRAFT" \in Statuses /\ 1 \in Nat \ {0}
    BY DEF Statuses
  <2> QED
    BY <1>6, <1>8, <2>1 DEF Row
<1>10. /\ created.tenant = cmd[r].tenant
       /\ created.version = tpl[r].active
       /\ created.status = "DRAFT" /\ created.revision = 1
       /\ ResolvedUnder(created.values, versions[created.version].definition)
  BY <1>8
<1> HIDE DEF created
<1> QED
  BY <1>2, <1>3, <1>9, <1>10 DEF CreationCommitted

\* The row x with another version, status, revision and values.
RowWith(x, version, status, revision, values) ==
  [tenant |-> x.tenant, version |-> version, status |-> status,
   revision |-> revision, values |-> values]

\* The row as a record of its five columns: what WithValues leaves alone.
LEMMA RowWithFields ==
  ASSUME NEW x \in Row, NEW version \in Versions, NEW status \in Statuses,
         NEW values \in Values
  PROVE  LET y == RowWith(x, version, status, x.revision + 1, values)
         IN  /\ y \in Row
             /\ y.tenant = x.tenant /\ y.version = version
             /\ y.status = status
             /\ y.revision = x.revision + 1 /\ y.values = values
  <1> DEFINE y == RowWith(x, version, status, x.revision + 1, values)
  <1>1. x.tenant \in Tenants /\ x.revision + 1 \in Nat \ {0}
    BY DEF Row
  <1>2. y = [tenant |-> x.tenant, version |-> version, status |-> status,
             revision |-> x.revision + 1, values |-> values]
    BY DEF RowWith
  <1> QED
    BY <1>1, <1>2 DEF Row

\* The three ways the handlers change a row, field by field.
LEMMA RowWithValues ==
  ASSUME NEW x \in Row, NEW values \in Values, NEW revision
  PROVE  WithValues(x, values, revision) =
           RowWith(x, x.version, x.status, revision, values)
<1> DEFINE y == [x EXCEPT !.values = values]
<1>1. y \in Row /\ y = RowWith(x, x.version, x.status, x.revision, values)
  BY DEF Row, RowWith
<1> HIDE DEF y
<1>2. [y EXCEPT !.revision = revision] =
        RowWith(y, y.version, y.status, revision, y.values)
  BY <1>1 DEF Row, RowWith
<1>3. [y EXCEPT !.revision = revision] =
        RowWith(x, x.version, x.status, revision, values)
  BY <1>1, <1>2 DEF RowWith
<1> QED
  BY <1>3 DEF y, WithValues

\* The row after an activation or a closure.
LEMMA RowWithStatus ==
  ASSUME NEW x \in Row, NEW status \in Statuses, NEW revision
  PROVE  WithStatus(x, status, revision) =
           RowWith(x, x.version, status, revision, x.values)
<1> DEFINE y == [x EXCEPT !.status = status]
<1>1. y \in Row /\ y = RowWith(x, x.version, status, x.revision, x.values)
  BY DEF Row, RowWith
<1> HIDE DEF y
<1>2. [y EXCEPT !.revision = revision] =
        RowWith(y, y.version, y.status, revision, y.values)
  BY <1>1 DEF Row, RowWith
<1>3. [y EXCEPT !.revision = revision] =
        RowWith(x, x.version, status, revision, x.values)
  BY <1>1, <1>2 DEF RowWith
<1> QED
  BY <1>3 DEF y, WithStatus

\* The row after a migration.
LEMMA RowWithVersion ==
  ASSUME NEW x \in Row, NEW version \in Versions, NEW values \in Values,
         NEW revision
  PROVE  WithVersion(x, version, values, revision) =
           RowWith(x, version, x.status, revision, values)
<1> DEFINE y == [x EXCEPT !.version = version]
<1>1. y \in Row /\ y = RowWith(x, version, x.status, x.revision, x.values)
  BY DEF Row, RowWith
<1> HIDE DEF y
<1>2. [y EXCEPT !.values = values, !.revision = revision] =
        RowWith(y, y.version, y.status, revision, values)
  BY <1>1, RowWithValues DEF WithValues
<1>3. [y EXCEPT !.values = values, !.revision = revision] =
        RowWith(x, version, x.status, revision, values)
  BY <1>1, <1>2 DEF RowWith
<1> QED
  BY <1>3 DEF y, WithVersion

\* EditDraftValues answers or commits a change of the values.
LEMMA EditDraftValuesCommits ==
  ASSUME NEW r \in Requests, IInv, EditDraftValues(r)
  PROVE  \/ \E outcome : Answer(r, outcome)
         \/ \E new \in Row :
              ChangeCommitted(r, cmd[r].contract, "EDITED", row[r], new)
<1>1. SUFFICES ASSUME ~ \E outcome : Answer(r, outcome)
               PROVE  \E new \in Row :
                        ChangeCommitted(r, cmd[r].contract, "EDITED", row[r], new)
  OBVIOUS
<1> DEFINE c == cmd[r].contract
           d == versions[row[r].version].definition
           values == ResolveEdit[d][cmd[r].input]
           new == WithValues(row[r], values, row[r].revision + 1)
<1>2. pc[r] = "execute" /\ cmd[r].kind = "edit" /\ OnContract(cmd[r])
  BY DEF EditDraftValues, Executing, OnContract
<1>3. /\ row[r].status = "DRAFT"
      /\ values # None /\ row[r].values # values
      /\ contracts' = [contracts EXCEPT ![c] =
                        WithValues(@, values, new.revision)]
      /\ RecordChange(r, "EDITED", new)
      /\ \E outcome : Finish(r, outcome)
      /\ UNCHANGED <<templates, versions, outbox>>
  BY <1>1 DEF EditDraftValues, IsDraft, Accepted
<1>4. /\ c \in Contracts /\ row[r] = contracts[c] /\ row[r] \in Row
      /\ row[r].tenant = cmd[r].tenant
      /\ versions[row[r].version] \in VersionRow
      /\ versions[row[r].version] # None
      /\ versions[row[r].version].tenant = row[r].tenant
      /\ cmd[r] \in Command
  BY <1>2, LockedContract
<1>5. cmd[r].input \in Inputs /\ d \in Definitions
  BY <1>2, <1>4, CommandFields DEF VersionRow
<1>6. values \in Values /\ ResolvedUnder(values, d)
  <2> HIDE DEF d
  <2> QED
    BY <1>3, <1>5, ResolutionIsTyped
<1> HIDE DEF values
<1>7. /\ new = RowWith(row[r], row[r].version, row[r].status,
                       row[r].revision + 1, values)
      /\ new \in Row
      /\ new.tenant = row[r].tenant /\ new.version = row[r].version
      /\ new.status = row[r].status /\ new.revision = row[r].revision + 1
      /\ new.values = values
  <2>1. new = RowWith(row[r], row[r].version, row[r].status,
                      row[r].revision + 1, values)
    BY <1>4, <1>6, RowWithValues
  <2>2. row[r].version \in Versions /\ row[r].status \in Statuses
    BY <1>4 DEF Row
  <2>3. row[r] \in Row /\ values \in Values
    BY <1>4, <1>6
  <2> HIDE DEF new
  <2> QED
    BY <2>1, <2>2, <2>3, RowWithFields
<1>8. contracts' = [contracts EXCEPT ![c] = new]
  <2>1. contracts[c] = row[r] /\ new.revision = row[r].revision + 1
    <3> HIDE DEF new
    <3> QED
      BY <1>4, <1>7
  <2>2. WithValues(contracts[c], values, new.revision) = new
    BY <2>1
  <2> HIDE DEF new
  <2> QED
    BY <1>3, <2>2
<1>9. LawfulChange(r, "EDITED", row[r], new)
  <2> HIDE DEF values, new
  <2> QED
    BY <1>3, <1>6, <1>7 DEF LawfulChange
<1>10. history' = history \cup {[contract |-> c, revision |-> new.revision,
                                 action |-> "EDITED", before |-> Snapshot(row[r]),
                                 after |-> Snapshot(new)]}
  BY <1>3 DEF RecordChange
<1> HIDE DEF new
<1> QED
  BY <1>2, <1>3, <1>4, <1>7, <1>8, <1>9, <1>10 DEF ChangeCommitted

\* MigrateDraft answers or commits a change of the version and the values.
LEMMA MigrateDraftCommits ==
  ASSUME NEW r \in Requests, IInv, MigrateDraft(r)
  PROVE  \/ \E outcome : Answer(r, outcome)
         \/ \E new \in Row :
              ChangeCommitted(r, cmd[r].contract, "MIGRATED", row[r], new)
<1>1. SUFFICES ASSUME ~ \E outcome : Answer(r, outcome)
               PROVE  \E new \in Row :
                        ChangeCommitted(r, cmd[r].contract, "MIGRATED", row[r], new)
  OBVIOUS
<1> DEFINE c == cmd[r].contract
           target == cmd[r].target
           d == versions[target].definition
           values == MigratedValues(r)
           new == WithVersion(row[r], target, values, row[r].revision + 1)
<1>2. pc[r] = "execute" /\ cmd[r].kind = "migrate" /\ OnContract(cmd[r])
  BY DEF MigrateDraft, Executing, OnContract
<1>3. /\ row[r].status = "DRAFT"
      /\ versions[target] # None /\ versions[target].tenant = cmd[r].tenant
      /\ tpl[r].active = target
      /\ values # None /\ ~(row[r].version = target /\ row[r].values = values)
      /\ contracts' = [contracts EXCEPT ![c] =
                        WithVersion(@, target, values, new.revision)]
      /\ RecordChange(r, "MIGRATED", new)
      /\ \E outcome : Finish(r, outcome)
      /\ UNCHANGED <<templates, versions, outbox>>
  BY <1>1 DEF MigrateDraft, IsDraft, Accepted
<1>4. /\ c \in Contracts /\ row[r] = contracts[c] /\ row[r] \in Row
      /\ row[r].tenant = cmd[r].tenant
      /\ cmd[r] \in Command
  BY <1>2, LockedContract
<1>5. cmd[r].input \in Inputs /\ target \in Versions
  BY <1>2, <1>4, CommandFields
<1>6. d \in Definitions
  BY <1>3, <1>5, VersionsAreTyped, TypeParts DEF IInv, VersionRow
<1>7. values = Resolve[d][cmd[r].input]
  BY DEF MigratedValues
<1>8. values \in Values /\ ResolvedUnder(values, d)
  <2> HIDE DEF d, values
  <2> QED
    BY <1>3, <1>5, <1>6, <1>7, ResolutionIsTyped
<1> HIDE DEF values
<1>9. /\ new = RowWith(row[r], target, row[r].status, row[r].revision + 1, values)
      /\ new \in Row
      /\ new.tenant = row[r].tenant /\ new.version = target
      /\ new.status = row[r].status /\ new.revision = row[r].revision + 1
      /\ new.values = values
  <2>1. new = RowWith(row[r], target, row[r].status, row[r].revision + 1, values)
    BY <1>4, <1>5, <1>8, RowWithVersion
  <2>2. row[r].status \in Statuses
    BY <1>4 DEF Row
  <2>3. row[r] \in Row /\ target \in Versions /\ values \in Values
    BY <1>4, <1>5, <1>8
  <2> HIDE DEF new
  <2> QED
    BY <2>1, <2>2, <2>3, RowWithFields
<1>10. contracts' = [contracts EXCEPT ![c] = new]
  <2>1. contracts[c] = row[r] /\ new.revision = row[r].revision + 1
    <3> HIDE DEF new
    <3> QED
      BY <1>4, <1>9
  <2>2. WithVersion(contracts[c], target, values, new.revision) = new
    BY <2>1
  <2> HIDE DEF new
  <2> QED
    BY <1>3, <2>2
<1>11. history' = history \cup {[contract |-> c, revision |-> new.revision,
                                 action |-> "MIGRATED", before |-> Snapshot(row[r]),
                                 after |-> Snapshot(new)]}
  BY <1>3 DEF RecordChange
<1> HIDE DEF new
<1>12. LawfulChange(r, "MIGRATED", row[r], new)
  BY <1>2, <1>3, <1>8, <1>9 DEF LawfulChange
<1>13. versions[new.version] # None /\ versions[new.version].tenant = new.tenant
  BY <1>3, <1>4, <1>9
<1>14. ChangeCommitted(r, c, "MIGRATED", row[r], new)
  BY <1>2, <1>3, <1>4, <1>9, <1>10, <1>11, <1>12, <1>13 DEF ChangeCommitted
<1> QED
  BY <1>9, <1>14

\* ActivateContract answers or commits the activation.
LEMMA ActivateContractCommits ==
  ASSUME NEW r \in Requests, IInv, ActivateContract(r)
  PROVE  \/ \E outcome : Answer(r, outcome)
         \/ \E new \in Row :
              ChangeCommitted(r, cmd[r].contract, "ACTIVATED", row[r], new)
<1>1. SUFFICES ASSUME ~ \E outcome : Answer(r, outcome)
               PROVE  \E new \in Row :
                        ChangeCommitted(r, cmd[r].contract, "ACTIVATED", row[r], new)
  OBVIOUS
<1> DEFINE c == cmd[r].contract
           new == WithStatus(row[r], "ACTIVE", row[r].revision + 1)
           event == [tenant |-> cmd[r].tenant, contract |-> c,
                     activationRevision |-> new.revision]
<1>2. pc[r] = "execute" /\ cmd[r].kind = "activate" /\ OnContract(cmd[r])
  BY DEF ActivateContract, Executing, OnContract
<1>3. /\ row[r].status = "DRAFT"
      /\ contracts' = [contracts EXCEPT ![c] =
                         WithStatus(@, "ACTIVE", new.revision)]
      /\ RecordChange(r, "ACTIVATED", new)
      /\ outbox' = outbox \cup {event}
      /\ \E outcome : Finish(r, outcome)
      /\ UNCHANGED <<templates, versions>>
  BY <1>1 DEF ActivateContract, IsDraft
<1>4. /\ c \in Contracts /\ row[r] = contracts[c] /\ row[r] \in Row
      /\ row[r].tenant = cmd[r].tenant
      /\ versions[row[r].version] # None
      /\ versions[row[r].version].tenant = row[r].tenant
  BY <1>2, LockedContract
<1>5. /\ new \in Row
      /\ new.tenant = row[r].tenant /\ new.version = row[r].version
      /\ new.status = "ACTIVE" /\ new.revision = row[r].revision + 1
      /\ new.values = row[r].values
      /\ new = RowWith(row[r], row[r].version, "ACTIVE", row[r].revision + 1,
                       row[r].values)
  <2>1. new = RowWith(row[r], row[r].version, "ACTIVE", row[r].revision + 1,
                      row[r].values)
    BY <1>4, RowWithStatus DEF Statuses
  <2>2. /\ row[r] \in Row
        /\ row[r].version \in Versions /\ "ACTIVE" \in Statuses
        /\ row[r].values \in Values
    BY <1>4 DEF Row, Statuses
  <2> HIDE DEF new
  <2> QED
    BY <2>1, <2>2, RowWithFields
<1>6. contracts' = [contracts EXCEPT ![c] = new]
  <2>1. contracts[c] = row[r] /\ new.revision = row[r].revision + 1
    <3> HIDE DEF new
    <3> QED
      BY <1>4, <1>5
  <2>2. WithStatus(contracts[c], "ACTIVE", new.revision) = new
    BY <2>1
  <2> HIDE DEF new
  <2> QED
    BY <1>3, <2>2
<1>7. history' = history \cup {[contract |-> c, revision |-> new.revision,
                                action |-> "ACTIVATED", before |-> Snapshot(row[r]),
                                after |-> Snapshot(new)]}
  BY <1>3 DEF RecordChange
<1> HIDE DEF new
<1>8. LawfulChange(r, "ACTIVATED", row[r], new)
  BY <1>3, <1>5 DEF LawfulChange
<1>9. ChangeCommitted(r, c, "ACTIVATED", row[r], new)
  BY <1>2, <1>3, <1>4, <1>5, <1>6, <1>7, <1>8 DEF ChangeCommitted
<1> QED
  BY <1>5, <1>9

\* CloseContract answers or commits the closure.
LEMMA CloseContractCommits ==
  ASSUME NEW r \in Requests, IInv, CloseContract(r)
  PROVE  \/ \E outcome : Answer(r, outcome)
         \/ \E new \in Row :
              ChangeCommitted(r, cmd[r].contract, "CLOSED", row[r], new)
<1>1. SUFFICES ASSUME ~ \E outcome : Answer(r, outcome)
               PROVE  \E new \in Row :
                        ChangeCommitted(r, cmd[r].contract, "CLOSED", row[r], new)
  OBVIOUS
<1> DEFINE c == cmd[r].contract
           new == WithStatus(row[r], "CLOSED", row[r].revision + 1)
<1>2. pc[r] = "execute" /\ cmd[r].kind = "close" /\ OnContract(cmd[r])
  BY DEF CloseContract, Executing, OnContract
<1>3. /\ row[r].status = "ACTIVE"
      /\ contracts' = [contracts EXCEPT ![c] =
                         WithStatus(@, "CLOSED", new.revision)]
      /\ RecordChange(r, "CLOSED", new)
      /\ outbox' = outbox
      /\ \E outcome : Finish(r, outcome)
      /\ UNCHANGED <<templates, versions>>
  BY <1>1 DEF CloseContract
<1>4. /\ c \in Contracts /\ row[r] = contracts[c] /\ row[r] \in Row
      /\ row[r].tenant = cmd[r].tenant
      /\ versions[row[r].version] # None
      /\ versions[row[r].version].tenant = row[r].tenant
  BY <1>2, LockedContract
<1>5. /\ new \in Row
      /\ new.tenant = row[r].tenant /\ new.version = row[r].version
      /\ new.status = "CLOSED" /\ new.revision = row[r].revision + 1
      /\ new.values = row[r].values
      /\ new = RowWith(row[r], row[r].version, "CLOSED", row[r].revision + 1,
                       row[r].values)
  <2>1. new = RowWith(row[r], row[r].version, "CLOSED", row[r].revision + 1,
                      row[r].values)
    BY <1>4, RowWithStatus DEF Statuses
  <2>2. /\ row[r] \in Row
        /\ row[r].version \in Versions /\ "CLOSED" \in Statuses
        /\ row[r].values \in Values
    BY <1>4 DEF Row, Statuses
  <2> HIDE DEF new
  <2> QED
    BY <2>1, <2>2, RowWithFields
<1>6. contracts' = [contracts EXCEPT ![c] = new]
  <2>1. contracts[c] = row[r] /\ new.revision = row[r].revision + 1
    <3> HIDE DEF new
    <3> QED
      BY <1>4, <1>5
  <2>2. WithStatus(contracts[c], "CLOSED", new.revision) = new
    BY <2>1
  <2> HIDE DEF new
  <2> QED
    BY <1>3, <2>2
<1>7. history' = history \cup {[contract |-> c, revision |-> new.revision,
                                action |-> "CLOSED", before |-> Snapshot(row[r]),
                                after |-> Snapshot(new)]}
  BY <1>3 DEF RecordChange
<1> HIDE DEF new
<1>8. LawfulChange(r, "CLOSED", row[r], new)
  BY <1>3, <1>5 DEF LawfulChange
<1>9. ChangeCommitted(r, c, "CLOSED", row[r], new)
  BY <1>2, <1>3, <1>4, <1>5, <1>6, <1>7, <1>8 DEF ChangeCommitted
<1> QED
  BY <1>5, <1>9

-----------------------------------------------------------------------------
(***************************************************************************)
(* The three commits keep the invariant.                                   *)
(***************************************************************************)

\* The identifiers a request in progress names are well typed.
LEMMA NamesAreTyped ==
  ASSUME NEW q \in Requests, IInv, pc[q] # "idle"
  PROVE  /\ cmd[q].tenant \in Tenants
         /\ OnContract(cmd[q]) => cmd[q].contract \in Contracts
  BY CommandFields DEF IInv, RequestsFit, StatementFits

\* A publication keeps the inductive invariant.
LEMMA PublicationKeepsIInv ==
  ASSUME NEW r \in Requests, NEW v \in Versions, IInv,
         PublicationCommitted(r, v)
  PROVE  IInv'
<1> DEFINE t == cmd[r].tenant
<1>1. SessionType /\ DbType /\ TablesFit /\ RequestsFit
  BY TypeParts DEF IInv
<1>2. /\ pc[r] = "execute" /\ cmd[r].kind = "publish"
      /\ versions[v] = None
      /\ templates' = [templates EXCEPT ![t] =
                         [revision |-> tpl[r].revision + 1, active |-> v]]
      /\ UNCHANGED <<contracts, history, outbox>>
  BY DEF PublicationCommitted
<1>3. PICK d \in Definitions :
        versions' = [versions EXCEPT ![v] = [tenant |-> t, definition |-> d]]
  BY DEF PublicationCommitted
<1>4. /\ SessionType' /\ StatementFits(r)' /\ ReadsAreCovered(r)'
      /\ OthersKeep(r)
  BY FinishedFits DEF PublicationCommitted
<1>5. t \in Tenants
  BY <1>2, NamesAreTyped
<1>6. /\ tenantLock[t] = r
      /\ \/ HoldsTemplate(r)
         \/ tpl[r] = NoTemplate /\ templates[t] = NoTemplate
  BY <1>1, <1>2 DEF RequestsFit, ReadsAreCovered
<1>7. tpl[r].revision \in Nat
  BY <1>1 DEF SessionType, TemplateRow
<1>8. /\ templates'[t] = [revision |-> tpl[r].revision + 1, active |-> v]
      /\ templates'[t] # NoTemplate
      /\ \A u \in Tenants \ {t} : templates'[u] = templates[u]
  BY <1>1, <1>2, <1>5, <1>7, NoneAssumption DEF DbType, NoTemplate
<1>9. /\ versions'[v] = [tenant |-> t, definition |-> d]
      /\ versions'[v] \in VersionRow /\ versions'[v] # None
      /\ \A w \in Versions \ {v} : versions'[w] = versions[w]
  BY <1>1, <1>3, <1>5, NoneAssumption DEF DbType, VersionRow
<1>10. DbType'
  <2>1. templates'[t] \in TemplateRow
    BY <1>7, <1>8 DEF TemplateRow
  <2>2. templates' \in [Tenants -> TemplateRow]
    BY <1>1, <1>2, <1>5, <1>8, <2>1 DEF DbType
  <2>3. versions' \in [Versions -> VersionRow \cup {None}]
    BY <1>1, <1>3, <1>9 DEF DbType
  <2> QED
    BY <1>1, <1>2, <2>2, <2>3 DEF DbType
<1>11. TablesFit'
  <2>1. ASSUME NEW u \in Tenants PROVE TemplateFits(u)'
    <3>1. CASE u = t
      BY <1>7, <1>8, <1>9, <3>1 DEF TemplateFits
    <3>2. CASE u # t
      BY <1>1, <1>2, <1>8, <1>9, <3>2 DEF TablesFit, TemplateFits
    <3> QED
      BY <3>1, <3>2
  <2>2. ASSUME NEW c \in Contracts PROVE ContractFits(c)'
    <3>1. contracts[c] # None => contracts[c].version \in Versions
                                   /\ contracts[c].tenant \in Tenants
      BY <1>1, RowsAreTyped DEF Row
    <3> QED
      BY <1>1, <1>2, <1>8, <1>9, <3>1 DEF TablesFit, ContractFits
  <2> QED
    BY <1>1, <1>2, <2>1, <2>2 DEF TablesFit
<1>12. ASSUME NEW q \in Requests \ {r}
       PROVE  StatementFits(q)' /\ ReadsAreCovered(q)'
  <2>1. StatementFits(q) /\ ReadsAreCovered(q)
    BY <1>1 DEF RequestsFit
  <2>2. StatementFits(q)'
    BY <1>2, <1>4, <2>1 DEF StatementFits, OnContract, OthersKeep
  <2>3. pc[q] # "idle" /\ HoldsTemplate(q) => HoldsTemplate(q)'
    BY <1>4, <1>6, <1>8, NamesAreTyped DEF HoldsTemplate, OthersKeep
  <2>4. pc[q] # "idle" /\ tenantLock[cmd[q].tenant] = q =>
          /\ tenantLock'[cmd[q].tenant] = q
          /\ templates'[cmd[q].tenant] = templates[cmd[q].tenant]
    BY <1>4, <1>6, <1>8, NamesAreTyped DEF OthersKeep
  <2>5. pc[q] # "idle" /\ OnContract(cmd[q]) /\ HoldsContract(q)
          => HoldsContract(q)'
    BY <1>2, <1>4, NamesAreTyped DEF HoldsContract, Visible, OthersKeep
  <2>6. pc'[q] = pc[q] /\ cmd'[q] = cmd[q] /\ tpl'[q] = tpl[q] /\ row'[q] = row[q]
          /\ (Visible(q) <=> Visible(q)')
    BY <1>2, <1>4 DEF OthersKeep, Visible
  <2> QED
    BY <2>1, <2>2, <2>3, <2>4, <2>5, <2>6 DEF ReadsAreCovered, OnContract
<1>13. TypeOK'
  BY <1>4, <1>10 DEF TypeOK, DbType, SessionType
<1> QED
  BY <1>4, <1>11, <1>12, <1>13 DEF IInv, RequestsFit

\* A creation keeps the inductive invariant.
LEMMA CreationKeepsIInv ==
  ASSUME NEW r \in Requests, NEW c \in Contracts, NEW created \in Row, IInv,
         CreationCommitted(r, c, created)
  PROVE  IInv'
<1>1. SessionType /\ DbType /\ TablesFit /\ RequestsFit
  BY TypeParts DEF IInv
<1>2. /\ pc[r] = "execute" /\ cmd[r].kind = "create"
      /\ contracts[c] = None /\ c \notin Unissued
      /\ created.tenant = cmd[r].tenant
      /\ created.version = tpl[r].active
      /\ contracts' = [contracts EXCEPT ![c] = created]
      /\ history' = history \cup {[contract |-> c, revision |-> 1,
                                   action |-> "CREATED", before |-> None,
                                   after |-> Snapshot(created)]}
      /\ UNCHANGED <<templates, versions, outbox>>
  BY DEF CreationCommitted, Free
<1>3. /\ SessionType' /\ StatementFits(r)' /\ ReadsAreCovered(r)'
      /\ OthersKeep(r)
  BY FinishedFits DEF CreationCommitted
<1>4. HoldsTemplate(r)
  BY <1>1, <1>2 DEF RequestsFit, ReadsAreCovered
<1>5. /\ created.tenant \in Tenants
      /\ templates[created.tenant] # NoTemplate
      /\ versions[created.version] # None
      /\ versions[created.version].tenant = created.tenant
  <2>1. cmd[r].tenant \in Tenants
    BY <1>2, NamesAreTyped
  <2> QED
    BY <1>1, <1>2, <1>4, <2>1 DEF HoldsTemplate, TablesFit, TemplateFits
<1>6. /\ contracts'[c] = created /\ created # None
      /\ \A k \in Contracts \ {c} : contracts'[k] = contracts[k]
  BY <1>1, <1>2, NoneAssumption DEF DbType
<1>7. DbType'
  <2>1. [contract |-> c, revision |-> 1, action |-> "CREATED", before |-> None,
         after |-> Snapshot(created)] \in Entries
    BY SnapshotType DEF Entries, Actions
  <2> QED
    BY <1>1, <1>2, <2>1 DEF DbType
<1>8. TablesFit'
  <2>1. ASSUME NEW k \in Contracts PROVE ContractFits(k)'
    BY <1>1, <1>2, <1>5, <1>6 DEF TablesFit, ContractFits
  <2>2. \A e \in outbox' : e.contract \in Contracts /\ e.contract # c
    BY <1>1, <1>2 DEF DbType, Events, TablesFit
  <2> QED
    BY <1>1, <1>2, <1>6, <2>1, <2>2 DEF TablesFit, TemplateFits
<1>9. ASSUME NEW q \in Requests \ {r}
      PROVE  StatementFits(q)' /\ ReadsAreCovered(q)'
  <2>1. StatementFits(q) /\ ReadsAreCovered(q)
    BY <1>1 DEF RequestsFit
  <2>2. pc[q] # "idle" /\ OnContract(cmd[q]) =>
          /\ cmd[q].contract \in Contracts
          /\ cmd[q].contract # c
          /\ contracts'[cmd[q].contract] = contracts[cmd[q].contract]
    BY <1>2, <1>6, <2>1, NamesAreTyped DEF StatementFits
  <2>3. StatementFits(q)'
    BY <1>3, <2>1, <2>2 DEF StatementFits, OnContract, OthersKeep
  <2>4. pc[q] # "idle" /\ HoldsTemplate(q) => HoldsTemplate(q)'
    BY <1>2, <1>3, NamesAreTyped DEF HoldsTemplate, OthersKeep
  <2>5. pc[q] # "idle" /\ tenantLock[cmd[q].tenant] = q
          => tenantLock'[cmd[q].tenant] = q
    BY <1>3, NamesAreTyped DEF OthersKeep
  <2>6. pc[q] # "idle" /\ OnContract(cmd[q]) =>
          /\ Visible(q) <=> Visible(q)'
          /\ HoldsContract(q) => HoldsContract(q)'
    BY <1>3, <2>2 DEF HoldsContract, Visible, OthersKeep
  <2>7. pc'[q] = pc[q] /\ cmd'[q] = cmd[q] /\ tpl'[q] = tpl[q] /\ row'[q] = row[q]
    BY <1>3 DEF OthersKeep
  <2> QED
    BY <1>2, <2>1, <2>3, <2>4, <2>5, <2>6, <2>7
       DEF ReadsAreCovered, StatementFits, OnContract
<1>10. TypeOK'
  BY <1>3, <1>7 DEF TypeOK, DbType, SessionType
<1> QED
  BY <1>3, <1>8, <1>9, <1>10 DEF IInv, RequestsFit

\* An edit, a migration, an activation or a closure keeps it.
LEMMA ChangeKeepsIInv ==
  ASSUME NEW r \in Requests, NEW c, NEW action, NEW old, NEW new, IInv,
         ChangeCommitted(r, c, action, old, new)
  PROVE  IInv'
<1>1. SessionType /\ DbType /\ TablesFit /\ RequestsFit
  BY TypeParts DEF IInv
<1> DEFINE event == [tenant |-> new.tenant, contract |-> c,
                     activationRevision |-> new.revision]
           entry == [contract |-> c, revision |-> new.revision,
                     action |-> action, before |-> Snapshot(old),
                     after |-> Snapshot(new)]
<1>2. /\ pc[r] = "execute" /\ OnContract(cmd[r])
      /\ c \in Contracts /\ c = cmd[r].contract
      /\ contracts[c] = old /\ old \in Row /\ new \in Row
      /\ new.tenant = old.tenant
      /\ versions[new.version] # None
      /\ versions[new.version].tenant = new.tenant
      /\ contracts' = [contracts EXCEPT ![c] = new]
      /\ history' = history \cup {entry}
      /\ outbox' \subseteq outbox \cup {event}
      /\ UNCHANGED <<templates, versions>>
  BY DEF ChangeCommitted
<1>3. /\ SessionType' /\ StatementFits(r)' /\ ReadsAreCovered(r)'
      /\ OthersKeep(r)
  BY FinishedFits DEF ChangeCommitted
<1>4. HoldsContract(r)
  BY <1>1, <1>2 DEF RequestsFit, ReadsAreCovered
<1>5. /\ contracts'[c] = new /\ new # None /\ old # None
      /\ \A k \in Contracts \ {c} : contracts'[k] = contracts[k]
  BY <1>1, <1>2, NoneAssumption DEF DbType
<1>6. DbType'
  <2>1. action \in Actions
    BY DEF ChangeCommitted, LawfulChange, Actions
  <2>2. new.revision \in Nat \ {0} /\ new.tenant \in Tenants
    BY <1>2 DEF Row
  <2>3. entry \in Entries
    BY <1>2, <2>1, <2>2, SnapshotType DEF Entries
  <2>4. event \in Events
    BY <1>2, <2>2 DEF Events
  <2> HIDE DEF entry, event
  <2> QED
    BY <1>1, <1>2, <2>3, <2>4 DEF DbType
<1>7. TablesFit'
  <2>1. ASSUME NEW k \in Contracts PROVE ContractFits(k)'
    BY <1>1, <1>2, <1>5 DEF TablesFit, ContractFits
  <2>2. ASSUME NEW e \in outbox'
        PROVE  /\ contracts'[e.contract] # None
               /\ contracts'[e.contract].tenant = e.tenant
    <3>1. CASE e = event
      BY <1>2, <1>5, <3>1
    <3>2. CASE e \in outbox
      BY <1>1, <1>2, <1>5, <3>2 DEF TablesFit, DbType, Events
    <3> QED
      BY <1>2, <3>1, <3>2
  <2> QED
    BY <1>1, <1>2, <2>1, <2>2 DEF TablesFit, TemplateFits
<1>8. ASSUME NEW q \in Requests \ {r}
      PROVE  StatementFits(q)' /\ ReadsAreCovered(q)'
  <2>1. StatementFits(q) /\ ReadsAreCovered(q)
    BY <1>1 DEF RequestsFit
  <2>2. pc[q] # "idle" /\ OnContract(cmd[q]) =>
          /\ cmd[q].contract \in Contracts
          /\ contracts'[cmd[q].contract] # None
               <=> contracts[cmd[q].contract] # None
    BY <1>2, <1>5, NamesAreTyped
  <2>3. StatementFits(q)'
    BY <1>3, <2>1, <2>2 DEF StatementFits, OnContract, OthersKeep
  <2>4. pc[q] # "idle" /\ HoldsTemplate(q) => HoldsTemplate(q)'
    BY <1>2, <1>3, NamesAreTyped DEF HoldsTemplate, OthersKeep
  <2>5. pc[q] # "idle" /\ tenantLock[cmd[q].tenant] = q
          => tenantLock'[cmd[q].tenant] = q
    BY <1>3, NamesAreTyped DEF OthersKeep
  <2>6. pc[q] # "idle" /\ OnContract(cmd[q]) => (Visible(q) <=> Visible(q)')
    BY <1>2, <1>3, <1>5, <2>2 DEF Visible, OthersKeep
  <2>7. pc[q] # "idle" /\ OnContract(cmd[q]) /\ HoldsContract(q)
          => HoldsContract(q)'
    BY <1>2, <1>3, <1>4, <1>5, <2>2, <2>6 DEF HoldsContract, OthersKeep
  <2>8. pc'[q] = pc[q] /\ cmd'[q] = cmd[q] /\ tpl'[q] = tpl[q] /\ row'[q] = row[q]
    BY <1>3 DEF OthersKeep
  <2> QED
    BY <1>2, <2>1, <2>3, <2>4, <2>5, <2>6, <2>7, <2>8
       DEF ReadsAreCovered, StatementFits, OnContract
<1>9. TypeOK'
  BY <1>3, <1>6 DEF TypeOK, DbType, SessionType
<1> QED
  BY <1>3, <1>7, <1>8, <1>9 DEF IInv, RequestsFit

-----------------------------------------------------------------------------
(***************************************************************************)
(* Every step.                                                             *)
(***************************************************************************)

Committed(r) ==
  \/ \E v \in Versions : PublicationCommitted(r, v)
  \/ \E c \in Contracts, created \in Row : CreationCommitted(r, c, created)
  \/ \E action \in Actions, new \in Row :
       ChangeCommitted(r, cmd[r].contract, action, row[r], new)

\* A step of r writes no table or is one of the commits.
LEMMA StepsCommit ==
  ASSUME NEW r \in Requests, IInv, Execute(r)
  PROVE  (\E outcome : Answer(r, outcome)) \/ Committed(r)
<1>1. CASE PublishTemplate(r)
  BY <1>1, PublishTemplateCommits DEF Committed
<1>2. CASE CreateContract(r)
  BY <1>2, CreateContractCommits DEF Committed
<1>3. CASE EditDraftValues(r)
  BY <1>3, EditDraftValuesCommits DEF Committed, Actions
<1>4. CASE MigrateDraft(r)
  BY <1>4, MigrateDraftCommits DEF Committed, Actions
<1>5. CASE ActivateContract(r)
  BY <1>5, ActivateContractCommits DEF Committed, Actions
<1>6. CASE CloseContract(r)
  BY <1>6, CloseContractCommits DEF Committed, Actions
<1> QED
  BY <1>1, <1>2, <1>3, <1>4, <1>5, <1>6 DEF Execute

\* Every step that writes a table keeps it.
LEMMA CommitsKeepIInv ==
  ASSUME NEW r \in Requests, IInv, Committed(r)
  PROVE  IInv'
  BY PublicationKeepsIInv, CreationKeepsIInv, ChangeKeepsIInv DEF Committed

\* A step that is not of Execute leaves the tables alone.
LEMMA ReadingWritesNothing ==
  ASSUME NEW r \in Requests,
         \/ Receive(r) \/ LockTenant(r) \/ LockTemplate(r) \/ MissTemplate(r)
         \/ SelectContract(r) \/ LockContract(r) \/ Abort(r)
         \/ \E outcome : Answer(r, outcome)
  PROVE  UNCHANGED db
  BY DEF Receive, LockTenant, LockTemplate, MissTemplate, SelectContract,
         LockContract, Abort, Answer, Continue

\* What a step does to the tables.
LEMMA StepWrites ==
  ASSUME IInv, [Next]_vars
  PROVE  UNCHANGED db \/ \E r \in Requests : Committed(r)
<1>1. CASE Next
  <2>1. PICK r \in Requests :
          \/ Receive(r) \/ LockTenant(r) \/ LockTemplate(r) \/ MissTemplate(r)
          \/ SelectContract(r) \/ LockContract(r) \/ Execute(r) \/ Abort(r)
    BY <1>1 DEF Next
  <2>2. CASE Execute(r)
    BY <2>2, StepsCommit, ReadingWritesNothing
  <2> QED
    BY <2>1, <2>2, ReadingWritesNothing
<1>2. CASE UNCHANGED vars
  BY <1>2 DEF vars
<1> QED
  BY <1>1, <1>2

\* Every step keeps it.
LEMMA NextKeepsIInv ==
  ASSUME IInv, [Next]_vars
  PROVE  IInv'
<1>1. CASE Next
  <2>1. PICK r \in Requests :
          \/ Receive(r) \/ LockTenant(r) \/ LockTemplate(r) \/ MissTemplate(r)
          \/ SelectContract(r) \/ LockContract(r) \/ Execute(r) \/ Abort(r)
    BY <1>1 DEF Next
  <2>2. CASE Receive(r)
    BY <2>2, ReceiveKeepsIInv
  <2>3. CASE LockTenant(r)
    BY <2>3, LockTenantKeepsIInv
  <2>4. CASE LockTemplate(r)
    BY <2>4, LockTemplateKeepsIInv
  <2>5. CASE MissTemplate(r)
    BY <2>5, MissTemplateKeepsIInv
  <2>6. CASE SelectContract(r)
    BY <2>6, SelectContractKeepsIInv
  <2>7. CASE LockContract(r)
    BY <2>7, LockContractKeepsIInv
  <2>8. CASE Execute(r)
    BY <2>8, StepsCommit, CommitsKeepIInv, AnswerKeepsIInv
  <2>9. CASE Abort(r)
    BY <2>9, AnswerKeepsIInv DEF Abort
  <2> QED
    BY <2>1, <2>2, <2>3, <2>4, <2>5, <2>6, <2>7, <2>8, <2>9
<1>2. CASE UNCHANGED vars
  BY <1>2 DEF IInv, TypeOK, TablesFit, TemplateFits, ContractFits, RequestsFit,
     StatementFits, ReadsAreCovered, HoldsTemplate, HoldsContract, Visible,
     OnContract, vars, db, locks, session
<1> QED
  BY <1>1, <1>2

\* Reads are covered by locks, rows refer to rows of their tenant, and the
\* types are right, in every state of the workspace.
THEOREM InductiveInvariant == Spec => []IInv
<1>1. Init => IInv
  BY InitEstablishesIInv
<1>2. IInv /\ [Next]_vars => IInv'
  BY NextKeepsIInv
<1> QED
  BY <1>1, <1>2, PTL DEF Spec

\* Type correctness.
THEOREM TypeCorrect == Spec => []TypeOK
<1>1. IInv => TypeOK
  BY DEF IInv
<1> QED
  BY <1>1, InductiveInvariant, PTL

\* However many requests run, what a handler decides on is what the tables hold
\* when it decides.
THEOREM HandlersDecideOnCurrentRows == Spec => []DecidesOnCurrentRows
<1>1. IInv => DecidesOnCurrentRows
  <2> SUFFICES ASSUME IInv, NEW r \in Requests, pc[r] = "execute"
               PROVE  /\ cmd[r].kind \in {"publish", "create", "migrate"} =>
                           tpl[r] = templates[cmd[r].tenant]
                      /\ cmd[r].kind \notin {"publish", "create"} =>
                           row[r] = contracts[cmd[r].contract]
    BY DEF DecidesOnCurrentRows
  <2>1. StatementFits(r) /\ ReadsAreCovered(r)
    BY DEF IInv, RequestsFit
  <2>2. cmd[r].kind \notin {"publish", "create"} => OnContract(cmd[r])
    BY <2>1, CommandFields DEF StatementFits, OnContract
  <2> QED
    BY <2>1, <2>2 DEF ReadsAreCovered, HoldsTemplate, HoldsContract
<1> QED
  BY <1>1, InductiveInvariant, PTL

\* Contracts, versions, templates and events never mix tenants.
THEOREM TenantsStayApart == Spec => []TenantScope
<1>1. IInv => TenantScope
  BY NoneAssumption DEF IInv, TablesFit, TemplateFits, ContractFits,
     TenantScope, Exists
<1> QED
  BY <1>1, InductiveInvariant, PTL

-----------------------------------------------------------------------------
(***************************************************************************)
(* What a step may never do.                                               *)
(***************************************************************************)

\* The one contract a commit of r touches, and how.
LEMMA CommitOnContracts ==
  ASSUME NEW r \in Requests, IInv, Committed(r), NEW c \in Contracts,
         contracts'[c] # contracts[c]
  PROVE  \/ \E created \in Row : /\ contracts'[c] = created
                                 /\ CreationCommitted(r, c, created)
         \/ \E action \in Actions, new \in Row :
              /\ contracts'[c] = new
              /\ ChangeCommitted(r, c, action, contracts[c], new)
<1>1. contracts \in [Contracts -> Row \cup {None}]
  BY DEF IInv, TypeOK
<1>2. CASE \E v \in Versions : PublicationCommitted(r, v)
  BY <1>2 DEF PublicationCommitted
<1>3. ASSUME NEW k \in Contracts, NEW created \in Row,
             CreationCommitted(r, k, created)
      PROVE  k = c /\ contracts'[c] = created
  BY <1>1, <1>3 DEF CreationCommitted
<1>4. ASSUME NEW action \in Actions, NEW new \in Row,
             ChangeCommitted(r, cmd[r].contract, action, row[r], new)
      PROVE  /\ cmd[r].contract = c /\ row[r] = contracts[c]
             /\ contracts'[c] = new
  BY <1>1, <1>4 DEF ChangeCommitted
<1> QED
  BY <1>2, <1>3, <1>4 DEF Committed

\* Contracts only go from Draft to Active to Closed, one revision at a time, and
\* keep their content once they have left Draft.
THEOREM LifecycleHolds == Spec => Lifecycle
<1>1. ASSUME IInv, [Next]_vars, NEW c \in Contracts, contracts'[c] # contracts[c]
      PROVE  ChangesLawfully(c)
  <2>1. PICK r \in Requests : Committed(r)
    BY <1>1, StepWrites DEF db
  <2>2. CASE \E created \in Row : /\ contracts'[c] = created
                                  /\ CreationCommitted(r, c, created)
    BY <2>2 DEF CreationCommitted, Free, ChangesLawfully
  <2>3. CASE \E action \in Actions, new \in Row :
               /\ contracts'[c] = new
               /\ ChangeCommitted(r, c, action, contracts[c], new)
    <3>1. PICK action \in Actions, new \in Row :
                 /\ contracts'[c] = new
                 /\ ChangeCommitted(r, c, action, contracts[c], new)
      BY <2>3
    <3>2. /\ contracts[c] \in Row /\ contracts[c] # None
          /\ new.revision = contracts[c].revision + 1
          /\ new.tenant = contracts[c].tenant
          /\ LawfulChange(r, action, contracts[c], new)
      BY <3>1, NoneAssumption DEF ChangeCommitted
    <3> QED
      BY <3>1, <3>2 DEF LawfulChange, ChangesLawfully
  <2> QED
    BY <1>1, <2>1, <2>2, <2>3, CommitOnContracts
<1>2. IInv /\ [Next]_vars => [\A c \in Contracts : ChangesLawfully(c)]_contracts
  BY <1>1 DEF ChangesLawfully
<1> QED
  BY <1>2, InductiveInvariant, PTL DEF Spec, Lifecycle

\* A contract is only ever bound to the version that is the active one of its
\* tenant at the commit, however publications interleave.
THEOREM BindingsAreActive == Spec => BoundToActiveVersion
<1>1. ASSUME IInv, [Next]_vars, NEW c \in Contracts, contracts'[c] # contracts[c]
      PROVE  BindsTheActiveVersion(c)
  <2>1. PICK r \in Requests : Committed(r)
    BY <1>1, StepWrites DEF db
  <2>2. ReadsAreCovered(r)
    BY <1>1 DEF IInv, RequestsFit
  <2>3. CASE \E created \in Row : /\ contracts'[c] = created
                                  /\ CreationCommitted(r, c, created)
    BY <2>2, <2>3
       DEF CreationCommitted, ReadsAreCovered, HoldsTemplate, BindsTheActiveVersion
  <2>4. CASE \E action \in Actions, new \in Row :
               /\ contracts'[c] = new
               /\ ChangeCommitted(r, c, action, contracts[c], new)
    <3>1. PICK action \in Actions, new \in Row :
                 /\ contracts'[c] = new
                 /\ ChangeCommitted(r, c, action, contracts[c], new)
      BY <2>4
    <3>2. /\ pc[r] = "execute" /\ new.tenant = cmd[r].tenant
          /\ contracts[c] # None /\ templates' = templates
          /\ LawfulChange(r, action, contracts[c], new)
      BY <3>1, NoneAssumption DEF ChangeCommitted
    <3>3. \/ new.version = contracts[c].version
          \/ cmd[r].kind = "migrate" /\ new.version = tpl[r].active
      BY <3>2 DEF LawfulChange
    <3>4. CASE cmd[r].kind = "migrate"
      <4>1. tpl[r] = templates[cmd[r].tenant]
        BY <2>2, <3>2, <3>4 DEF ReadsAreCovered, HoldsTemplate
      <4> QED
        BY <3>1, <3>2, <3>3, <4>1 DEF BindsTheActiveVersion
    <3>5. CASE cmd[r].kind # "migrate"
      BY <3>1, <3>2, <3>3, <3>5 DEF BindsTheActiveVersion
    <3> QED
      BY <3>4, <3>5
  <2> QED
    BY <1>1, <2>1, <2>3, <2>4, CommitOnContracts
<1>2. IInv /\ [Next]_vars =>
        [\A c \in Contracts : BindsTheActiveVersion(c)]_contracts
  BY <1>1 DEF BindsTheActiveVersion
<1> QED
  BY <1>2, InductiveInvariant, PTL DEF Spec, BoundToActiveVersion

\* A request never changes a contract of another tenant.
THEOREM TenantsChangeTheirOwn == Spec => ForeignContractsUntouched
<1>1. ASSUME IInv, [Next]_vars, NEW q \in Requests, pc[q] = "execute",
             pc'[q] = "idle", NEW c \in Contracts, contracts'[c] # contracts[c]
      PROVE  /\ contracts'[c].tenant = cmd[q].tenant
             /\ contracts[c] # None => contracts[c].tenant = cmd[q].tenant
  <2>1. PICK r \in Requests : Committed(r)
    BY <1>1, StepWrites DEF db
  <2>2. \E outcome : Finish(r, outcome)
    BY <2>1 DEF Committed, PublicationCommitted, CreationCommitted, ChangeCommitted
  <2>3. q = r
    BY <1>1, <2>2, FinishedFits DEF OthersKeep
  <2>4. CASE \E created \in Row : /\ contracts'[c] = created
                                  /\ CreationCommitted(r, c, created)
    BY <2>3, <2>4 DEF CreationCommitted, Free
  <2>5. CASE \E action \in Actions, new \in Row :
               /\ contracts'[c] = new
               /\ ChangeCommitted(r, c, action, contracts[c], new)
    BY <2>3, <2>5 DEF ChangeCommitted
  <2> QED
    BY <1>1, <2>1, <2>4, <2>5, CommitOnContracts
<1>2. IInv /\ [Next]_vars =>
        [\A r \in Requests : ChangesItsOwn(r)]_<<pc, contracts>>
  BY <1>1 DEF ChangesItsOwn
<1> QED
  BY <1>2, InductiveInvariant, PTL DEF Spec, ForeignContractsUntouched

-----------------------------------------------------------------------------
(***************************************************************************)
(* Contract History.                                                       *)
(***************************************************************************)

\* A commit on contract c writes its row x and, with it, the entry that leads
\* there from the row that was.
Recorded(c, entry, x) ==
  /\ c \in Contracts /\ x \in Row
  /\ contracts' = [contracts EXCEPT ![c] = x]
  /\ history' = history \cup {entry}
  /\ entry.contract = c
  /\ entry.revision = x.revision
  /\ entry.after = Snapshot(x)
  /\ \/ /\ contracts[c] = None
        /\ x.revision = 1 /\ x.status = "DRAFT"
        /\ entry.action = "CREATED" /\ entry.before = None
     \/ /\ contracts[c] \in Row
        /\ x.revision = contracts[c].revision + 1
        /\ x.tenant = contracts[c].tenant
        /\ entry.action # "CREATED"
        /\ entry.before = Snapshot(contracts[c])

\* A creation is recorded by the first entry of its contract.
LEMMA CreationRecorded ==
  ASSUME NEW r \in Requests, NEW c \in Contracts, NEW created \in Row,
         CreationCommitted(r, c, created)
  PROVE  \E entry :
           /\ Recorded(c, entry, created)
           /\ UNCHANGED outbox
           /\ entry.action # "ACTIVATED"
           /\ contracts[c] = None
<1> DEFINE entry == [contract |-> c, revision |-> 1, action |-> "CREATED",
                     before |-> None, after |-> Snapshot(created)]
<1>1. /\ entry.contract = c /\ entry.revision = 1
      /\ entry.action = "CREATED" /\ entry.before = None
      /\ entry.after = Snapshot(created)
  OBVIOUS
<1>2. /\ contracts[c] = None
      /\ created.revision = 1 /\ created.status = "DRAFT"
      /\ contracts' = [contracts EXCEPT ![c] = created]
      /\ history' = history \cup {entry}
      /\ UNCHANGED outbox
  BY DEF CreationCommitted, Free
<1> HIDE DEF entry
<1> QED
  BY <1>1, <1>2 DEF Recorded

\* A change is recorded by an entry that leads from the old row to the new one.
LEMMA ChangeRecorded ==
  ASSUME NEW r \in Requests, NEW c, NEW action, NEW old, NEW new,
         ChangeCommitted(r, c, action, old, new)
  PROVE  \E entry :
           /\ Recorded(c, entry, new)
           /\ entry.action = action
           /\ contracts[c] # None /\ contracts[c] = old
<1> DEFINE entry == [contract |-> c, revision |-> new.revision,
                     action |-> action, before |-> Snapshot(old),
                     after |-> Snapshot(new)]
<1>1. /\ entry.contract = c /\ entry.revision = new.revision
      /\ entry.action = action /\ entry.before = Snapshot(old)
      /\ entry.after = Snapshot(new)
  OBVIOUS
<1>2. /\ c \in Contracts /\ contracts[c] = old
      /\ old \in Row /\ new \in Row /\ old # None
      /\ new.tenant = old.tenant /\ new.revision = old.revision + 1
      /\ contracts' = [contracts EXCEPT ![c] = new]
      /\ history' = history \cup {entry}
      /\ action # "CREATED"
  BY NoneAssumption DEF ChangeCommitted, LawfulChange
<1> HIDE DEF entry
<1> QED
  BY <1>1, <1>2 DEF Recorded

\* The steps that do not write a contract, and those that do.
LEMMA CommitsRecord ==
  ASSUME IInv, [Next]_vars
  PROVE  \/ UNCHANGED <<contracts, history, outbox>>
         \/ \E c, entry, x :
              /\ Recorded(c, entry, x)
              /\ UNCHANGED outbox
              /\ entry.action # "ACTIVATED"
              /\ contracts[c] # None =>
                   (x.status = "DRAFT" <=> contracts[c].status = "DRAFT")
         \/ \E c, entry, x :
              /\ Recorded(c, entry, x)
              /\ entry.action = "ACTIVATED"
              /\ contracts[c] # None
              /\ contracts[c].status = "DRAFT" /\ x.status = "ACTIVE"
              /\ outbox' = outbox \cup
                   {[tenant |-> x.tenant, contract |-> c,
                     activationRevision |-> x.revision]}
<1>1. UNCHANGED db \/ \E r \in Requests : Committed(r)
  BY StepWrites
<1>2. ASSUME NEW r \in Requests, NEW v, PublicationCommitted(r, v)
      PROVE  UNCHANGED <<contracts, history, outbox>>
  BY <1>2 DEF PublicationCommitted
<1>3. ASSUME NEW r \in Requests, NEW c \in Contracts, NEW created \in Row,
             CreationCommitted(r, c, created)
      PROVE  \E entry :
               /\ Recorded(c, entry, created)
               /\ UNCHANGED outbox
               /\ entry.action # "ACTIVATED"
               /\ contracts[c] = None
  BY <1>3, CreationRecorded
<1>4. ASSUME NEW r \in Requests, NEW c, NEW action, NEW old, NEW new,
             ChangeCommitted(r, c, action, old, new)
      PROVE  \E entry :
               /\ Recorded(c, entry, new)
               /\ entry.action = action
               /\ contracts[c] # None /\ contracts[c] = old
  BY <1>4, ChangeRecorded
<1>5. ASSUME NEW r \in Requests, NEW c, NEW action, NEW old, NEW new,
             ChangeCommitted(r, c, action, old, new)
      PROVE  \/ /\ action # "ACTIVATED" /\ UNCHANGED outbox
                /\ new.status = "DRAFT" <=> old.status = "DRAFT"
             \/ /\ action = "ACTIVATED"
                /\ old.status = "DRAFT" /\ new.status = "ACTIVE"
                /\ outbox' = outbox \cup
                     {[tenant |-> new.tenant, contract |-> c,
                       activationRevision |-> new.revision]}
  BY <1>5 DEF ChangeCommitted, LawfulChange
<1> QED
  BY <1>1, <1>2, <1>3, <1>4, <1>5 DEF db, Committed

\* An entry is recorded for a revision that has none.
LEMMA RecordedIsNew ==
  ASSUME IInv, HistoryIsComplete, NEW c, NEW entry, NEW x, Recorded(c, entry, x)
  PROVE  /\ \A e \in history : e.contract = c => e.revision < x.revision
         /\ contracts[c] = None => \A e \in history : e.contract # c
         /\ contracts'[c] = x
         /\ x # None
         /\ \A k \in Contracts \ {c} : contracts'[k] = contracts[k]
         /\ x.revision \in Nat \ {0}
<1>1. contracts \in [Contracts -> Row \cup {None}] /\ history \subseteq Entries
  BY DEF IInv, TypeOK
<1>2. contracts[c] \in Row => contracts[c].revision \in Nat
  BY DEF Row
<1>3. \A e \in history : e.revision \in Nat
  BY <1>1 DEF Entries
<1>4. x.revision \in Nat \ {0}
  BY DEF Recorded, Row
<1>5. \A e \in history : e.contract = c =>
        contracts[c] # None /\ e.revision <= contracts[c].revision
  BY DEF HistoryIsComplete, Exists
<1>6. \A e \in history : e.contract = c => e.revision < x.revision
  BY <1>2, <1>3, <1>4, <1>5 DEF Recorded
<1> QED
  BY <1>1, <1>4, <1>5, <1>6, NoneAssumption DEF Recorded

\* RecordChange with the next revision leaves no gap in the History.
LEMMA RecordingKeepsItComplete ==
  ASSUME IInv, HistoryIsComplete, NEW c, NEW entry, NEW x, Recorded(c, entry, x)
  PROVE  HistoryIsComplete'
<1>1. /\ c \in Contracts
      /\ history' = history \cup {entry}
      /\ entry.contract = c /\ entry.revision = x.revision
  BY DEF Recorded
<1>2. /\ \A e \in history : e.contract = c => e.revision < x.revision
      /\ contracts[c] = None => \A e \in history : e.contract # c
      /\ contracts'[c] = x /\ x # None
      /\ \A k \in Contracts \ {c} : contracts'[k] = contracts[k]
      /\ x.revision \in Nat \ {0}
  BY RecordedIsNew
<1>3. history \subseteq Entries
  BY DEF IInv, TypeOK
<1>4. \A e \in history : e.contract \in Contracts /\ e.revision \in Nat
  BY <1>3 DEF Entries
<1>5. ASSUME NEW e \in history'
      PROVE  contracts'[e.contract] # None
               /\ e.revision <= contracts'[e.contract].revision
  <2>1. CASE e = entry
    BY <1>1, <1>2, <2>1
  <2>2. CASE e \in history /\ e.contract = c
    BY <1>2, <1>4, <2>2
  <2>3. CASE e \in history /\ e.contract # c
    BY <1>2, <1>4, <2>3 DEF HistoryIsComplete, Exists
  <2> QED
    BY <1>1, <2>1, <2>2, <2>3
<1>6. ASSUME NEW k \in Contracts, contracts'[k] # None,
             NEW n \in 1..contracts'[k].revision
      PROVE  \E e \in history' : e.contract = k /\ e.revision = n
  <2>1. CASE k # c
    BY <1>1, <1>2, <1>6, <2>1 DEF HistoryIsComplete, Exists, HasEntry
  <2>2. CASE k = c /\ n = x.revision
    BY <1>1, <2>2
  <2>3. CASE k = c /\ n # x.revision
    <3>1. n \in Nat /\ 1 <= n /\ n < x.revision
      BY <1>2, <2>3
    <3>2. contracts[c] \in Row /\ contracts[c] # None
            /\ x.revision = contracts[c].revision + 1
      BY <3>1, NoneAssumption DEF Recorded
    <3>3. n \in 1..contracts[c].revision
      BY <3>1, <3>2 DEF Row
    <3> QED
      BY <1>1, <2>3, <3>2, <3>3 DEF HistoryIsComplete, Exists, HasEntry
  <2> QED
    BY <2>1, <2>2, <2>3
<1>7. ASSUME NEW e \in history', NEW f \in history',
             e.contract = f.contract, e.revision = f.revision
      PROVE  e = f
  <2>1. CASE e \in history /\ f \in history
    BY <1>7, <2>1 DEF HistoryIsComplete
  <2>2. CASE e = entry \/ f = entry
    BY <1>1, <1>2, <1>4, <1>7, <2>2
  <2> QED
    BY <1>1, <2>1, <2>2
<1> QED
  BY <1>5, <1>6, <1>7 DEF HistoryIsComplete, Exists, HasEntry

\* RecordChange with the row that was read prolongs the chain.
LEMMA RecordingKeepsItAChain ==
  ASSUME IInv, HistoryIsComplete, HistoryIsAChain,
         NEW c, NEW entry, NEW x, Recorded(c, entry, x)
  PROVE  HistoryIsAChain'
<1>1. /\ c \in Contracts
      /\ history' = history \cup {entry}
      /\ entry.contract = c /\ entry.revision = x.revision
      /\ entry.after = Snapshot(x)
  BY DEF Recorded
<1>2. /\ \A e \in history : e.contract = c => e.revision < x.revision
      /\ contracts[c] = None => \A e \in history : e.contract # c
      /\ contracts'[c] = x /\ x # None
      /\ \A k \in Contracts \ {c} : contracts'[k] = contracts[k]
      /\ x.revision \in Nat \ {0}
  BY RecordedIsNew
<1>3. \A e \in history : e.contract \in Contracts /\ e.revision \in Nat \ {0}
  BY DEF IInv, TypeOK, Entries
<1>4. /\ \A e \in history : /\ e.after.revision = e.revision
                            /\ e.revision = 1 <=> e.action = "CREATED"
                            /\ e.revision = 1 <=> e.before = None
      /\ \A e, f \in history :
           e.contract = f.contract /\ f.revision = e.revision + 1
             => f.before = e.after
      /\ \A e \in history :
           contracts[e.contract] # None
             /\ e.revision = contracts[e.contract].revision
             => e.after = Snapshot(contracts[e.contract])
  BY DEF HistoryIsAChain, Exists
<1>5. \/ /\ contracts[c] = None
         /\ entry.revision = 1 /\ entry.action = "CREATED"
         /\ entry.before = None
      \/ /\ contracts[c] \in Row /\ contracts[c] # None
         /\ contracts[c].revision \in Nat \ {0}
         /\ entry.revision = contracts[c].revision + 1
         /\ entry.action # "CREATED"
         /\ entry.before = Snapshot(contracts[c]) /\ entry.before # None
  BY <1>1, SnapshotType, NoneAssumption DEF Recorded, Row
<1>6. ASSUME NEW e \in history'
      PROVE  /\ e.after.revision = e.revision
             /\ e.revision = 1 <=> e.action = "CREATED"
             /\ e.revision = 1 <=> e.before = None
  <2>1. Snapshot(x).revision = x.revision
    BY DEF Snapshot
  <2> QED
    BY <1>1, <1>4, <1>5, <2>1
<1>7. ASSUME NEW e \in history', NEW f \in history',
             e.contract = f.contract, f.revision = e.revision + 1
      PROVE  f.before = e.after
  <2>1. CASE e \in history /\ f \in history
    BY <1>4, <1>7, <2>1
  <2>2. CASE e = entry
    BY <1>1, <1>2, <1>3, <1>7, <2>2
  <2>3. CASE e \in history /\ f = entry
    BY <1>1, <1>2, <1>3, <1>4, <1>5, <1>7, <2>3
  <2> QED
    BY <1>1, <2>1, <2>2, <2>3
<1>8. ASSUME NEW e \in history', contracts'[e.contract] # None,
             e.revision = contracts'[e.contract].revision
      PROVE  e.after = Snapshot(contracts'[e.contract])
  <2>1. CASE e = entry
    BY <1>1, <1>2, <2>1
  <2>2. CASE e \in history /\ e.contract = c
    BY <1>2, <1>3, <1>8, <2>2
  <2>3. CASE e \in history /\ e.contract # c
    BY <1>2, <1>3, <1>4, <1>8, <2>3
  <2> QED
    BY <1>1, <2>1, <2>2, <2>3
<1> QED
  BY <1>6, <1>7, <1>8 DEF HistoryIsAChain, Exists, Snapshot

HistoryInv == IInv /\ HistoryIsComplete /\ HistoryIsAChain

\* Every step keeps the History complete and a chain.
LEMMA NextKeepsHistoryInv ==
  ASSUME HistoryInv, [Next]_vars
  PROVE  HistoryInv'
<1>1. IInv'
  BY NextKeepsIInv DEF HistoryInv
<1>2. CASE UNCHANGED <<contracts, history, outbox>>
  BY <1>1, <1>2 DEF HistoryInv, HistoryIsComplete, HistoryIsAChain, Exists,
     HasEntry
<1>3. ASSUME NEW c, NEW entry, NEW x, Recorded(c, entry, x)
      PROVE  HistoryIsComplete' /\ HistoryIsAChain'
  BY <1>3, RecordingKeepsItComplete, RecordingKeepsItAChain DEF HistoryInv
<1> QED
  BY <1>1, <1>2, <1>3, CommitsRecord DEF HistoryInv

\* The History is complete and a chain in every state of every behaviour.
LEMMA HistoryInvariant == Spec => []HistoryInv
<1>1. Init => HistoryInv
  BY InitEstablishesIInv
     DEF HistoryInv, Init, HistoryIsComplete, HistoryIsAChain, Exists
<1>2. HistoryInv /\ [Next]_vars => HistoryInv'
  BY NextKeepsHistoryInv
<1> QED
  BY <1>1, <1>2, PTL DEF Spec

\* Contract History has exactly one entry for every revision a contract has had;
\* each starts from the state the one before it left, and the last one left the
\* state the contract is in.
THEOREM HistoryStaysWhole == Spec => []HistoryIsWhole
<1>1. HistoryInv => HistoryIsWhole
  BY DEF HistoryInv, HistoryIsWhole
<1> QED
  BY <1>1, HistoryInvariant, PTL

-----------------------------------------------------------------------------
(***************************************************************************)
(* The Outbox, the constraints and the values.                             *)
(***************************************************************************)

\* The event of an activation entry.
EventOf(e) == [tenant |-> contracts[e.contract].tenant, contract |-> e.contract,
               activationRevision |-> e.revision]

\* OneEventPerActivation, event by event.
OutboxMatches ==
  /\ \A y \in outbox : \E e \in history :
       e.action = "ACTIVATED" /\ y = EventOf(e)
  /\ \A e \in history : e.action = "ACTIVATED" => EventOf(e) \in outbox
  /\ \A c \in Contracts : contracts[c] # None =>
       (contracts[c].status # "DRAFT"
          <=> \E e \in history : e.contract = c /\ e.action = "ACTIVATED")
  /\ \A e, f \in outbox : e.contract = f.contract => e = f

\* OneEventPerActivation in the form the steps are checked against.
LEMMA OutboxByEntry == OneEventPerActivation <=> OutboxMatches
  BY DEF OneEventPerActivation, OutboxMatches, EventOf, Exists, EntriesOf

\* RecordChange with the event of an activation keeps the Outbox exact.
LEMMA RecordingKeepsTheOutbox ==
  ASSUME HistoryInv, OneEventPerActivation,
         NEW c, NEW entry, NEW x, Recorded(c, entry, x),
         \/ /\ UNCHANGED outbox
            /\ entry.action # "ACTIVATED"
            /\ contracts[c] # None =>
                 (x.status = "DRAFT" <=> contracts[c].status = "DRAFT")
         \/ /\ entry.action = "ACTIVATED"
            /\ contracts[c] # None
            /\ contracts[c].status = "DRAFT" /\ x.status = "ACTIVE"
            /\ outbox' = outbox \cup
                 {[tenant |-> x.tenant, contract |-> c,
                   activationRevision |-> x.revision]}
  PROVE  OneEventPerActivation'
<1> DEFINE event == [tenant |-> x.tenant, contract |-> c,
                     activationRevision |-> x.revision]
<1>1. /\ c \in Contracts
      /\ history' = history \cup {entry}
      /\ entry.contract = c /\ entry.revision = x.revision
      /\ contracts[c] # None => x.tenant = contracts[c].tenant
      /\ contracts[c] = None => x.status = "DRAFT"
  BY NoneAssumption DEF Recorded
<1>2. /\ contracts[c] = None => \A e \in history : e.contract # c
      /\ contracts'[c] = x /\ x # None
      /\ \A k \in Contracts \ {c} : contracts'[k] = contracts[k]
  BY RecordedIsNew DEF HistoryInv
<1>3. /\ \A e \in history : e.contract \in Contracts
      /\ \A y \in outbox : y.contract \in Contracts
  BY DEF HistoryInv, IInv, TypeOK, Entries, Events
<1>4. /\ \A y \in outbox : \E e \in history :
           e.action = "ACTIVATED" /\ y = EventOf(e)
      /\ \A e \in history : e.action = "ACTIVATED" => EventOf(e) \in outbox
      /\ \A k \in Contracts : contracts[k] # None =>
           (contracts[k].status # "DRAFT"
              <=> \E e \in history : e.contract = k /\ e.action = "ACTIVATED")
      /\ \A e, f \in outbox : e.contract = f.contract => e = f
  BY OutboxByEntry DEF OutboxMatches
<1>5. \A e \in history : EventOf(e)' = EventOf(e)
  BY <1>1, <1>2, <1>3 DEF EventOf
<1>6. EventOf(entry)' = event
  BY <1>1, <1>2 DEF EventOf
<1>7. outbox' = IF entry.action = "ACTIVATED" THEN outbox \cup {event} ELSE outbox
  OBVIOUS
<1>8. ASSUME NEW y \in outbox'
      PROVE  \E e \in history' : e.action = "ACTIVATED" /\ y = EventOf(e)'
  BY <1>1, <1>4, <1>5, <1>6, <1>7
<1>9. ASSUME NEW e \in history', e.action = "ACTIVATED"
      PROVE  EventOf(e)' \in outbox'
  BY <1>1, <1>4, <1>5, <1>6, <1>7, <1>9
<1>10. ASSUME NEW k \in Contracts, contracts'[k] # None
       PROVE  contracts'[k].status # "DRAFT"
                <=> \E e \in history' : e.contract = k /\ e.action = "ACTIVATED"
  BY <1>1, <1>2, <1>4, <1>10
<1>11. entry.action = "ACTIVATED" => \A y \in outbox : y.contract # c
  <2>1. SUFFICES ASSUME entry.action = "ACTIVATED",
                        NEW y \in outbox, y.contract = c
                 PROVE  FALSE
    OBVIOUS
  <2>2. PICK e \in history : e.action = "ACTIVATED" /\ y = EventOf(e)
    BY <1>4
  <2>3. e.contract = c
    BY <2>1, <2>2 DEF EventOf
  <2> QED
    BY <1>1, <1>4, <2>1, <2>2, <2>3
<1>12. ASSUME NEW y \in outbox', NEW z \in outbox', y.contract = z.contract
       PROVE  y = z
  BY <1>4, <1>7, <1>11, <1>12
<1>13. OutboxMatches'
  BY <1>8, <1>9, <1>10, <1>12 DEF OutboxMatches
<1> QED
  BY <1>13, OutboxByEntry, PTL

\* The Outbox has the events of the History, together with its invariant.
LEMMA OutboxInvariant == Spec => [](HistoryInv /\ OneEventPerActivation)
<1>1. Init => OneEventPerActivation
  BY DEF Init, OneEventPerActivation, Exists
<1>2. HistoryInv /\ OneEventPerActivation /\ [Next]_vars => OneEventPerActivation'
  <2> SUFFICES ASSUME HistoryInv, OneEventPerActivation, [Next]_vars
               PROVE  OneEventPerActivation'
    OBVIOUS
  <2>1. CASE UNCHANGED <<contracts, history, outbox>>
    BY <2>1 DEF OneEventPerActivation, Exists, EntriesOf
  <2> QED
    BY <2>1, CommitsRecord, RecordingKeepsTheOutbox DEF HistoryInv
<1> QED
  BY <1>1, <1>2, HistoryInvariant, PTL DEF Spec

\* The Outbox holds the events of the activations in the History, one for each
\* contract that has left Draft.
THEOREM ActivationsAreAnnounced == Spec => []OneEventPerActivation
  BY OutboxInvariant, PTL

\* No unique index and no conditional update ever refuses what a handler writes.
THEOREM ConstraintsAreSpare == Spec => []ConstraintsNeverAct
<1>1. HistoryInv /\ OneEventPerActivation => ConstraintsNeverAct
  <2> SUFFICES ASSUME HistoryInv, OneEventPerActivation,
                      NEW r \in Requests, pc[r] = "execute", Refused(r)
               PROVE  FALSE
    BY DEF ConstraintsNeverAct
  <2>1. IInv /\ StatementFits(r) /\ ReadsAreCovered(r)
    BY DEF HistoryInv, IInv, RequestsFit
  <2>2. CASE cmd[r].kind = "publish"
    BY <2>1, <2>2 DEF Refused, ReadsAreCovered, HoldsTemplate
  <2>3. CASE cmd[r].kind # "publish"
    <3> DEFINE c == cmd[r].contract
               n == cmd[r].expected + 1
    <3>1. OnContract(cmd[r])
      BY <2>1, <2>3, CommandFields DEF Refused, StatementFits, OnContract
    <3>2. /\ c \in Contracts /\ row[r] = contracts[c] /\ row[r] \in Row
          /\ contracts[c] # None
      BY <2>1, <3>1, LockedContract, NoneAssumption
    <3>3. contracts[c].revision = cmd[r].expected /\ cmd[r].expected \in Nat
      BY <2>3, <3>2 DEF Refused, IsCurrent, Row
    <3>4. ~ \E e \in history : e.contract = c /\ e.revision = n
      <4>1. \A e \in history : e.contract = c => e.revision \in Nat
                                 /\ e.revision <= contracts[c].revision
        BY DEF HistoryInv, IInv, TypeOK, Entries, HistoryIsComplete
      <4> QED
        BY <3>3, <4>1
    <3>5. HasEvent(cmd[r].tenant, c, n)
      BY <2>3, <3>4 DEF Refused, HasEntry
    <3>6. \E e \in history :
            [tenant |-> cmd[r].tenant, contract |-> c, activationRevision |-> n]
              = EventOf(e)
      BY <3>5, OutboxByEntry DEF HasEvent, OutboxMatches
    <3> QED
      BY <3>4, <3>6 DEF EventOf
  <2> QED
    BY <2>2, <2>3
<1> QED
  BY <1>1, OutboxInvariant, PTL

\* ValuesFitVersion, contract by contract.
HasResolvedValues(c) ==
  contracts[c] # None =>
    ResolvedUnder(contracts[c].values, versions[contracts[c].version].definition)

\* Every step leaves contracts with values their version resolves to.
LEMMA NextKeepsResolvedValues ==
  ASSUME IInv, [Next]_vars, \A c \in Contracts : HasResolvedValues(c)
  PROVE  \A c \in Contracts : HasResolvedValues(c)'
<1> SUFFICES ASSUME NEW c \in Contracts, contracts'[c] # None
             PROVE  ResolvedUnder(contracts'[c].values,
                                  versions'[contracts'[c].version].definition)
  BY DEF HasResolvedValues
<1>1. DbType /\ TablesFit
  BY TypeParts DEF IInv
<1>2. CASE contracts'[c] = contracts[c]
  <2>1. /\ contracts[c].version \in Versions
        /\ versions[contracts[c].version] # None
        /\ ResolvedUnder(contracts[c].values,
                         versions[contracts[c].version].definition)
    BY <1>1, <1>2, RowsAreTyped DEF HasResolvedValues, TablesFit, ContractFits, Row
  <2>2. versions'[contracts[c].version] = versions[contracts[c].version]
    <3>1. CASE UNCHANGED db
      BY <3>1 DEF db
    <3>2. ASSUME NEW r \in Requests, Committed(r)
          PROVE  versions'[contracts[c].version] = versions[contracts[c].version]
      <4>1. CASE \E v \in Versions : PublicationCommitted(r, v)
        BY <1>1, <2>1, <4>1 DEF PublicationCommitted, DbType
      <4> QED
        BY <3>2, <4>1 DEF Committed, CreationCommitted, ChangeCommitted
    <3> QED
      BY <3>1, <3>2, StepWrites
  <2> QED
    BY <1>2, <2>1, <2>2
<1>3. CASE contracts'[c] # contracts[c]
  <2>1. PICK r \in Requests : Committed(r)
    BY <1>3, StepWrites DEF db
  <2>2. CASE \E created \in Row : /\ contracts'[c] = created
                                  /\ CreationCommitted(r, c, created)
    BY <2>2 DEF CreationCommitted
  <2>3. CASE \E action \in Actions, new \in Row :
               /\ contracts'[c] = new
               /\ ChangeCommitted(r, c, action, contracts[c], new)
    <3>1. PICK action \in Actions, new \in Row :
                 /\ contracts'[c] = new
                 /\ ChangeCommitted(r, c, action, contracts[c], new)
      BY <2>3
    <3>2. /\ contracts[c] # None /\ versions' = versions
          /\ LawfulChange(r, action, contracts[c], new)
      BY <3>1, NoneAssumption DEF ChangeCommitted
    <3>3. \/ ResolvedUnder(new.values, versions[new.version].definition)
          \/ /\ new.version = contracts[c].version
             /\ new.values = contracts[c].values
      BY <3>2 DEF LawfulChange
    <3> QED
      BY <3>1, <3>2, <3>3 DEF HasResolvedValues
  <2> QED
    BY <1>3, <2>1, <2>2, <2>3, CommitOnContracts
<1> QED
  BY <1>2, <1>3

\* A contract always has values that its own template version resolves to.
THEOREM ValuesFollowTheirVersion == Spec => []ValuesFitVersion
<1>1. Init => \A c \in Contracts : HasResolvedValues(c)
  BY DEF Init, HasResolvedValues
<1>2. IInv /\ [Next]_vars /\ (\A c \in Contracts : HasResolvedValues(c))
        => (\A c \in Contracts : HasResolvedValues(c))'
  BY NextKeepsResolvedValues
<1>3. IInv /\ (\A c \in Contracts : HasResolvedValues(c)) => ValuesFitVersion
  BY DEF IInv, TablesFit, ContractFits, HasResolvedValues, ResolvedUnder,
         ValuesFitVersion, Exists
<1> QED
  BY <1>1, <1>2, <1>3, InductiveInvariant, PTL DEF Spec

-----------------------------------------------------------------------------
(***************************************************************************)
(* The answers.                                                            *)
(***************************************************************************)

\* What AnswersAreTrue says of an outcome that request r gets.
OutcomeIsTrue(r, outcome) ==
  LET k == cmd[r] IN
  /\ outcome = "ContractRevisionConflict" =>
       contracts[k.contract].revision # k.expected
  /\ outcome = "ContractStatusConflict" =>
       /\ contracts[k.contract].revision = k.expected
       /\ contracts[k.contract].status #
            (IF k.kind = "close" THEN "ACTIVE" ELSE "DRAFT")
  /\ outcome = "TemplateVersionNotActive" => templates[k.tenant].active # k.target
  /\ outcome = "TemplateRevisionConflict" =>
       templates[k.tenant].revision # k.expected
  /\ outcome = "ActiveTemplateRequired" => templates[k.tenant] = NoTemplate

\* r gets an outcome that is true.
AnsweredTruly(r) ==
  \E outcome : answer' = [to |-> r, is |-> outcome] /\ OutcomeIsTrue(r, outcome)

\* The handlers decide on the current rows, so what they tell is the case.
LEMMA HandlersAnswerTruly ==
  ASSUME IInv, NEW r \in Requests, Execute(r)
  PROVE  AnsweredTruly(r)
<1>1. PICK k, x, t : k = cmd[r] /\ x = row[r] /\ t = tpl[r]
  OBVIOUS
<1>2. /\ pc[r] = "execute"
      /\ k.kind \in {"publish", "create", "edit", "migrate", "activate", "close"}
      /\ k.kind \in {"publish", "migrate"} => t = templates[k.tenant]
      /\ OnContract(k) => x = contracts[k.contract]
  <2>1. pc[r] = "execute"
    BY DEF Execute, PublishTemplate, CreateContract, EditDraftValues,
       MigrateDraft, ActivateContract, CloseContract, Executing
  <2> QED
    BY <1>1, <2>1, CommandFields
       DEF IInv, RequestsFit, StatementFits, ReadsAreCovered, HoldsTemplate,
           HoldsContract
<1>3. \A outcome : Finish(r, outcome) => answer' = [to |-> r, is |-> outcome]
  BY DEF Finish
<1>4. CASE PublishTemplate(r)
  <2>1. PICK outcome : /\ Finish(r, outcome)
                       /\ outcome \in {"InvalidTemplateDefinition", "Unchanged",
                                       "Created", "Published"}
                            \/ /\ outcome = "TemplateRevisionConflict"
                               /\ t.revision # k.expected
    BY <1>1, <1>4 DEF PublishTemplate, Answer
  <2>2. k.kind = "publish"
    BY <1>1, <1>4 DEF PublishTemplate, Executing
  <2> QED
    BY <1>1, <1>2, <1>3, <2>1, <2>2 DEF AnsweredTruly, OutcomeIsTrue
<1>5. CASE CreateContract(r)
  <2>1. PICK outcome : /\ Finish(r, outcome)
                       /\ outcome \in {"InvalidContractValues", "Created"}
    BY <1>5 DEF CreateContract, Answer
  <2> QED
    BY <1>3, <2>1 DEF AnsweredTruly, OutcomeIsTrue
<1>6. CASE EditDraftValues(r)
  <2>1. PICK outcome : /\ Finish(r, outcome)
                       /\ \/ outcome \in {"InvalidContractValues", "Unchanged",
                                          "Edited"}
                          \/ /\ outcome = "ContractRevisionConflict"
                             /\ x.revision # k.expected
                          \/ /\ outcome = "ContractStatusConflict"
                             /\ x.revision = k.expected /\ x.status # "DRAFT"
    BY <1>1, <1>6 DEF EditDraftValues, Answer, IsCurrent, IsDraft
  <2>2. k.kind = "edit" /\ OnContract(k)
    BY <1>1, <1>6 DEF EditDraftValues, Executing, OnContract
  <2> QED
    BY <1>1, <1>2, <1>3, <2>1, <2>2 DEF AnsweredTruly, OutcomeIsTrue
<1>7. CASE MigrateDraft(r)
  <2>1. PICK outcome : /\ Finish(r, outcome)
                       /\ \/ outcome \in {"InvalidContractValues", "Unchanged",
                                          "Migrated", "TemplateVersionNotFound"}
                          \/ /\ outcome = "ContractRevisionConflict"
                             /\ x.revision # k.expected
                          \/ /\ outcome = "ContractStatusConflict"
                             /\ x.revision = k.expected /\ x.status # "DRAFT"
                          \/ /\ outcome = "TemplateVersionNotActive"
                             /\ t.active # k.target
    BY <1>1, <1>7 DEF MigrateDraft, Answer, IsCurrent, IsDraft
  <2>2. k.kind = "migrate" /\ OnContract(k)
    BY <1>1, <1>7 DEF MigrateDraft, Executing, OnContract
  <2> QED
    BY <1>1, <1>2, <1>3, <2>1, <2>2 DEF AnsweredTruly, OutcomeIsTrue
<1>8. CASE ActivateContract(r)
  <2>1. PICK outcome : /\ Finish(r, outcome)
                       /\ \/ outcome = "Activated"
                          \/ /\ outcome = "ContractRevisionConflict"
                             /\ x.revision # k.expected
                          \/ /\ outcome = "ContractStatusConflict"
                             /\ x.revision = k.expected /\ x.status # "DRAFT"
    BY <1>1, <1>8 DEF ActivateContract, Answer, IsCurrent, IsDraft
  <2>2. k.kind = "activate" /\ OnContract(k)
    BY <1>1, <1>8 DEF ActivateContract, Executing, OnContract
  <2> QED
    BY <1>1, <1>2, <1>3, <2>1, <2>2 DEF AnsweredTruly, OutcomeIsTrue
<1>9. CASE CloseContract(r)
  <2>1. PICK outcome : /\ Finish(r, outcome)
                       /\ \/ outcome = "Closed"
                          \/ /\ outcome = "ContractRevisionConflict"
                             /\ x.revision # k.expected
                          \/ /\ outcome = "ContractStatusConflict"
                             /\ x.revision = k.expected /\ x.status # "ACTIVE"
    BY <1>1, <1>9 DEF CloseContract, Answer, IsCurrent
  <2>2. k.kind = "close" /\ OnContract(k)
    BY <1>1, <1>9 DEF CloseContract, Executing, OnContract
  <2> QED
    BY <1>1, <1>2, <1>3, <2>1, <2>2 DEF AnsweredTruly, OutcomeIsTrue
<1> QED
  BY <1>4, <1>5, <1>6, <1>7, <1>8, <1>9 DEF Execute

\* So is every other answer a step can give.
LEMMA StepsAnswerTruly ==
  ASSUME IInv, Next
  PROVE  answer' = None \/ \E r \in Requests : AnsweredTruly(r)
<1>1. PICK r \in Requests :
        \/ Receive(r) \/ LockTenant(r) \/ LockTemplate(r) \/ MissTemplate(r)
        \/ SelectContract(r) \/ LockContract(r) \/ Execute(r) \/ Abort(r)
  BY DEF Next
<1>2. CASE Receive(r) \/ LockTenant(r) \/ LockTemplate(r)
  BY <1>2 DEF Receive, LockTenant, LockTemplate, Continue
<1>3. ASSUME NEW outcome \in {"ContractNotFound", "InternalError"},
             Answer(r, outcome)
      PROVE  AnsweredTruly(r)
  BY <1>3 DEF AnsweredTruly, OutcomeIsTrue, Answer, Finish
<1>4. CASE MissTemplate(r)
  <2>1. CASE Answer(r, "ActiveTemplateRequired")
    BY <1>4, <2>1 DEF MissTemplate, AnsweredTruly, OutcomeIsTrue, Answer, Finish
  <2> QED
    BY <1>4, <2>1 DEF MissTemplate, Continue
<1>5. CASE SelectContract(r) \/ LockContract(r)
  BY <1>3, <1>5 DEF SelectContract, LockContract, Continue
<1>6. CASE Abort(r)
  BY <1>3, <1>6 DEF Abort
<1> QED
  BY <1>1, <1>2, <1>4, <1>5, <1>6, HandlersAnswerTruly

\* Every conflict a client is told of is the case when the transaction that
\* tells it ends.
THEOREM AnswersTellTheTruth == Spec => AnswersAreTrue
<1> DEFINE TrueAnswer ==
      answer' # None =>
        LET k == cmd[answer'.to] IN
          /\ answer'.is = "ContractRevisionConflict" =>
               contracts[k.contract].revision # k.expected
          /\ answer'.is = "ContractStatusConflict" =>
               /\ contracts[k.contract].revision = k.expected
               /\ contracts[k.contract].status #
                    (IF k.kind = "close" THEN "ACTIVE" ELSE "DRAFT")
          /\ answer'.is = "TemplateVersionNotActive" =>
               templates[k.tenant].active # k.target
          /\ answer'.is = "TemplateRevisionConflict" =>
               templates[k.tenant].revision # k.expected
          /\ answer'.is = "ActiveTemplateRequired" =>
               templates[k.tenant] = NoTemplate
<1>1. IInv /\ Next => TrueAnswer
  BY StepsAnswerTruly DEF AnsweredTruly, OutcomeIsTrue
<1>2. UNCHANGED vars => UNCHANGED answer
  BY DEF vars, session
<1>3. IInv /\ [Next]_vars => [TrueAnswer]_answer
  BY <1>1, <1>2
<1> QED
  BY <1>3, InductiveInvariant, PTL DEF Spec, AnswersAreTrue

-----------------------------------------------------------------------------
(***************************************************************************)
(* The workspace implements the ledger: every commit is one lawful entry in *)
(* the ledger, and every other step none.                                  *)
(*                                                                         *)
(* The refinement mapping reads the ledger of a contract from its History, *)
(* so that what makes the proof is that the History is complete and a      *)
(* chain, that rows are read under their locks, and what each commit       *)
(* writes.                                                                 *)
(***************************************************************************)

\* The entry of a contract and a revision is the one StatesOf finds.
LEMMA EntryIsFound ==
  ASSUME HistoryIsComplete, NEW e \in history, NEW c, NEW n,
         e.contract = c, e.revision = n
  PROVE  (CHOOSE f \in history : f.contract = c /\ f.revision = n) = e
  BY DEF HistoryIsComplete

\* The ledger of a contract, state by state.
StatesAreRight(c) ==
  /\ StatesOf(c) \in Seq(Snapshots)
  /\ Len(StatesOf(c)) = IF Exists(c) THEN contracts[c].revision ELSE 0
  /\ \A e \in history : e.contract = c => StatesOf(c)[e.revision] = e.after
  /\ Exists(c) => StatesOf(c)[contracts[c].revision] = Snapshot(contracts[c])

\* The History has a state for every revision, and the last one is the row's.
LEMMA StatesOfContracts == HistoryInv => \A c \in Contracts : StatesAreRight(c)
<1> SUFFICES ASSUME HistoryInv, NEW c \in Contracts
             PROVE  StatesAreRight(c)
  OBVIOUS
<1> DEFINE n == IF Exists(c) THEN contracts[c].revision ELSE 0
           At(m) == (CHOOSE e \in history : e.contract = c /\ e.revision = m).after
<1>1. /\ contracts \in [Contracts -> Row \cup {None}] /\ history \subseteq Entries
      /\ HistoryIsComplete /\ HistoryIsAChain
  BY DEF HistoryInv, IInv, TypeOK
<1>2. n \in Nat
  BY <1>1 DEF Exists, Row
<1>3. \A e \in history : e.contract = c =>
        e.revision \in 1..n /\ At(e.revision) = e.after
  <2> SUFFICES ASSUME NEW e \in history, e.contract = c
               PROVE  e.revision \in 1..n /\ At(e.revision) = e.after
    OBVIOUS
  <2>1. e.revision \in 1..n
    BY <1>1, <1>2 DEF HistoryIsComplete, Entries
  <2>2. At(e.revision) = e.after
    BY <1>1, EntryIsFound
  <2> QED BY <2>1, <2>2
<1>4. \A m \in 1..n : \E e \in history : e.contract = c /\ e.revision = m
  BY <1>1 DEF HistoryIsComplete, HasEntry, Exists
<1>5. \A m \in 1..n : At(m) \in Snapshots
  <2> SUFFICES ASSUME NEW m \in 1..n
               PROVE  At(m) \in Snapshots
    OBVIOUS
  <2>1. PICK e \in history : e.contract = c /\ e.revision = m
    BY <1>4
  <2>2. At(m) = e.after
    BY <1>3, <2>1
  <2> QED BY <1>1, <2>1, <2>2 DEF Entries
<1>6. StatesOf(c) = [m \in 1..n |-> At(m)]
  BY DEF StatesOf
<1> HIDE DEF At, n
<1>7. StatesOf(c) \in Seq(Snapshots) /\ Len(StatesOf(c)) = n
  BY <1>2, <1>5, <1>6
<1>8. \A e \in history : e.contract = c => StatesOf(c)[e.revision] = e.after
  BY <1>3, <1>6
<1>9. Exists(c) => StatesOf(c)[contracts[c].revision] = Snapshot(contracts[c])
  <2> SUFFICES ASSUME Exists(c)
               PROVE  StatesOf(c)[contracts[c].revision] = Snapshot(contracts[c])
    OBVIOUS
  <2>1. n = contracts[c].revision /\ n \in 1..n
    BY <1>1, <1>2 DEF n, Exists, Row
  <2>2. PICK e \in history : e.contract = c /\ e.revision = n
    BY <1>4, <2>1
  <2>3. e.after = Snapshot(contracts[c])
    BY <1>1, <2>1, <2>2 DEF HistoryIsAChain
  <2> QED BY <1>8, <2>1, <2>2, <2>3
<1> QED
  BY <1>7, <1>8, <1>9 DEF n, StatesAreRight

\* The ledger of a contract nothing is written of stays as it is.
LEMMA StatesStay ==
  ASSUME HistoryInv, NEW c \in Contracts, StatesAreRight(c), StatesAreRight(c)',
         contracts'[c] = contracts[c],
         \A e : e.contract = c => (e \in history' <=> e \in history)
  PROVE  StatesOf(c)' = StatesOf(c)
<1>1. /\ StatesOf(c) \in Seq(Snapshots) /\ StatesOf(c)' \in Seq(Snapshots)
      /\ Len(StatesOf(c)') = Len(StatesOf(c))
      /\ Len(StatesOf(c)) = IF Exists(c) THEN contracts[c].revision ELSE 0
      /\ \A e \in history : e.contract = c =>
           /\ StatesOf(c)[e.revision] = e.after
           /\ StatesOf(c)'[e.revision] = e.after
  BY DEF StatesAreRight, Exists
<1>2. \A i \in 1..Len(StatesOf(c)) : StatesOf(c)'[i] = StatesOf(c)[i]
  <2> SUFFICES ASSUME NEW i \in 1..Len(StatesOf(c))
               PROVE  StatesOf(c)'[i] = StatesOf(c)[i]
    OBVIOUS
  <2>1. PICK e \in history : e.contract = c /\ e.revision = i
    BY <1>1 DEF HistoryInv, HistoryIsComplete, HasEntry
  <2> QED BY <1>1, <2>1
<1> QED
  BY <1>1, <1>2, SeqEqual

\* The ledger of a contract of which x is written goes on with x.
LEMMA StatesGrow ==
  ASSUME HistoryInv, NEW c, NEW entry, NEW x, Recorded(c, entry, x),
         StatesAreRight(c), StatesAreRight(c)'
  PROVE  /\ StatesOf(c)' = Append(StatesOf(c), Snapshot(x))
         /\ ~Exists(c) => StatesOf(c) = <<>>
         /\ Exists(c) => /\ StatesOf(c) # <<>>
                         /\ StatesOf(c)[Len(StatesOf(c))] = Snapshot(contracts[c])
<1> DEFINE s == StatesOf(c)
           t == StatesOf(c)'
           n == Len(s)
<1>1. /\ contracts'[c] = x /\ x # None /\ x \in Row /\ c \in Contracts
      /\ history' = history \cup {entry}
      /\ x.revision = IF Exists(c) THEN contracts[c].revision + 1 ELSE 1
      /\ \A e \in history : e.contract = c => e.revision < x.revision
  <2>1. IInv /\ HistoryIsComplete
    BY DEF HistoryInv
  <2>2. /\ \A e \in history : e.contract = c => e.revision < x.revision
        /\ contracts'[c] = x /\ x # None
    BY <2>1, RecordedIsNew
  <2>3. /\ x \in Row /\ c \in Contracts /\ history' = history \cup {entry}
        /\ \/ contracts[c] = None /\ x.revision = 1
           \/ contracts[c] \in Row /\ x.revision = contracts[c].revision + 1
    BY DEF Recorded
  <2>4. x.revision = IF contracts[c] # None THEN contracts[c].revision + 1 ELSE 1
    BY <2>3, NoneAssumption
  <2> QED
    BY <2>2, <2>3, <2>4 DEF Exists
<1>2. /\ s \in Seq(Snapshots) /\ t \in Seq(Snapshots) /\ n \in Nat
      /\ Len(t) = x.revision
      /\ t[x.revision] = Snapshot(x)
  BY <1>1 DEF StatesAreRight, Exists
<1>3. Len(t) = n + 1
  BY <1>1, <1>2 DEF StatesAreRight
<1>4. Snapshot(x) \in Snapshots
  BY <1>1, SnapshotType
<1>5. \A i \in 1..n : t[i] = s[i]
  <2> SUFFICES ASSUME NEW i \in 1..n
               PROVE  t[i] = s[i]
    OBVIOUS
  <2>1. Exists(c) /\ i \in 1..contracts[c].revision
    BY DEF StatesAreRight
  <2>2. PICK e \in history : e.contract = c /\ e.revision = i
    BY <1>1, <2>1 DEF HistoryInv, HistoryIsComplete, HasEntry
  <2>3. e \in history'
    BY <1>1
  <2> QED BY <2>2, <2>3 DEF StatesAreRight
<1>6. t = Append(s, Snapshot(x))
  <2>1. \A i \in 1..Len(t) : t[i] = Append(s, Snapshot(x))[i]
    <3> SUFFICES ASSUME NEW i \in 1..Len(t)
                 PROVE  t[i] = Append(s, Snapshot(x))[i]
      OBVIOUS
    <3> HIDE DEF s, t
    <3>1. CASE i \in 1..n
      BY <1>2, <1>4, <1>5, <3>1, AppendProperties
    <3>2. CASE i = n + 1
      BY <1>2, <1>3, <1>4, <3>2, AppendProperties
    <3> QED BY <1>2, <1>3, <3>1, <3>2
  <2> HIDE DEF s, t
  <2> QED BY <1>2, <1>3, <1>4, <2>1, AppendProperties, SeqEqual
<1>7. ~Exists(c) => s = <<>>
  BY <1>2, EmptySeq DEF StatesAreRight
<1>8. Exists(c) => n = contracts[c].revision /\ n # 0
  BY <1>1, <1>2 DEF StatesAreRight, HistoryInv, IInv, TypeOK, Row, Exists
<1>9. Exists(c) => s # <<>> /\ s[n] = Snapshot(contracts[c])
  BY <1>8, EmptySeq DEF StatesAreRight
<1> QED
  BY <1>6, <1>7, <1>9

-----------------------------------------------------------------------------
(***************************************************************************)
(* Every commit is a step of the ledger.                                   *)
(***************************************************************************)

\* The definitions, the active versions and the owners, as the mapping has them.
DefinitionOf(v) == IF versions[v] = None THEN None ELSE versions[v].definition
OwnerOf(c) == IF Exists(c) THEN contracts[c].tenant ELSE None

LedgerInv == HistoryInv /\ \A c \in Contracts : StatesAreRight(c)

\* A commit on a contract enters the state it writes, and no other.
LEMMA RecordedEnters ==
  ASSUME LedgerInv, LedgerInv', NEW c, NEW entry, NEW x, Recorded(c, entry, x),
         UNCHANGED <<templates, versions>>
  PROVE  Ledger!Enter(c, Snapshot(x))
<1>1. c \in Contracts
  BY DEF Recorded
<1>2. StatesOf(c)' = Append(StatesOf(c), Snapshot(x))
  BY <1>1, StatesGrow DEF LedgerInv
<1>3. \A k \in Contracts \ {c} : StatesOf(k)' = StatesOf(k)
  <2> SUFFICES ASSUME NEW k \in Contracts, k # c
               PROVE  StatesOf(k)' = StatesOf(k)
    OBVIOUS
  <2>1. contracts'[k] = contracts[k]
    BY RecordedIsNew DEF LedgerInv, HistoryInv
  <2>2. \A e : e.contract = k => (e \in history' <=> e \in history)
    BY DEF Recorded
  <2> QED
    BY <2>1, <2>2, StatesStay DEF LedgerInv
<1> QED
  BY <1>1, <1>2, <1>3 DEF Ledger!Enter

\* PutActiveTemplate publishes something new.
LEMMA PublicationPublishes ==
  ASSUME LedgerInv, LedgerInv', NEW r \in Requests, NEW v \in Versions,
         PublicationCommitted(r, v)
  PROVE  \E t \in Tenants, d \in Definitions : Ledger!Publish(t, v, d)
<1>1. PICK t \in Tenants : t = cmd[r].tenant
  BY NamesAreTyped DEF PublicationCommitted, LedgerInv, HistoryInv
<1>2. PICK d \in Definitions :
        /\ versions' = [versions EXCEPT ![v] = [tenant |-> t, definition |-> d]]
        /\ templates[t] # NoTemplate =>
             versions[templates[t].active].definition # d
  BY <1>1 DEF PublicationCommitted
<1>3. PICK n : templates' = [templates EXCEPT ![t] = [revision |-> n, active |-> v]]
  BY <1>1 DEF PublicationCommitted
<1>4. /\ versions \in [Versions -> VersionRow \cup {None}]
      /\ templates \in [Tenants -> TemplateRow]
      /\ TemplateFits(t)
      /\ versions[v] = None
      /\ UNCHANGED <<contracts, history, outbox>>
  BY DEF PublicationCommitted, LedgerInv, HistoryInv, IInv, TypeOK, TablesFit
<1>5. DefinitionOf(v) = None
  BY <1>4 DEF DefinitionOf
<1>6. /\ [tenant |-> t, definition |-> d] # None
      /\ \A w \in Versions : DefinitionOf(w)' = IF w = v THEN d ELSE DefinitionOf(w)
  <2>1. [tenant |-> t, definition |-> d] # None
    BY NoneAssumption DEF VersionRow
  <2> QED BY <1>2, <1>4, <2>1 DEF DefinitionOf
<1>7. templates[t].active # None => DefinitionOf(templates[t].active) # d
  BY <1>2, <1>4 DEF TemplateFits, DefinitionOf, NoTemplate
<1>8. \A u \in Tenants : templates'[u].active = IF u = t THEN v
                                                ELSE templates[u].active
  BY <1>3, <1>4
<1>9. \A c \in Contracts : StatesOf(c)' = StatesOf(c)
  BY <1>4, StatesStay DEF LedgerInv
<1>10. [w \in Versions |-> DefinitionOf(w)]'
         = [[w \in Versions |-> DefinitionOf(w)] EXCEPT ![v] = d]
  BY <1>6
<1>11. [u \in Tenants |-> templates[u].active]'
         = [[u \in Tenants |-> templates[u].active] EXCEPT ![t] = v]
  BY <1>8
<1>12. Ledger!Publish(t, v, d)
  BY <1>4, <1>5, <1>7, <1>9, <1>10, <1>11
     DEF Ledger!Publish, DefinitionOf, Exists, TemplateFits, NoTemplate
<1> QED
  BY <1>12

\* What the definitions accept, as the mapping has it.
AcceptedUnder(d) ==
  ({Resolve[d][i] : i \in Inputs} \cup {ResolveEdit[d][i] : i \in Inputs}) \ {None}

LEMMA ResolvedIsAccepted ==
  ASSUME NEW d, NEW values \in Values, ResolvedUnder(values, d)
  PROVE  values \in AcceptedUnder(d)
  BY NoneAssumption DEF ResolvedUnder, AcceptedUnder

\* CreateContract opens the ledger of its contract.
LEMMA CreationCreates ==
  ASSUME LedgerInv, LedgerInv', NEW r \in Requests, NEW c \in Contracts,
         NEW created \in Row, CreationCommitted(r, c, created)
  PROVE  \E t \in Tenants, values \in Values : Ledger!Create(c, t, values)
<1>1. PICK entry : Recorded(c, entry, created)
  BY CreationRecorded
<1>2. UNCHANGED <<templates, versions, outbox>>
  BY DEF CreationCommitted
<1>3. Ledger!Enter(c, Snapshot(created))
  BY <1>1, <1>2, RecordedEnters
<1>4. PICK t \in Tenants, values \in Values :
        t = created.tenant /\ values = created.values
  BY DEF Row
<1>0. PICK v, d : v = created.version /\ d = versions[v].definition
  OBVIOUS
<1>5. /\ created.status = "DRAFT" /\ created.revision = 1
      /\ ResolvedUnder(values, d)
      /\ contracts' = [contracts EXCEPT ![c] = created]
      /\ contracts[c] = None
  BY <1>0, <1>4 DEF CreationCommitted, Free
<1>6. /\ v = templates[t].active /\ v \in Versions /\ v # None
      /\ versions[v] # None /\ versions[v] \in VersionRow
  <2>1. HoldsTemplate(r) /\ t = cmd[r].tenant /\ v = tpl[r].active
    BY <1>0, <1>4 DEF CreationCommitted, LedgerInv, HistoryInv, IInv, RequestsFit,
       ReadsAreCovered
  <2>2. templates[t] # NoTemplate /\ v = templates[t].active /\ TemplateFits(t)
    BY <2>1 DEF HoldsTemplate, LedgerInv, HistoryInv, IInv, TablesFit
  <2> QED
    BY <2>2, NoneAssumption
       DEF TemplateFits, LedgerInv, HistoryInv, IInv, TypeOK
<1>7. d \in Definitions
  BY <1>0, <1>4, <1>6 DEF VersionRow
<1>8. values \in AcceptedUnder(d)
  BY <1>5, ResolvedIsAccepted
<1>9. Snapshot(created) = [status |-> "DRAFT", revision |-> 1, values |-> values,
                           version |-> templates[t].active]
  BY <1>0, <1>4, <1>5, <1>6 DEF Snapshot
<1>10. StatesOf(c) = <<>>
  BY <1>1, <1>5, StatesGrow DEF LedgerInv, Exists
<1>11. [k \in Contracts |-> OwnerOf(k)]'
         = [[k \in Contracts |-> OwnerOf(k)] EXCEPT ![c] = t]
  BY <1>0, <1>4, <1>5, NoneAssumption
     DEF OwnerOf, Exists, LedgerInv, HistoryInv, IInv, TypeOK
<1>12. Ledger!Create(c, t, values)
  <2>1. ~Ledger!Opened(c)
    BY <1>10 DEF Ledger!Opened
  <2>2. Ledger!Enter(c, [status |-> "DRAFT", revision |-> 1, values |-> values,
                         version |-> [u \in Tenants |-> templates[u].active][t]])
    BY <1>3, <1>9 DEF Ledger!Enter
  <2>3. [u \in Tenants |-> templates[u].active][t] # None
    BY <1>6
  <2>4. [w \in Versions |-> DefinitionOf(w)]
          [[u \in Tenants |-> templates[u].active][t]] = d
    BY <1>0, <1>4, <1>6 DEF DefinitionOf
  <2>5. values \in [q \in Definitions |-> AcceptedUnder(q)][d]
    BY <1>7, <1>8
  <2>6. UNCHANGED {<<e.tenant, e.contract, e.activationRevision>> : e \in outbox}
    BY <1>2
  <2> QED
    BY <1>11, <2>1, <2>2, <2>3, <2>4, <2>5, <2>6
       DEF Ledger!Create, DefinitionOf, OwnerOf, AcceptedUnder
<1> QED
  BY <1>12

\* The next state of a ledger, field by field.
LEMMA NextContent ==
  ASSUME NEW s \in Snapshots, NEW values \in Values, NEW version \in Versions
  PROVE  [s EXCEPT !.revision = @ + 1, !.values = values, !.version = version]
           = [status |-> s.status, revision |-> s.revision + 1,
              values |-> values, version |-> version]
<1> DEFINE y == [s EXCEPT !.revision = s.revision + 1]
           z == [y EXCEPT !.values = values]
<1>1. /\ y \in Snapshots
      /\ y = [status |-> s.status, revision |-> s.revision + 1,
              values |-> s.values, version |-> s.version]
  BY DEF Snapshots
<1> HIDE DEF y
<1>2. /\ z \in Snapshots
      /\ z = [status |-> y.status, revision |-> y.revision,
              values |-> values, version |-> y.version]
  BY <1>1 DEF Snapshots
<1> HIDE DEF z
<1>3. [z EXCEPT !.version = version]
        = [status |-> z.status, revision |-> z.revision,
           values |-> z.values, version |-> version]
  BY <1>2 DEF Snapshots
<1>4. [z EXCEPT !.version = version]
        = [status |-> s.status, revision |-> s.revision + 1,
           values |-> values, version |-> version]
  BY <1>1, <1>2, <1>3
<1> QED
  BY <1>4 DEF y, z

LEMMA NextStatus ==
  ASSUME NEW s \in Snapshots, NEW status \in Statuses
  PROVE  [s EXCEPT !.revision = @ + 1, !.status = status]
           = [status |-> status, revision |-> s.revision + 1,
              values |-> s.values, version |-> s.version]
<1> DEFINE y == [s EXCEPT !.revision = s.revision + 1]
<1>1. /\ y \in Snapshots
      /\ y = [status |-> s.status, revision |-> s.revision + 1,
              values |-> s.values, version |-> s.version]
  BY DEF Snapshots
<1> HIDE DEF y
<1>2. [y EXCEPT !.status = status]
        = [status |-> status, revision |-> y.revision,
           values |-> y.values, version |-> y.version]
  BY <1>1 DEF Snapshots
<1>3. [y EXCEPT !.status = status]
        = [status |-> status, revision |-> s.revision + 1,
           values |-> s.values, version |-> s.version]
  BY <1>1, <1>2
<1> QED
  BY <1>3 DEF y

\* What a change of a contract is to its ledger, whatever its kind.
LEMMA ChangeEnters ==
  ASSUME LedgerInv, LedgerInv', NEW r \in Requests, NEW c \in Contracts,
         NEW action, NEW old, NEW new, ChangeCommitted(r, c, action, old, new)
  PROVE  /\ Ledger!Opened(c)
         /\ Ledger!Last(c) = Snapshot(old)
         /\ Ledger!Enter(c, Snapshot(new))
         /\ UNCHANGED [k \in Contracts |-> OwnerOf(k)]
         /\ [k \in Contracts |-> OwnerOf(k)][c] = new.tenant
<1>1. PICK entry : Recorded(c, entry, new)
  BY ChangeRecorded
<1>2. /\ contracts[c] = old /\ old \in Row /\ new \in Row
      /\ old # None /\ new # None /\ new.tenant = old.tenant
      /\ contracts' = [contracts EXCEPT ![c] = new]
      /\ UNCHANGED <<templates, versions>>
  BY NoneAssumption DEF ChangeCommitted
<1>3. StatesOf(c) # <<>> /\ StatesOf(c)[Len(StatesOf(c))] = Snapshot(old)
  BY <1>1, <1>2, StatesGrow DEF LedgerInv, Exists
<1>4. Ledger!Opened(c) /\ Ledger!Last(c) = Snapshot(old)
  BY <1>3 DEF Ledger!Opened, Ledger!Last
<1>5. Ledger!Enter(c, Snapshot(new))
  BY <1>1, <1>2, RecordedEnters
<1>6. \A k \in Contracts : OwnerOf(k)' = OwnerOf(k)
  BY <1>2 DEF OwnerOf, Exists, LedgerInv, HistoryInv, IInv, TypeOK
<1>7. OwnerOf(c) = new.tenant
  BY <1>2 DEF OwnerOf, Exists
<1> QED
  BY <1>4, <1>5, <1>6, <1>7

\* EditDraftValues and MigrateDraft rewrite a Draft.
LEMMA DraftIsRewritten ==
  ASSUME LedgerInv, LedgerInv', NEW r \in Requests, NEW c \in Contracts,
         NEW action \in {"EDITED", "MIGRATED"}, NEW old, NEW new,
         ChangeCommitted(r, c, action, old, new)
  PROVE  \E values \in Values : Ledger!Rewrite(c, values)
<1>1. /\ Ledger!Opened(c) /\ Ledger!Last(c) = Snapshot(old)
      /\ Ledger!Enter(c, Snapshot(new))
      /\ UNCHANGED [k \in Contracts |-> OwnerOf(k)]
      /\ [k \in Contracts |-> OwnerOf(k)][c] = new.tenant
  BY ChangeEnters
<1>2. PICK values, v, d : /\ values = new.values /\ v = new.version
                          /\ d = versions[v].definition
  OBVIOUS
<1>3. /\ old.status = "DRAFT" /\ new.status = "DRAFT"
      /\ new.revision = old.revision + 1
      /\ <<v, values>> # <<old.version, old.values>>
      /\ v = old.version \/ (v = tpl[r].active /\ cmd[r].kind = "migrate")
      /\ ResolvedUnder(values, d)
      /\ UNCHANGED outbox
      /\ old \in Row /\ new \in Row /\ versions[v] # None
      /\ new.tenant = cmd[r].tenant /\ pc[r] = "execute"
  BY <1>2 DEF ChangeCommitted, LawfulChange
<1>4. values \in Values /\ v \in Versions /\ new.tenant \in Tenants
  BY <1>2, <1>3 DEF Row
<1>5. d \in Definitions
  BY <1>2, <1>3, <1>4 DEF LedgerInv, HistoryInv, IInv, TypeOK, VersionRow
<1>6. v \in {Ledger!Last(c).version,
             [u \in Tenants |-> templates[u].active]
               [[k \in Contracts |-> OwnerOf(k)][c]]}
  <2>1. Snapshot(old).version = old.version
    BY DEF Snapshot
  <2>2. CASE v = tpl[r].active /\ cmd[r].kind = "migrate"
    <3>1. v = templates[new.tenant].active
      BY <1>3, <2>2 DEF LedgerInv, HistoryInv, IInv, RequestsFit,
         ReadsAreCovered, HoldsTemplate
    <3> QED BY <1>1, <1>4, <3>1
  <2> QED BY <1>1, <1>3, <2>1, <2>2
<1>7. values \in [q \in Definitions |-> AcceptedUnder(q)]
                   [[w \in Versions |-> DefinitionOf(w)][v]]
  <2>1. [w \in Versions |-> DefinitionOf(w)][v] = d
    BY <1>2, <1>3, <1>4 DEF DefinitionOf
  <2>2. values \in AcceptedUnder(d)
    BY <1>3, <1>4, ResolvedIsAccepted
  <2> QED BY <1>5, <2>1, <2>2
<1>8. <<v, values>> # <<Ledger!Last(c).version, Ledger!Last(c).values>>
  BY <1>1, <1>3 DEF Snapshot
<1>9. [Ledger!Last(c) EXCEPT !.revision = @ + 1, !.values = values, !.version = v]
        = Snapshot(new)
  <2>1. Snapshot(new) = [status |-> old.status, revision |-> old.revision + 1,
                         values |-> values, version |-> v]
    BY <1>2, <1>3 DEF Snapshot
  <2>2. PICK s \in Snapshots : /\ s = Snapshot(old) /\ s.status = old.status
                              /\ s.revision = old.revision
    BY <1>3, SnapshotType DEF Snapshot
  <2>3. [s EXCEPT !.revision = @ + 1, !.values = values, !.version = v]
          = [status |-> s.status, revision |-> s.revision + 1,
             values |-> values, version |-> v]
    BY <1>4, NextContent
  <2> QED BY <1>1, <2>1, <2>2, <2>3
<1>10. Ledger!Last(c).status = "DRAFT"
  BY <1>1, <1>3 DEF Snapshot
<1>11. UNCHANGED {<<e.tenant, e.contract, e.activationRevision>> : e \in outbox}
  BY <1>3
<1>12. Ledger!Enter(c, [Ledger!Last(c) EXCEPT !.revision = @ + 1,
                                              !.values = values, !.version = v])
  <2>1. PICK w : w = Snapshot(new)
    OBVIOUS
  <2>2. Ledger!Enter(c, w)
    BY <1>1, <2>1
  <2>3. w = [Ledger!Last(c) EXCEPT !.revision = @ + 1, !.values = values,
                                   !.version = v]
    BY <1>9, <2>1
  <2> QED BY <2>2, <2>3 DEF Ledger!Enter
<1>13. Ledger!Rewrite(c, values)
  BY <1>1, <1>6, <1>7, <1>8, <1>10, <1>11, <1>12
     DEF Ledger!Rewrite, DefinitionOf, OwnerOf, AcceptedUnder
<1> QED
  BY <1>4, <1>13

\* The state that an activation or a closure enters.
LEMMA StatusIsEntered ==
  ASSUME LedgerInv, LedgerInv', NEW r \in Requests, NEW c \in Contracts,
         NEW action \in {"ACTIVATED", "CLOSED"}, NEW old, NEW new,
         ChangeCommitted(r, c, action, old, new)
  PROVE  /\ new.status \in Statuses
         /\ Ledger!Enter(c, [Ledger!Last(c) EXCEPT !.revision = @ + 1,
                                                   !.status = new.status])
<1>1. Ledger!Last(c) = Snapshot(old) /\ Ledger!Enter(c, Snapshot(new))
  BY ChangeEnters
<1>2. /\ old \in Row /\ new \in Row
      /\ new.version = old.version /\ new.values = old.values
      /\ new.revision = old.revision + 1
  BY DEF ChangeCommitted, LawfulChange
<1>3. new.status \in Statuses
  BY <1>2 DEF Row
<1>4. [Ledger!Last(c) EXCEPT !.revision = @ + 1, !.status = new.status]
        = Snapshot(new)
  <2>1. Snapshot(new) = [status |-> new.status, revision |-> old.revision + 1,
                         values |-> old.values, version |-> old.version]
    BY <1>2 DEF Snapshot
  <2>2. PICK s \in Snapshots : /\ s = Snapshot(old) /\ s.values = old.values
                              /\ s.revision = old.revision
                              /\ s.version = old.version
    BY <1>2, SnapshotType DEF Snapshot
  <2>3. [s EXCEPT !.revision = @ + 1, !.status = new.status]
          = [status |-> new.status, revision |-> s.revision + 1,
             values |-> s.values, version |-> s.version]
    BY <1>3, NextStatus
  <2> QED BY <1>1, <2>1, <2>2, <2>3
<1>5. PICK w : w = Snapshot(new)
  OBVIOUS
<1>6. /\ Ledger!Enter(c, w)
      /\ w = [Ledger!Last(c) EXCEPT !.revision = @ + 1, !.status = new.status]
  BY <1>1, <1>4, <1>5
<1>7. Ledger!Enter(c, [Ledger!Last(c) EXCEPT !.revision = @ + 1,
                                             !.status = new.status])
  BY <1>6 DEF Ledger!Enter
<1> QED
  BY <1>3, <1>7

\* ActivateContract activates, and announces it in the same step.
LEMMA ActivationActivates ==
  ASSUME LedgerInv, LedgerInv', NEW r \in Requests, NEW c \in Contracts,
         NEW old, NEW new, ChangeCommitted(r, c, "ACTIVATED", old, new)
  PROVE  Ledger!Activate(c)
<1>1. /\ Ledger!Opened(c) /\ Ledger!Last(c) = Snapshot(old)
      /\ UNCHANGED [k \in Contracts |-> OwnerOf(k)]
      /\ [k \in Contracts |-> OwnerOf(k)][c] = new.tenant
  BY ChangeEnters
<1>2. /\ old.status = "DRAFT" /\ new.status = "ACTIVE"
      /\ new.revision = old.revision + 1
      /\ outbox' = outbox \cup {[tenant |-> new.tenant, contract |-> c,
                                 activationRevision |-> new.revision]}
  BY DEF ChangeCommitted, LawfulChange
<1>3. Ledger!Last(c).status = "DRAFT" /\ Ledger!Last(c).revision = old.revision
  BY <1>1, <1>2 DEF Snapshot
<1>4. Ledger!Enter(c, [Ledger!Last(c) EXCEPT !.revision = @ + 1,
                                             !.status = "ACTIVE"])
  BY <1>2, StatusIsEntered
<1>5. {<<e.tenant, e.contract, e.activationRevision>> : e \in outbox}'
        = {<<e.tenant, e.contract, e.activationRevision>> : e \in outbox}
            \cup {<<new.tenant, c, old.revision + 1>>}
  <2> DEFINE Told(e) == <<e.tenant, e.contract, e.activationRevision>>
             event == [tenant |-> new.tenant, contract |-> c,
                       activationRevision |-> new.revision]
  <2>1. Told(event) = <<new.tenant, c, old.revision + 1>>
    BY <1>2
  <2>2. outbox' = outbox \cup {event}
    BY <1>2
  <2> HIDE DEF Told, event
  <2>3. {Told(e) : e \in outbox'} = {Told(e) : e \in outbox} \cup {Told(event)}
    BY <2>2
  <2> QED BY <2>1, <2>3 DEF Told
<1>6. {<<e.tenant, e.contract, e.activationRevision>> : e \in outbox}'
        = {<<e.tenant, e.contract, e.activationRevision>> : e \in outbox}
            \cup {<<[k \in Contracts |-> OwnerOf(k)][c], c,
                    Ledger!Last(c).revision + 1>>}
  BY <1>1, <1>3, <1>5
<1> QED
  BY <1>1, <1>3, <1>4, <1>6 DEF Ledger!Activate, OwnerOf

\* CloseContract closes.
LEMMA ClosureCloses ==
  ASSUME LedgerInv, LedgerInv', NEW r \in Requests, NEW c \in Contracts,
         NEW old, NEW new, ChangeCommitted(r, c, "CLOSED", old, new)
  PROVE  Ledger!Close(c)
<1>1. /\ Ledger!Opened(c) /\ Ledger!Last(c) = Snapshot(old)
      /\ UNCHANGED [k \in Contracts |-> OwnerOf(k)]
  BY ChangeEnters
<1>2. old.status = "ACTIVE" /\ new.status = "CLOSED" /\ UNCHANGED outbox
  BY DEF ChangeCommitted, LawfulChange
<1>3. Ledger!Last(c).status = "ACTIVE"
  BY <1>1, <1>2 DEF Snapshot
<1>4. Ledger!Enter(c, [Ledger!Last(c) EXCEPT !.revision = @ + 1,
                                             !.status = "CLOSED"])
  BY <1>2, StatusIsEntered
<1>5. UNCHANGED {<<e.tenant, e.contract, e.activationRevision>> : e \in outbox}
  BY <1>2
<1> QED
  BY <1>1, <1>3, <1>4, <1>5 DEF Ledger!Close, OwnerOf

\* A change of a contract is one of the three.
LEMMA ChangeIsInTheLedger ==
  ASSUME LedgerInv, LedgerInv', NEW r \in Requests, NEW action, NEW old, NEW new,
         ChangeCommitted(r, cmd[r].contract, action, old, new)
  PROVE  Ledger!Next
<1>1. PICK c \in Contracts : c = cmd[r].contract
  BY DEF ChangeCommitted
<1>2. ChangeCommitted(r, c, action, old, new)
  BY <1>1
<1>3. action \in {"EDITED", "MIGRATED", "ACTIVATED", "CLOSED"}
  BY <1>2 DEF ChangeCommitted, LawfulChange
<1>4. CASE action \in {"EDITED", "MIGRATED"}
  BY <1>2, <1>4, DraftIsRewritten DEF Ledger!Next
<1>5. CASE action = "ACTIVATED"
  BY <1>2, <1>5, ActivationActivates DEF Ledger!Next
<1>6. CASE action = "CLOSED"
  BY <1>2, <1>6, ClosureCloses DEF Ledger!Next
<1> QED
  BY <1>3, <1>4, <1>5, <1>6

\* The step simulation: a commit is a step of the ledger, any other step none.
LEMMA StepsAreLedgerSteps ==
  ASSUME LedgerInv, LedgerInv', [Next]_vars
  PROVE  [Ledger!Next]_(Ledger!vars)
<1>1. CASE UNCHANGED db
  <2>1. UNCHANGED <<templates, versions, contracts, history, outbox>>
    BY <1>1 DEF db
  <2>2. \A c \in Contracts : StatesOf(c)' = StatesOf(c)
    BY <2>1, StatesStay DEF LedgerInv
  <2> QED
    BY <2>1, <2>2 DEF Ledger!vars, Exists
<1>2. ASSUME NEW r \in Requests, Committed(r)
      PROVE  Ledger!Next
  <2>1. ASSUME NEW v \in Versions, PublicationCommitted(r, v)
        PROVE  Ledger!Next
    BY <1>2, <2>1, PublicationPublishes DEF Ledger!Next
  <2>2. ASSUME NEW c \in Contracts, NEW created \in Row,
               CreationCommitted(r, c, created)
        PROVE  Ledger!Next
    BY <1>2, <2>2, CreationCreates DEF Ledger!Next
  <2> QED
    BY <1>2, <2>1, <2>2, ChangeIsInTheLedger DEF Committed
<1> QED
  BY <1>1, <1>2, StepWrites DEF LedgerInv, HistoryInv

\* Empty tables are an empty ledger.
LEMMA InitIsLedgerInit == Init /\ LedgerInv => Ledger!Init
<1> SUFFICES ASSUME Init, LedgerInv
             PROVE  Ledger!Init
  OBVIOUS
<1>1. \A c \in Contracts : ~Exists(c) /\ StatesOf(c) = <<>>
  <2> SUFFICES ASSUME NEW c \in Contracts
               PROVE  ~Exists(c) /\ StatesOf(c) = <<>>
    OBVIOUS
  <2>1. ~Exists(c)
    BY DEF Init, Exists
  <2>2. StatesOf(c) \in Seq(Snapshots) /\ Len(StatesOf(c)) = 0
    BY <2>1 DEF LedgerInv, StatesAreRight
  <2> QED BY <2>1, <2>2, EmptySeq
<1>2. /\ \A t \in Tenants : templates[t].active = None
      /\ \A v \in Versions : versions[v] = None
      /\ outbox = {}
  BY DEF Init, NoTemplate
<1> QED
  BY <1>1, <1>2 DEF Ledger!Init

\* Whatever the interleaving of statements, waits, commits and aborts, the
\* tables of the workspace behave like the ledger: every accepted request acts
\* at once and every other one not at all.
THEOREM WorkspaceIsALedger == Spec => ImplementsLedger
<1>1. HistoryInv => LedgerInv
  BY StatesOfContracts DEF LedgerInv
<1>2. Init /\ LedgerInv => Ledger!Init
  BY InitIsLedgerInit
<1>3. LedgerInv /\ LedgerInv' /\ [Next]_vars => [Ledger!Next]_(Ledger!vars)
  BY StepsAreLedgerSteps
<1> QED
  BY <1>1, <1>2, <1>3, HistoryInvariant, PTL
     DEF Spec, ImplementsLedger, Ledger!Spec

-----------------------------------------------------------------------------
(***************************************************************************)
(* What a read shows is true, for any number of readers and of requests    *)
(* that commit between its statements.                                     *)
(*                                                                         *)
(* A read needs no lock because of what a commit never does: it removes no *)
(* contract, version or entry, moves none to another tenant, and gives     *)
(* every new content of a contract or a template a revision of its own.    *)
(* So everything a statement has seen stays true of a part of the tables,  *)
(* and the invariant below says of which.                                  *)
(***************************************************************************)

\* Version v is there and belongs to t.
Owned(v, t) == v \in Versions /\ versions[v] # None /\ versions[v].tenant = t

\* The snapshots of an entry name versions of the tenant of its contract.
NamesOwnVersions(e) ==
  LET t == contracts[e.contract].tenant IN
  /\ Owned(e.after.version, t)
  /\ e.before # None => Owned(e.before.version, t)

TablesInv == HistoryInv /\ \A e \in history : NamesOwnVersions(e)

\* Contract c is there, belongs to t and has come to revision n or beyond.
Reached(c, t, n) ==
  /\ c \in Contracts /\ contracts[c] # None
  /\ contracts[c].tenant = t
  /\ n \in Nat \ {0} /\ n <= contracts[c].revision

\* x is the row contract c of tenant t has, or had at an earlier revision.
WasContract(c, t, x) ==
  /\ x \in Row
  /\ Reached(c, t, x.revision)
  /\ x.revision = contracts[c].revision => x = contracts[c]
  /\ Owned(x.version, t)
  /\ \E e \in history : /\ e.contract = c /\ e.revision = x.revision
                        /\ e.after = Snapshot(x)

\* x is the row the template of t has, or had at an earlier revision.
WasTemplate(t, x) ==
  /\ t \in Tenants /\ x \in TemplateRow
  /\ x.revision <= templates[t].revision
  /\ x.revision = templates[t].revision => x = templates[t]
  /\ Owned(x.active, t)

\* es are the entries of c up to some revision that is n at least.
AreEntries(es, c, n) ==
  /\ es \subseteq EntriesOf(c)
  /\ \A m \in 1..n : \E e \in es : e.revision = m
  /\ \A e \in es : e.revision = 1 \/ \E f \in es : f.revision + 1 = e.revision

\* What r has read so far, statement by statement.
ReaderFits(r) ==
  LET k == asked[r] IN
  /\ step[r] \in {"idle", "findContract", "findTemplate", "findEntries",
                  "findVersions", "findVersion"}
  /\ step[r] # "idle" => k \in ContractQuestion \cup TemplateQuestion
  /\ step[r] = "findContract" => k \in ContractQuestion
  /\ step[r] = "findTemplate" => k \in TemplateQuestion
  /\ step[r] \in {"findEntries", "findVersions"} =>
       k \in ContractQuestion /\ WasContract(k.contract, k.tenant, found[r])
  /\ step[r] = "findVersions" =>
       AreEntries(entries[r], k.contract, found[r].revision)
  /\ step[r] = "findVersion" =>
       \/ k.kind = "detail" /\ WasContract(k.contract, k.tenant, found[r])
       \/ k.kind = "template" /\ WasTemplate(k.tenant, found[r])

\* A history that was shown.
HistoryFits(h) ==
  /\ h.contract \in Contracts /\ contracts[h.contract] # None
  /\ contracts[h.contract].tenant = h.tenant
  /\ \A n \in 1..h.revision : \E e \in h.entries : e.revision = n
  /\ \A e \in h.entries :
       /\ e.contract = h.contract
       /\ e.revision = 1 \/ \E f \in h.entries : f.after = e.before
       /\ e.revision = h.revision => e.after.status = h.status

\* A detail that was shown.
DetailFits(d) ==
  /\ Reached(d.contract, d.tenant, d.revision)
  /\ Owned(d.version, d.tenant)
  /\ d.definition = versions[d.version].definition
  /\ contracts[d.contract].revision = d.revision =>
       Snapshot(contracts[d.contract]) =
         [status |-> d.status, revision |-> d.revision,
          values |-> d.values, version |-> d.version]

\* A template that was shown.
TemplateShownFits(a) ==
  /\ a.tenant \in Tenants
  /\ a.revision \in Nat /\ a.revision <= templates[a.tenant].revision
  /\ Owned(a.version, a.tenant)
  /\ a.definition = versions[a.version].definition
  /\ a.revision = templates[a.tenant].revision =>
       a.version = templates[a.tenant].active

ShownFits(r) ==
  /\ ~Shows(r, "ContractHistoryIntegrityError")
  /\ Shows(r, "history") => HistoryFits(shown[r])
  /\ Shows(r, "detail") => DetailFits(shown[r])
  /\ Shows(r, "template") => TemplateShownFits(shown[r])

ReadTypes ==
  /\ DOMAIN asked = Readers /\ DOMAIN step = Readers /\ DOMAIN found = Readers
  /\ DOMAIN entries = Readers /\ DOMAIN shown = Readers

ReadInv ==
  /\ TablesInv
  /\ ReadTypes
  /\ \A r \in Readers : ReaderFits(r) /\ ShownFits(r)

-----------------------------------------------------------------------------
(***************************************************************************)
(* What a commit never does.                                               *)
(***************************************************************************)

\* No entry, version or contract goes, and a row with other contents has the
\* next revision.
TablesGrow ==
  /\ history \subseteq history'
  /\ \A v \in Versions : versions[v] # None => versions'[v] = versions[v]
  /\ \A c \in Contracts : contracts[c] # None =>
       /\ contracts'[c] # None
       /\ contracts'[c].tenant = contracts[c].tenant
       /\ contracts'[c] = contracts[c]
            \/ contracts'[c].revision = contracts[c].revision + 1
  /\ \A t \in Tenants :
       templates'[t] = templates[t]
         \/ templates'[t].revision = templates[t].revision + 1

\* A publication adds a version and replaces a template by its next revision.
LEMMA PublicationsGrow ==
  ASSUME IInv, NEW r \in Requests, NEW v \in Versions,
         PublicationCommitted(r, v)
  PROVE  TablesGrow
<1>1. /\ templates \in [Tenants -> TemplateRow]
      /\ versions \in [Versions -> VersionRow \cup {None}]
  BY DEF IInv, TypeOK
<1>2. PICK t \in Tenants : t = cmd[r].tenant
  BY NamesAreTyped DEF PublicationCommitted
<1>3. tpl[r] = templates[t]
  BY <1>2 DEF PublicationCommitted, IInv, RequestsFit, ReadsAreCovered,
     HoldsTemplate
<1>4. \A u \in Tenants : templates'[u] = templates[u]
                           \/ templates'[u].revision = templates[u].revision + 1
  <2>1. templates' = [templates EXCEPT ![t] =
                        [revision |-> templates[t].revision + 1, active |-> v]]
    BY <1>2, <1>3 DEF PublicationCommitted
  <2> QED BY <1>1, <2>1
<1>5. \A w \in Versions : versions[w] # None => versions'[w] = versions[w]
  <2>1. PICK y : versions' = [versions EXCEPT ![v] = y]
    BY DEF PublicationCommitted
  <2>2. versions[v] = None
    BY DEF PublicationCommitted
  <2> QED BY <1>1, <2>1, <2>2
<1> QED
  BY <1>4, <1>5 DEF TablesGrow, PublicationCommitted

\* What a commit never does, for all of them.
LEMMA StepsGrow ==
  ASSUME IInv, [Next]_vars
  PROVE  TablesGrow
<1>1. CASE UNCHANGED db
  BY <1>1 DEF db, TablesGrow
<1>2. ASSUME NEW r \in Requests, NEW v \in Versions, PublicationCommitted(r, v)
      PROVE  TablesGrow
  BY <1>2, PublicationsGrow
<1>3. ASSUME NEW r \in Requests, Committed(r),
             UNCHANGED <<templates, versions>>
      PROVE  TablesGrow
  <2>1. \A c \in Contracts : contracts[c] # None =>
          /\ contracts'[c] # None
          /\ contracts'[c].tenant = contracts[c].tenant
          /\ contracts'[c] = contracts[c]
               \/ contracts'[c].revision = contracts[c].revision + 1
    <3> SUFFICES ASSUME NEW c \in Contracts, contracts[c] # None,
                        contracts'[c] # contracts[c]
                 PROVE  /\ contracts'[c] # None
                        /\ contracts'[c].tenant = contracts[c].tenant
                        /\ contracts'[c].revision = contracts[c].revision + 1
      OBVIOUS
    <3> QED
      BY <1>3, CommitOnContracts, NoneAssumption
         DEF CreationCommitted, Free, ChangeCommitted
  <2>2. history \subseteq history'
    BY <1>3 DEF Committed, PublicationCommitted, CreationCommitted, ChangeCommitted
  <2> QED
    BY <1>3, <2>1, <2>2 DEF TablesGrow
<1> QED
  BY <1>1, <1>2, <1>3, StepWrites DEF Committed, CreationCommitted, ChangeCommitted

\* A version keeps its owner.
LEMMA OwnedStays ==
  ASSUME TablesGrow, NEW v, NEW t, Owned(v, t)
  PROVE  Owned(v, t)' /\ versions'[v] = versions[v]
  BY DEF TablesGrow, Owned

\* The versions the entries name are there, of the tenant of the contract.
LEMMA NextKeepsTablesInv ==
  ASSUME TablesInv, [Next]_vars
  PROVE  TablesInv' /\ TablesGrow
<1>1. HistoryInv'
  BY NextKeepsHistoryInv DEF TablesInv
<1>2. TablesGrow
  BY StepsGrow DEF TablesInv, HistoryInv
<1>3. \A e \in history : NamesOwnVersions(e)'
  <2> SUFFICES ASSUME NEW e \in history
               PROVE  NamesOwnVersions(e)'
    OBVIOUS
  <2>1. /\ e.contract \in Contracts /\ contracts[e.contract] # None
        /\ NamesOwnVersions(e)
    BY DEF TablesInv, HistoryInv, HistoryIsComplete, Exists, IInv, TypeOK, Entries
  <2>2. contracts'[e.contract].tenant = contracts[e.contract].tenant
    BY <1>2, <2>1 DEF TablesGrow
  <2> QED
    BY <1>2, <2>1, <2>2 DEF NamesOwnVersions, Owned, TablesGrow
<1>4. ASSUME NEW c, NEW entry, NEW x, Recorded(c, entry, x)
      PROVE  NamesOwnVersions(entry)'
  <2>1. /\ c \in Contracts /\ x \in Row /\ contracts'[c] = x /\ x # None
        /\ entry.contract = c /\ entry.after.version = x.version
    BY <1>4, NoneAssumption DEF Recorded, TablesInv, HistoryInv, IInv, TypeOK, Snapshot
  <2>2. Owned(x.version, x.tenant)'
    BY <1>1, <2>1 DEF HistoryInv, IInv, TablesFit, ContractFits, Owned, Row
  <2>3. CASE entry.before = None
    BY <2>1, <2>2, <2>3 DEF NamesOwnVersions, Owned
  <2>4. CASE entry.before # None
    <3>1. PICK y \in Row : /\ y = contracts[c] /\ y # None
                           /\ x.tenant = y.tenant
                           /\ entry.before.version = y.version
      BY <1>4, <2>4, NoneAssumption DEF Recorded, Snapshot
    <3>2. Owned(y.version, y.tenant)
      BY <2>1, <3>1 DEF TablesInv, HistoryInv, IInv, TablesFit, ContractFits, Owned, Row
    <3>3. Owned(y.version, y.tenant)'
      BY <1>2, <3>2, OwnedStays
    <3> QED
      BY <2>1, <2>2, <3>1, <3>3 DEF NamesOwnVersions, Owned
  <2> QED
    BY <2>3, <2>4
<1>5. \A e \in history' : NamesOwnVersions(e)'
  <2>1. CASE history' = history
    BY <1>3, <2>1
  <2>2. ASSUME NEW c, NEW entry, NEW x, Recorded(c, entry, x)
        PROVE  \A e \in history' : NamesOwnVersions(e)'
    <3>1. history' = history \cup {entry} /\ NamesOwnVersions(entry)'
      BY <1>4, <2>2 DEF Recorded
    <3> QED BY <1>3, <3>1
  <2> QED
    BY <2>1, <2>2, CommitsRecord DEF TablesInv, HistoryInv
<1> QED
  BY <1>1, <1>2, <1>5 DEF TablesInv

-----------------------------------------------------------------------------
(***************************************************************************)
(* What a read has seen, and has shown, stays true of the tables.          *)
(***************************************************************************)

\* A contract does not go back to an earlier revision.
LEMMA ReachedStays ==
  ASSUME TablesInv, TablesGrow, NEW c, NEW t, NEW n, Reached(c, t, n)
  PROVE  /\ Reached(c, t, n)'
         /\ contracts'[c].revision = n =>
              contracts[c].revision = n /\ contracts'[c] = contracts[c]
<1>1. /\ c \in Contracts /\ contracts[c] # None
      /\ n \in Nat \ {0} /\ n <= contracts[c].revision
  BY DEF Reached
<1>2. contracts[c].revision \in Nat
  BY <1>1 DEF TablesInv, HistoryInv, IInv, TypeOK, Row
<1> QED
  BY <1>1, <1>2 DEF Reached, TablesGrow

\* A row that was read is the row, or an earlier one.
LEMMA WasContractStays ==
  ASSUME TablesInv, TablesGrow, NEW c, NEW t, NEW x, WasContract(c, t, x)
  PROVE  WasContract(c, t, x)'
<1>1. Reached(c, t, x.revision)'
        /\ (x.revision = contracts'[c].revision => x = contracts'[c])
  BY ReachedStays DEF WasContract
<1>2. Owned(x.version, t)'
  BY OwnedStays DEF WasContract
<1>3. \E e \in history' : /\ e.contract = c /\ e.revision = x.revision
                          /\ e.after = Snapshot(x)
  BY DEF WasContract, TablesGrow
<1> QED
  BY <1>1, <1>2, <1>3 DEF WasContract

\* The same of the row of a template.
LEMMA WasTemplateStays ==
  ASSUME TablesInv, TablesGrow, NEW t, NEW x, WasTemplate(t, x)
  PROVE  WasTemplate(t, x)'
<1>1. Owned(x.active, t)'
  BY OwnedStays DEF WasTemplate
<1>2. templates[t].revision \in Nat /\ x.revision \in Nat
  BY DEF WasTemplate, TablesInv, HistoryInv, IInv, TypeOK, TemplateRow
<1> QED
  BY <1>1, <1>2 DEF WasTemplate, TablesGrow

\* Entries that were read are still entries.
LEMMA AreEntriesStay ==
  ASSUME TablesGrow, NEW es, NEW c, NEW n, AreEntries(es, c, n)
  PROVE  AreEntries(es, c, n)'
  BY DEF AreEntries, EntriesOf, TablesGrow

\* A commit takes nothing from what a reader has read.
LEMMA ReaderStays ==
  ASSUME TablesInv, TablesGrow, NEW r \in Readers, ReaderFits(r),
         asked'[r] = asked[r], step'[r] = step[r], found'[r] = found[r],
         entries'[r] = entries[r]
  PROVE  ReaderFits(r)'
<1>1. PICK k, x, es : k = asked[r] /\ x = found[r] /\ es = entries[r]
  OBVIOUS
<1>2. WasContract(k.contract, k.tenant, x) => WasContract(k.contract, k.tenant, x)'
  BY WasContractStays
<1>3. WasTemplate(k.tenant, x) => WasTemplate(k.tenant, x)'
  BY WasTemplateStays
<1>4. AreEntries(es, k.contract, x.revision) => AreEntries(es, k.contract, x.revision)'
  BY AreEntriesStay
<1> QED
  BY <1>1, <1>2, <1>3, <1>4
     DEF ReaderFits, WasContract, WasTemplate, AreEntries, Reached, Owned, EntriesOf

\* Nor does it make untrue what a reader has shown.
LEMMA ShownStays ==
  ASSUME TablesInv, TablesGrow, NEW r \in Readers, ShownFits(r),
         shown'[r] = shown[r]
  PROVE  ShownFits(r)'
<1>1. PICK a : a = shown[r]
  OBVIOUS
<1>2. HistoryFits(a) => HistoryFits(a)'
  BY DEF HistoryFits, TablesGrow
<1>3. DetailFits(a) => DetailFits(a)'
  <2> SUFFICES ASSUME DetailFits(a)
               PROVE  DetailFits(a)'
    OBVIOUS
  <2>1. /\ Reached(a.contract, a.tenant, a.revision)'
        /\ contracts'[a.contract].revision = a.revision =>
             /\ contracts[a.contract].revision = a.revision
             /\ contracts'[a.contract] = contracts[a.contract]
    BY ReachedStays DEF DetailFits
  <2>2. Owned(a.version, a.tenant)' /\ versions'[a.version] = versions[a.version]
    BY OwnedStays DEF DetailFits
  <2> QED
    BY <2>1, <2>2 DEF DetailFits, Snapshot
<1>4. TemplateShownFits(a) => TemplateShownFits(a)'
  <2> SUFFICES ASSUME TemplateShownFits(a)
               PROVE  TemplateShownFits(a)'
    OBVIOUS
  <2>1. Owned(a.version, a.tenant)' /\ versions'[a.version] = versions[a.version]
    BY OwnedStays DEF TemplateShownFits
  <2>2. templates[a.tenant].revision \in Nat
    BY DEF TemplateShownFits, TablesInv, HistoryInv, IInv, TypeOK, TemplateRow
  <2> QED
    BY <2>1, <2>2 DEF TemplateShownFits, TablesGrow
<1> QED
  BY <1>1, <1>2, <1>3, <1>4
     DEF ShownFits, Shows, HistoryFits, DetailFits, TemplateShownFits, Reached, Owned

\* A step of a request keeps the invariant of the reads.
LEMMA WritersKeepReadInv ==
  ASSUME ReadInv, [Next]_vars, UNCHANGED reading
  PROVE  ReadInv'
<1>1. TablesInv' /\ TablesGrow
  BY NextKeepsTablesInv DEF ReadInv
<1>2. ASSUME NEW r \in Readers
      PROVE  ReaderFits(r)' /\ ShownFits(r)'
  BY <1>1, <1>2, ReaderStays, ShownStays DEF ReadInv, reading
<1> QED
  BY <1>1, <1>2 DEF ReadInv, ReadTypes, reading

-----------------------------------------------------------------------------
(***************************************************************************)
(* The statements of a read.                                               *)
(***************************************************************************)

\* The fields of a question, by its kind.
LEMMA QuestionFields ==
  /\ \A k \in ContractQuestion : /\ k.kind \in {"detail", "history"}
                                 /\ k.tenant \in Tenants
                                 /\ k.contract \in Contracts
  /\ \A k \in TemplateQuestion : k.kind = "template" /\ k.tenant \in Tenants
  BY DEF ContractQuestion, TemplateQuestion

\* A read changes no table.
LEMMA ReadsChangeNoTable ==
  ASSUME TablesInv, UNCHANGED vars
  PROVE  TablesInv' /\ TablesGrow
  BY NextKeepsTablesInv

\* The other readers do not notice; it is enough to look at the one that moves.
LEMMA ReaderKeepsReadInv ==
  ASSUME ReadInv, UNCHANGED vars, NEW r \in Readers, ReadTypes',
         \A q \in Readers \ {r} :
           /\ asked'[q] = asked[q] /\ step'[q] = step[q] /\ found'[q] = found[q]
           /\ entries'[q] = entries[q] /\ shown'[q] = shown[q],
         ReaderFits(r)', ShownFits(r)'
  PROVE  ReadInv'
<1>1. TablesInv' /\ TablesGrow
  BY ReadsChangeNoTable DEF ReadInv
<1>2. \A q \in Readers \ {r} : ReaderFits(q)' /\ ShownFits(q)'
  BY <1>1, ReaderStays, ShownStays DEF ReadInv
<1> QED
  BY <1>1, <1>2 DEF ReadInv

\* A read that ends with an answer that is true of the tables.
LEMMA ShowKeepsReadInv ==
  ASSUME ReadInv, UNCHANGED vars, NEW r \in Readers, NEW given, Show(r, given),
         given.is # "ContractHistoryIntegrityError",
         given.is = "history" => HistoryFits(given),
         given.is = "detail" => DetailFits(given),
         given.is = "template" => TemplateShownFits(given)
  PROVE  ReadInv'
<1>1. ReadTypes
  BY DEF ReadInv
<1>2. /\ shown'[r] = given /\ step'[r] = "idle" /\ ReadTypes'
      /\ \A q \in Readers \ {r} :
           /\ asked'[q] = asked[q] /\ step'[q] = step[q] /\ found'[q] = found[q]
           /\ entries'[q] = entries[q] /\ shown'[q] = shown[q]
  BY <1>1 DEF ReadTypes, Show
<1>3. ReaderFits(r)'
  BY <1>2 DEF ReaderFits
<1>4. ShownFits(r)'
  BY <1>2 DEF ShownFits, Shows, HistoryFits, DetailFits, TemplateShownFits,
     Reached, Owned, vars, db
<1> QED
  BY <1>2, <1>3, <1>4, ReaderKeepsReadInv

\* A read that goes on.
LEMMA ProceedKeepsReadInv ==
  ASSUME ReadInv, UNCHANGED vars, NEW r \in Readers, ReadTypes',
         \A q \in Readers \ {r} :
           /\ asked'[q] = asked[q] /\ step'[q] = step[q] /\ found'[q] = found[q]
           /\ entries'[q] = entries[q],
         UNCHANGED shown, ReaderFits(r)'
  PROVE  ReadInv'
<1>1. TablesGrow
  BY ReadsChangeNoTable DEF ReadInv
<1>2. ShownFits(r)'
  BY <1>1, ShownStays DEF ReadInv
<1> QED
  BY <1>2, ReaderKeepsReadInv

\* A question arrives.
LEMMA AskKeepsReadInv ==
  ASSUME ReadInv, UNCHANGED vars, NEW r \in Readers, Ask(r)
  PROVE  ReadInv'
<1>1. PICK k \in Questions :
        /\ asked' = [asked EXCEPT ![r] = k]
        /\ step' = [step EXCEPT ![r] = FirstQuery(k.kind)]
        /\ UNCHANGED <<found, entries, shown>>
  BY DEF Ask
<1>2. /\ k \in ContractQuestion \cup TemplateQuestion
      /\ FirstQuery(k.kind) = "findContract" => k \in ContractQuestion
      /\ FirstQuery(k.kind) = "findTemplate" => k \in TemplateQuestion
      /\ FirstQuery(k.kind) \in {"findContract", "findTemplate"}
  BY QuestionsAssumption, QuestionFields DEF FirstQuery
<1>3. ReadTypes
  BY DEF ReadInv
<1>4. asked'[r] = k /\ step'[r] = FirstQuery(k.kind)
  BY <1>1, <1>3 DEF ReadTypes
<1>5. ReaderFits(r)'
  BY <1>2, <1>4 DEF ReaderFits
<1> QED
  BY <1>1, <1>3, <1>5, ProceedKeepsReadInv DEF ReadTypes

\* A row that was just read is the row.
LEMMA JustReadContract ==
  ASSUME TablesInv, NEW c \in Contracts, contracts[c] # None
  PROVE  WasContract(c, contracts[c].tenant, contracts[c])
<1>1. contracts[c] \in Row
  BY DEF TablesInv, HistoryInv, IInv, TypeOK
<1>2. contracts[c].revision \in Nat \ {0} /\ contracts[c].version \in Versions
  BY <1>1 DEF Row
<1>3. Owned(contracts[c].version, contracts[c].tenant)
  BY <1>2 DEF TablesInv, HistoryInv, IInv, TablesFit, ContractFits, Owned
<1>4. HasEntry(c, contracts[c].revision)
  BY <1>2 DEF TablesInv, HistoryInv, HistoryIsComplete, Exists
<1>5. \E e \in history : /\ e.contract = c /\ e.revision = contracts[c].revision
                         /\ e.after = Snapshot(contracts[c])
  BY <1>4 DEF HasEntry, TablesInv, HistoryInv, HistoryIsAChain, Exists
<1> QED
  BY <1>1, <1>2, <1>3, <1>5 DEF WasContract, Reached

\* findContract.
LEMMA FindContractKeepsReadInv ==
  ASSUME ReadInv, UNCHANGED vars, NEW r \in Readers, FindContract(r)
  PROVE  ReadInv'
<1>1. CASE Show(r, Failure("ContractNotFound"))
  BY <1>1, ShowKeepsReadInv DEF Failure
<1>2. CASE ~Show(r, Failure("ContractNotFound"))
  <2>1. PICK k : k = asked[r]
    OBVIOUS
  <2>2. /\ k \in ContractQuestion /\ k.contract \in Contracts
        /\ k.kind \in {"detail", "history"}
    BY <2>1, QuestionFields DEF ReadInv, ReaderFits, FindContract
  <2>3. PICK x : x = contracts[k.contract]
    OBVIOUS
  <2>4. /\ x # None /\ x.tenant = k.tenant
        /\ found' = [found EXCEPT ![r] = x]
        /\ step' = [step EXCEPT ![r] = IF k.kind = "detail" THEN "findVersion"
                                       ELSE "findEntries"]
        /\ UNCHANGED <<asked, shown, entries>>
    BY <1>2, <2>1, <2>3 DEF FindContract, Proceed
  <2>5. WasContract(k.contract, k.tenant, x)
    BY <2>2, <2>3, <2>4, JustReadContract DEF ReadInv
  <2>6. ReadTypes
    BY DEF ReadInv
  <2>7. WasContract(k.contract, k.tenant, x)'
    BY <2>5, ReadsChangeNoTable, WasContractStays DEF ReadInv
  <2>8. /\ asked'[r] = k /\ found'[r] = x
        /\ step'[r] = IF k.kind = "detail" THEN "findVersion" ELSE "findEntries"
    BY <2>1, <2>4, <2>6 DEF ReadTypes
  <2>9. ReaderFits(r)'
    BY <2>2, <2>7, <2>8 DEF ReaderFits, WasContract, Reached, Owned
  <2> QED
    BY <2>4, <2>6, <2>9, ProceedKeepsReadInv DEF ReadTypes
<1> QED
  BY <1>1, <1>2

\* findEntries: the History as it is now goes at least as far as the row does.
LEMMA FindEntriesKeepsReadInv ==
  ASSUME ReadInv, UNCHANGED vars, NEW r \in Readers, FindEntries(r)
  PROVE  ReadInv'
<1>1. PICK k, x : k = asked[r] /\ x = found[r]
  OBVIOUS
<1>2. PICK es : es = EntriesOf(k.contract)
  OBVIOUS
<1>3. k \in ContractQuestion /\ WasContract(k.contract, k.tenant, x)
  BY <1>1 DEF ReadInv, ReaderFits, FindEntries
<1>4. AreEntries(es, k.contract, x.revision)
  <2>1. /\ k.contract \in Contracts /\ contracts[k.contract] # None
        /\ x.revision \in Nat /\ x.revision <= contracts[k.contract].revision
        /\ contracts[k.contract].revision \in Nat
    BY <1>3 DEF WasContract, Reached, ReadInv, TablesInv, HistoryInv, IInv,
       TypeOK, Row
  <2>2. \A m \in 1..contracts[k.contract].revision : \E e \in es : e.revision = m
    BY <1>2, <2>1 DEF EntriesOf, ReadInv, TablesInv, HistoryInv,
       HistoryIsComplete, Exists, HasEntry
  <2>3. \A e \in es : /\ e.revision \in Nat \ {0}
                      /\ e.revision <= contracts[k.contract].revision
    BY <1>2 DEF EntriesOf, ReadInv, TablesInv, HistoryInv, HistoryIsComplete,
       IInv, TypeOK, Entries
  <2>4. \A e \in es : e.revision = 1 \/ \E f \in es : f.revision + 1 = e.revision
    <3> SUFFICES ASSUME NEW e \in es, e.revision # 1
                 PROVE  \E f \in es : f.revision + 1 = e.revision
      OBVIOUS
    <3>1. e.revision - 1 \in 1..contracts[k.contract].revision
      BY <2>1, <2>3
    <3>2. PICK f \in es : f.revision = e.revision - 1
      BY <2>2, <3>1
    <3> QED
      BY <2>3, <3>2
  <2> QED
    BY <1>2, <2>1, <2>2, <2>4 DEF AreEntries
<1>5. ReadTypes
  BY DEF ReadInv
<1>6. /\ asked'[r] = k /\ found'[r] = x /\ step'[r] = "findVersions"
      /\ entries'[r] = es
      /\ entries' = [entries EXCEPT ![r] = es]
      /\ step' = [step EXCEPT ![r] = "findVersions"]
      /\ UNCHANGED <<asked, shown, found>>
  BY <1>1, <1>2, <1>5 DEF ReadTypes, FindEntries, Proceed
<1>7. WasContract(k.contract, k.tenant, x)' /\ AreEntries(es, k.contract, x.revision)'
  BY <1>3, <1>4, ReadsChangeNoTable, WasContractStays, AreEntriesStay DEF ReadInv
<1>8. ReaderFits(r)'
  BY <1>3, <1>6, <1>7 DEF ReaderFits, WasContract, AreEntries, EntriesOf,
     Reached, Owned
<1> QED
  BY <1>5, <1>6, <1>8, ProceedKeepsReadInv DEF ReadTypes

\* The entries that were read pass the checks, against whatever versions are
\* there now.
LEMMA EntriesAreIntact ==
  ASSUME TablesInv, NEW k \in ContractQuestion, NEW x, NEW es,
         WasContract(k.contract, k.tenant, x),
         AreEntries(es, k.contract, x.revision)
  PROVE  /\ \A e, f \in es : e.revision = f.revision => e = f
         /\ \A e \in es : e.action = "CREATED" <=> e.before = None
         /\ \A v \in Named(es) : Owned(v, k.tenant)
<1>1. \A e \in es : e \in history /\ e.contract = k.contract
  BY DEF AreEntries, EntriesOf
<1>2. \A e, f \in es : e.revision = f.revision => e = f
  BY <1>1 DEF TablesInv, HistoryInv, HistoryIsComplete
<1>3. \A e \in es : e.action = "CREATED" <=> e.before = None
  BY <1>1 DEF TablesInv, HistoryInv, HistoryIsAChain
<1>4. \A v \in Named(es) : Owned(v, k.tenant)
  BY <1>1 DEF Named, TablesInv, NamesOwnVersions, WasContract, Reached
<1> QED
  BY <1>2, <1>3, <1>4

\* findVersions, and the history that is shown.
LEMMA FindVersionsKeepsReadInv ==
  ASSUME ReadInv, UNCHANGED vars, NEW r \in Readers, FindVersions(r)
  PROVE  ReadInv'
<1>1. PICK k, x, es : k = asked[r] /\ x = found[r] /\ es = entries[r]
  OBVIOUS
<1>2. /\ k \in ContractQuestion
      /\ WasContract(k.contract, k.tenant, x)
      /\ AreEntries(es, k.contract, x.revision)
      /\ TablesInv
  BY <1>1 DEF ReadInv, ReaderFits, FindVersions
<1>3. /\ \A e, f \in es : e.revision = f.revision => e = f
      /\ \A e \in es : e.action = "CREATED" <=> e.before = None
      /\ \A v \in Named(es) : Owned(v, k.tenant)
  BY <1>2, EntriesAreIntact
<1>4. Intact(entries[r], Known(r))
  BY <1>1, <1>3 DEF Intact, Known, Owned
<1> DEFINE h == [is |-> "history", tenant |-> k.tenant, contract |-> k.contract,
                 status |-> x.status, revision |-> x.revision, entries |-> es]
<1>5. Show(r, h)
  BY <1>1, <1>4 DEF FindVersions
<1>6. HistoryFits(h)
  <2>1. /\ k.contract \in Contracts /\ contracts[k.contract] # None
        /\ contracts[k.contract].tenant = k.tenant
    BY <1>2 DEF WasContract, Reached
  <2>2. \A n \in 1..x.revision : \E e \in es : e.revision = n
    BY <1>2 DEF AreEntries
  <2>3. \A e \in es : e \in history /\ e.contract = k.contract
    BY <1>2 DEF AreEntries, EntriesOf
  <2>4. \A e \in es : e.revision = 1 \/ \E f \in es : f.after = e.before
    BY <1>2, <2>3 DEF AreEntries, TablesInv, HistoryInv, HistoryIsAChain
  <2>5. \A e \in es : e.revision = x.revision => e.after.status = x.status
    <3>1. PICK f \in history : /\ f.contract = k.contract
                               /\ f.revision = x.revision
                               /\ f.after = Snapshot(x)
      BY <1>2 DEF WasContract
    <3> QED
      BY <1>2, <2>3, <3>1 DEF TablesInv, HistoryInv, HistoryIsComplete, Snapshot
  <2> QED
    BY <2>1, <2>2, <2>3, <2>4, <2>5 DEF HistoryFits
<1> QED
  BY <1>5, <1>6, ShowKeepsReadInv

\* findTemplate.
LEMMA FindTemplateKeepsReadInv ==
  ASSUME ReadInv, UNCHANGED vars, NEW r \in Readers, FindTemplate(r)
  PROVE  ReadInv'
<1>1. CASE Show(r, Failure("ActiveTemplateNotFound"))
  BY <1>1, ShowKeepsReadInv DEF Failure
<1>2. CASE ~Show(r, Failure("ActiveTemplateNotFound"))
  <2>1. PICK k : k = asked[r]
    OBVIOUS
  <2>2. k \in TemplateQuestion /\ k.tenant \in Tenants /\ k.kind = "template"
    BY <2>1, QuestionFields DEF ReadInv, ReaderFits, FindTemplate
  <2>3. PICK x : x = templates[k.tenant]
    OBVIOUS
  <2>4. /\ x # NoTemplate
        /\ found' = [found EXCEPT ![r] = x]
        /\ step' = [step EXCEPT ![r] = "findVersion"]
        /\ UNCHANGED <<asked, shown, entries>>
    BY <1>2, <2>1, <2>3 DEF FindTemplate, Proceed
  <2>5. WasTemplate(k.tenant, x)
    BY <2>2, <2>3, <2>4 DEF WasTemplate, Owned, ReadInv, TablesInv, HistoryInv,
       IInv, TypeOK, TablesFit, TemplateFits, TemplateRow
  <2>6. WasTemplate(k.tenant, x)'
    BY <2>5, ReadsChangeNoTable, WasTemplateStays DEF ReadInv
  <2>7. ReadTypes
    BY DEF ReadInv
  <2>8. asked'[r] = k /\ found'[r] = x /\ step'[r] = "findVersion"
    BY <2>1, <2>4, <2>7 DEF ReadTypes
  <2>9. ReaderFits(r)'
    BY <2>2, <2>6, <2>8 DEF ReaderFits, WasTemplate, Owned
  <2> QED
    BY <2>4, <2>7, <2>9, ProceedKeepsReadInv DEF ReadTypes
<1> QED
  BY <1>1, <1>2

\* findVersion, and the detail or the template that is shown.
LEMMA FindVersionKeepsReadInv ==
  ASSUME ReadInv, UNCHANGED vars, NEW r \in Readers, FindVersion(r)
  PROVE  ReadInv'
<1>1. PICK k, x : k = asked[r] /\ x = found[r]
  OBVIOUS
<1>2. \/ k.kind = "detail" /\ WasContract(k.contract, k.tenant, x)
      \/ k.kind = "template" /\ WasTemplate(k.tenant, x)
  BY <1>1 DEF ReadInv, ReaderFits, FindVersion
<1>3. CASE k.kind = "detail" /\ WasContract(k.contract, k.tenant, x)
  <2> DEFINE d == [is |-> "detail", tenant |-> k.tenant, contract |-> k.contract,
                   status |-> x.status, revision |-> x.revision,
                   values |-> x.values, version |-> x.version,
                   definition |-> versions[x.version].definition]
  <2>1. Show(r, d)
    BY <1>1, <1>3 DEF FindVersion, TheVersion, RevisionShown
  <2>2. DetailFits(d)
    BY <1>3 DEF DetailFits, WasContract, Snapshot
  <2> QED
    BY <2>1, <2>2, ShowKeepsReadInv
<1>4. CASE k.kind = "template" /\ WasTemplate(k.tenant, x)
  <2> DEFINE a == [is |-> "template", tenant |-> k.tenant,
                   revision |-> x.revision, version |-> x.active,
                   definition |-> versions[x.active].definition]
  <2>1. Show(r, a)
    BY <1>1, <1>4 DEF FindVersion, TheVersion, RevisionShown
  <2>2. TemplateShownFits(a)
    BY <1>4 DEF TemplateShownFits, WasTemplate, TemplateRow
  <2> QED
    BY <2>1, <2>2, ShowKeepsReadInv
<1> QED
  BY <1>2, <1>3, <1>4

-----------------------------------------------------------------------------
(***************************************************************************)
(* The theorems.                                                           *)
(***************************************************************************)

\* Nobody has asked, and the tables are empty.
LEMMA ReadInvInit == Init /\ ReadInit => ReadInv
<1> SUFFICES ASSUME Init, ReadInit
             PROVE  ReadInv
  OBVIOUS
<1>1. HistoryInv
  BY InitEstablishesIInv
     DEF HistoryInv, Init, HistoryIsComplete, HistoryIsAChain, Exists
<1>2. TablesInv
  BY <1>1 DEF TablesInv, Init
<1> QED
  BY <1>2 DEF ReadInv, ReadInit, ReadTypes, ReaderFits, ShownFits, Shows

\* Every step keeps it.
LEMMA ReadNextKeepsReadInv ==
  ASSUME ReadInv, [ReadNext]_<<vars, reading>>
  PROVE  ReadInv'
<1>1. CASE [Next]_vars /\ UNCHANGED reading
  BY <1>1, WritersKeepReadInv
<1>2. ASSUME NEW r \in Readers, Read(r), UNCHANGED vars
      PROVE  ReadInv'
  <2>1. CASE FailRead(r)
    BY <1>2, <2>1, ShowKeepsReadInv DEF FailRead, Failure
  <2> QED
    BY <1>2, <2>1, AskKeepsReadInv, FindContractKeepsReadInv,
       FindEntriesKeepsReadInv, FindVersionsKeepsReadInv,
       FindTemplateKeepsReadInv, FindVersionKeepsReadInv DEF Read
<1> QED
  BY <1>1, <1>2 DEF ReadNext

\* What the readers have read and shown is true of the tables, however reads
\* and commits interleave.
THEOREM ReadsStayTrue == ReadSpec => []ReadInv
  BY ReadInvInit, ReadNextKeepsReadInv, PTL DEF ReadSpec

\* A history is shown without a gap, up to the revision shown with it, and
\* never refused by its own integrity checks (PrismaContractReadRepository,
\* ReadContractHistory).
THEOREM HistoriesAreWhole == ReadSpec => []TimelineIsWhole
<1>1. ReadInv => TimelineIsWhole
  BY DEF ReadInv, ShownFits, HistoryFits, TimelineIsWhole
<1> QED
  BY <1>1, ReadsStayTrue, PTL

\* A revision that was shown names the contents it was shown with, as long as
\* the contract or the template has it.
THEOREM RevisionsNameContents == ReadSpec => []RevisionNamesContents
<1>1. ReadInv => RevisionNamesContents
  BY DEF ReadInv, ShownFits, DetailFits, TemplateShownFits, Reached, Owned,
     RevisionNamesContents
<1> QED
  BY <1>1, ReadsStayTrue, PTL

=============================================================================
