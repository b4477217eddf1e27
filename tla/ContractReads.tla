---------------------------- MODULE ContractReads ----------------------------
(***************************************************************************)
(* The reads of the contract workspace: the detail of a contract, its      *)
(* history and the active template.  A read takes no lock.  Each of its    *)
(* statements has a snapshot of its own, the ones of the history too,      *)
(* although they share a transaction: PostgreSQL runs it at READ           *)
(* COMMITTED.  Between two of them the writers of ContractWorkspace commit *)
(* what they like.                                                         *)
(***************************************************************************)
EXTENDS ContractWorkspace

CONSTANTS
  Readers,        \* slots for reads in progress
  Questions       \* what clients ask for in this instance

ContractQuestion == [kind: {"detail", "history"}, tenant: Tenants,
                     contract: Contracts]
TemplateQuestion == [kind: {"template"}, tenant: Tenants]

ASSUME QuestionsAssumption == Questions \subseteq ContractQuestion \cup TemplateQuestion

VARIABLES
  asked,          \* what a reader asks for
  step,           \* the statement it is about to run
  found,          \* the row its first statement has found
  entries,        \* the history entries its second statement has found
  shown           \* the last answer the reader gave

reading == <<asked, step, found, entries, shown>>

FirstQuery(kind) == IF kind = "template" THEN "findTemplate" ELSE "findContract"

Ask(r) ==
  \E k \in Questions :
    /\ step[r] = "idle"
    /\ k.kind # "template" => Nameable(k)
    /\ asked' = [asked EXCEPT ![r] = k]
    /\ step' = [step EXCEPT ![r] = FirstQuery(k.kind)]
    /\ UNCHANGED <<found, entries, shown>>

Show(r, given) ==
  /\ shown' = [shown EXCEPT ![r] = given]
  /\ asked' = [asked EXCEPT ![r] = None]
  /\ step' = [step EXCEPT ![r] = "idle"]
  /\ found' = [found EXCEPT ![r] = None]
  /\ entries' = [entries EXCEPT ![r] = {}]

Failure(code) == [is |-> code]

Proceed(r, next) ==
  /\ step' = [step EXCEPT ![r] = next]
  /\ UNCHANGED <<asked, shown>>

\* contract.findFirst, by identifier and tenant: of the detail, and the first
\* statement of the history.
FindContract(r) ==
  LET c == asked[r].contract
      visible == contracts[c] # None /\ contracts[c].tenant = asked[r].tenant
  IN
  /\ step[r] = "findContract"
  /\ \/ ~visible /\ Show(r, Failure("ContractNotFound"))
     \/ /\ visible
        /\ found' = [found EXCEPT ![r] = contracts[c]]
        /\ Proceed(r, IF asked[r].kind = "detail"
                      THEN "findVersion" ELSE "findEntries")
        /\ UNCHANGED entries

\* contractHistory.findMany.
FindEntries(r) ==
  /\ step[r] = "findEntries"
  /\ entries' = [entries EXCEPT ![r] = EntriesOf(asked[r].contract)]
  /\ Proceed(r, "findVersions")
  /\ UNCHANGED found

\* addTemplateVersionId: the versions the snapshots of the entries name.
Named(es) ==
  {e.after.version : e \in es}
    \cup {e.before.version : e \in {f \in es : f.before # None}}

\* Mutant of Known: only the version the contract is bound to.
KnownOfContract(r) == {found[r].version}

\* templateVersion.findMany with the identifiers the entries name.
Known(r) ==
  {v \in Named(entries[r]) :
     versions[v] # None /\ versions[v].tenant = asked[r].tenant}

\* The checks of ReadContractHistory.execute and resolveSnapshot.
Intact(es, known) ==
  /\ \A e, f \in es : e.revision = f.revision => e = f
  /\ \A e \in es : e.action = "CREATED" <=> e.before = None
  /\ Named(es) \subseteq known

\* The last statement of the history, and ReadContractHistory.execute.
FindVersions(r) ==
  /\ step[r] = "findVersions"
  /\ Show(r, IF Intact(entries[r], Known(r))
             THEN [is |-> "history", tenant |-> asked[r].tenant,
                   contract |-> asked[r].contract, status |-> found[r].status,
                   revision |-> found[r].revision,
                   entries |-> entries[r]]
             ELSE Failure("ContractHistoryIntegrityError"))

\* logicalTemplate.findUnique.
FindTemplate(r) ==
  LET t == asked[r].tenant IN
  /\ step[r] = "findTemplate"
  /\ \/ templates[t] = NoTemplate /\ Show(r, Failure("ActiveTemplateNotFound"))
     \/ /\ templates[t] # NoTemplate
        /\ found' = [found EXCEPT ![r] = templates[t]]
        /\ Proceed(r, "findVersion")
        /\ UNCHANGED entries

\* Mutant of TheVersion: the definition comes from the template's active version.
ActiveNow(r) == templates[asked[r].tenant].active

\* The version row a relation of the first row leads to.
TheVersion(r) ==
  IF asked[r].kind = "detail" THEN found[r].version ELSE found[r].active

\* Mutant of RevisionShown: the revision is read with the second statement.
RevisionNow(r) ==
  IF asked[r].kind = "detail"
  THEN contracts[asked[r].contract].revision
  ELSE templates[asked[r].tenant].revision

\* The revision in the answer is the one of the first row.
RevisionShown(r) == found[r].revision

\* The relation of the row, which Prisma reads by a statement of its own.
FindVersion(r) ==
  LET definition == versions[TheVersion(r)].definition IN
  /\ step[r] = "findVersion"
  /\ Show(r,
       IF asked[r].kind = "detail"
       THEN [is |-> "detail", tenant |-> asked[r].tenant,
             contract |-> asked[r].contract, status |-> found[r].status,
             revision |-> RevisionShown(r),
             values |-> found[r].values, version |-> TheVersion(r),
             definition |-> definition]
       ELSE [is |-> "template", tenant |-> asked[r].tenant,
             revision |-> RevisionShown(r), version |-> TheVersion(r),
             definition |-> definition])

\* A statement fails, or the transaction of the history runs out of time.
FailRead(r) == step[r] # "idle" /\ Show(r, Failure("InternalError"))

-----------------------------------------------------------------------------
ReadInit ==
  /\ asked = [r \in Readers |-> None]
  /\ step = [r \in Readers |-> "idle"]
  /\ found = [r \in Readers |-> None]
  /\ entries = [r \in Readers |-> {}]
  /\ shown = [r \in Readers |-> None]

Read(r) ==
  \/ Ask(r)
  \/ FindContract(r)
  \/ FindEntries(r)
  \/ FindVersions(r)
  \/ FindTemplate(r)
  \/ FindVersion(r)
  \/ FailRead(r)

ReadNext ==
  \/ Next /\ UNCHANGED reading
  \/ \E r \in Readers : Read(r) /\ UNCHANGED vars

ReadSpec == Init /\ ReadInit /\ [][ReadNext]_<<vars, reading>>

-----------------------------------------------------------------------------
(***************************************************************************)
(* Properties.                                                             *)
(***************************************************************************)

Shows(r, kind) == shown[r] # None /\ shown[r].is = kind

\* Whatever is committed between the statements of a history read, it does not
\* end in the integrity error, and what it shows is a timeline without a gap
\* from the creation that tells everything up to the revision shown with it, of
\* a contract of the tenant that asked.
TimelineIsWhole ==
  \A r \in Readers :
    /\ ~Shows(r, "ContractHistoryIntegrityError")
    /\ Shows(r, "history") =>
         LET shownAs == shown[r] IN
         /\ contracts[shownAs.contract].tenant = shownAs.tenant
         /\ \A n \in 1..shownAs.revision :
              \E e \in shownAs.entries : e.revision = n
         /\ \A e \in shownAs.entries :
              /\ e.contract = shownAs.contract
              /\ e.revision = 1 \/ \E f \in shownAs.entries : f.after = e.before
              /\ e.revision = shownAs.revision =>
                   e.after.status = shownAs.status

\* A revision stands for the contents a client has seen: as long as a contract
\* or a template has the revision that was shown, it is what was shown, so a
\* command that expects this revision replaces nothing the client has not seen.
\* The fields shown with the values of a contract are those of its own version,
\* and the contract belongs to the tenant that asked.
RevisionNamesContents ==
  \A r \in Readers :
    /\ Shows(r, "detail") =>
         LET d == shown[r] IN
         /\ contracts[d.contract].tenant = d.tenant
         /\ d.definition = versions[d.version].definition
         /\ contracts[d.contract].revision = d.revision =>
              Snapshot(contracts[d.contract]) =
                [status |-> d.status, revision |-> d.revision,
                 values |-> d.values, version |-> d.version]
    /\ Shows(r, "template") =>
         LET t == shown[r] IN
         templates[t.tenant].revision = t.revision =>
           versions[templates[t.tenant].active].definition = t.definition

=============================================================================
