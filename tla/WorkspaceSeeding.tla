-------------------------- MODULE WorkspaceSeeding --------------------------
(***************************************************************************)
(* How tenants come to be: the onboarding of a tenant by its first Admin,  *)
(* and the seed, a script that creates the development workspaces and that *)
(* is run again whenever the stack starts, also beside an API that serves  *)
(* requests and beside another run of itself.  A seed is no transaction:   *)
(* it looks for every record and creates it when it found none, each with  *)
(* a statement of its own, and only the template is written in a           *)
(* transaction.  The requests are those of ContractWorkspace.              *)
(***************************************************************************)
EXTENDS ContractWorkspace, Sequences

CONSTANTS
  Seeds,          \* runs of the seed
  Workspaces,     \* the tenants a seed creates, in the order of the script
  Staff,          \* the emails of the users a seed creates, in their order
  Emails,         \* all emails
  SeededTemplate  \* the definition a seed gives a workspace

ASSUME SeedingAssumption ==
  /\ Workspaces \in Seq(Tenants) \ {<<>>}
  /\ Staff \in Seq(Emails) \ {<<>>}
  /\ SeededTemplate \in Definitions

VARIABLES
  tenants,        \* "tenants", by slug
  users,          \* "users" of a tenant, by email
  seeds           \* what every run of the seed is about to do

seeding == <<tenants, users, seeds>>
all == <<vars, seeding>>

\* A step beside the requests: no table of theirs changes, nobody is answered.
Beside == answer' = None /\ UNCHANGED <<db, locks, pc, cmd, tpl, row>>

\* Never run, or run and failed.
Stopped == [at |-> "stopped", workspace |-> 1, user |-> 1]
Ended == {"stopped", "completed"}

-----------------------------------------------------------------------------
(***************************************************************************)
(* The onboarding: one transaction, which fails as a whole when the slug   *)
(* is taken.                                                               *)
(***************************************************************************)
CreateTenantAndAdmin(t, e) ==
  /\ t \notin tenants
  /\ tenants' = tenants \cup {t}
  /\ users' = [users EXCEPT ![t] = {e}]
  /\ Beside
  /\ UNCHANGED seeds

-----------------------------------------------------------------------------
(***************************************************************************)
(* The seed, statement by statement.                                       *)
(***************************************************************************)
\* At most one request is in progress, and it is a publication.
OnePublication(commands) ==
  /\ Cardinality({r \in Requests : commands[r] # None}) <= 1
  /\ \A r \in Requests : commands[r] # None => commands[r].kind = "publish"

Slug(s) == Workspaces[seeds[s].workspace]
Email(s) == Staff[seeds[s].user]

GoTo(s, at) == seeds' = [seeds EXCEPT ![s].at = at]

\* The loop over the users, then the template.
NextUser(s) ==
  LET p == seeds[s] IN
  seeds' = [seeds EXCEPT ![s] =
    IF p.user < Len(Staff)
    THEN [at |-> "hasUser", workspace |-> p.workspace, user |-> p.user + 1]
    ELSE [at |-> "findTemplate", workspace |-> p.workspace, user |-> 1]]

\* The loop over the workspaces, then the report seed_completed.
NextWorkspace(s) ==
  LET p == seeds[s] IN
  seeds' = [seeds EXCEPT ![s] =
    IF p.workspace < Len(Workspaces)
    THEN [at |-> "findTenant", workspace |-> p.workspace + 1, user |-> p.user]
    ELSE [at |-> "completed", workspace |-> 1, user |-> 1]]

\* The script is run, for the first time or again.  Bound: not while the API
\* serves more than one publication (see Admitted).
Start(s) ==
  /\ seeds[s].at \in Ended
  /\ OnePublication(cmd)
  /\ GoTo(s, "findTenant")
  /\ Beside
  /\ UNCHANGED <<tenants, users>>

FindTenant(s) ==
  /\ seeds[s].at = "findTenant"
  /\ GoTo(s, IF Slug(s) \in tenants THEN "hasUser" ELSE "createTenant")
  /\ Beside
  /\ UNCHANGED <<tenants, users>>

\* A slug that was taken meanwhile is found again: tenants are never deleted.
CreateTenant(s) ==
  /\ seeds[s].at = "createTenant"
  /\ tenants' = tenants \cup {Slug(s)}
  /\ GoTo(s, "hasUser")
  /\ Beside
  /\ UNCHANGED users

\* Mutant of SkipUser: the user that exists ends the loop over the users.
SkipUsers(s) == GoTo(s, "findTemplate")

\* continue: the next user.
SkipUser(s) == NextUser(s)

HasUser(s) ==
  /\ seeds[s].at = "hasUser"
  /\ \/ Email(s) \in users[Slug(s)] /\ SkipUser(s)
     \/ Email(s) \notin users[Slug(s)] /\ GoTo(s, "createUser")
  /\ Beside
  /\ UNCHANGED <<tenants, users>>

\* The insert, which the unique key refuses when the email is taken meanwhile.
CreateUser(s) ==
  /\ seeds[s].at = "createUser"
  /\ users' = [users EXCEPT ![Slug(s)] = @ \cup {Email(s)}]
  /\ NextUser(s)
  /\ Beside
  /\ UNCHANGED tenants

\* The transaction of ensureTemplate, its first statement.  A row without an
\* active version is never committed, so AmbiguousSeedTemplate is never thrown.
FindTemplate(s) ==
  /\ seeds[s].at = "findTemplate"
  /\ \/ templates[Slug(s)] # NoTemplate /\ NextWorkspace(s)
     \/ templates[Slug(s)] = NoTemplate /\ GoTo(s, "createTemplate")
  /\ Beside
  /\ UNCHANGED <<tenants, users>>

\* Mutant of TemplateFree: the update finds the row by its tenant.
AnyTemplate(t) == TRUE

\* "logical_templates" has one row for a tenant (unique index).
TemplateFree(t) == templates[t] = NoTemplate

\* The rest of it: the logical template, its version, and the commit.
CreateTemplate(s) ==
  LET t == Slug(s) IN
  /\ seeds[s].at = "createTemplate"
  /\ TemplateFree(t)
  /\ \E v \in Versions :
       /\ versions[v] = None
       /\ versions' = [versions EXCEPT ![v] =
                         [tenant |-> t, definition |-> SeededTemplate]]
       /\ templates' = [templates EXCEPT ![t] = [revision |-> 1, active |-> v]]
  /\ answer' = None
  /\ NextWorkspace(s)
  /\ UNCHANGED <<contracts, history, outbox, locks, pc, cmd, tpl, row,
                 tenants, users>>

\* Any statement fails, or the process ends; the conflict of the template,
\* which nothing catches, always ends this way.
SeedFails(s) ==
  /\ seeds[s].at \notin Ended
  /\ seeds' = [seeds EXCEPT ![s] = Stopped]
  /\ Beside
  /\ UNCHANGED <<tenants, users>>

SeedStep(s) ==
  \/ FindTenant(s)
  \/ CreateTenant(s)
  \/ HasUser(s)
  \/ CreateUser(s)
  \/ FindTemplate(s)
  \/ CreateTemplate(s)

-----------------------------------------------------------------------------
(***************************************************************************)
(* The requests of the API beside it.                                      *)
(***************************************************************************)

\* A request is sent by a user of its tenant.  Bound: only one publication at a
\* time, of which a seed sees no more than the template, until every seed has
\* completed.
Admitted(r) ==
  LET k == cmd'[r] IN
  /\ k.tenant \in tenants
  /\ users[k.tenant] # {}
  /\ \/ OnePublication(cmd')
     \/ \A s \in Seeds : seeds[s].at = "completed"

Serve ==
  /\ Next
  /\ \A r \in Requests : cmd[r] = None /\ cmd'[r] # None => Admitted(r)
  /\ UNCHANGED seeding

SeedingInit ==
  /\ Init
  /\ tenants = {}
  /\ users = [t \in Tenants |-> {}]
  /\ seeds = [s \in Seeds |-> Stopped]

SeedingNext ==
  \/ Serve
  \/ \E t \in Tenants, e \in Emails : CreateTenantAndAdmin(t, e)
  \/ \E s \in Seeds : Start(s) \/ SeedStep(s) \/ SeedFails(s)

\* A write that a unique key refuses, because a seed was faster, fails.
Conflict(r) == pc[r] = "execute" /\ Refused(r) /\ Abort(r)

\* The statements of a request are run as long as its transaction lives, and a
\* lock that is released again and again is granted in the end: PostgreSQL
\* queues the waiters of a row.  A request waits for one lock at a time, so one
\* condition says it of the three.
SeedingFairness ==
  \A r \in Requests :
    /\ SF_vars(LockTenant(r) \/ LockTemplate(r) \/ LockContract(r))
    /\ WF_vars(MissTemplate(r) \/ SelectContract(r) \/ Execute(r) \/ Conflict(r))

LiveSeeding == SeedingInit /\ [][SeedingNext]_all /\ SeedingFairness

-----------------------------------------------------------------------------
(***************************************************************************)
(* Properties.                                                             *)
(***************************************************************************)
Whole(t) ==
  /\ t \in tenants
  /\ \A n \in DOMAIN Staff : Staff[n] \in users[t]
  /\ templates[t] # NoTemplate

\* No template and no version that is there is changed, whatever was published
\* since the seed looked.
KeepsRecords ==
  /\ \A t \in Tenants : templates[t] # NoTemplate => templates'[t] = templates[t]
  /\ \A v \in Versions : versions[v] # None => versions'[v] = versions[v]

\* README: the seed "creates two development Tenant workspaces and is safe to
\* rerun without overwriting existing records", after a run that ended halfway,
\* beside another run, an onboarding or a publication: what is there stays, and
\* a run that reports its completion leaves every workspace whole.
SafeToRerun ==
  [][seeds' # seeds =>
       /\ KeepsRecords
       /\ \A s \in Seeds :
            seeds[s].at # "completed" /\ seeds'[s].at = "completed" =>
              \A n \in DOMAIN Workspaces : Whole(Workspaces[n])']_seeds

=============================================================================
