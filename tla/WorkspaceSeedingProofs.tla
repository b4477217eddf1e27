------------------------ MODULE WorkspaceSeedingProofs ------------------------
(***************************************************************************)
(* The seed is safe to rerun: for any number of runs, workspaces, users    *)
(* and requests, wherever a run ends and whatever goes on beside it.       *)
(*                                                                         *)
(* Nothing is ever taken back: no tenant, no user of a tenant, no          *)
(* template.  So what a run has seen or made in a workspace is there when  *)
(* it has come to the next one, and its position tells what that is.       *)
(***************************************************************************)
EXTENDS WorkspaceSeeding, TLAPS

Positions == {"findTenant", "createTenant", "hasUser", "createUser",
              "findTemplate", "createTemplate"} \cup Ended

LastWorkspace == Len(Workspaces)
LastUser == Len(Staff)

Place == [at: Positions, workspace: 1..LastWorkspace, user: 1..LastUser]

SeedType ==
  /\ templates \in [Tenants -> TemplateRow]
  /\ DOMAIN versions = Versions
  /\ DOMAIN users = Tenants
  /\ seeds \in [Seeds -> Place]

\* The workspaces before the one s is at are whole.
WorkspacesBefore(s) ==
  \A n \in 1..(seeds[s].workspace - 1) : Whole(Workspaces[n])

\* What s has ensured in the workspace it is at.
EnsuredHere(s) ==
  /\ seeds[s].at \in {"hasUser", "createUser", "findTemplate", "createTemplate"}
       => Slug(s) \in tenants
  /\ seeds[s].at \in {"hasUser", "createUser"}
       => \A m \in 1..(seeds[s].user - 1) : Staff[m] \in users[Slug(s)]
  /\ seeds[s].at \in {"findTemplate", "createTemplate"}
       => \A m \in 1..LastUser : Staff[m] \in users[Slug(s)]
  /\ seeds[s].at \notin {"hasUser", "createUser"} => seeds[s].user = 1
  /\ seeds[s].at \in Ended => seeds[s].workspace = 1

SeedInv ==
  /\ SeedType
  /\ \A s \in Seeds : WorkspacesBefore(s) /\ EnsuredHere(s)

\* The records of a workspace that is there are there after the step.
RecordsStay ==
  /\ tenants \subseteq tenants'
  /\ \A t \in tenants : users[t] \subseteq users'[t]
  /\ \A t \in Tenants : templates[t] # NoTemplate => templates'[t] # NoTemplate

-----------------------------------------------------------------------------
(***************************************************************************)
(* The requests of the API.                                                *)
(***************************************************************************)

\* No request deletes a template: a publication only counts its revision up.
LEMMA RequestsKeepTemplates ==
  ASSUME templates \in [Tenants -> TemplateRow], DOMAIN versions = Versions, Next
  PROVE  /\ templates' \in [Tenants -> TemplateRow]
         /\ DOMAIN versions' = Versions
         /\ \A t \in Tenants : templates[t] # NoTemplate => templates'[t] # NoTemplate
<1>1. PICK r \in Requests :
        \/ Receive(r) \/ LockTenant(r) \/ LockTemplate(r) \/ MissTemplate(r)
        \/ SelectContract(r) \/ LockContract(r) \/ Execute(r) \/ Abort(r)
  BY DEF Next
<1>2. CASE UNCHANGED <<templates, versions>>
  BY <1>2
<1>3. CASE PublishTemplate(r) /\ ~UNCHANGED <<templates, versions>>
  <2> DEFINE t == cmd[r].tenant
  <2>1. PICK v \in Versions :
          /\ versions' = [versions EXCEPT ![v] =
                            [tenant |-> t, definition |-> cmd[r].definition]]
          /\ templates' = [templates EXCEPT ![t] =
                             [revision |-> tpl[r].revision + 1, active |-> v]]
          /\ templates[t].revision = tpl[r].revision
    BY <1>3 DEF PublishTemplate, Answer, db
  <2>2. CASE t \in Tenants
    <3>1. templates[t].revision \in Nat
      BY <2>2 DEF TemplateRow
    <3>2. [revision |-> tpl[r].revision + 1, active |-> v] \in TemplateRow
      BY <2>1, <3>1 DEF TemplateRow
    <3>3. [revision |-> tpl[r].revision + 1, active |-> v] # NoTemplate
      BY <2>1, <3>1 DEF NoTemplate
    <3> QED BY <2>1, <2>2, <3>2, <3>3
  <2>3. CASE t \notin Tenants
    <3>1. templates' = templates
      BY <2>1, <2>3
    <3> QED BY <2>1, <3>1
  <2> QED BY <2>2, <2>3
<1>4. Execute(r) => PublishTemplate(r) \/ UNCHANGED <<templates, versions>>
  BY DEF Execute, CreateContract, EditDraftValues, MigrateDraft, ActivateContract,
         CloseContract, Answer, db
<1>5. Abort(r) \/ Receive(r) => UNCHANGED <<templates, versions>>
  BY DEF Abort, Receive, Answer, db
<1>6. LockTenant(r) \/ LockTemplate(r) \/ MissTemplate(r)
        => UNCHANGED <<templates, versions>>
  BY DEF LockTenant, LockTemplate, MissTemplate, Continue, Answer, db
<1>7. SelectContract(r) \/ LockContract(r) => UNCHANGED <<templates, versions>>
  BY DEF SelectContract, LockContract, Continue, Answer, db
<1> QED BY <1>1, <1>2, <1>3, <1>4, <1>5, <1>6, <1>7

-----------------------------------------------------------------------------
(***************************************************************************)
(* The seed.                                                               *)
(***************************************************************************)

\* The lists of the script have elements.
LEMMA Lists ==
  /\ LastWorkspace \in Nat \ {0} /\ DOMAIN Workspaces = 1..LastWorkspace
  /\ \A n \in 1..LastWorkspace : Workspaces[n] \in Tenants
  /\ LastUser \in Nat \ {0} /\ DOMAIN Staff = 1..LastUser
BY SeedingAssumption DEF LastWorkspace, LastUser

\* A run is at a workspace and at a user of the lists.
LEMMA PlaceInBounds ==
  ASSUME SeedType, NEW s \in Seeds
  PROVE  /\ seeds[s] \in Place
         /\ seeds[s].workspace \in 1..LastWorkspace
         /\ seeds[s].user \in 1..LastUser
         /\ seeds[s].at \in Positions
         /\ Slug(s) \in Tenants
<1>1. seeds[s] \in Place
  BY DEF SeedType
<1>2. /\ seeds[s].workspace \in 1..LastWorkspace
      /\ seeds[s].user \in 1..LastUser
      /\ seeds[s].at \in Positions
  BY <1>1 DEF Place
<1> QED BY <1>1, <1>2, Lists DEF Slug

\* Only s moves.
Alone(s) ==
  /\ seeds' \in [Seeds -> Place]
  /\ \A q \in Seeds \ {s} : seeds'[q] = seeds[q]

\* A run that moves to place p.
LEMMA MovesTo ==
  ASSUME SeedType, NEW s \in Seeds, NEW p \in Place,
         seeds' = [seeds EXCEPT ![s] = p]
  PROVE  Alone(s) /\ seeds'[s] = p
BY DEF SeedType, Alone

\* On to the next statement.
LEMMA GoToMoves ==
  ASSUME SeedType, NEW s \in Seeds, NEW at \in Positions, GoTo(s, at)
  PROVE  /\ Alone(s)
         /\ seeds'[s].at = at
         /\ seeds'[s].workspace = seeds[s].workspace
         /\ seeds'[s].user = seeds[s].user
<1> DEFINE p == [seeds[s] EXCEPT !.at = at]
<1>1. /\ p \in Place /\ p.at = at /\ p.workspace = seeds[s].workspace
      /\ p.user = seeds[s].user
  BY PlaceInBounds DEF Place
<1>2. seeds' = [seeds EXCEPT ![s] = p]
  BY DEF GoTo, SeedType
<1> HIDE DEF p
<1> QED BY <1>1, <1>2, MovesTo

\* On to the next user, or to the template.
LEMMA NextUserMoves ==
  ASSUME SeedType, NEW s \in Seeds, NextUser(s)
  PROVE  /\ Alone(s)
         /\ seeds'[s].workspace = seeds[s].workspace
         /\ \/ /\ seeds[s].user < LastUser
               /\ seeds'[s].at = "hasUser"
               /\ seeds'[s].user = seeds[s].user + 1
            \/ /\ seeds[s].user = LastUser
               /\ seeds'[s].at = "findTemplate"
               /\ seeds'[s].user = 1
<1>1. seeds[s] \in Place /\ seeds[s].user \in 1..LastUser
  BY PlaceInBounds
<1>2. CASE seeds[s].user < LastUser
  <2> DEFINE p == [at |-> "hasUser", workspace |-> seeds[s].workspace,
                   user |-> seeds[s].user + 1]
  <2>1. /\ p.at = "hasUser" /\ p.workspace = seeds[s].workspace
        /\ p.user = seeds[s].user + 1
    BY <1>1 DEF Place
  <2>2. p \in Place
    BY <1>1, <1>2, Lists DEF Place, Positions
  <2>3. seeds' = [seeds EXCEPT ![s] = p]
    BY <1>2 DEF NextUser, SeedType, LastUser
  <2> HIDE DEF p
  <2> QED BY <1>2, <2>1, <2>2, <2>3, MovesTo
<1>3. CASE ~(seeds[s].user < LastUser)
  <2> DEFINE p == [at |-> "findTemplate", workspace |-> seeds[s].workspace, user |-> 1]
  <2>1. /\ p.at = "findTemplate" /\ p.workspace = seeds[s].workspace
        /\ p.user = 1
    BY <1>1 DEF Place
  <2>2. p \in Place
    BY <1>1, Lists DEF Place, Positions
  <2>3. seeds' = [seeds EXCEPT ![s] = p]
    BY <1>3 DEF NextUser, SeedType, LastUser
  <2>4. seeds[s].user = LastUser
    BY <1>1, <1>3, Lists
  <2> HIDE DEF p
  <2> QED BY <2>1, <2>2, <2>3, <2>4, MovesTo
<1> QED BY <1>2, <1>3

\* On to the next workspace, or to the end.
LEMMA NextWorkspaceMoves ==
  ASSUME SeedType, NEW s \in Seeds, NextWorkspace(s)
  PROVE  /\ Alone(s)
         /\ \/ /\ seeds[s].workspace < LastWorkspace
               /\ seeds'[s].at = "findTenant"
               /\ seeds'[s].workspace = seeds[s].workspace + 1
               /\ seeds'[s].user = seeds[s].user
            \/ /\ seeds[s].workspace = LastWorkspace
               /\ seeds'[s].at = "completed"
               /\ seeds'[s].workspace = 1
               /\ seeds'[s].user = 1
<1>1. seeds[s] \in Place /\ seeds[s].workspace \in 1..LastWorkspace
  BY PlaceInBounds
<1>2. CASE seeds[s].workspace < LastWorkspace
  <2> DEFINE p == [at |-> "findTenant", workspace |-> seeds[s].workspace + 1,
                   user |-> seeds[s].user]
  <2>1. /\ p.at = "findTenant" /\ p.workspace = seeds[s].workspace + 1
        /\ p.user = seeds[s].user
    BY <1>1 DEF Place
  <2>2. p \in Place
    BY <1>1, <1>2, Lists DEF Place, Positions
  <2>3. seeds' = [seeds EXCEPT ![s] = p]
    BY <1>2 DEF NextWorkspace, SeedType, LastWorkspace
  <2> HIDE DEF p
  <2> QED BY <1>2, <2>1, <2>2, <2>3, MovesTo
<1>3. CASE ~(seeds[s].workspace < LastWorkspace)
  <2> DEFINE p == [at |-> "completed", workspace |-> 1, user |-> 1]
  <2>1. p.at = "completed" /\ p.workspace = 1 /\ p.user = 1
    OBVIOUS
  <2>2. p \in Place
    BY Lists DEF Place, Positions, Stopped, Ended
  <2>3. seeds' = [seeds EXCEPT ![s] = p]
    BY <1>3 DEF NextWorkspace, SeedType, LastWorkspace
  <2>4. seeds[s].workspace = LastWorkspace
    BY <1>1, <1>3, Lists
  <2> HIDE DEF p
  <2> QED BY <2>1, <2>2, <2>3, <2>4, MovesTo
<1> QED BY <1>2, <1>3

\* Back to the beginning.
LEMMA StopMoves ==
  ASSUME SeedType, NEW s \in Seeds, seeds' = [seeds EXCEPT ![s] = Stopped]
  PROVE  /\ Alone(s)
         /\ seeds'[s].at = "stopped" /\ seeds'[s].workspace = 1
         /\ seeds'[s].user = 1
<1>1. Stopped \in Place
  BY Lists DEF Stopped, Place, Positions, Ended
<1>2. Alone(s) /\ seeds'[s] = Stopped
  BY <1>1, MovesTo
<1> QED BY <1>2 DEF Stopped

\* Every step keeps the types.
LEMMA StepKeepsTypes ==
  ASSUME SeedType, SeedingNext
  PROVE  SeedType'
<1>1. CASE Serve
  BY <1>1, RequestsKeepTemplates DEF Serve, SeedType, seeding
<1>2. CASE \E t \in Tenants, e \in Emails : CreateTenantAndAdmin(t, e)
  BY <1>2 DEF CreateTenantAndAdmin, Beside, db, SeedType
<1>3. ASSUME NEW s \in Seeds, Start(s) \/ SeedStep(s) \/ SeedFails(s)
      PROVE  SeedType'
  <2>1. CASE Start(s) \/ SeedFails(s) \/ FindTenant(s)
    <3>1. seeds' \in [Seeds -> Place]
      BY <2>1, GoToMoves, StopMoves
         DEF Start, SeedFails, FindTenant, Positions, Alone
    <3> QED BY <2>1, <3>1 DEF Start, SeedFails, FindTenant, Beside, db, SeedType
  <2>2. CASE CreateTenant(s)
    <3>1. seeds' \in [Seeds -> Place]
      BY <2>2, GoToMoves DEF CreateTenant, Positions, Alone
    <3> QED BY <2>2, <3>1 DEF CreateTenant, Beside, db, SeedType
  <2>3. CASE HasUser(s)
    <3>1. seeds' \in [Seeds -> Place]
      BY <2>3, GoToMoves, NextUserMoves DEF HasUser, SkipUser, Positions, Alone
    <3> QED BY <2>3, <3>1 DEF HasUser, Beside, db, SeedType
  <2>4. CASE CreateUser(s)
    <3>1. seeds' \in [Seeds -> Place]
      BY <2>4, NextUserMoves DEF CreateUser, Alone
    <3> QED BY <2>4, <3>1 DEF CreateUser, Beside, db, SeedType
  <2>5. CASE FindTemplate(s)
    <3>1. seeds' \in [Seeds -> Place]
      BY <2>5, GoToMoves, NextWorkspaceMoves DEF FindTemplate, Positions, Alone
    <3> QED BY <2>5, <3>1 DEF FindTemplate, Beside, db, SeedType
  <2>6. CASE CreateTemplate(s)
    <3>1. seeds' \in [Seeds -> Place]
      BY <2>6, NextWorkspaceMoves DEF CreateTemplate, Alone
    <3>2. PICK v \in Versions :
            /\ versions' = [versions EXCEPT ![v] =
                              [tenant |-> Slug(s), definition |-> SeededTemplate]]
            /\ templates' = [templates EXCEPT ![Slug(s)] =
                               [revision |-> 1, active |-> v]]
      BY <2>6 DEF CreateTemplate
    <3>3. [revision |-> 1, active |-> v] \in TemplateRow
      BY DEF TemplateRow
    <3> QED BY <2>6, <3>1, <3>2, <3>3 DEF CreateTemplate, SeedType
  <2> QED BY <1>3, <2>1, <2>2, <2>3, <2>4, <2>5, <2>6 DEF SeedStep
<1> QED BY <1>1, <1>2, <1>3 DEF SeedingNext

\* No step takes a tenant, a user of a tenant or a template away.
LEMMA StepKeepsRecords ==
  ASSUME SeedType, SeedingNext
  PROVE  RecordsStay
<1>1. CASE Serve
  BY <1>1, RequestsKeepTemplates DEF Serve, SeedType, seeding, RecordsStay
<1>2. CASE \E t \in Tenants, e \in Emails : CreateTenantAndAdmin(t, e)
  BY <1>2 DEF CreateTenantAndAdmin, Beside, db, SeedType, RecordsStay
<1>3. ASSUME NEW s \in Seeds, Start(s) \/ SeedStep(s) \/ SeedFails(s)
      PROVE  RecordsStay
  <2>1. CASE Start(s) \/ SeedFails(s) \/ FindTenant(s) \/ HasUser(s) \/ FindTemplate(s)
    BY <2>1 DEF Start, SeedFails, FindTenant, HasUser, FindTemplate, Beside, db,
                RecordsStay
  <2>2. CASE CreateTenant(s)
    BY <2>2 DEF CreateTenant, Beside, db, RecordsStay
  <2>4. CASE CreateUser(s)
    <3>1. /\ users' = [users EXCEPT ![Slug(s)] = users[Slug(s)] \cup {Email(s)}]
          /\ UNCHANGED <<tenants, templates>>
      BY <2>4 DEF CreateUser, Beside, db
    <3>2. ASSUME NEW t \in tenants
          PROVE  users[t] \subseteq users'[t]
      BY <3>1 DEF SeedType
    <3> QED BY <3>1, <3>2 DEF RecordsStay
  <2>3. CASE CreateTemplate(s)
    <3>1. PICK v \in Versions :
            templates' = [templates EXCEPT ![Slug(s)] = [revision |-> 1, active |-> v]]
      BY <2>3 DEF CreateTemplate
    <3>2. [revision |-> 1, active |-> v] # NoTemplate
      BY DEF NoTemplate
    <3> QED BY <2>3, <3>1, <3>2 DEF CreateTemplate, RecordsStay, SeedType
  <2> QED BY <1>3, <2>1, <2>2, <2>3, <2>4 DEF SeedStep
<1> QED BY <1>1, <1>2, <1>3 DEF SeedingNext-----------------------------------------------------------------------------
(***************************************************************************)
(* What a place tells.                                                     *)
(***************************************************************************)

Tells(s) == WorkspacesBefore(s) /\ EnsuredHere(s)

\* A workspace that is whole stays whole.
LEMMA WholeStays ==
  ASSUME RecordsStay, NEW t \in Tenants, Whole(t)
  PROVE  Whole(t)'
BY DEF Whole, RecordsStay

\* So do the workspaces a run has left behind.
LEMMA BeforeStays ==
  ASSUME SeedInv, RecordsStay, NEW s \in Seeds,
         NEW n \in 1..(seeds[s].workspace - 1)
  PROVE  Whole(Workspaces[n])'
<1>1. Whole(Workspaces[n])
  BY DEF SeedInv, WorkspacesBefore
<1>2. Workspaces[n] \in Tenants
  BY PlaceInBounds, Lists DEF SeedInv
<1> QED BY <1>1, <1>2, WholeStays

\* A run that waits may rely on what it has seen.
LEMMA RestTells ==
  ASSUME SeedInv, RecordsStay, NEW s \in Seeds, seeds'[s] = seeds[s]
  PROVE  Tells(s)'
<1>1. WorkspacesBefore(s)'
  BY BeforeStays DEF WorkspacesBefore
<1>2. EnsuredHere(s) /\ Slug(s)' = Slug(s)
  BY DEF SeedInv, Slug
<1>3. \A t \in tenants : t \in tenants' /\ users[t] \subseteq users'[t]
  BY DEF RecordsStay
<1> QED BY <1>1, <1>2, <1>3 DEF Tells, EnsuredHere

\* A run that goes on to a user has ensured the one before.
LEMMA NextUserTells ==
  ASSUME SeedInv, RecordsStay, NEW s \in Seeds, NextUser(s),
         seeds[s].at \in {"hasUser", "createUser"},
         Email(s) \in users'[Slug(s)]
  PROVE  Tells(s)'
<1> DEFINE t == Slug(s)
<1>1. /\ seeds[s].user \in 1..LastUser /\ LastUser \in Nat
      /\ seeds'[s].workspace = seeds[s].workspace
      /\ \/ /\ seeds'[s].at = "hasUser"
            /\ seeds'[s].user = seeds[s].user + 1
         \/ /\ seeds[s].user = LastUser
            /\ seeds'[s].at = "findTemplate"
            /\ seeds'[s].user = 1
  BY PlaceInBounds, NextUserMoves, Lists DEF SeedInv
<1>2. WorkspacesBefore(s)'
  BY <1>1, BeforeStays DEF WorkspacesBefore
<1>3. /\ t \in tenants
      /\ \A m \in 1..(seeds[s].user - 1) : Staff[m] \in users[t]
  BY DEF SeedInv, EnsuredHere
<1>4. t \in tenants' /\ users[t] \subseteq users'[t] /\ Slug(s)' = t
  BY <1>1, <1>3 DEF RecordsStay, Slug
<1>5. Staff[seeds[s].user] \in users'[t]
  BY DEF Email
<1>6. \A m \in 1..seeds[s].user : Staff[m] \in users'[t]
  BY <1>1, <1>3, <1>4, <1>5
<1> HIDE DEF t
<1>7. EnsuredHere(s)'
  BY <1>1, <1>4, <1>6 DEF EnsuredHere, Ended
<1> QED BY <1>2, <1>7 DEF Tells

\* A run that goes on to a workspace, or reports its completion, leaves a whole
\* one behind.
LEMMA NextWorkspaceTells ==
  ASSUME SeedInv, RecordsStay, NEW s \in Seeds, NextWorkspace(s),
         seeds[s].user = 1, NEW t, t = Slug(s), Whole(t)'
  PROVE  /\ Tells(s)'
         /\ seeds'[s].at = "completed" =>
              \A n \in 1..LastWorkspace : Whole(Workspaces[n])'
<1>1. /\ seeds[s].workspace \in 1..LastWorkspace /\ LastWorkspace \in Nat
      /\ \/ /\ seeds'[s].at = "findTenant"
            /\ seeds'[s].workspace = seeds[s].workspace + 1
            /\ seeds'[s].user = seeds[s].user
         \/ /\ seeds[s].workspace = LastWorkspace
            /\ seeds'[s].at = "completed"
            /\ seeds'[s].workspace = 1
            /\ seeds'[s].user = 1
  BY PlaceInBounds, NextWorkspaceMoves, Lists DEF SeedInv
<1>2. \A n \in 1..seeds[s].workspace : Whole(Workspaces[n])'
  <2> SUFFICES ASSUME NEW n \in 1..seeds[s].workspace
               PROVE  Whole(Workspaces[n])'
    OBVIOUS
  <2>1. CASE n = seeds[s].workspace
    <3>1. Workspaces[n] = t
      BY <2>1 DEF Slug
    <3> QED BY <3>1
  <2>2. CASE n # seeds[s].workspace
    <3>1. n \in 1..(seeds[s].workspace - 1)
      BY <1>1, <2>2
    <3> QED BY <3>1, BeforeStays
  <2> QED BY <2>1, <2>2
<1>3. WorkspacesBefore(s)'
  BY <1>1, <1>2 DEF WorkspacesBefore
<1>4. EnsuredHere(s)'
  BY <1>1 DEF EnsuredHere, Ended
<1> QED BY <1>1, <1>2, <1>3, <1>4 DEF Tells

-----------------------------------------------------------------------------
(***************************************************************************)
(* The steps of a run.                                                     *)
(***************************************************************************)

\* The seed has made the last thing that was missing, or found it.
LEMMA TemplateTells ==
  ASSUME SeedInv, RecordsStay, SeedType', NEW s \in Seeds,
         FindTemplate(s) \/ CreateTemplate(s), NextWorkspace(s)
  PROVE  /\ Tells(s)'
         /\ seeds'[s].at = "completed" =>
              \A n \in 1..LastWorkspace : Whole(Workspaces[n])'
<1>1. PICK t \in Tenants : t = Slug(s)
  BY PlaceInBounds DEF SeedInv
<1>2. /\ t \in tenants /\ seeds[s].user = 1
      /\ \A m \in 1..LastUser : Staff[m] \in users[t]
  BY <1>1 DEF SeedInv, EnsuredHere, FindTemplate, CreateTemplate
<1>3. t \in tenants' /\ users[t] \subseteq users'[t]
  BY <1>2 DEF RecordsStay
<1>4. templates'[t] # NoTemplate
  <2>1. CASE templates[t] # NoTemplate
    BY <2>1 DEF RecordsStay
  <2>2. CASE templates[t] = NoTemplate /\ FindTemplate(s)
    <3>1. GoTo(s, "createTemplate")
      BY <1>1, <2>2 DEF FindTemplate
    <3>2. seeds'[s].at = "createTemplate"
      BY <3>1, GoToMoves DEF SeedInv, Positions
    <3> QED BY <3>2, NextWorkspaceMoves DEF SeedInv
  <2>3. CASE CreateTemplate(s)
    <3>1. PICK v \in Versions :
            templates' = [templates EXCEPT ![t] = [revision |-> 1, active |-> v]]
      BY <1>1, <2>3 DEF CreateTemplate
    <3>2. [revision |-> 1, active |-> v] # NoTemplate
      BY DEF NoTemplate
    <3> QED BY <3>1, <3>2 DEF SeedInv, SeedType
  <2> QED BY <2>1, <2>2, <2>3
<1>5. Whole(t)'
  BY <1>2, <1>3, <1>4, Lists DEF Whole
<1> QED BY <1>1, <1>2, <1>5, NextWorkspaceTells

\* Each step of a run leads to a place that tells the truth.
LEMMA MoverTells ==
  ASSUME SeedInv, RecordsStay, SeedType', NEW s \in Seeds,
         Start(s) \/ SeedStep(s) \/ SeedFails(s)
  PROVE  Tells(s)'
<1>1. Tells(s) /\ SeedType /\ seeds[s].workspace \in 1..LastWorkspace
  BY PlaceInBounds DEF SeedInv, Tells
<1>2. ASSUME seeds'[s].workspace = seeds[s].workspace
      PROVE  WorkspacesBefore(s)' /\ Slug(s)' = Slug(s)
  BY <1>2, BeforeStays DEF WorkspacesBefore, Slug
<1>3. CASE Start(s)
  <2>1. seeds'[s].at = "findTenant" /\ seeds'[s].workspace = seeds[s].workspace
        /\ seeds'[s].user = seeds[s].user
    BY <1>1, <1>3, GoToMoves DEF Start, Positions
  <2>2. seeds[s].user = 1
    BY <1>1, <1>3 DEF Start, Tells, EnsuredHere, Ended
  <2> QED BY <1>2, <2>1, <2>2 DEF Tells, EnsuredHere, Ended
<1>4. CASE SeedFails(s)
  <2>1. seeds'[s].at = "stopped" /\ seeds'[s].workspace = 1 /\ seeds'[s].user = 1
    BY <1>1, <1>4, StopMoves DEF SeedFails
  <2> QED BY <2>1 DEF Tells, EnsuredHere, WorkspacesBefore
<1>5. CASE FindTenant(s)
  <2>1. /\ seeds'[s].workspace = seeds[s].workspace
        /\ seeds'[s].user = seeds[s].user
        /\ \/ seeds'[s].at = "hasUser" /\ Slug(s) \in tenants
           \/ seeds'[s].at = "createTenant"
    BY <1>1, <1>5, GoToMoves DEF FindTenant, Positions
  <2>2. seeds[s].user = 1 /\ tenants' = tenants
    BY <1>1, <1>5 DEF FindTenant, Tells, EnsuredHere
  <2> QED BY <1>2, <2>1, <2>2 DEF Tells, EnsuredHere, Ended
<1>6. CASE CreateTenant(s)
  <2>1. /\ seeds'[s].workspace = seeds[s].workspace
        /\ seeds'[s].user = seeds[s].user
        /\ seeds'[s].at = "hasUser"
    BY <1>1, <1>6, GoToMoves DEF CreateTenant, Positions
  <2>2. seeds[s].user = 1 /\ Slug(s) \in tenants'
    BY <1>1, <1>6 DEF CreateTenant, Tells, EnsuredHere
  <2> QED BY <1>2, <2>1, <2>2 DEF Tells, EnsuredHere, Ended
<1>7. CASE HasUser(s)
  <2>1. CASE Email(s) \in users[Slug(s)] /\ SkipUser(s)
    BY <1>7, <2>1, NextUserTells DEF HasUser, SkipUser
  <2>2. CASE GoTo(s, "createUser")
    <3>1. /\ seeds'[s].workspace = seeds[s].workspace
          /\ seeds'[s].user = seeds[s].user
          /\ seeds'[s].at = "createUser"
      BY <1>1, <2>2, GoToMoves DEF Positions
    <3>2. /\ Slug(s) \in tenants
          /\ \A m \in 1..(seeds[s].user - 1) : Staff[m] \in users[Slug(s)]
      BY <1>1, <1>7 DEF HasUser, Tells, EnsuredHere
    <3>3. UNCHANGED <<tenants, users>>
      BY <1>7 DEF HasUser
    <3> QED BY <1>2, <3>1, <3>2, <3>3 DEF Tells, EnsuredHere, Ended
  <2> QED BY <1>7, <2>1, <2>2 DEF HasUser
<1>8. CASE CreateUser(s)
  <2>1. Email(s) \in users'[Slug(s)]
    BY <1>1, <1>8, PlaceInBounds DEF CreateUser, SeedType
  <2> QED BY <1>8, <2>1, NextUserTells DEF CreateUser
<1>9. CASE FindTemplate(s)
  <2>1. CASE NextWorkspace(s)
    BY <1>9, <2>1, TemplateTells
  <2>2. CASE GoTo(s, "createTemplate")
    <3>1. /\ seeds'[s].workspace = seeds[s].workspace
          /\ seeds'[s].user = seeds[s].user
          /\ seeds'[s].at = "createTemplate"
      BY <1>1, <2>2, GoToMoves DEF Positions
    <3>2. /\ Slug(s) \in tenants /\ seeds[s].user = 1
          /\ \A m \in 1..LastUser : Staff[m] \in users[Slug(s)]
      BY <1>1, <1>9 DEF FindTemplate, Tells, EnsuredHere
    <3>3. UNCHANGED <<tenants, users>>
      BY <1>9 DEF FindTemplate
    <3> QED BY <1>2, <3>1, <3>2, <3>3 DEF Tells, EnsuredHere, Ended
  <2> QED BY <1>9, <2>1, <2>2 DEF FindTemplate
<1>10. CASE CreateTemplate(s)
  BY <1>10, TemplateTells DEF CreateTemplate
<1> QED BY <1>3, <1>4, <1>5, <1>6, <1>7, <1>8, <1>9, <1>10 DEF SeedStep

\* A step of a run moves no other run.
LEMMA OneMoves ==
  ASSUME SeedType, NEW s \in Seeds, Start(s) \/ SeedStep(s) \/ SeedFails(s)
  PROVE  Alone(s)
<1>1. CASE \E at \in Positions : GoTo(s, at)
  BY <1>1, GoToMoves
<1>2. CASE NextUser(s)
  BY <1>2, NextUserMoves
<1>3. CASE NextWorkspace(s)
  BY <1>3, NextWorkspaceMoves
<1>4. CASE seeds' = [seeds EXCEPT ![s] = Stopped]
  BY <1>4, StopMoves
<1> QED BY <1>1, <1>2, <1>3, <1>4
        DEF Start, SeedFails, SeedStep, FindTenant, CreateTenant, HasUser,
            SkipUser, CreateUser, FindTemplate, CreateTemplate, Positions

\* Initially no run has started.
LEMMA SeedInvInit == SeedingInit => SeedInv
<1> SUFFICES ASSUME SeedingInit
             PROVE  SeedInv
  OBVIOUS
<1>1. SeedType
  <2>1. Stopped \in Place
    BY Lists DEF Stopped, Place, Positions, Ended
  <2>2. templates \in [Tenants -> TemplateRow] /\ DOMAIN versions = Versions
    BY DEF SeedingInit, Init, TemplateRow, NoTemplate
  <2> QED BY <2>1, <2>2 DEF SeedingInit, SeedType
<1>2. \A s \in Seeds : WorkspacesBefore(s) /\ EnsuredHere(s)
  BY DEF SeedingInit, Stopped, WorkspacesBefore, EnsuredHere
<1> QED BY <1>1, <1>2 DEF SeedInv

\* Every step keeps what the places tell.
LEMMA SeedInvStep == SeedInv /\ [SeedingNext]_all => SeedInv'
<1> SUFFICES ASSUME SeedInv, [SeedingNext]_all
             PROVE  SeedInv'
  OBVIOUS
<1>1. CASE UNCHANGED all
  BY <1>1 DEF all, seeding, vars, db, SeedInv, SeedType, WorkspacesBefore,
              EnsuredHere, Whole, Slug
<1>2. CASE SeedingNext
  <2>1. SeedType' /\ RecordsStay
    BY <1>2, StepKeepsTypes, StepKeepsRecords DEF SeedInv
  <2>2. CASE UNCHANGED seeds
    BY <2>1, <2>2, RestTells DEF SeedInv, Tells
  <2>3. ASSUME NEW s \in Seeds, Start(s) \/ SeedStep(s) \/ SeedFails(s)
        PROVE  SeedInv'
    <3>1. Alone(s) /\ Tells(s)'
      BY <2>1, <2>3, OneMoves, MoverTells DEF SeedInv
    <3>2. \A q \in Seeds \ {s} : Tells(q)'
      BY <2>1, <3>1, RestTells DEF Alone
    <3> QED BY <2>1, <3>1, <3>2 DEF SeedInv, Tells
  <2> QED BY <1>2, <2>2, <2>3 DEF SeedingNext, Serve, seeding, CreateTenantAndAdmin
<1> QED BY <1>1, <1>2

-----------------------------------------------------------------------------
(***************************************************************************)
(* The theorems.                                                           *)
(***************************************************************************)

\* The position of a run of the seed tells which records are there, whatever
\* other runs, onboardings and requests have done since
\* (PrismaSeedWorkspaceRepository).
THEOREM PlacesTellTheTruth == LiveSeeding => []SeedInv
  BY SeedInvInit, SeedInvStep, PTL DEF LiveSeeding

\* A step of a run overwrites nothing.
LEMMA RunsOverwriteNothing ==
  ASSUME SeedInv, NEW s \in Seeds, Start(s) \/ SeedStep(s) \/ SeedFails(s)
  PROVE  KeepsRecords
<1>1. CASE CreateTemplate(s)
  <2>1. PICK t \in Tenants : t = Slug(s)
    BY PlaceInBounds DEF SeedInv
  <2>2. templates[t] = NoTemplate
    BY <1>1, <2>1 DEF CreateTemplate, TemplateFree
  <2>3. PICK v \in Versions :
          /\ versions[v] = None
          /\ versions' = [versions EXCEPT ![v] =
                            [tenant |-> t, definition |-> SeededTemplate]]
          /\ templates' = [templates EXCEPT ![t] = [revision |-> 1, active |-> v]]
    BY <1>1, <2>1 DEF CreateTemplate
  <2>4. DOMAIN templates = Tenants /\ DOMAIN versions = Versions
    BY DEF SeedInv, SeedType
  <2>5. \A u \in Tenants : templates[u] # NoTemplate => templates'[u] = templates[u]
    <3> TAKE u \in Tenants
    <3>1. CASE u = t
      BY <2>2, <3>1
    <3>2. CASE u # t
      BY <2>3, <2>4, <3>2
    <3> QED BY <3>1, <3>2
  <2>6. \A u \in Versions : versions[u] # None => versions'[u] = versions[u]
    <3> TAKE u \in Versions
    <3>1. CASE u = v
      BY <2>3, <3>1
    <3>2. CASE u # v
      BY <2>3, <2>4, <3>2
    <3> QED BY <3>1, <3>2
  <2> QED BY <2>5, <2>6 DEF KeepsRecords
<1>2. CASE ~CreateTemplate(s)
  <2>1. UNCHANGED <<templates, versions>>
    BY <1>2
       DEF Start, SeedFails, SeedStep, FindTenant, CreateTenant, HasUser,
           CreateUser, FindTemplate, Beside, db
  <2> QED BY <2>1 DEF KeepsRecords
<1> QED BY <1>1, <1>2

\* A run that reports its completion has just left the last workspace.
LEMMA CompletionIsWhole ==
  ASSUME SeedInv, SeedingNext, NEW s \in Seeds,
         Start(s) \/ SeedStep(s) \/ SeedFails(s), seeds'[s].at = "completed"
  PROVE  \A n \in DOMAIN Workspaces : Whole(Workspaces[n])'
<1>1. SeedType /\ SeedType' /\ RecordsStay
  BY StepKeepsTypes, StepKeepsRecords DEF SeedInv
<1>2. ASSUME NEW at \in Positions \ {"completed"}, GoTo(s, at)
      PROVE  FALSE
  BY <1>1, <1>2, GoToMoves
<1>3. ~NextUser(s) /\ ~SeedFails(s)
  BY <1>1, NextUserMoves, StopMoves DEF SeedFails
<1>4. (FindTemplate(s) \/ CreateTemplate(s)) /\ NextWorkspace(s)
  BY <1>2, <1>3
     DEF Start, SeedStep, FindTenant, CreateTenant, HasUser, SkipUser, CreateUser,
         FindTemplate, CreateTemplate, Positions
<1> QED BY <1>1, <1>4, TemplateTells, Lists

\* The seed is safe to rerun: whatever ran halfway before or runs beside it, it
\* overwrites nothing, and a run that completes leaves every workspace whole
\* (seed.ts and PrismaSeedWorkspaceRepository).
THEOREM SeedIsSafeToRerun == LiveSeeding => SafeToRerun
<1> DEFINE Safe ==
             /\ KeepsRecords
             /\ \A s \in Seeds :
                  seeds[s].at # "completed" /\ seeds'[s].at = "completed" =>
                    \A n \in DOMAIN Workspaces : Whole(Workspaces[n])'
<1>1. ASSUME SeedInv, SeedingNext, seeds' # seeds
      PROVE  Safe
  <2>1. PICK s \in Seeds : Start(s) \/ SeedStep(s) \/ SeedFails(s)
    BY <1>1 DEF SeedingNext, Serve, seeding, CreateTenantAndAdmin
  <2>2. \A q \in Seeds \ {s} : seeds'[q] = seeds[q]
    BY <1>1, <2>1, OneMoves DEF Alone, SeedInv
  <2> QED BY <1>1, <2>1, <2>2, RunsOverwriteNothing, CompletionIsWhole
<1>2. SeedInv /\ [SeedingNext]_all => [seeds' # seeds => Safe]_seeds
  BY <1>1 DEF all, seeding
<1> QED BY <1>2, PlacesTellTheTruth, PTL DEF LiveSeeding, SafeToRerun
=============================================================================
