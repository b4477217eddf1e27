--------------------------- MODULE RefreshSession ---------------------------
(***************************************************************************)
(* Refresh sessions of the API: a sign-in opens a session with a fixed     *)
(* deadline and a first credential; a refresh replaces the credential by   *)
(* its successor; a sign-out revokes the session, and so does the second   *)
(* use of a credential.  Refreshes and sign-outs run concurrently, each in *)
(* a transaction that locates the session, locks its row and only then     *)
(* reads what it decides on.                                               *)
(***************************************************************************)
EXTENDS Integers

CONSTANTS
  Sessions,       \* rows of "refresh_sessions", one for each sign-in
  Selectors,      \* selectors credentials may get
  Requests,       \* slots for requests in progress
  Lifetime,       \* REFRESH_SESSION_SECONDS
  MaxTime,        \* bound: the clock stops there
  None

\* A row of "refresh_sessions", one of "refresh_credentials", and what a refresh
\* or a sign-out comes with.
Session == [expires: Nat, revoked: BOOLEAN]
Credential == [session: Sessions, generation: Nat,
               parent: Selectors \cup {None}, consumed: BOOLEAN]
Presented == [kind: {"rotate", "revoke"}, selector: Selectors \cup {None},
              genuine: BOOLEAN, now: Nat]

\* None is no value that a row, a lock or an answer may have.
ASSUME RefreshAssumption ==
  /\ Lifetime \in Nat
  /\ MaxTime \in Nat
  /\ None \notin Selectors \cup Sessions \cup Requests
  /\ None \notin Session
  /\ None \notin Credential
  /\ None \notin [to: Requests, is: STRING]

VARIABLES
  sessions,       \* the committed rows
  credentials,
  sessionLock,    \* row locks of sessions
  clock,
  pc,             \* the statement a request is about to run
  cmd,            \* its command: the selector that was presented, which may be
                  \* unknown, whether its secret is genuine, and the time
  found,          \* the credential and the session it has read
  answer,         \* the answer the last step gave, if it gave one
  uses            \* history: committed refreshes with a genuine credential

tables == <<sessions, credentials>>
vars == <<tables, sessionLock, clock, pc, cmd, found, answer, uses>>

Of(r) == credentials[cmd[r].selector]

\* The locks request r leaves behind when its transaction ends.
Release(r) ==
  sessionLock' = [s \in Sessions |->
                   IF sessionLock[s] = r THEN None ELSE sessionLock[s]]

Finish(r, outcome) ==
  /\ pc' = [pc EXCEPT ![r] = "idle"]
  /\ cmd' = [cmd EXCEPT ![r] = None]
  /\ found' = [found EXCEPT ![r] = None]
  /\ answer' = [to |-> r, is |-> outcome]
  /\ Release(r)
  /\ UNCHANGED clock

Continue(r, next) ==
  /\ pc' = [pc EXCEPT ![r] = next]
  /\ answer' = None
  /\ UNCHANGED <<tables, clock, cmd, uses>>

Tick ==
  /\ clock < MaxTime
  /\ clock' = clock + 1
  /\ answer' = None
  /\ UNCHANGED <<tables, sessionLock, pc, cmd, found, uses>>

\* create: the session and its first credential are inserted together.
SignIn ==
  \E s \in Sessions, x \in Selectors :
    /\ sessions[s] = None
    /\ credentials[x] = None
    /\ sessions' = [sessions EXCEPT ![s] =
                     [expires |-> clock + Lifetime, revoked |-> FALSE]]
    /\ credentials' = [credentials EXCEPT ![x] =
                        [session |-> s, generation |-> 0, parent |-> None,
                         consumed |-> FALSE]]
    /\ answer' = None
    /\ UNCHANGED <<sessionLock, clock, pc, cmd, found, uses>>

\* A refresh or a sign-out arrives with a credential that was once issued, or
\* with one that never was; the service reads the clock.
Receive(r) ==
  \E kind \in {"rotate", "revoke"}, genuine \in BOOLEAN,
     x \in Selectors \cup {None} :
    /\ pc[r] = "idle"
    /\ x # None => credentials[x] # None
    /\ x = None => ~genuine
    /\ pc' = [pc EXCEPT ![r] = "locate"]
    /\ cmd' = [cmd EXCEPT ![r] = [kind |-> kind, selector |-> x,
                                  genuine |-> genuine, now |-> clock]]
    /\ answer' = None
    /\ UNCHANGED <<tables, sessionLock, clock, found, uses>>

\* The first findUnique of rotate and of revoke.
Locate(r) ==
  /\ pc[r] = "locate"
  /\ \/ /\ cmd[r].selector = None
        /\ Finish(r, IF cmd[r].kind = "rotate" THEN "invalid" ELSE "unknown")
        /\ UNCHANGED <<tables, uses>>
     \/ /\ cmd[r].selector # None
        /\ Continue(r, "lock")
        /\ UNCHANGED <<sessionLock, found>>

\* Mutant of LockSession: the statement without FOR UPDATE.
ReadSession(r) ==
  /\ pc[r] = "lock"
  /\ Continue(r, "read")
  /\ UNCHANGED <<sessionLock, found>>

\* SELECT id FROM refresh_sessions ... FOR UPDATE.
LockSession(r) ==
  /\ pc[r] = "lock"
  /\ sessionLock[Of(r).session] = None
  /\ sessionLock' = [sessionLock EXCEPT ![Of(r).session] = r]
  /\ Continue(r, "read")
  /\ UNCHANGED found

\* The second findUnique, with the session.
ReadCurrent(r) ==
  /\ pc[r] = "read"
  /\ found' = [found EXCEPT ![r] = [credential |-> Of(r),
                                    session |-> sessions[Of(r).session]]]
  /\ Continue(r, "execute")
  /\ UNCHANGED sessionLock

Executing(r, kind) == pc[r] = "execute" /\ cmd[r].kind = kind

\* Mutant of InForce: the deadline is not looked at.
NotRevoked(r) == ~found[r].session.revoked

\* rotate compares the deadline with the time the service read before the
\* transaction began, and not with the clock of the commit.
InForce(r) ==
  ~found[r].session.revoked /\ cmd[r].now < found[r].session.expires

\* Mutant of Revoke: every session of the user.
RevokeAll(s) ==
  sessions' = [z \in Sessions |-> IF sessions[z] = None THEN None
                                  ELSE [sessions[z] EXCEPT !.revoked = TRUE]]

\* The session gets its revokedAt.
Revoke(s) == sessions' = [sessions EXCEPT ![s].revoked = TRUE]

\* Unique keys: one successor of a credential, one credential of a generation.
Refused(r) ==
  LET current == found[r].credential IN
  \E x \in Selectors :
    /\ credentials[x] # None
    /\ \/ credentials[x].parent = cmd[r].selector
       \/ /\ credentials[x].session = current.session
          /\ credentials[x].generation = current.generation + 1

\* Mutant of Replace: the credential that was presented stays good.
KeepAndAdd(r, x) ==
  credentials' = [credentials EXCEPT
    ![x] = [session |-> found[r].credential.session,
            generation |-> found[r].credential.generation + 1,
            parent |-> cmd[r].selector, consumed |-> FALSE]]

\* The credential is consumed and x is its successor.
Replace(r, x) ==
  credentials' = [credentials EXCEPT
    ![cmd[r].selector].consumed = TRUE,
    ![x] = [session |-> found[r].credential.session,
            generation |-> found[r].credential.generation + 1,
            parent |-> cmd[r].selector, consumed |-> FALSE]]

Counted(r) ==
  uses' = IF cmd[r].genuine /\ cmd[r].now < found[r].session.expires
          THEN [uses EXCEPT ![cmd[r].selector] = IF @ = 2 THEN 2 ELSE @ + 1]
          ELSE uses

\* Mutant of OnReuse: reuse is refused, and nothing more.
OnlyRefuse(r) == UNCHANGED sessions

\* Verified reuse revokes the session.
OnReuse(r) == Revoke(found[r].credential.session)

\* Mutant of Reused: any credential of the session was replaced.
ReusedInSession(r) ==
  \E x \in Selectors :
    /\ credentials[x] # None
    /\ credentials[x].session = found[r].credential.session
    /\ credentials[x].consumed

\* The credential was replaced by an earlier refresh.
Reused(r) == found[r].credential.consumed

\* The decision of rotate, its writes and the commit.
Rotate(r) ==
  LET good == cmd[r].genuine /\ InForce(r) IN
  /\ Executing(r, "rotate")
  /\ \/ ~good /\ Finish(r, "invalid") /\ UNCHANGED tables
     \/ /\ good /\ Reused(r)
        /\ OnReuse(r)
        /\ Finish(r, "reused")
        /\ UNCHANGED credentials
     \/ /\ good /\ ~Reused(r)
        /\ ~Refused(r)
        /\ \E x \in Selectors : credentials[x] = None /\ Replace(r, x)
        /\ Finish(r, "rotated")
        /\ UNCHANGED sessions
  /\ Counted(r)

\* The decision of revoke, its write and the commit.
SignOut(r) ==
  /\ Executing(r, "revoke")
  /\ \/ ~cmd[r].genuine /\ Finish(r, "unknown") /\ UNCHANGED sessions
     \/ /\ cmd[r].genuine
        /\ IF found[r].session.revoked
           THEN UNCHANGED sessions
           ELSE Revoke(found[r].credential.session)
        /\ Finish(r, "signedOut")
  /\ UNCHANGED <<credentials, uses>>

\* The transaction fails at one of its statements and is rolled back; a refresh
\* for which the model has no selector left can only do that.
Abort(r) ==
  /\ pc[r] # "idle"
  /\ Finish(r, "error")
  /\ UNCHANGED <<tables, uses>>

-----------------------------------------------------------------------------
Init ==
  /\ sessions = [s \in Sessions |-> None]
  /\ credentials = [x \in Selectors |-> None]
  /\ sessionLock = [s \in Sessions |-> None]
  /\ clock = 0
  /\ pc = [r \in Requests |-> "idle"]
  /\ cmd = [r \in Requests |-> None]
  /\ found = [r \in Requests |-> None]
  /\ answer = None
  /\ uses = [x \in Selectors |-> 0]

Next ==
  \/ Tick
  \/ SignIn
  \/ \E r \in Requests :
       \/ Receive(r)
       \/ Locate(r)
       \/ LockSession(r)
       \/ ReadCurrent(r)
       \/ Rotate(r)
       \/ SignOut(r)
       \/ Abort(r)

Spec == Init /\ [][Next]_vars

-----------------------------------------------------------------------------
(***************************************************************************)
(* Properties.                                                             *)
(***************************************************************************)

Issued == {x \in Selectors : credentials[x] # None}
ChainOf(s) == {x \in Issued : credentials[x].session = s}

OneOfAGeneration ==
  \A x, y \in Issued :
    /\ credentials[x].session = credentials[y].session
    /\ credentials[x].generation = credentials[y].generation
    => x = y

FollowsItsParent(x) ==
  LET c == credentials[x] IN
  /\ c.generation = 0 <=> c.parent = None
  /\ c.generation > 0 =>
       /\ c.parent \in ChainOf(c.session)
       /\ credentials[c.parent].generation = c.generation - 1

SpentWhenReplaced(x) ==
  credentials[x].consumed <=> \E y \in Issued : credentials[y].parent = x

\* The credentials of a session are a chain without forks: every generation has
\* one, whose parent is the one before it, and only the last is not consumed.
\* A session never has two credentials that are still good.
ChainIsLinear ==
  /\ OneOfAGeneration
  /\ \A x \in Issued : FollowsItsParent(x) /\ SpentWhenReplaced(x)

\* Whoever uses a credential for the second time, in whatever order the two
\* refreshes run, the session is revoked by then.
SecondUseRevokes ==
  \A x \in Issued : uses[x] = 2 => sessions[credentials[x].session].revoked

\* A successor is only issued for the one credential that is good at the commit,
\* in a session that nobody has signed out or revoked by then, however long the
\* refresh waited for the lock; and only to a refresh that was received before
\* the deadline of the session (rotate).  The deadline is no condition of the
\* commit: a refresh that came in time may wait until it is over and succeed.
SuccessorsAreEarned ==
  [][answer' # None /\ answer'.is = "rotated" =>
       LET r == answer'.to IN
       /\ cmd[r].genuine
       /\ ~sessions[Of(r).session].revoked
       /\ ~Of(r).consumed
       /\ cmd[r].now < sessions[Of(r).session].expires]_<<answer, tables>>

\* r finishes in this step, and what it does ends the session of its credential:
\* a sign-out, or the second use of that credential before the deadline.
EndsItsSession(r) ==
  /\ pc[r] = "execute" /\ pc'[r] = "idle"
  /\ cmd[r].genuine
  /\ \/ cmd[r].kind = "revoke"
     \/ /\ cmd[r].kind = "rotate"
        /\ Of(r).consumed
        /\ cmd[r].now < sessions[Of(r).session].expires

\* A session only ends for a reason of its own: its deadline is fixed at the
\* sign-in, a revocation is final, and only a sign-out with one of its
\* credentials or the reuse of one revokes it, without any effect on another
\* sign-in; the first use of a credential never does.
SessionsEndForAReason ==
  [][\A s \in Sessions : sessions[s] # None =>
       /\ sessions'[s].expires = sessions[s].expires
       /\ sessions[s].revoked => sessions'[s].revoked
       /\ sessions'[s].revoked # sessions[s].revoked =>
            \E r \in Requests : EndsItsSession(r) /\ Of(r).session = s]_sessions

=============================================================================
