------------------------ MODULE RefreshSessionProofs ------------------------
(***************************************************************************)
(* What holds of RefreshSession for any number of sessions, credentials    *)
(* and requests.                                                           *)
(***************************************************************************)
EXTENDS RefreshSession, TLAPS

Outcomes == {"invalid", "unknown", "reused", "rotated", "signedOut", "error"}

\* Types of the tables and of the history of uses.
TablesType ==
  /\ sessions \in [Sessions -> Session \cup {None}]
  /\ credentials \in [Selectors -> Credential \cup {None}]
  /\ uses \in [Selectors -> 0..2]

\* Types of the locks and of the requests.
RequestsType ==
  /\ sessionLock \in [Sessions -> Requests \cup {None}]
  /\ clock \in Nat
  /\ pc \in [Requests -> {"idle", "locate", "lock", "read", "execute"}]
  /\ cmd \in [Requests -> Presented \cup {None}]
  /\ found \in [Requests -> [credential: Credential \cup {None},
                             session: Session \cup {None}] \cup {None}]
  /\ answer \in [to: Requests, is: Outcomes] \cup {None}

\* The foreign key of a credential.
HasSession(x) == credentials[x] # None => sessions[credentials[x].session] # None

\* A credential that was used once is spent, or its session is over; one that
\* was used twice has ended its session.
UsesAreSeen(x) ==
  uses[x] > 0 =>
    /\ credentials[x] # None
    /\ \/ sessions[credentials[x].session].revoked
       \/ uses[x] = 1 /\ credentials[x].consumed

\* A request was given a credential that exists, locks its session before it
\* reads, and decides on what is committed.
RequestFits(r) ==
  /\ pc[r] # "idle" =>
       /\ cmd[r] \in Presented
       /\ cmd[r].selector # None => credentials[cmd[r].selector] # None
       /\ cmd[r].selector = None => ~cmd[r].genuine
  /\ pc[r] \in {"lock", "read", "execute"} => cmd[r].selector # None
  /\ pc[r] \in {"read", "execute"} => sessionLock[Of(r).session] = r
  /\ pc[r] = "execute" =>
       found[r] = [credential |-> Of(r), session |-> sessions[Of(r).session]]

TablesFit == \A x \in Selectors : HasSession(x) /\ UsesAreSeen(x)
RequestsFit == \A r \in Requests : RequestFits(r)

IInv == TablesType /\ RequestsType /\ TablesFit /\ RequestsFit /\ ChainIsLinear
-----------------------------------------------------------------------------
(***************************************************************************)
(* Requests and locks.                                                     *)
(***************************************************************************)

\* The rows a request is about: its credential, and the session of that.
LEMMA CredentialOfRequest ==
  ASSUME IInv, NEW r \in Requests, pc[r] \in {"lock", "read", "execute"}
  PROVE  /\ cmd[r] \in Presented
         /\ cmd[r].selector \in Selectors
         /\ Of(r) # None
         /\ Of(r) \in Credential
         /\ Of(r).session \in Sessions
         /\ sessions[Of(r).session] # None
         /\ sessions[Of(r).session] \in Session
  <1>1. /\ cmd[r] \in Presented
        /\ cmd[r].selector \in Selectors
        /\ Of(r) # None
    BY DEF IInv, RequestsFit, RequestFits, Presented, Of
  <1>2. Of(r) \in Credential
    BY <1>1 DEF IInv, TablesType, Of
  <1>3. Of(r).session \in Sessions
    BY <1>2 DEF Credential
  <1>4. sessions[Of(r).session] # None
    BY <1>1 DEF IInv, TablesFit, HasSession, Of
  <1> QED
    BY <1>1, <1>2, <1>3, <1>4 DEF IInv, TablesType

\* Two requests that have locked their sessions have locked two sessions.
LEMMA SessionsApart ==
  ASSUME IInv, NEW r \in Requests, NEW q \in Requests, q # r,
         pc[r] \in {"read", "execute"}, pc[q] \in {"read", "execute"}
  PROVE  Of(q).session # Of(r).session
  BY DEF IInv, RequestsFit, RequestFits

\* What the other requests have read, and the credentials they were given, are
\* as they were.
OthersKeep(r) ==
  /\ \A x \in Selectors : credentials[x] # None => credentials'[x] # None
  /\ \A q \in Requests \ {r} :
       pc[q] \in {"read", "execute"} =>
         /\ credentials'[cmd[q].selector] = Of(q)
         /\ sessions'[Of(q).session] = sessions[Of(q).session]

\* The end of a transaction takes nothing from the others.
LEMMA FinishKeepsRequests ==
  ASSUME IInv, NEW r \in Requests, NEW outcome \in Outcomes,
         Finish(r, outcome), OthersKeep(r)
  PROVE  RequestsType' /\ RequestsFit'
  <1>1. RequestsType'
    BY DEF IInv, RequestsType, Finish, Release
  <1>2. ASSUME NEW q \in Requests
        PROVE  RequestFits(q)'
    <2>1. CASE q = r
      BY <2>1 DEF IInv, RequestsType, RequestFits, Finish
    <2>2. CASE q # r
      <3>1. /\ pc'[q] = pc[q] /\ cmd'[q] = cmd[q] /\ found'[q] = found[q]
            /\ \A s \in Sessions : sessionLock[s] = q => sessionLock'[s] = q
        BY <2>2 DEF IInv, RequestsType, Finish, Release
      <3>2. RequestFits(q)
        BY DEF IInv, RequestsFit
      <3>3. pc[q] # "idle" /\ cmd[q].selector # None =>
              credentials'[cmd[q].selector] # None
        BY <3>2 DEF RequestFits, Presented, OthersKeep
      <3>4. CASE pc[q] \in {"read", "execute"}
        <4>1. Of(q).session \in Sessions
          BY <3>4, CredentialOfRequest
        <4>2. Of(q)' = Of(q) /\ sessions'[Of(q).session] = sessions[Of(q).session]
          BY <2>2, <3>1, <3>4 DEF OthersKeep, Of
        <4> QED
          BY <3>1, <3>2, <3>3, <3>4, <4>1, <4>2 DEF RequestFits
      <3>5. CASE pc[q] \notin {"read", "execute"}
        BY <3>1, <3>2, <3>3, <3>5 DEF RequestFits
      <3> QED
        BY <3>4, <3>5
    <2> QED
      BY <2>1, <2>2
  <1> QED
    BY <1>1, <1>2 DEF RequestsFit

\* So it does when it has written nothing.
LEMMA FinishUnchanged ==
  ASSUME IInv, NEW r \in Requests, NEW outcome \in Outcomes,
         Finish(r, outcome), UNCHANGED <<tables, uses>>
  PROVE  IInv'
  <1>1. OthersKeep(r)
    BY DEF OthersKeep, tables, Of
  <1>2. RequestsType' /\ RequestsFit'
    BY <1>1, FinishKeepsRequests
  <1>3. TablesType' /\ TablesFit' /\ ChainIsLinear'
    BY DEF IInv, TablesType, TablesFit, HasSession, UsesAreSeen, ChainIsLinear,
           OneOfAGeneration, FollowsItsParent, SpentWhenReplaced, ChainOf,
           Issued, tables
  <1> QED
    BY <1>2, <1>3 DEF IInv

\* The tables keep what they satisfy while nobody writes them.
LEMMA TablesUnchanged ==
  ASSUME IInv, UNCHANGED <<tables, uses>>
  PROVE  TablesType' /\ TablesFit' /\ ChainIsLinear'
  BY DEF IInv, TablesType, TablesFit, HasSession, UsesAreSeen, ChainIsLinear,
         OneOfAGeneration, FollowsItsParent, SpentWhenReplaced, ChainOf, Issued,
         tables

-----------------------------------------------------------------------------
(***************************************************************************)
(* The statements that read.                                               *)
(***************************************************************************)

\* Initially there is nothing.
LEMMA InitIInv == Init => IInv
  BY RefreshAssumption
     DEF Init, IInv, TablesType, RequestsType, TablesFit, RequestsFit,
         HasSession, UsesAreSeen, RequestFits, ChainIsLinear, OneOfAGeneration,
         Issued

\* The clock decides nothing by itself: a request has the time it came at.
LEMMA TickKeepsIInv ==
  ASSUME IInv, Tick
  PROVE  IInv'
  <1>1. RequestsType' /\ RequestsFit'
    BY DEF IInv, RequestsType, RequestsFit, RequestFits, Tick, Of, tables
  <1> QED
    BY <1>1, TablesUnchanged DEF Tick, IInv

\* A request that arrives was given a credential that exists, or none.
LEMMA ReceiveKeepsIInv ==
  ASSUME IInv, NEW r \in Requests, Receive(r)
  PROVE  IInv'
  <1>1. PICK kind \in {"rotate", "revoke"}, genuine \in BOOLEAN,
             x \in Selectors \cup {None} :
          /\ pc[r] = "idle"
          /\ x # None => credentials[x] # None
          /\ x = None => ~genuine
          /\ pc' = [pc EXCEPT ![r] = "locate"]
          /\ cmd' = [cmd EXCEPT ![r] = [kind |-> kind, selector |-> x,
                                        genuine |-> genuine, now |-> clock]]
          /\ answer' = None
          /\ UNCHANGED <<tables, sessionLock, clock, found, uses>>
    BY DEF Receive
  <1>2. [kind |-> kind, selector |-> x, genuine |-> genuine, now |-> clock]
          \in Presented
    BY DEF IInv, RequestsType, Presented
  <1>3. RequestsType'
    BY <1>1, <1>2 DEF IInv, RequestsType
  <1>4. ASSUME NEW q \in Requests
        PROVE  RequestFits(q)'
    <2>1. CASE q = r
      BY <1>1, <1>2, <2>1 DEF IInv, RequestsType, RequestFits, tables
    <2>2. CASE q # r
      BY <1>1, <2>2
         DEF IInv, RequestsType, RequestsFit, RequestFits, Of, tables
    <2> QED
      BY <2>1, <2>2
  <1> QED
    BY <1>1, <1>3, <1>4, TablesUnchanged DEF IInv, RequestsFit

\* The search for the credential ends the request or leads to its session.
LEMMA LocateKeepsIInv ==
  ASSUME IInv, NEW r \in Requests, Locate(r)
  PROVE  IInv'
  <1>1. CASE cmd[r].selector = None
    <2>1. UNCHANGED <<tables, uses>>
      BY <1>1 DEF Locate, Continue
    <2>2. PICK outcome \in Outcomes : Finish(r, outcome)
      BY <1>1 DEF Locate, Outcomes
    <2> QED
      BY <2>1, <2>2, FinishUnchanged
  <1>2. CASE cmd[r].selector # None
    <2>1. Continue(r, "lock") /\ UNCHANGED <<sessionLock, found>>
      BY <1>2 DEF Locate
    <2>2. RequestsType'
      BY <2>1 DEF IInv, RequestsType, Continue
    <2>3. RequestsFit'
      BY <1>2, <2>1
         DEF Locate, IInv, RequestsType, RequestsFit, RequestFits, Continue, Of,
             tables
    <2> QED
      BY <2>1, <2>2, <2>3, TablesUnchanged DEF Continue, IInv
  <1> QED
    BY <1>1, <1>2

\* The lock was free.
LEMMA LockSessionKeepsIInv ==
  ASSUME IInv, NEW r \in Requests, LockSession(r)
  PROVE  IInv'
  <1>1. /\ pc[r] = "lock" /\ sessionLock[Of(r).session] = None
        /\ sessionLock' = [sessionLock EXCEPT ![Of(r).session] = r]
        /\ Continue(r, "read") /\ UNCHANGED found
    BY DEF LockSession
  <1>2. Of(r).session \in Sessions
    BY <1>1, CredentialOfRequest
  <1>3. RequestsType'
    BY <1>1, <1>2 DEF IInv, RequestsType, Continue
  <1>4. ASSUME NEW q \in Requests
        PROVE  RequestFits(q)'
    <2>1. CASE q = r
      BY <1>1, <1>2, <2>1
         DEF IInv, RequestsType, RequestsFit, RequestFits, Continue, Of, tables
    <2>2. CASE q # r
      BY <1>1, <1>2, <2>2, RefreshAssumption
         DEF IInv, RequestsType, RequestsFit, RequestFits, Continue, Of, tables
    <2> QED
      BY <2>1, <2>2
  <1> QED
    BY <1>1, <1>3, <1>4, TablesUnchanged DEF Continue, IInv, RequestsFit

\* The rows are read under the lock.
LEMMA ReadCurrentKeepsIInv ==
  ASSUME IInv, NEW r \in Requests, ReadCurrent(r)
  PROVE  IInv'
  <1> DEFINE read == [credential |-> Of(r), session |-> sessions[Of(r).session]]
  <1>1. /\ pc[r] = "read" /\ found' = [found EXCEPT ![r] = read]
        /\ Continue(r, "execute") /\ UNCHANGED sessionLock
    BY DEF ReadCurrent
  <1>2. read \in [credential: Credential \cup {None},
                  session: Session \cup {None}]
    BY <1>1, CredentialOfRequest
  <1> HIDE DEF read
  <1>3. RequestsType'
    BY <1>1, <1>2 DEF IInv, RequestsType, Continue
  <1>4. ASSUME NEW q \in Requests
        PROVE  RequestFits(q)'
    <2>1. CASE q = r
      BY <1>1, <2>1
         DEF IInv, RequestsType, RequestsFit, RequestFits, Continue, Of, tables,
             read
    <2>2. CASE q # r
      BY <1>1, <2>2
         DEF IInv, RequestsType, RequestsFit, RequestFits, Continue, Of, tables
    <2> QED
      BY <2>1, <2>2
  <1> QED
    BY <1>1, <1>3, <1>4, TablesUnchanged DEF Continue, IInv, RequestsFit

\* A rollback.
LEMMA AbortKeepsIInv ==
  ASSUME IInv, NEW r \in Requests, Abort(r)
  PROVE  IInv'
  <1>1. "error" \in Outcomes
    BY DEF Outcomes
  <1> QED
    BY <1>1, FinishUnchanged DEF Abort
-----------------------------------------------------------------------------
(***************************************************************************)
(* The statements that write.                                              *)
(***************************************************************************)

\* A new session has one credential, the first of a chain of its own.
LEMMA SignInKeepsIInv ==
  ASSUME IInv, SignIn
  PROVE  IInv'
  <1>1. PICK s \in Sessions, x \in Selectors :
          /\ sessions[s] = None
          /\ credentials[x] = None
          /\ sessions' = [sessions EXCEPT ![s] =
                            [expires |-> clock + Lifetime, revoked |-> FALSE]]
          /\ credentials' = [credentials EXCEPT ![x] =
                               [session |-> s, generation |-> 0,
                                parent |-> None, consumed |-> FALSE]]
          /\ answer' = None
          /\ UNCHANGED <<sessionLock, clock, pc, cmd, found, uses>>
    BY DEF SignIn
  <1> DEFINE opened == [expires |-> clock + Lifetime, revoked |-> FALSE]
             first == [session |-> s, generation |-> 0, parent |-> None,
                       consumed |-> FALSE]
  <1>2. opened \in Session /\ first \in Credential
    BY RefreshAssumption DEF Session, Credential, IInv, RequestsType
  <1>3. opened # None /\ first # None
    BY <1>2, RefreshAssumption
  <1>4. TablesType'
    BY <1>1, <1>2 DEF IInv, TablesType
  <1>5. /\ credentials'[x] = first
        /\ \A y \in Selectors \ {x} : credentials'[y] = credentials[y]
        /\ sessions'[s] = opened
        /\ \A z \in Sessions \ {s} : sessions'[z] = sessions[z]
    BY <1>1 DEF IInv, TablesType
  <1>6. \A y \in Selectors : credentials[y] # None =>
          /\ y # x
          /\ credentials[y].session \in Sessions \ {s}
    BY <1>1 DEF IInv, TablesType, TablesFit, HasSession, Credential
  <1> HIDE DEF opened, first
  <1>7. RequestsType'
    BY <1>1 DEF IInv, RequestsType
  <1>8. RequestsFit'
    <2> SUFFICES ASSUME NEW r \in Requests
                 PROVE  RequestFits(r)'
      BY DEF RequestsFit
    <2>1. RequestFits(r)
      BY DEF IInv, RequestsFit
    <2>2. pc[r] # "idle" /\ cmd[r].selector # None =>
            /\ credentials'[cmd[r].selector] = credentials[cmd[r].selector]
            /\ sessions'[Of(r).session] = sessions[Of(r).session]
      BY <2>1, <1>5, <1>6 DEF RequestFits, Presented, Of
    <2> QED
      BY <1>1, <2>1, <2>2 DEF RequestFits, Of
  <1>9. TablesFit'
    <2> SUFFICES ASSUME NEW y \in Selectors
                 PROVE  HasSession(y)' /\ UsesAreSeen(y)'
      BY DEF TablesFit
    <2>1. HasSession(y) /\ UsesAreSeen(y)
      BY DEF IInv, TablesFit
    <2>2. CASE y = x
      <3>1. credentials'[y].session = s
        BY <1>5, <2>2 DEF first
      <3>2. ~(uses'[y] > 0)
        BY <1>1, <2>1, <2>2 DEF UsesAreSeen
      <3> QED
        BY <1>3, <1>5, <3>1, <3>2 DEF HasSession, UsesAreSeen
    <2>3. CASE y # x
      BY <1>1, <1>5, <1>6, <2>1, <2>3 DEF HasSession, UsesAreSeen
    <2> QED
      BY <2>2, <2>3
  <1>10. ChainIsLinear'
    <2>1. Issued' = Issued \cup {x}
      BY <1>3, <1>5 DEF Issued
    <2>2. x \notin Issued
      BY <1>1 DEF Issued
    <2>3. \A y \in Issued : /\ credentials'[y] = credentials[y]
                           /\ credentials[y] \in Credential
                           /\ credentials[y].session # s
      BY <1>5, <1>6 DEF Issued, IInv, TablesType
    <2>4. \A y \in Issued : FollowsItsParent(y) /\ SpentWhenReplaced(y)
      BY DEF IInv, ChainIsLinear
    <2>5. \A y \in Issued : credentials[y].parent # x
      BY <2>2, <2>3, <2>4, RefreshAssumption
         DEF FollowsItsParent, ChainOf, Credential
    <2>6. /\ first.session = s /\ first.generation = 0
          /\ first.parent = None /\ ~first.consumed
      BY DEF first
    <2>7. OneOfAGeneration'
      BY <1>5, <2>1, <2>2, <2>3, <2>6 DEF IInv, ChainIsLinear, OneOfAGeneration
    <2>8. ASSUME NEW y \in Issued'
          PROVE  FollowsItsParent(y)' /\ SpentWhenReplaced(y)'
      <3>1. CASE y = x
        <4>1. FollowsItsParent(y)'
          BY <1>5, <2>6, <3>1 DEF FollowsItsParent
        <4>2. ~ \E z \in Issued' : credentials'[z].parent = x
          BY <1>5, <2>1, <2>3, <2>5, <2>6, RefreshAssumption
        <4> QED
          BY <1>5, <2>6, <3>1, <4>1, <4>2 DEF SpentWhenReplaced
      <3>2. CASE y # x
        <4>1. y \in Issued
          BY <2>1, <3>2
        <4>2. \A t : ChainOf(t) \subseteq ChainOf(t)'
          BY <2>1, <2>3 DEF ChainOf
        <4>3. FollowsItsParent(y)'
          BY <2>3, <2>4, <4>1, <4>2 DEF FollowsItsParent, ChainOf
        <4>4. (\E z \in Issued' : credentials'[z].parent = y)
                <=> (\E z \in Issued : credentials[z].parent = y)
          BY <1>5, <2>1, <2>3, <2>6, <4>1, RefreshAssumption DEF Issued
        <4>5. SpentWhenReplaced(y)'
          BY <2>3, <2>4, <4>1, <4>4 DEF SpentWhenReplaced
        <4> QED
          BY <4>3, <4>5
      <3> QED
        BY <3>1, <3>2
    <2> QED
      BY <2>7, <2>8 DEF ChainIsLinear
  <1> QED
    BY <1>4, <1>7, <1>8, <1>9, <1>10 DEF IInv

\* What an executing request decides on is committed.
LEMMA DecidesOnCurrentRows ==
  ASSUME IInv, NEW r \in Requests, pc[r] = "execute"
  PROVE  /\ found[r].credential = Of(r)
         /\ found[r].session = sessions[Of(r).session]
  <1>1. found[r] = [credential |-> Of(r), session |-> sessions[Of(r).session]]
    BY DEF IInv, RequestsFit, RequestFits
  <1> QED
    BY <1>1

\* A revocation, alone or with a use that is counted, of the session a request
\* has locked.
LEMMA RevokeKeepsIInv ==
  ASSUME IInv, NEW r \in Requests, NEW outcome \in Outcomes,
         pc[r] = "execute", Finish(r, outcome),
         Revoke(Of(r).session), UNCHANGED credentials,
         uses' \in [Selectors -> 0..2],
         \A x \in Selectors \ {cmd[r].selector} : uses'[x] = uses[x]
  PROVE  IInv'
  <1> DEFINE s == Of(r).session
  <1>1. /\ s \in Sessions /\ sessions[s] # None /\ sessions[s] \in Session
        /\ cmd[r].selector \in Selectors
        /\ Of(r) # None /\ Of(r) \in Credential
    BY CredentialOfRequest
  <1>2. /\ sessions' = [sessions EXCEPT ![s].revoked = TRUE]
        /\ sessions'[s] \in Session
        /\ sessions'[s].revoked
        /\ \A z \in Sessions \ {s} : sessions'[z] = sessions[z]
    BY <1>1 DEF Revoke, IInv, TablesType, Session
  <1>3. sessions'[s] # None
    BY <1>2, RefreshAssumption
  <1>4. TablesType'
    BY <1>1, <1>2 DEF IInv, TablesType
  <1>5. OthersKeep(r)
    <2> SUFFICES ASSUME NEW q \in Requests \ {r}, pc[q] \in {"read", "execute"}
                 PROVE  /\ credentials'[cmd[q].selector] = Of(q)
                        /\ sessions'[Of(q).session] = sessions[Of(q).session]
      BY DEF OthersKeep
    <2>1. Of(q).session \in Sessions \ {s}
      BY SessionsApart, CredentialOfRequest
    <2> QED
      BY <1>2, <2>1 DEF Of
  <1>6. RequestsType' /\ RequestsFit'
    BY <1>5, FinishKeepsRequests
  <1>7. TablesFit'
    <2> SUFFICES ASSUME NEW y \in Selectors
                 PROVE  HasSession(y)' /\ UsesAreSeen(y)'
      BY DEF TablesFit
    <2>1. HasSession(y) /\ UsesAreSeen(y)
      BY DEF IInv, TablesFit
    <2>2. credentials[y] # None => credentials[y].session \in Sessions
      BY DEF IInv, TablesType, Credential
    <2>3. HasSession(y)'
      BY <1>2, <1>3, <2>1, <2>2 DEF HasSession
    <2>4. CASE y = cmd[r].selector
      <3>1. sessions'[credentials'[y].session].revoked /\ credentials'[y] # None
        BY <1>1, <1>2, <2>4 DEF Of
      <3> QED
        BY <2>3, <3>1 DEF UsesAreSeen
    <2>5. CASE y # cmd[r].selector
      <3>1. /\ uses'[y] = uses[y]
            /\ credentials[y] # None =>
                 \/ sessions'[credentials[y].session].revoked
                 \/ sessions'[credentials[y].session]
                      = sessions[credentials[y].session]
        BY <1>2, <2>2, <2>5
      <3> QED
        BY <2>1, <2>3, <3>1 DEF UsesAreSeen
    <2> QED
      BY <2>3, <2>4, <2>5
  <1>8. ChainIsLinear'
    BY DEF IInv, ChainIsLinear, OneOfAGeneration, FollowsItsParent,
           SpentWhenReplaced, ChainOf, Issued
  <1> QED
    BY <1>4, <1>6, <1>7, <1>8 DEF IInv

\* A use is counted once more, or not at all.
LEMMA CountedUses ==
  ASSUME IInv, NEW r \in Requests, pc[r] = "execute", Counted(r)
  PROVE  /\ uses' \in [Selectors -> 0..2]
         /\ \A x \in Selectors \ {cmd[r].selector} : uses'[x] = uses[x]
         /\ uses[cmd[r].selector] = 0 => uses'[cmd[r].selector] \in 0..1
         /\ ~cmd[r].genuine \/ ~(cmd[r].now < sessions[Of(r).session].expires)
               => uses' = uses
  <1>1. cmd[r].selector \in Selectors
    BY CredentialOfRequest
  <1>2. found[r].session = sessions[Of(r).session]
    BY DecidesOnCurrentRows
  <1>3. CASE cmd[r].genuine /\ cmd[r].now < found[r].session.expires
    <2>1. uses' = [uses EXCEPT ![cmd[r].selector] = IF @ = 2 THEN 2 ELSE @ + 1]
      BY <1>3 DEF Counted
    <2> QED
      BY <1>1, <1>2, <1>3, <2>1 DEF IInv, TablesType
  <1>4. CASE ~(cmd[r].genuine /\ cmd[r].now < found[r].session.expires)
    <2>1. uses' = uses
      BY <1>4 DEF Counted
    <2> QED
      BY <1>1, <2>1 DEF IInv, TablesType
  <1> QED
    BY <1>3, <1>4
\* A credential that is consumed keeps everything else.
LEMMA Consumed ==
  ASSUME NEW c \in Credential
  PROVE  LET d == [c EXCEPT !.consumed = TRUE] IN
         /\ d \in Credential
         /\ d.session = c.session /\ d.generation = c.generation
         /\ d.parent = c.parent /\ d.consumed
  BY DEF Credential

\* The credential that was presented, which was the last of its chain, gets a
\* successor.
LEMMA ReplaceKeepsIInv ==
  ASSUME IInv, NEW r \in Requests, NEW x \in Selectors,
         pc[r] = "execute", Finish(r, "rotated"),
         ~Of(r).consumed, ~Refused(r),
         credentials[x] = None, Replace(r, x), UNCHANGED sessions,
         Counted(r)
  PROVE  IInv'
  <1> DEFINE old == cmd[r].selector
             spent == [Of(r) EXCEPT !.consumed = TRUE]
             next == [session |-> Of(r).session,
                      generation |-> Of(r).generation + 1,
                      parent |-> old, consumed |-> FALSE]
  <1>1. /\ old \in Selectors /\ Of(r) # None /\ Of(r) \in Credential
        /\ Of(r).session \in Sessions /\ sessions[Of(r).session] # None
        /\ found[r].credential = Of(r)
    BY CredentialOfRequest, DecidesOnCurrentRows
  <1>2. /\ old # x
        /\ spent \in Credential /\ next \in Credential
        /\ spent.session = Of(r).session /\ spent.generation = Of(r).generation
        /\ spent.parent = Of(r).parent /\ spent.consumed
    <2>1. old # x
      BY <1>1 DEF Of
    <2>2. next \in Credential
      BY <1>1 DEF Credential
    <2> QED
      BY <1>1, <2>1, <2>2, Consumed
  <1>3. spent # None /\ next # None
    BY <1>2, RefreshAssumption
  <1>4. credentials' = [credentials EXCEPT ![old].consumed = TRUE, ![x] = next]
    BY <1>1 DEF Replace
  <1>5. /\ next.session = Of(r).session /\ next.generation = Of(r).generation + 1
        /\ next.parent = old /\ ~next.consumed
    OBVIOUS
  <1>6. credentials' = [y \in Selectors |->
                          IF y = x THEN next
                          ELSE IF y = old THEN spent ELSE credentials[y]]
    BY <1>1, <1>2, <1>4 DEF IInv, TablesType, Of
  <1> HIDE DEF spent, next, old
  <1>7. TablesType'
    BY <1>2, <1>6, CountedUses DEF IInv, TablesType
  <1>8. OthersKeep(r)
    <2>1. \A y \in Selectors : credentials[y] # None => credentials'[y] # None
      BY <1>3, <1>6
    <2>2. ASSUME NEW q \in Requests \ {r}, pc[q] \in {"read", "execute"}
          PROVE  credentials'[cmd[q].selector] = Of(q)
      <3>1. cmd[q].selector \in Selectors /\ Of(q) # None
        BY <2>2, CredentialOfRequest
      <3>2. cmd[q].selector # old
        BY <2>2, SessionsApart DEF Of, old
      <3>3. cmd[q].selector # x
        BY <3>1 DEF Of
      <3> QED
        BY <1>6, <3>1, <3>2, <3>3 DEF Of
    <2> QED
      BY <2>1, <2>2 DEF OthersKeep
  <1>9. RequestsType' /\ RequestsFit'
    BY <1>8, FinishKeepsRequests DEF Outcomes
  <1>10. TablesFit'
    <2> SUFFICES ASSUME NEW y \in Selectors
                 PROVE  HasSession(y)' /\ UsesAreSeen(y)'
      BY DEF TablesFit
    <2>1. HasSession(y) /\ UsesAreSeen(y)
      BY DEF IInv, TablesFit
    <2>2. CASE y = x
      <3>1. ~(uses'[y] > 0)
        <4>1. y # cmd[r].selector /\ ~(uses[y] > 0)
          BY <1>2, <2>1, <2>2 DEF UsesAreSeen, old
        <4> QED
          BY <4>1, CountedUses
      <3> QED
        BY <1>1, <1>5, <1>6, <2>2, <3>1 DEF HasSession, UsesAreSeen
    <2>3. CASE y = old
      <3>1. /\ credentials'[y] = spent
            /\ credentials'[y].session = Of(r).session
            /\ credentials[y] = Of(r)
        BY <1>2, <1>6, <2>3 DEF Of, old
      <3>2. HasSession(y)'
        BY <1>1, <3>1 DEF HasSession
      <3>3. uses[y] = 0 \/ sessions[Of(r).session].revoked
        BY <1>1, <2>1, <3>1 DEF UsesAreSeen, IInv, TablesType
      <3>4. CASE uses[y] = 0
        <4>1. uses'[y] \in 0..1
          BY <2>3, <3>4, CountedUses DEF old
        <4>2. credentials'[y].consumed
          BY <1>2, <3>1
        <4> QED
          BY <1>3, <3>1, <3>2, <4>1, <4>2 DEF UsesAreSeen
      <3>5. CASE sessions[Of(r).session].revoked
        <4>1. sessions'[credentials'[y].session].revoked
          BY <3>1, <3>5
        <4> QED
          BY <1>3, <3>1, <3>2, <4>1 DEF UsesAreSeen
      <3> QED
        BY <3>3, <3>4, <3>5
    <2>4. CASE y # x /\ y # old
      <3>1. credentials'[y] = credentials[y] /\ uses'[y] = uses[y]
        BY <1>6, <2>4, CountedUses DEF old
      <3> QED
        BY <2>1, <3>1 DEF HasSession, UsesAreSeen
    <2> QED
      BY <2>2, <2>3, <2>4
  <1>11. ChainIsLinear'
    <2>1. Issued' = Issued \cup {x} /\ x \notin Issued /\ old \in Issued
      BY <1>1, <1>3, <1>6 DEF Issued, Of, old
    <2>2. \A y \in Issued :
            /\ credentials[y] \in Credential
            /\ credentials'[y].session = credentials[y].session
            /\ credentials'[y].generation = credentials[y].generation
            /\ credentials'[y].parent = credentials[y].parent
            /\ y # old => credentials'[y] = credentials[y]
      BY <1>2, <1>6, <2>1 DEF Issued, IInv, TablesType, Of, old
    <2>3. credentials'[x] = next
      BY <1>6
    <2>4. \A y \in Issued : FollowsItsParent(y) /\ SpentWhenReplaced(y)
      BY DEF IInv, ChainIsLinear
    <2>5. \A y \in Issued :
            /\ credentials[y].parent # old
            /\ ~ /\ credentials[y].session = Of(r).session
                 /\ credentials[y].generation = Of(r).generation + 1
      BY <1>1 DEF Refused, Issued, old
    <2>6. \A y \in Issued : credentials[y].parent # x
      BY <2>1, <2>2, <2>4, RefreshAssumption
         DEF FollowsItsParent, ChainOf, Credential
    <2>7. OneOfAGeneration'
      BY <1>5, <2>1, <2>2, <2>3, <2>5 DEF IInv, ChainIsLinear, OneOfAGeneration
    <2>8. \A t : ChainOf(t) \subseteq ChainOf(t)'
      BY <2>1, <2>2 DEF ChainOf
    <2>9. ASSUME NEW y \in Issued'
          PROVE  FollowsItsParent(y)' /\ SpentWhenReplaced(y)'
      <3>1. CASE y = x
        <4>1. PICK s : s = Of(r).session
          OBVIOUS
        <4>2. old \in ChainOf(s)'
          BY <2>1, <2>8, <4>1 DEF ChainOf, Of, old
        <4>3. credentials'[old].generation = Of(r).generation
          BY <2>1, <2>2 DEF Of, old
        <4>4. FollowsItsParent(y)'
          BY <1>1, <1>5, <2>3, <3>1, <4>1, <4>2, <4>3, RefreshAssumption
             DEF FollowsItsParent, Credential
        <4>5. ~ \E z \in Issued' : credentials'[z].parent = x
          BY <1>2, <1>5, <2>1, <2>2, <2>3, <2>6
        <4> QED
          BY <1>5, <2>3, <3>1, <4>4, <4>5 DEF SpentWhenReplaced
      <3>2. CASE y = old
        <4>1. y \in Issued
          BY <2>1, <3>2
        <4>2. FollowsItsParent(y)'
          BY <2>2, <2>4, <2>8, <4>1 DEF FollowsItsParent, ChainOf
        <4>3. credentials'[y].consumed
          BY <1>1, <1>2, <1>6, <3>2
        <4>4. \E z \in Issued' : credentials'[z].parent = y
          BY <1>5, <2>1, <2>3, <3>2
        <4> QED
          BY <4>2, <4>3, <4>4 DEF SpentWhenReplaced
      <3>3. CASE y # x /\ y # old
        <4>1. y \in Issued
          BY <2>1, <3>3
        <4>2. FollowsItsParent(y)'
          BY <2>2, <2>4, <2>8, <4>1 DEF FollowsItsParent, ChainOf
        <4>3. (\E z \in Issued' : credentials'[z].parent = y)
                <=> (\E z \in Issued : credentials[z].parent = y)
          BY <1>5, <2>1, <2>2, <2>3, <3>3
        <4> QED
          BY <2>2, <2>4, <3>3, <4>1, <4>2, <4>3 DEF SpentWhenReplaced
      <3> QED
        BY <3>1, <3>2, <3>3
    <2> QED
      BY <2>7, <2>9 DEF ChainIsLinear
  <1> QED
    BY <1>7, <1>9, <1>10, <1>11 DEF IInv

\* A refusal: a genuine credential in time was refused because its session is
\* over, which is what the history of uses asks for.
LEMMA RefusalKeepsIInv ==
  ASSUME IInv, NEW r \in Requests, pc[r] = "execute",
         ~(cmd[r].genuine /\ InForce(r)),
         Finish(r, "invalid"), UNCHANGED tables, Counted(r)
  PROVE  IInv'
  <1>1. /\ cmd[r].selector \in Selectors /\ Of(r) # None
        /\ found[r].session = sessions[Of(r).session]
    BY CredentialOfRequest, DecidesOnCurrentRows
  <1>2. OthersKeep(r)
    BY DEF OthersKeep, tables, Of
  <1>3. RequestsType' /\ RequestsFit'
    BY <1>2, FinishKeepsRequests DEF Outcomes
  <1>4. TablesType'
    BY CountedUses DEF IInv, TablesType, tables
  <1>5. \A y \in Selectors : HasSession(y)'
    BY DEF IInv, TablesFit, HasSession, tables
  <1>6. ASSUME NEW y \in Selectors
        PROVE  UsesAreSeen(y)'
    <2>1. UsesAreSeen(y)
      BY DEF IInv, TablesFit
    <2>2. CASE uses'[y] = uses[y]
      BY <2>1, <2>2 DEF UsesAreSeen, tables
    <2>3. CASE uses'[y] # uses[y]
      <3>1. y = cmd[r].selector
        BY <2>3, CountedUses
      <3>2. cmd[r].genuine /\ cmd[r].now < sessions[Of(r).session].expires
        BY <2>3, CountedUses
      <3>3. sessions[Of(r).session].revoked
        BY <1>1, <3>2 DEF InForce
      <3>4. sessions'[credentials'[y].session].revoked /\ credentials'[y] # None
        BY <1>1, <3>1, <3>3 DEF tables, Of
      <3> QED
        BY <3>4 DEF UsesAreSeen
    <2> QED
      BY <2>2, <2>3
  <1>7. ChainIsLinear'
    BY DEF IInv, ChainIsLinear, OneOfAGeneration, FollowsItsParent,
           SpentWhenReplaced, ChainOf, Issued, tables
  <1> QED
    BY <1>3, <1>4, <1>5, <1>6, <1>7 DEF IInv, TablesFit

\* The three outcomes of a refresh.
LEMMA RotateKeepsIInv ==
  ASSUME IInv, NEW r \in Requests, Rotate(r)
  PROVE  IInv'
  <1>1. pc[r] = "execute" /\ Counted(r)
    BY DEF Rotate, Executing
  <1>2. found[r].credential = Of(r)
    BY <1>1, DecidesOnCurrentRows
  <1>3. CASE ~(cmd[r].genuine /\ InForce(r))
    <2>1. Finish(r, "invalid") /\ UNCHANGED tables
      BY <1>3 DEF Rotate
    <2> QED
      BY <1>1, <1>3, <2>1, RefusalKeepsIInv
  <1>4. CASE cmd[r].genuine /\ InForce(r) /\ Of(r).consumed
    <2>1. /\ Revoke(Of(r).session)
          /\ Finish(r, "reused")
          /\ UNCHANGED credentials
      BY <1>2, <1>4 DEF Rotate, OnReuse, Reused
    <2>2. /\ uses' \in [Selectors -> 0..2]
          /\ \A x \in Selectors \ {cmd[r].selector} : uses'[x] = uses[x]
      BY <1>1, CountedUses
    <2>3. "reused" \in Outcomes
      BY DEF Outcomes
    <2> QED
      BY <1>1, <2>1, <2>2, <2>3, RevokeKeepsIInv
  <1>5. CASE cmd[r].genuine /\ InForce(r) /\ ~Of(r).consumed
    <2>1. /\ ~Refused(r)
          /\ \E x \in Selectors : credentials[x] = None /\ Replace(r, x)
          /\ Finish(r, "rotated")
          /\ UNCHANGED sessions
      BY <1>2, <1>5 DEF Rotate, Reused
    <2> QED
      BY <1>1, <1>5, <2>1, ReplaceKeepsIInv
  <1> QED
    BY <1>3, <1>4, <1>5

\* The outcomes of a sign-out.
LEMMA SignOutKeepsIInv ==
  ASSUME IInv, NEW r \in Requests, SignOut(r)
  PROVE  IInv'
  <1>1. /\ pc[r] = "execute" /\ UNCHANGED <<credentials, uses>>
        /\ found[r].credential = Of(r)
    BY DecidesOnCurrentRows DEF SignOut, Executing
  <1>2. PICK outcome \in Outcomes : Finish(r, outcome)
    BY DEF SignOut, Outcomes
  <1>3. CASE UNCHANGED sessions
    BY <1>1, <1>2, <1>3, FinishUnchanged DEF tables
  <1>4. CASE Revoke(Of(r).session)
    <2>1. uses' \in [Selectors -> 0..2] /\ \A x \in Selectors : uses'[x] = uses[x]
      BY <1>1 DEF IInv, TablesType
    <2> QED
      BY <1>1, <1>2, <1>4, <2>1, RevokeKeepsIInv
  <1> QED
    BY <1>1, <1>3, <1>4 DEF SignOut

-----------------------------------------------------------------------------
(***************************************************************************)
(* The theorems.                                                           *)
(***************************************************************************)

\* Every step keeps the invariant.
LEMMA StepKeepsIInv == IInv /\ [Next]_vars => IInv'
  <1> SUFFICES ASSUME IInv, [Next]_vars
               PROVE  IInv'
    OBVIOUS
  <1>1. CASE Tick
    BY <1>1, TickKeepsIInv
  <1>2. CASE SignIn
    BY <1>2, SignInKeepsIInv
  <1>3. ASSUME NEW r \in Requests, Receive(r)
        PROVE  IInv'
    BY <1>3, ReceiveKeepsIInv
  <1>4. ASSUME NEW r \in Requests, Locate(r)
        PROVE  IInv'
    BY <1>4, LocateKeepsIInv
  <1>5. ASSUME NEW r \in Requests, LockSession(r)
        PROVE  IInv'
    BY <1>5, LockSessionKeepsIInv
  <1>6. ASSUME NEW r \in Requests, ReadCurrent(r)
        PROVE  IInv'
    BY <1>6, ReadCurrentKeepsIInv
  <1>7. ASSUME NEW r \in Requests, Rotate(r)
        PROVE  IInv'
    BY <1>7, RotateKeepsIInv
  <1>8. ASSUME NEW r \in Requests, SignOut(r)
        PROVE  IInv'
    BY <1>8, SignOutKeepsIInv
  <1>9. ASSUME NEW r \in Requests, Abort(r)
        PROVE  IInv'
    BY <1>9, AbortKeepsIInv
  <1>10. CASE UNCHANGED vars
    <2>1. RequestsType' /\ RequestsFit'
      BY <1>10
         DEF vars, tables, IInv, RequestsType, RequestsFit, RequestFits, Of
    <2> QED
      BY <1>10, <2>1, TablesUnchanged DEF vars, IInv
  <1> QED
    BY <1>1, <1>2, <1>3, <1>4, <1>5, <1>6, <1>7, <1>8, <1>9, <1>10 DEF Next

\* In every reachable state the tables keep their types and their keys, every
\* credential that was used is accounted for, and every request that has read
\* has locked what it read (rotate and revoke).
THEOREM SessionInvariant == Spec => []IInv
  <1> QED
    BY InitIInv, StepKeepsIInv, PTL DEF Spec

\* The credentials of a session never fork, and it has at most one that is good
\* (the statements of rotate, and the unique keys of refresh_credentials).
THEOREM ChainStaysLinear == Spec => []ChainIsLinear
  <1>1. IInv => ChainIsLinear
    BY DEF IInv
  <1> QED
    BY <1>1, SessionInvariant, PTL

\* A refresh succeeds only with the credential that is good at the commit, in a
\* session that is not revoked at the commit, and when it was received before
\* the deadline; rotate compares that time and not the one of the commit.
THEOREM RefreshesAreEarned == Spec => SuccessorsAreEarned
  <1> DEFINE Good(r) == /\ cmd[r].genuine
                        /\ ~sessions[Of(r).session].revoked
                        /\ ~Of(r).consumed
                        /\ cmd[r].now < sessions[Of(r).session].expires
  <1>1. ASSUME IInv, Next, answer' # None, answer'.is = "rotated"
        PROVE  Good(answer'.to)
    <2>1. ASSUME NEW r \in Requests, NEW outcome, Finish(r, outcome),
                 outcome # "rotated"
          PROVE  FALSE
      BY <1>1, <2>1 DEF Finish
    <2>2. PICK r \in Requests : Rotate(r)
      BY <1>1, <2>1
         DEF Next, Tick, SignIn, Receive, Locate, LockSession, ReadCurrent,
             Continue, SignOut, Abort
    <2>3. /\ found[r].credential = Of(r)
          /\ found[r].session = sessions[Of(r).session]
      BY <1>1, <2>2, DecidesOnCurrentRows DEF Rotate, Executing
    <2>4. /\ cmd[r].genuine /\ InForce(r) /\ ~found[r].credential.consumed
          /\ Finish(r, "rotated")
      BY <2>1, <2>2 DEF Rotate, Reused
    <2>5. answer'.to = r
      BY <2>4 DEF Finish
    <2> QED
      BY <2>3, <2>4, <2>5 DEF InForce
  <1>2. IInv /\ [Next]_vars =>
          [answer' # None /\ answer'.is = "rotated" =>
             Good(answer'.to)]_<<answer, tables>>
    BY <1>1 DEF vars
  <1> QED
    BY <1>2, SessionInvariant, PTL DEF Spec, SuccessorsAreEarned

\* The deadline of a session never moves, a revocation is final, and a session is
\* only revoked by a sign-out with one of its credentials or by the reuse of one
\* (create, rotate and revoke).
THEOREM SessionsEndByTheirOwn == Spec => SessionsEndForAReason
  <1> DEFINE Ends(s) ==
               /\ sessions'[s].expires = sessions[s].expires
               /\ sessions[s].revoked => sessions'[s].revoked
               /\ sessions'[s].revoked # sessions[s].revoked =>
                    \E r \in Requests : EndsItsSession(r) /\ Of(r).session = s
  <1>1. ASSUME IInv, Next, NEW s \in Sessions, sessions[s] # None
        PROVE  Ends(s)
    <2>1. CASE sessions'[s] = sessions[s]
      BY <2>1
    <2>2. ASSUME NEW r \in Requests, EndsItsSession(r),
                 Revoke(found[r].credential.session)
          PROVE  Ends(s)
      <3>1. /\ Of(r).session \in Sessions
            /\ sessions' = [sessions EXCEPT ![Of(r).session].revoked = TRUE]
        BY <1>1, <2>2, CredentialOfRequest, DecidesOnCurrentRows
           DEF Revoke, EndsItsSession
      <3>2. CASE s # Of(r).session
        <4>1. sessions'[s] = sessions[s]
          BY <1>1, <3>1, <3>2 DEF IInv, TablesType
        <4> QED
          BY <4>1
      <3>3. CASE s = Of(r).session
        <4>1. sessions[s] \in Session
          BY <1>1 DEF IInv, TablesType
        <4>2. sessions'[s].expires = sessions[s].expires /\ sessions'[s].revoked
          BY <1>1, <3>1, <3>3, <4>1 DEF IInv, TablesType, Session
        <4> QED
          BY <2>2, <3>3, <4>2
      <3> QED
        BY <3>2, <3>3
    <2>3. ASSUME SignIn
          PROVE  sessions'[s] = sessions[s]
      BY <1>1, <2>3 DEF SignIn, IInv, TablesType
    <2>4. ASSUME NEW r \in Requests, NEW outcome, Finish(r, outcome),
                 Executing(r, "rotate") \/ Executing(r, "revoke")
          PROVE  pc[r] = "execute" /\ pc'[r] = "idle"
      BY <1>1, <2>4 DEF Finish, Executing, IInv, RequestsType
    <2>5. ASSUME NEW r \in Requests, Rotate(r)
          PROVE  Ends(s)
      <3>1. CASE UNCHANGED sessions
        BY <2>1, <3>1
      <3>2. CASE /\ cmd[r].genuine /\ InForce(r) /\ Reused(r)
                 /\ OnReuse(r)
                 /\ Finish(r, "reused")
        <4>1. pc[r] = "execute" /\ pc'[r] = "idle" /\ cmd[r].kind = "rotate"
          BY <2>4, <2>5, <3>2 DEF Rotate, Executing
        <4>2. Of(r).consumed /\ cmd[r].now < sessions[Of(r).session].expires
          BY <1>1, <3>2, <4>1, DecidesOnCurrentRows DEF Reused, InForce
        <4>3. EndsItsSession(r)
          BY <3>2, <4>1, <4>2 DEF EndsItsSession
        <4> QED
          BY <2>2, <3>2, <4>3 DEF OnReuse
      <3> QED
        BY <2>5, <3>1, <3>2 DEF Rotate, tables
    <2>6. ASSUME NEW r \in Requests, SignOut(r)
          PROVE  Ends(s)
      <3>1. CASE UNCHANGED sessions
        BY <2>1, <3>1
      <3>2. CASE /\ cmd[r].genuine /\ Revoke(found[r].credential.session)
                 /\ Finish(r, "signedOut")
        <4>1. EndsItsSession(r)
          BY <2>4, <2>6, <3>2 DEF SignOut, Executing, EndsItsSession
        <4> QED
          BY <2>2, <3>2, <4>1
      <3> QED
        BY <2>6, <3>1, <3>2 DEF SignOut
    <2>7. CASE Tick \/ \E r \in Requests : \/ Receive(r)
                                           \/ Locate(r)
                                           \/ LockSession(r)
                                           \/ ReadCurrent(r)
                                           \/ Abort(r)
      <3>1. UNCHANGED sessions
        BY <2>7 DEF Tick, Receive, Locate, LockSession, ReadCurrent, Continue,
                    Abort, tables
      <3> QED
        BY <2>1, <3>1
    <2> QED
      BY <1>1, <2>1, <2>3, <2>5, <2>6, <2>7 DEF Next
  <1>2. IInv /\ [Next]_vars =>
          [\A s \in Sessions : sessions[s] # None => Ends(s)]_sessions
    BY <1>1 DEF vars, tables
  <1> QED
    BY <1>2, SessionInvariant, PTL DEF Spec, SessionsEndForAReason

\* The second use of a credential ends its session, however the two refreshes
\* interleave (the reuse branch of rotate).
THEOREM ReuseEndsTheSession == Spec => []SecondUseRevokes
  <1>1. IInv => SecondUseRevokes
    <2> SUFFICES ASSUME IInv, NEW x \in Issued, uses[x] = 2
                 PROVE  sessions[credentials[x].session].revoked
      BY DEF SecondUseRevokes
    <2>1. UsesAreSeen(x)
      BY DEF IInv, TablesFit, Issued
    <2> QED
      BY <2>1 DEF UsesAreSeen
  <1> QED
    BY <1>1, SessionInvariant, PTL

=============================================================================
