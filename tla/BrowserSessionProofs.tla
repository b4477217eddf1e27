----------------------- MODULE BrowserSessionProofs -----------------------
(***************************************************************************)
(* What holds of BrowserSession for any number of pages, sessions, calls   *)
(* and losses.                                                             *)
(***************************************************************************)
EXTENDS BrowserSession, TLAPS

\* Types of the API's state and of what the tabs share.
SharedType ==
  /\ sessions \in [Sessions -> SessionRow \cup {None}]
  /\ cookie \in Credential \cup {None}
  /\ losses \in Nat

\* Types of the state of the tabs.
TabsType ==
  /\ ui \in [Tabs -> {"restoring", "signedOut", "signingIn", "signedIn"}]
  /\ identity \in [Tabs -> Sessions \cup {None}]
  /\ token \in [Tabs -> Credential \cup {None}]
  /\ refresh \in [Tabs -> RequestRow \cup {None}]
  /\ signIn \in [Tabs -> RequestRow \cup {None}]
  /\ signOut \in [Tabs -> RequestRow \cup {None}]
  /\ call \in [Tabs -> [Slots -> CallRow \cup {None}]]

\* The session of a credential is there; an answer has the credential it is for.
Known(c) == c # None => sessions[c.session] # None
Given(a) == a # None /\ a.is = "ok" => a.credential # None /\ Known(a.credential)

RowFits(r) == r # None => Known(r.cookie) /\ Given(r.answer)

RequestsFit(t) ==
  /\ RowFits(refresh[t])
  /\ RowFits(signIn[t])
  /\ signOut[t] # None => Known(signOut[t].cookie)

\* A call was executed only if its answer says so or is lost, never before a
\* refresh; without a token it is refused.
CallFits(r) ==
  r # None =>
    /\ r.executed \in {0, 1}
    /\ r.answer = None => r.executed = 0
    /\ r.answer # None /\ r.answer.is = "unauthorized" => r.executed = 0
    /\ r.step = "waiting" => r.answer = None
    /\ r.step # "waiting" /\ r.token = None =>
         r.answer # None /\ r.answer.is = "unauthorized"

CallsFit(t) == \A k \in Slots : CallFits(call[t][k])

\* Only the workspace of somebody who is signed in has an identity.
ScreenFits(t) == identity[t] # None <=> ui[t] = "signedIn"

\* What holds of any number of tabs.
TabsInv ==
  /\ SharedType
  /\ TabsType
  /\ Known(cookie)
  /\ \A t \in Tabs : RequestsFit(t)
  /\ \A t \in Tabs : CallsFit(t)
  /\ \A t \in Tabs : ScreenFits(t)

-----------------------------------------------------------------------------
(***************************************************************************)
(* One tab: its cookie.                                                    *)
(***************************************************************************)

\* The API does not take it for a reuse.
Fresh(c) == InForce(c) => Latest(c)

NotOf(c, s) == c # None => c.session # s

\* The cookie of the browser is good to be sent, except while the refresh that
\* replaces it is under way.
CookieIsFresh(t) ==
  /\ refresh[t] = None => Fresh(cookie)
  /\ Open(refresh[t]) => Fresh(refresh[t].cookie)

\* The answer of a refresh continues the session it was sent with.
RefreshIsFresh(t) ==
  Done(refresh[t]) =>
    /\ refresh[t].answer # NetworkError
    /\ refresh[t].answer.is = "ok" =>
         /\ Fresh(refresh[t].answer.credential)
         /\ refresh[t].cookie # None
         /\ refresh[t].answer.credential.session = refresh[t].cookie.session

\* Nobody has yet used the session a sign-in is about to bring.
SignInIsFresh(t) ==
  Done(signIn[t]) /\ signIn[t].answer.is = "ok" =>
    LET c == signIn[t].answer.credential IN
    /\ Fresh(c)
    /\ NotOf(cookie, c.session)
    /\ refresh[t] # None => NotOf(refresh[t].cookie, c.session)

TabIsFresh(t) == CookieIsFresh(t) /\ RefreshIsFresh(t) /\ SignInIsFresh(t)

NothingReused ==
  OneTab /\ losses = 0 => reused = {} /\ \A t \in Tabs : TabIsFresh(t)

-----------------------------------------------------------------------------
(***************************************************************************)
(* One tab: its user.                                                      *)
(***************************************************************************)

Belongs(c, s) == c # None => c.session = s

\* All a tab has or has asked for belongs to one session.
OneUser(t, s) ==
  /\ identity[t] \in {s, None}
  /\ Belongs(cookie, s)
  /\ Belongs(token[t], s)
  /\ refresh[t] # None =>
       /\ Belongs(refresh[t].cookie, s)
       /\ refresh[t].answer # None /\ refresh[t].answer.is = "ok"
            => Belongs(refresh[t].answer.credential, s)
  /\ \A k \in Slots : call[t][k] # None => Belongs(call[t][k].token, s)

\* While it signs in, nothing else is under way.
SignsInAlone(t) ==
  signIn[t] # None =>
    /\ ui[t] = "signingIn"
    /\ refresh[t] = None
    /\ \A k \in Slots : call[t][k] = None

\* The identity is asked for before the pages are there, and a refresh next to
\* it is its own.
IdentityFirst(t) ==
  /\ call[t][Identity] # None => ui[t] \in {"restoring", "signingIn"}
  /\ refresh[t] # None /\ call[t][Identity] # None
       => call[t][Identity].step = "waiting"
  /\ \A k \in Calls : call[t][k] # None => ui[t] \in {"signedIn", "signedOut"}

\* Somebody is shown, or is about to be.
Showing(t) ==
  ui[t] \in {"restoring", "signedIn"} \/ (ui[t] = "signingIn" /\ signIn[t] = None)

HasOneUser(t) == Showing(t) => \E s \in Sessions \cup {None} : OneUser(t, s)

TabIsOneUsers(t) == SignsInAlone(t) /\ IdentityFirst(t) /\ HasOneUser(t)

UserIsShown == OneTab => \A t \in Tabs \ crossed : TabIsOneUsers(t)

IInv == TabsInv /\ NothingReused /\ UserIsShown

-----------------------------------------------------------------------------
(***************************************************************************)
(* Rows.                                                                   *)
(***************************************************************************)
USE DEF api, work, screen, tab, vars

\* What the API and the network answer.
LEMMA AnswersTyped ==
  /\ {Refusal, ServerError, NetworkError} \subseteq Answers
  /\ \A c \in Credential \cup {None} : Ok(c) \in Answers
  /\ None \notin Answers
  /\ Refusal.is = "unauthorized" /\ ServerError.is = "error" /\ NetworkError.is = "lost"
  /\ \A c \in Credential \cup {None} : Ok(c).is = "ok" /\ Ok(c).credential = c
  BY BrowserAssumption DEF Answers, Refusal, ServerError, NetworkError, Ok

\* A credential with a success is in its answer.
LEMMA AnswerOk ==
  ASSUME NEW a \in Answers, a.is = "ok"
  PROVE  a.credential \in Credential \cup {None}
  BY DEF Answers

\* A request gets its answer.
LEMMA Answering ==
  ASSUME NEW f \in [Tabs -> RequestRow \cup {None}], NEW t \in Tabs,
         f[t] # None, NEW a \in Answers,
         NEW g, g = [f EXCEPT ![t].answer = a]
  PROVE  /\ g \in [Tabs -> RequestRow \cup {None}]
         /\ g[t] # None
         /\ g[t].cookie = f[t].cookie
         /\ g[t].answer = a
         /\ \A u \in Tabs : u # t => g[u] = f[u]
<1> DEFINE r == [f[t] EXCEPT !.answer = a]
<1>1. f[t] \in RequestRow
  OBVIOUS
<1>2. r \in RequestRow /\ r.cookie = f[t].cookie /\ r.answer = a
  BY <1>1 DEF RequestRow
<1>3. r # None
  BY <1>2, BrowserAssumption
<1>4. g = [f EXCEPT ![t] = r]
  OBVIOUS
<1> HIDE DEF r
<1> QED BY <1>2, <1>3, <1>4

\* A request is sent with the cookie of that moment.
LEMMA RequestTyped ==
  ASSUME NEW c \in Credential \cup {None}
  PROVE  /\ Request(c) \in RequestRow
         /\ Request(c) # None
         /\ Request(c).cookie = c
         /\ Request(c).answer = None
<1>1. Request(c) \in RequestRow /\ Request(c).cookie = c /\ Request(c).answer = None
  BY DEF Request, RequestRow
<1> QED BY <1>1, BrowserAssumption

\* A call in its slot.
LEMMA CallSet ==
  ASSUME NEW t \in Tabs, NEW k \in Slots, NEW r \in CallRow \cup {None},
         call \in [Tabs -> [Slots -> CallRow \cup {None}]],
         NEW g, g = [call EXCEPT ![t][k] = r]
  PROVE  /\ g \in [Tabs -> [Slots -> CallRow \cup {None}]]
         /\ g[t][k] = r
         /\ \A u \in Tabs, j \in Slots : u # t \/ j # k => g[u][j] = call[u][j]
  OBVIOUS

\* A call is sent, or refused where it is.
LEMMA SendingTyped ==
  ASSUME NEW step \in {"first", "second"}, NEW with \in Credential \cup {None}
  PROVE  /\ Sending(step, with, 0) \in CallRow
         /\ Sending(step, with, 0) # None
         /\ Sending(step, with, 0).step = step
         /\ Sending(step, with, 0).token = with
         /\ CallFits(Sending(step, with, 0))
<1> DEFINE r == Sending(step, with, 0)
<1>1. /\ r \in CallRow /\ r.step = step /\ r.token = with /\ r.executed = 0
      /\ r.answer = IF with = None THEN Refusal ELSE None
  BY AnswersTyped DEF Sending, CallRow
<1>2. r # None
  BY <1>1, BrowserAssumption
<1> HIDE DEF r
<1>3. CallFits(r)
  BY <1>1, AnswersTyped DEF CallFits
<1> QED BY <1>1, <1>2, <1>3 DEF r

\* A call is answered, by the guard or by the handler, or it is lost.
LEMMA CallAnswered ==
  ASSUME NEW r \in CallRow, r.step # "waiting", CallFits(r),
         NEW a \in Answers,
         a.is = "unauthorized" => r.executed = 0,
         r.token = None => a.is = "unauthorized",
         NEW g, g = [r EXCEPT !.answer = a]
  PROVE  /\ g \in CallRow /\ g # None /\ CallFits(g)
         /\ g.step = r.step /\ g.token = r.token
<1>1. /\ g \in CallRow /\ g.step = r.step /\ g.token = r.token
      /\ g.answer = a /\ g.executed = r.executed
  BY DEF CallRow
<1>2. g # None
  BY <1>1, BrowserAssumption
<1>3. r # None
  BY BrowserAssumption
<1>4. CallFits(g)
  BY <1>1, <1>3, AnswersTyped DEF CallFits
<1> QED BY <1>1, <1>2, <1>4

\* The call r once its transaction took effect, with the answer a.
Executed(r, a) == [r EXCEPT !.answer = a, !.executed = @ + 1]

\* The handler executes a call that has a token.
LEMMA CallExecuted ==
  ASSUME NEW r \in CallRow, r.step # "waiting", r.answer = None, CallFits(r),
         NEW a \in Answers, a.is # "unauthorized"
  PROVE  /\ Executed(r, a) \in CallRow /\ Executed(r, a) # None
         /\ CallFits(Executed(r, a))
         /\ Executed(r, a).step = r.step /\ Executed(r, a).token = r.token
<1> DEFINE g == Executed(r, a)
<1>0. g = [r EXCEPT !.answer = a, !.executed = @ + 1]
  BY DEF Executed
<1> HIDE DEF g
<1>1. r # None /\ r.executed = 0 /\ r.token # None
  BY BrowserAssumption DEF CallFits
<1>2. a # None
  BY AnswersTyped
<1>3. r.executed + 1 = 1
  BY <1>1
<1>4. g = [r EXCEPT !.answer = a, !.executed = 1]
  BY <1>0, <1>3
<1> DEFINE h == [r EXCEPT !.answer = a]
<1>8. /\ h \in CallRow /\ h.step = r.step /\ h.token = r.token
      /\ h.answer = a
  BY <1>2 DEF CallRow
<1>9. g = [h EXCEPT !.executed = 1]
  BY <1>4
<1> HIDE DEF h
<1>10. /\ g.step = r.step /\ g.token = r.token
       /\ g.answer = a /\ g.executed = 1
  BY <1>8, <1>9 DEF CallRow
<1>11. \A e \in Nat : [h EXCEPT !.executed = e] \in CallRow
  BY <1>8 DEF CallRow
<1>5. g \in CallRow
  BY <1>9, <1>11
<1>6. g # None
  BY <1>5, BrowserAssumption
<1>7. CallFits(g)
  BY <1>1, <1>2, <1>10 DEF CallFits
<1> QED BY <1>5, <1>6, <1>7, <1>10 DEF g

\* What the guard and the handler make of a call.
LEMMA CallHandled ==
  ASSUME NEW r \in CallRow, r.step # "waiting", r.answer = None, CallFits(r),
         NEW g \in Handled(r)
  PROVE  /\ g \in CallRow /\ g # None /\ CallFits(g)
         /\ g.step = r.step /\ g.token = r.token
<1>1. r.executed = 0 /\ r.token # None
  BY BrowserAssumption DEF CallFits
<1>2. CASE \E a \in Answers : g = [r EXCEPT !.answer = a]
  <2>1. PICK a \in Answers : g = [r EXCEPT !.answer = a]
    BY <1>2
  <2> QED BY <1>1, <2>1, CallAnswered
<1>3. CASE \E a \in Answers : a.is # "unauthorized" /\ g = Executed(r, a)
  <2>1. PICK a \in Answers : a.is # "unauthorized" /\ g = Executed(r, a)
    BY <1>3
  <2> QED BY <2>1, CallExecuted
<1>4. \/ g = [r EXCEPT !.answer = Refusal]
      \/ g = Executed(r, Ok(None))
      \/ g = Executed(r, ServerError)
      \/ g = [r EXCEPT !.answer = ServerError]
  BY DEF Handled, Executed
<1>5. /\ {Refusal, ServerError, Ok(None)} \subseteq Answers
      /\ Ok(None).is # "unauthorized" /\ ServerError.is # "unauthorized"
  BY AnswersTyped DEF Answers, ServerError, Ok
<1> HIDE DEF Refusal, ServerError, Ok, Executed
<1> QED BY <1>2, <1>3, <1>4, <1>5

\* The first try was refused, so nothing was executed, and the call waits.
LEMMA CallWaits ==
  ASSUME NEW r \in CallRow, CallFits(r), r.answer # None, r.answer.is = "unauthorized",
         NEW g, g = [r EXCEPT !.step = "waiting", !.answer = None]
  PROVE  g \in CallRow /\ g # None /\ CallFits(g)
         /\ g.step = "waiting" /\ g.token = r.token
<1>0. r # None
  BY BrowserAssumption
<1>1. /\ g \in CallRow /\ g.step = "waiting" /\ g.token = r.token
      /\ g.answer = None /\ g.executed = 0
  BY <1>0 DEF CallRow, CallFits
<1>2. g # None
  BY <1>1, BrowserAssumption
<1>3. CallFits(g)
  BY <1>1, AnswersTyped DEF CallFits
<1> QED BY <1>1, <1>2, <1>3

-----------------------------------------------------------------------------
(***************************************************************************)
(* Any number of tabs.                                                     *)
(***************************************************************************)

\* A session at the API never goes.
SessionsStay == \A s \in Sessions : sessions[s] # None => sessions'[s] # None

\* What is known stays known.
LEMMA KnownStays ==
  ASSUME NEW c \in Credential \cup {None}, Known(c), SessionsStay
  PROVE  c # None => sessions'[c.session] # None
  BY DEF Known, SessionsStay, Credential

\* What an answer was given for stays known.
LEMMA GivenStays ==
  ASSUME NEW a \in Answers \cup {None}, Given(a), SessionsStay
  PROVE  a # None /\ a.is = "ok" =>
           a.credential # None /\ sessions'[a.credential.session] # None
  BY KnownStays, AnswerOk DEF Given, Known

\* The rows a tab has asked for, in the types of their parts.
LEMMA RowsTyped ==
  ASSUME TabsType, NEW t \in Tabs
  PROVE  /\ refresh[t] # None => /\ refresh[t] \in RequestRow
                                 /\ refresh[t].cookie \in Credential \cup {None}
                                 /\ refresh[t].answer \in Answers \cup {None}
         /\ signIn[t] # None => /\ signIn[t] \in RequestRow
                                /\ signIn[t].cookie \in Credential \cup {None}
                                /\ signIn[t].answer \in Answers \cup {None}
         /\ signOut[t] # None => /\ signOut[t] \in RequestRow
                                 /\ signOut[t].cookie \in Credential \cup {None}
                                 /\ signOut[t].answer \in Answers \cup {None}
         /\ \A k \in Slots : call[t][k] # None =>
              /\ call[t][k] \in CallRow
              /\ call[t][k].token \in Credential \cup {None}
              /\ call[t][k].answer \in Answers \cup {None}
<1>1. /\ refresh[t] # None => refresh[t] \in RequestRow
      /\ signIn[t] # None => signIn[t] \in RequestRow
      /\ signOut[t] # None => signOut[t] \in RequestRow
      /\ \A k \in Slots : call[t][k] # None => call[t][k] \in CallRow
  BY DEF TabsType
<1> QED BY <1>1 DEF RequestRow, CallRow

\* Refreshing is for a session at the API.
LEMMA ServedSession ==
  ASSUME SharedType, NEW c \in Credential \cup {None}, Known(c), InForce(c)
  PROVE  /\ c \in Credential /\ c.session \in Sessions /\ c.generation \in Generations
         /\ sessions[c.session] \in SessionRow /\ sessions[c.session] # None
  BY DEF SharedType, Known, InForce, Credential

\* A row of the API changes and is still a row.
LEMMA RowKept ==
  ASSUME SharedType, NEW s \in Sessions, sessions[s] # None,
         NEW x \in SessionRow, sessions' = [sessions EXCEPT ![s] = x]
  PROVE  sessions' \in [Sessions -> SessionRow \cup {None}] /\ SessionsStay
  BY BrowserAssumption DEF SharedType, SessionsStay

\* A request in progress still fits.
LEMMA RowStays ==
  ASSUME NEW r \in RequestRow \cup {None}, RowFits(r), SessionsStay
  PROVE  r # None =>
           /\ r.cookie # None => sessions'[r.cookie.session] # None
           /\ r.answer # None /\ r.answer.is = "ok" =>
                /\ r.answer.credential # None
                /\ sessions'[r.answer.credential.session] # None
<1>1. r # None => /\ r.cookie \in Credential \cup {None}
                  /\ r.answer \in Answers \cup {None}
  BY DEF RequestRow
<1>2. r # None => Known(r.cookie) /\ Given(r.answer)
  BY DEF RowFits
<1> QED BY <1>1, <1>2, KnownStays, GivenStays

\* While the API does its part the tabs keep what they have.
LEMMA RequestsStay ==
  ASSUME TabsType, NEW u \in Tabs, RequestsFit(u), SessionsStay,
         refresh'[u] = refresh[u], signIn'[u] = signIn[u], signOut'[u] = signOut[u]
  PROVE  RequestsFit(u)'
<1>1. /\ refresh[u] \in RequestRow \cup {None}
      /\ signIn[u] \in RequestRow \cup {None}
      /\ signOut[u] # None => signOut[u].cookie \in Credential \cup {None}
  BY RowsTyped DEF TabsType
<1>2. /\ RowFits(refresh[u]) /\ RowFits(signIn[u])
      /\ signOut[u] # None => Known(signOut[u].cookie)
  BY DEF RequestsFit
<1>3. RowFits(refresh[u])' /\ RowFits(signIn[u])'
  BY <1>1, <1>2, RowStays DEF RowFits, Known, Given
<1>4. (signOut[u] # None => Known(signOut[u].cookie))'
  BY <1>1, <1>2, KnownStays DEF Known
<1> QED BY <1>3, <1>4 DEF RequestsFit

\* The API answers a refresh.
LEMMA ServeRefreshTabs ==
  ASSUME TabsInv, NEW t \in Tabs, ServeRefresh(t)
  PROVE  TabsInv'
<1> DEFINE c == refresh[t].cookie
<1>1. /\ SharedType /\ TabsType /\ Known(cookie)
      /\ \A u \in Tabs : RequestsFit(u)
  BY DEF TabsInv
<1>2. /\ refresh[t] # None /\ refresh \in [Tabs -> RequestRow \cup {None}]
      /\ c \in Credential \cup {None} /\ Known(c)
  BY <1>1, RowsTyped DEF ServeRefresh, Open, TabsType, RequestsFit, RowFits
<1>3. PICK a \in Answers :
        /\ refresh' = [refresh EXCEPT ![t].answer = a]
        /\ sessions' \in [Sessions -> SessionRow \cup {None}] /\ SessionsStay
        /\ a.is = "ok" =>
             a.credential # None /\ sessions'[a.credential.session] # None
  <2> DEFINE Answer(a) == refresh' = [refresh EXCEPT ![t].answer = a]
  <2>0. sessions' = sessions =>
          sessions' \in [Sessions -> SessionRow \cup {None}] /\ SessionsStay
    BY <1>1 DEF SharedType, SessionsStay
  <2>1. CASE Answer(ServerError) /\ UNCHANGED <<sessions, reused>>
    BY <2>0, <2>1, AnswersTyped
  <2>2. CASE ~InForce(c) /\ Answer(Refusal) /\ UNCHANGED <<sessions, reused>>
    BY <2>0, <2>2, AnswersTyped
  <2>3. CASE /\ InForce(c) /\ Latest(c) /\ c.generation < MaxGeneration
             /\ Answer(Ok(Successor(c)))
             /\ sessions' = [sessions EXCEPT ![c.session].generation = @ + 1]
    <3>1. /\ c \in Credential /\ c.session \in Sessions /\ c.generation \in Generations
          /\ sessions[c.session] \in SessionRow /\ sessions[c.session] # None
      BY <1>1, <1>2, <2>3, ServedSession
    <3>2. sessions[c.session].generation = c.generation
      BY <2>3, <3>1, BrowserAssumption DEF Latest
    <3> DEFINE x == [sessions[c.session] EXCEPT !.generation = @ + 1]
    <3>3. c.generation + 1 \in Generations
      BY <2>3, <3>1, BrowserAssumption DEF Generations
    <3>4. x \in SessionRow
      BY <3>1, <3>2, <3>3 DEF SessionRow
    <3>5. sessions' = [sessions EXCEPT ![c.session] = x]
      BY <2>3
    <3>6. Successor(c) \in Credential /\ Successor(c).session = c.session
      BY <3>1, <3>3 DEF Successor, Credential
    <3> HIDE DEF x
    <3>7. sessions' \in [Sessions -> SessionRow \cup {None}] /\ SessionsStay
      BY <1>1, <3>1, <3>4, <3>5, RowKept
    <3>8. Successor(c) # None /\ sessions'[c.session] # None
      BY <3>1, <3>6, <3>7, BrowserAssumption DEF SessionsStay
    <3> DEFINE a == Ok(Successor(c))
    <3>9. a \in Answers /\ a.credential = Successor(c)
      BY <3>6, AnswersTyped
    <3>10. refresh' = [refresh EXCEPT ![t].answer = a]
      BY <2>3
    <3> HIDE DEF a
    <3>11. a.is = "ok" => a.credential # None /\ sessions'[a.credential.session] # None
      BY <3>6, <3>8, <3>9
    <3> QED BY <3>7, <3>9, <3>10, <3>11
  <2>4. CASE /\ InForce(c) /\ ~Latest(c)
             /\ Answer(Refusal)
             /\ sessions' = [sessions EXCEPT ![c.session].revoked = TRUE]
    <3>1. /\ c.session \in Sessions
          /\ sessions[c.session] \in SessionRow /\ sessions[c.session] # None
      BY <1>1, <1>2, <2>4, ServedSession
    <3> DEFINE x == [sessions[c.session] EXCEPT !.revoked = TRUE]
    <3>2. x \in SessionRow
      BY <3>1 DEF SessionRow
    <3>3. sessions' = [sessions EXCEPT ![c.session] = x]
      BY <2>4
    <3> HIDE DEF x
    <3>4. sessions' \in [Sessions -> SessionRow \cup {None}] /\ SessionsStay
      BY <1>1, <3>1, <3>2, <3>3, RowKept
    <3> QED BY <2>4, <3>4, AnswersTyped
  <2> QED BY <2>1, <2>2, <2>3, <2>4 DEF ServeRefresh
<1>4. /\ refresh' \in [Tabs -> RequestRow \cup {None}]
      /\ refresh'[t] # None /\ refresh'[t].cookie = c /\ refresh'[t].answer = a
      /\ \A u \in Tabs : u # t => refresh'[u] = refresh[u]
  BY <1>2, <1>3, Answering
<1>5. UNCHANGED <<cookie, ui, identity, token, signIn, signOut, call, losses>>
  BY DEF ServeRefresh
<1>6. SharedType' /\ TabsType'
  BY <1>1, <1>3, <1>4, <1>5 DEF SharedType, TabsType
<1>7. Known(cookie)'
  BY <1>1, <1>3, <1>5, KnownStays DEF SharedType, Known
<1>8. \A u \in Tabs : RequestsFit(u)'
  <2> TAKE u \in Tabs
  <2>1. CASE u # t
    BY <1>1, <1>3, <1>4, <1>5, <2>1, RequestsStay
  <2>2. CASE u = t
    <3>1. RowFits(refresh[t])'
      BY <1>2, <1>3, <1>4, KnownStays DEF RowFits, Known, Given
    <3>2. /\ signIn[t] \in RequestRow \cup {None}
          /\ signOut[t] # None => signOut[t].cookie \in Credential \cup {None}
      BY <1>1, RowsTyped DEF TabsType
    <3>3. RowFits(signIn[t])'
      BY <1>1, <1>3, <1>5, <3>2, RowStays DEF RequestsFit, RowFits, Known, Given
    <3>4. (signOut[t] # None => Known(signOut[t].cookie))'
      BY <1>1, <1>3, <1>5, <3>2, KnownStays DEF RequestsFit, Known
    <3> QED BY <2>2, <3>1, <3>3, <3>4 DEF RequestsFit
  <2> QED BY <2>1, <2>2
<1>9. \A u \in Tabs : CallsFit(u)' /\ ScreenFits(u)'
  BY <1>5 DEF TabsInv, CallsFit, CallFits, ScreenFits
<1> QED BY <1>6, <1>7, <1>8, <1>9 DEF TabsInv

\* The API answers a sign-in.
LEMMA ServeSignInTabs ==
  ASSUME TabsInv, NEW t \in Tabs, ServeSignIn(t)
  PROVE  TabsInv'
<1>1. /\ SharedType /\ TabsType /\ Known(cookie)
      /\ \A u \in Tabs : RequestsFit(u)
  BY DEF TabsInv
<1>2. /\ signIn[t] # None /\ signIn \in [Tabs -> RequestRow \cup {None}]
      /\ signIn[t].cookie \in Credential \cup {None} /\ Known(signIn[t].cookie)
  BY <1>1, RowsTyped DEF ServeSignIn, Open, TabsType, RequestsFit, RowFits
<1>3. PICK a \in Answers :
        /\ signIn' = [signIn EXCEPT ![t].answer = a]
        /\ sessions' \in [Sessions -> SessionRow \cup {None}] /\ SessionsStay
        /\ a.is = "ok" =>
             a.credential # None /\ sessions'[a.credential.session] # None
  <2>1. ASSUME NEW s \in Sessions, sessions[s] = None,
               sessions' = [sessions EXCEPT ![s] = NewSession],
               signIn' = [signIn EXCEPT ![t].answer = Ok(First(s))]
        PROVE  \E a \in Answers :
                 /\ signIn' = [signIn EXCEPT ![t].answer = a]
                 /\ sessions' \in [Sessions -> SessionRow \cup {None}] /\ SessionsStay
                 /\ a.is = "ok" =>
                      a.credential # None /\ sessions'[a.credential.session] # None
    <3>1. First(s) \in Credential /\ First(s).session = s
      BY BrowserAssumption DEF First, Credential, Generations
    <3>2. NewSession \in SessionRow /\ First(s) # None
      BY <3>1, BrowserAssumption DEF NewSession, SessionRow, Generations
    <3>7. NewSession # None
      BY <3>2, BrowserAssumption
    <3>3. /\ sessions' \in [Sessions -> SessionRow \cup {None}] /\ SessionsStay
          /\ sessions'[s] # None
      BY <1>1, <2>1, <3>2, <3>7 DEF SharedType, SessionsStay
    <3> DEFINE a == Ok(First(s))
    <3>4. a \in Answers /\ a.credential = First(s)
      BY <3>1, AnswersTyped
    <3>5. signIn' = [signIn EXCEPT ![t].answer = a]
      BY <2>1
    <3> HIDE DEF a
    <3>6. a.is = "ok" => a.credential # None /\ sessions'[a.credential.session] # None
      BY <3>1, <3>2, <3>3, <3>4
    <3> QED BY <3>3, <3>4, <3>5, <3>6
  <2>2. CASE signIn' = [signIn EXCEPT ![t].answer = Refusal] /\ UNCHANGED sessions
    BY <1>1, <2>2, AnswersTyped DEF SharedType, SessionsStay
  <2> QED BY <2>1, <2>2 DEF ServeSignIn
<1>4. /\ signIn' \in [Tabs -> RequestRow \cup {None}]
      /\ signIn'[t] # None /\ signIn'[t].cookie = signIn[t].cookie
      /\ signIn'[t].answer = a
      /\ \A u \in Tabs : u # t => signIn'[u] = signIn[u]
  BY <1>2, <1>3, Answering
<1>5. UNCHANGED <<cookie, ui, identity, token, refresh, signOut, call, losses>>
  BY DEF ServeSignIn
<1>6. SharedType' /\ TabsType'
  BY <1>1, <1>3, <1>4, <1>5 DEF SharedType, TabsType
<1>7. Known(cookie)'
  BY <1>1, <1>3, <1>5, KnownStays DEF SharedType, Known
<1>8. \A u \in Tabs : RequestsFit(u)'
  <2> TAKE u \in Tabs
  <2>1. CASE u # t
    BY <1>1, <1>3, <1>4, <1>5, <2>1, RequestsStay
  <2>2. CASE u = t
    <3>1. RowFits(signIn[t])'
      BY <1>2, <1>3, <1>4, KnownStays DEF RowFits, Known, Given
    <3>2. /\ refresh[t] \in RequestRow \cup {None}
          /\ signOut[t] # None => signOut[t].cookie \in Credential \cup {None}
      BY <1>1, RowsTyped DEF TabsType
    <3>3. RowFits(refresh[t])'
      BY <1>1, <1>3, <1>5, <3>2, RowStays DEF RequestsFit, RowFits, Known, Given
    <3>4. (signOut[t] # None => Known(signOut[t].cookie))'
      BY <1>1, <1>3, <1>5, <3>2, KnownStays DEF RequestsFit, Known
    <3> QED BY <2>2, <3>1, <3>3, <3>4 DEF RequestsFit
  <2> QED BY <2>1, <2>2
<1>9. \A u \in Tabs : CallsFit(u)' /\ ScreenFits(u)'
  BY <1>5 DEF TabsInv, CallsFit, CallFits, ScreenFits
<1> QED BY <1>6, <1>7, <1>8, <1>9 DEF TabsInv

\* The API answers a sign-out.
LEMMA ServeSignOutTabs ==
  ASSUME TabsInv, NEW t \in Tabs, ServeSignOut(t)
  PROVE  TabsInv'
<1> DEFINE c == signOut[t].cookie
<1>1. /\ SharedType /\ TabsType /\ Known(cookie)
      /\ \A u \in Tabs : RequestsFit(u)
  BY DEF TabsInv
<1>2. /\ signOut[t] # None /\ signOut \in [Tabs -> RequestRow \cup {None}]
      /\ c \in Credential \cup {None} /\ Known(c)
  BY <1>1, RowsTyped DEF ServeSignOut, Open, TabsType, RequestsFit
<1>3. sessions' \in [Sessions -> SessionRow \cup {None}] /\ SessionsStay
  <2> DEFINE x == [sessions[c.session] EXCEPT !.revoked = TRUE]
  <2>1. CASE InForce(c) /\ sessions' = [sessions EXCEPT ![c.session] = x]
    <3>1. /\ c.session \in Sessions
          /\ sessions[c.session] \in SessionRow /\ sessions[c.session] # None
      BY <1>1, <1>2, <2>1, ServedSession
    <3>2. x \in SessionRow
      BY <3>1 DEF SessionRow
    <3>3. sessions' = [sessions EXCEPT ![c.session] = x]
      BY <2>1
    <3> HIDE DEF x
    <3> QED BY <1>1, <3>1, <3>2, <3>3, RowKept
  <2>2. CASE UNCHANGED sessions
    BY <1>1, <2>2 DEF SharedType, SessionsStay
  <2> QED BY <2>1, <2>2 DEF ServeSignOut
<1>4. /\ signOut' \in [Tabs -> RequestRow \cup {None}]
      /\ signOut'[t] # None /\ signOut'[t].cookie = c
      /\ \A u \in Tabs : u # t => signOut'[u] = signOut[u]
  <2>1. PICK a \in Answers : signOut' = [signOut EXCEPT ![t].answer = a]
    BY AnswersTyped DEF ServeSignOut
  <2> QED BY <1>2, <2>1, Answering
<1>5. UNCHANGED <<cookie, ui, identity, token, refresh, signIn, call, losses>>
  BY DEF ServeSignOut
<1>6. SharedType' /\ TabsType'
  BY <1>1, <1>3, <1>4, <1>5 DEF SharedType, TabsType
<1>7. Known(cookie)'
  BY <1>1, <1>3, <1>5, KnownStays DEF SharedType, Known
<1>8. \A u \in Tabs : RequestsFit(u)'
  <2> TAKE u \in Tabs
  <2>1. CASE u # t
    BY <1>1, <1>3, <1>4, <1>5, <2>1, RequestsStay
  <2>2. CASE u = t
    <3>1. refresh[t] \in RequestRow \cup {None} /\ signIn[t] \in RequestRow \cup {None}
      BY <1>1 DEF TabsType
    <3>2. RowFits(refresh[t])' /\ RowFits(signIn[t])'
      BY <1>1, <1>3, <1>5, <3>1, RowStays DEF RequestsFit, RowFits, Known, Given
    <3>3. (signOut[t] # None => Known(signOut[t].cookie))'
      BY <1>2, <1>3, <1>4, KnownStays DEF Known
    <3> QED BY <2>2, <3>2, <3>3 DEF RequestsFit
  <2> QED BY <2>1, <2>2
<1>9. \A u \in Tabs : CallsFit(u)' /\ ScreenFits(u)'
  BY <1>5 DEF TabsInv, CallsFit, CallFits, ScreenFits
<1> QED BY <1>6, <1>7, <1>8, <1>9 DEF TabsInv

\* Those who waited for a refresh go on with the new token.
LEMMA ResumeTyped ==
  ASSUME TabsType, NEW t \in Tabs, CallsFit(t), NEW new \in Credential, Resume(t, new)
  PROVE  /\ call' \in [Tabs -> [Slots -> CallRow \cup {None}]]
         /\ \A k \in Slots : CallFits(call'[t][k])
         /\ \A u \in Tabs : u # t => call'[u] = call[u]
<1> DEFINE F == [k \in Slots |->
                   CASE k \in Waiting(t) -> Sending("second", new, call[t][k].executed)
                     [] k = Identity /\ ui[t] = "restoring" /\ call[t][k] = None ->
                          Sending("first", new, 0)
                     [] OTHER -> call[t][k]]
<1>1. call' = [call EXCEPT ![t] = F]
  BY DEF Resume
<1>2. \A k \in Slots : F[k] \in CallRow \cup {None} /\ CallFits(F[k])
  <2> TAKE k \in Slots
  <2>1. CASE k \in Waiting(t)
    <3>1. call[t][k].executed = 0
      BY <2>1 DEF Waiting, CallsFit, CallFits
    <3>2. F[k] = Sending("second", new, call[t][k].executed)
      BY <2>1 DEF Waiting
    <3> QED BY <3>1, <3>2, SendingTyped
  <2>2. CASE k \notin Waiting(t) /\ k = Identity /\ ui[t] = "restoring" /\ call[t][k] = None
    <3>1. F[k] = Sending("first", new, 0)
      BY <2>2
    <3> QED BY <3>1, SendingTyped
  <2>3. CASE /\ k \notin Waiting(t)
             /\ ~(k = Identity /\ ui[t] = "restoring" /\ call[t][k] = None)
    <3>1. F[k] = call[t][k]
      BY <2>3
    <3> QED BY <3>1 DEF TabsType, CallsFit
  <2> QED BY <2>1, <2>2, <2>3
<1>3. F \in [Slots -> CallRow \cup {None}]
  BY <1>2
<1> HIDE DEF F
<1> QED BY <1>1, <1>2, <1>3 DEF TabsType

\* Or they give up.
LEMMA GiveUpTyped ==
  ASSUME TabsType, NEW t \in Tabs, CallsFit(t), GiveUp(t)
  PROVE  /\ call' \in [Tabs -> [Slots -> CallRow \cup {None}]]
         /\ \A k \in Slots : CallFits(call'[t][k])
         /\ \A u \in Tabs : u # t => call'[u] = call[u]
<1> DEFINE F == [k \in Slots |-> IF k \in Waiting(t) THEN None ELSE call[t][k]]
<1>1. call' = [call EXCEPT ![t] = F]
  BY DEF GiveUp
<1>2. \A k \in Slots : F[k] \in CallRow \cup {None} /\ CallFits(F[k])
  BY DEF TabsType, CallsFit, CallFits
<1>3. F \in [Slots -> CallRow \cup {None}]
  BY <1>2
<1> HIDE DEF F
<1> QED BY <1>1, <1>2, <1>3 DEF TabsType

\* A form is shown, or the screen stays.
LEMMA FormTyped ==
  ASSUME TabsType, NEW t \in Tabs, \A u \in Tabs : ScreenFits(u),
         NEW status \in {"signedOut", "signingIn"},
         ShowForm(t, status) \/ UNCHANGED screen
  PROVE  /\ ui' \in [Tabs -> {"restoring", "signedOut", "signingIn", "signedIn"}]
         /\ identity' \in [Tabs -> Sessions \cup {None}]
         /\ \A u \in Tabs : ScreenFits(u)'
  BY DEF TabsType, ScreenFits, ShowForm

\* The browser has the answer of a refresh.
LEMMA RefreshAnsweredTabs ==
  ASSUME TabsInv, NEW t \in Tabs, RefreshAnswered(t)
  PROVE  TabsInv'
<1> DEFINE a == refresh[t].answer
<1>1. /\ SharedType /\ TabsType /\ Known(cookie)
      /\ \A u \in Tabs : RequestsFit(u) /\ CallsFit(u) /\ ScreenFits(u)
  BY DEF TabsInv
<1>2. /\ a \in Answers /\ Given(a)
      /\ a.is = "ok" => a.credential \in Credential /\ Known(a.credential)
  BY <1>1, RowsTyped, AnswersTyped, AnswerOk
     DEF RefreshAnswered, Done, RequestsFit, RowFits, Given
<1>3. UNCHANGED <<sessions, expired, reused, signIn, signOut, crossed, losses>>
  BY DEF RefreshAnswered
<1>4. refresh' = [refresh EXCEPT ![t] = None]
  BY DEF RefreshAnswered, Settled
<1>5. CASE /\ a.is = "ok"
           /\ cookie' = a.credential
           /\ token' = [token EXCEPT ![t] = a.credential]
           /\ Resume(t, a.credential)
           /\ UNCHANGED screen
  <2>1. /\ call' \in [Tabs -> [Slots -> CallRow \cup {None}]]
        /\ \A k \in Slots : CallFits(call'[t][k])
        /\ \A u \in Tabs : u # t => call'[u] = call[u]
    BY <1>1, <1>2, <1>5, ResumeTyped
  <2>2. SharedType' /\ TabsType'
    BY <1>1, <1>2, <1>3, <1>4, <1>5, <2>1 DEF SharedType, TabsType
  <2>3. Known(cookie)'
    BY <1>2, <1>3, <1>5 DEF Known
  <2>4. \A u \in Tabs : RequestsFit(u)'
    BY <1>1, <1>3, <1>4 DEF TabsType, RequestsFit, RowFits, Known, Given
  <2>5. \A u \in Tabs : CallsFit(u)' /\ ScreenFits(u)'
    BY <1>1, <1>5, <2>1 DEF CallsFit, ScreenFits
  <2> QED BY <2>2, <2>3, <2>4, <2>5 DEF TabsInv
<1>6. CASE /\ a.is # "ok"
           /\ cookie' = IF a = NetworkError THEN cookie ELSE None
           /\ token' = [token EXCEPT ![t] = None]
           /\ GiveUp(t)
           /\ ShowForm(t, "signedOut") \/ UNCHANGED screen
  <2>1. /\ call' \in [Tabs -> [Slots -> CallRow \cup {None}]]
        /\ \A k \in Slots : CallFits(call'[t][k])
        /\ \A u \in Tabs : u # t => call'[u] = call[u]
    BY <1>1, <1>6, GiveUpTyped
  <2>2. /\ ui' \in [Tabs -> {"restoring", "signedOut", "signingIn", "signedIn"}]
        /\ identity' \in [Tabs -> Sessions \cup {None}]
        /\ \A u \in Tabs : ScreenFits(u)'
    BY <1>1, <1>6, FormTyped
  <2>3. SharedType' /\ TabsType'
    BY <1>1, <1>3, <1>4, <1>6, <2>1, <2>2 DEF SharedType, TabsType
  <2>4. Known(cookie)'
    BY <1>1, <1>3, <1>6 DEF Known
  <2>5. \A u \in Tabs : RequestsFit(u)'
    BY <1>1, <1>3, <1>4 DEF TabsType, RequestsFit, RowFits, Known, Given
  <2>6. \A u \in Tabs : CallsFit(u)'
    BY <1>1, <2>1 DEF CallsFit
  <2> QED BY <2>2, <2>3, <2>4, <2>5, <2>6 DEF TabsInv
<1> QED BY <1>5, <1>6 DEF RefreshAnswered

\* A sign-in begins.
LEMMA SignInTabs ==
  ASSUME TabsInv, NEW t \in Tabs, SignIn(t)
  PROVE  TabsInv'
<1>1. /\ SharedType /\ TabsType /\ Known(cookie)
      /\ \A u \in Tabs : RequestsFit(u) /\ CallsFit(u) /\ ScreenFits(u)
  BY DEF TabsInv
<1>2. UNCHANGED <<sessions, cookie, token, refresh, signOut, call, losses>>
  BY DEF SignIn
<1>3. /\ ui' \in [Tabs -> {"restoring", "signedOut", "signingIn", "signedIn"}]
      /\ identity' \in [Tabs -> Sessions \cup {None}]
      /\ \A u \in Tabs : ScreenFits(u)'
  BY <1>1, FormTyped DEF SignIn
<1>4. /\ signIn' = [signIn EXCEPT ![t] = Request(None)]
      /\ Request(None) \in RequestRow
      /\ Request(None).cookie = None /\ Request(None).answer = None
  BY RequestTyped DEF SignIn
<1>5. SharedType' /\ TabsType'
  BY <1>1, <1>2, <1>3, <1>4 DEF SharedType, TabsType
<1>6. Known(cookie)' /\ \A u \in Tabs : CallsFit(u)'
  BY <1>1, <1>2 DEF Known, CallsFit
<1>7. \A u \in Tabs : RequestsFit(u)'
  BY <1>1, <1>2, <1>4 DEF TabsType, RequestsFit, RowFits, Known, Given
<1> QED BY <1>3, <1>5, <1>6, <1>7 DEF TabsInv

\* The browser has the answer of a sign-in.
LEMMA SignInAnsweredTabs ==
  ASSUME TabsInv, NEW t \in Tabs, SignInAnswered(t)
  PROVE  TabsInv'
<1> DEFINE a == signIn[t].answer
<1>1. /\ SharedType /\ TabsType /\ Known(cookie)
      /\ \A u \in Tabs : RequestsFit(u) /\ CallsFit(u) /\ ScreenFits(u)
  BY DEF TabsInv
<1>2. /\ a \in Answers /\ Given(a)
      /\ a.is = "ok" => a.credential \in Credential /\ Known(a.credential)
  BY <1>1, RowsTyped, AnswersTyped, AnswerOk
     DEF SignInAnswered, Done, RequestsFit, RowFits, Given
<1>3. UNCHANGED <<sessions, expired, reused, refresh, signOut, crossed, losses>>
  BY DEF SignInAnswered
<1>4. signIn' = [signIn EXCEPT ![t] = None]
  BY DEF SignInAnswered
<1>5. \A u \in Tabs : RequestsFit(u)'
  BY <1>1, <1>3, <1>4 DEF TabsType, RequestsFit, RowFits, Known, Given
<1>6. CASE /\ a.is = "ok"
           /\ cookie' = a.credential
           /\ token' = [token EXCEPT ![t] = a.credential]
           /\ call' = [call EXCEPT ![t][Identity] = Sending("first", a.credential, 0)]
           /\ UNCHANGED screen
  <2> DEFINE r == Sending("first", a.credential, 0)
  <2>1. Identity \in Slots /\ r \in CallRow /\ CallFits(r)
    BY <1>2, <1>6, SendingTyped DEF Slots
  <2>2. call' = [call EXCEPT ![t][Identity] = r]
    BY <1>6
  <2> HIDE DEF r
  <2>3. /\ call' \in [Tabs -> [Slots -> CallRow \cup {None}]]
        /\ call'[t][Identity] = r
        /\ \A u \in Tabs, j \in Slots : u # t \/ j # Identity => call'[u][j] = call[u][j]
    BY <1>1, <2>1, <2>2, CallSet DEF TabsType
  <2>4. SharedType' /\ TabsType'
    BY <1>1, <1>2, <1>3, <1>4, <1>6, <2>3 DEF SharedType, TabsType
  <2>5. Known(cookie)'
    BY <1>2, <1>3, <1>6 DEF Known
  <2>6. \A u \in Tabs : CallsFit(u)' /\ ScreenFits(u)'
    BY <1>1, <1>6, <2>1, <2>3 DEF CallsFit, ScreenFits
  <2> QED BY <1>5, <2>4, <2>5, <2>6 DEF TabsInv
<1>7. CASE /\ token' = [token EXCEPT ![t] = None]
           /\ ShowForm(t, "signedOut")
           /\ UNCHANGED <<cookie, call>>
  <2>1. /\ ui' \in [Tabs -> {"restoring", "signedOut", "signingIn", "signedIn"}]
        /\ identity' \in [Tabs -> Sessions \cup {None}]
        /\ \A u \in Tabs : ScreenFits(u)'
    BY <1>1, <1>7, FormTyped
  <2>2. SharedType' /\ TabsType'
    BY <1>1, <1>3, <1>4, <1>7, <2>1 DEF SharedType, TabsType
  <2>3. Known(cookie)' /\ \A u \in Tabs : CallsFit(u)'
    BY <1>1, <1>3, <1>7 DEF Known, CallsFit
  <2> QED BY <1>5, <2>1, <2>2, <2>3 DEF TabsInv
<1> QED BY <1>6, <1>7 DEF SignInAnswered

\* A sign-out begins.
LEMMA SignOutTabs ==
  ASSUME TabsInv, NEW t \in Tabs, SignOut(t)
  PROVE  TabsInv'
<1>1. /\ SharedType /\ TabsType /\ Known(cookie)
      /\ \A u \in Tabs : RequestsFit(u) /\ CallsFit(u) /\ ScreenFits(u)
  BY DEF TabsInv
<1>2. /\ UNCHANGED <<sessions, cookie, refresh, signIn, call, losses>>
      /\ token' = [token EXCEPT ![t] = None]
  BY DEF SignOut
<1>3. /\ ui' \in [Tabs -> {"restoring", "signedOut", "signingIn", "signedIn"}]
      /\ identity' \in [Tabs -> Sessions \cup {None}]
      /\ \A u \in Tabs : ScreenFits(u)'
  BY <1>1, FormTyped DEF SignOut
<1>4. /\ signOut' = [signOut EXCEPT ![t] = Request(cookie)]
      /\ Request(cookie) \in RequestRow /\ Request(cookie).cookie = cookie
  BY <1>1, RequestTyped DEF SignOut, SharedType
<1>5. SharedType' /\ TabsType'
  BY <1>1, <1>2, <1>3, <1>4 DEF SharedType, TabsType
<1>6. Known(cookie)' /\ \A u \in Tabs : CallsFit(u)'
  BY <1>1, <1>2 DEF Known, CallsFit
<1>7. \A u \in Tabs : RequestsFit(u)'
  BY <1>1, <1>2, <1>4 DEF TabsType, RequestsFit, RowFits, Known, Given
<1> QED BY <1>3, <1>5, <1>6, <1>7 DEF TabsInv

\* The browser has the answer of a sign-out.
LEMMA SignOutAnsweredTabs ==
  ASSUME TabsInv, NEW t \in Tabs, SignOutAnswered(t)
  PROVE  TabsInv'
<1>1. /\ SharedType /\ TabsType /\ Known(cookie)
      /\ \A u \in Tabs : RequestsFit(u) /\ CallsFit(u) /\ ScreenFits(u)
  BY DEF TabsInv
<1>2. /\ UNCHANGED <<sessions, ui, identity, token, refresh, signIn, call, losses>>
      /\ signOut' = [signOut EXCEPT ![t] = None]
      /\ cookie' \in {cookie, None}
  BY DEF SignOutAnswered
<1>3. SharedType' /\ TabsType'
  BY <1>1, <1>2 DEF SharedType, TabsType
<1>4. Known(cookie)' /\ \A u \in Tabs : CallsFit(u)' /\ ScreenFits(u)'
  BY <1>1, <1>2 DEF Known, CallsFit, ScreenFits
<1>5. \A u \in Tabs : RequestsFit(u)'
  BY <1>1, <1>2 DEF TabsType, RequestsFit, RowFits, Known, Given
<1> QED BY <1>3, <1>4, <1>5 DEF TabsInv

\* A request or its answer gets lost.
LEMMA RequestLostTabs ==
  ASSUME TabsInv, NEW t \in Tabs, RequestLost(t)
  PROVE  TabsInv'
<1>1. /\ SharedType /\ TabsType /\ Known(cookie)
      /\ \A u \in Tabs : RequestsFit(u) /\ CallsFit(u) /\ ScreenFits(u)
  BY DEF TabsInv
<1>2. /\ UNCHANGED <<sessions, cookie, ui, identity, token, call>>
      /\ losses' \in Nat
  BY <1>1 DEF RequestLost, Lose, SharedType
<1>3. Known(cookie)' /\ \A u \in Tabs : CallsFit(u)' /\ ScreenFits(u)'
  BY <1>1, <1>2 DEF Known, CallsFit, ScreenFits
<1>4. PICK e \in Answers : e = NetworkError /\ e.is # "ok"
  BY AnswersTyped
<1>8. /\ refresh \in [Tabs -> RequestRow \cup {None}]
      /\ signIn \in [Tabs -> RequestRow \cup {None}]
      /\ signOut \in [Tabs -> RequestRow \cup {None}]
  BY <1>1 DEF TabsType
<1>5. CASE /\ refresh[t] # None
           /\ refresh' = [refresh EXCEPT ![t].answer = NetworkError]
           /\ UNCHANGED <<signIn, signOut>>
  <2>0. refresh[t] # None /\ refresh' = [refresh EXCEPT ![t].answer = e]
    BY <1>4, <1>5
  <2>1. /\ refresh' \in [Tabs -> RequestRow \cup {None}]
        /\ refresh'[t] # None /\ refresh'[t].cookie = refresh[t].cookie
        /\ refresh'[t].answer = e
        /\ \A u \in Tabs : u # t => refresh'[u] = refresh[u]
    BY <1>8, <2>0, Answering
  <2>2. SharedType' /\ TabsType'
    BY <1>1, <1>2, <1>5, <2>1 DEF SharedType, TabsType
  <2>3. \A u \in Tabs : RequestsFit(u)'
    BY <1>1, <1>2, <1>4, <1>5, <2>1 DEF RequestsFit, RowFits, Known, Given
  <2> QED BY <1>3, <2>2, <2>3 DEF TabsInv
<1>6. CASE /\ signIn[t] # None
           /\ signIn' = [signIn EXCEPT ![t].answer = NetworkError]
           /\ UNCHANGED <<refresh, signOut>>
  <2>0. signIn[t] # None /\ signIn' = [signIn EXCEPT ![t].answer = e]
    BY <1>4, <1>6
  <2>1. /\ signIn' \in [Tabs -> RequestRow \cup {None}]
        /\ signIn'[t] # None /\ signIn'[t].cookie = signIn[t].cookie
        /\ signIn'[t].answer = e
        /\ \A u \in Tabs : u # t => signIn'[u] = signIn[u]
    BY <1>8, <2>0, Answering
  <2>2. SharedType' /\ TabsType'
    BY <1>1, <1>2, <1>6, <2>1 DEF SharedType, TabsType
  <2>3. \A u \in Tabs : RequestsFit(u)'
    BY <1>1, <1>2, <1>4, <1>6, <2>1 DEF RequestsFit, RowFits, Known, Given
  <2> QED BY <1>3, <2>2, <2>3 DEF TabsInv
<1>7. CASE /\ signOut[t] # None
           /\ signOut' = [signOut EXCEPT ![t].answer = NetworkError]
           /\ UNCHANGED <<refresh, signIn>>
  <2>0. signOut[t] # None /\ signOut' = [signOut EXCEPT ![t].answer = e]
    BY <1>4, <1>7
  <2>1. /\ signOut' \in [Tabs -> RequestRow \cup {None}]
        /\ signOut'[t] # None /\ signOut'[t].cookie = signOut[t].cookie
        /\ \A u \in Tabs : u # t => signOut'[u] = signOut[u]
    BY <1>8, <2>0, Answering
  <2>2. SharedType' /\ TabsType'
    BY <1>1, <1>2, <1>7, <2>1 DEF SharedType, TabsType
  <2>3. \A u \in Tabs : RequestsFit(u)'
    BY <1>1, <1>2, <1>7, <2>1 DEF RequestsFit, RowFits, Known, Given
  <2> QED BY <1>3, <2>2, <2>3 DEF TabsInv
<1> QED BY <1>5, <1>6, <1>7 DEF RequestLost

\* One call changes.
LEMMA CallChanges ==
  ASSUME TabsType, \A u \in Tabs : CallsFit(u), NEW t \in Tabs, NEW k \in Slots,
         NEW r \in CallRow \cup {None}, CallFits(r),
         call' = [call EXCEPT ![t][k] = r]
  PROVE  /\ call' \in [Tabs -> [Slots -> CallRow \cup {None}]]
         /\ call'[t][k] = r
         /\ \A u \in Tabs, j \in Slots : u # t \/ j # k => call'[u][j] = call[u][j]
         /\ \A u \in Tabs : CallsFit(u)'
<1>0. call \in [Tabs -> [Slots -> CallRow \cup {None}]]
  BY DEF TabsType
<1>1. /\ call' \in [Tabs -> [Slots -> CallRow \cup {None}]]
      /\ call'[t][k] = r
      /\ \A u \in Tabs, j \in Slots : u # t \/ j # k => call'[u][j] = call[u][j]
  BY <1>0, CallSet
<1>2. \A u \in Tabs : CallsFit(u)'
  BY <1>1 DEF CallsFit
<1> QED BY <1>1, <1>2

\* A step that only sets a call.
LEMMA OnlyCallTabs ==
  ASSUME TabsInv, NEW t \in Tabs, NEW k \in Slots,
         NEW r \in CallRow \cup {None}, CallFits(r),
         call' = [call EXCEPT ![t][k] = r],
         UNCHANGED <<sessions, cookie, ui, identity, token, refresh, signIn, signOut>>,
         losses' \in Nat
  PROVE  TabsInv'
<1>1. /\ SharedType /\ TabsType /\ Known(cookie)
      /\ \A u \in Tabs : RequestsFit(u) /\ CallsFit(u) /\ ScreenFits(u)
  BY DEF TabsInv
<1>2. /\ call' \in [Tabs -> [Slots -> CallRow \cup {None}]]
      /\ \A u \in Tabs : CallsFit(u)'
  BY <1>1, CallChanges
<1>3. SharedType' /\ TabsType'
  BY <1>1, <1>2 DEF SharedType, TabsType
<1>4. Known(cookie)' /\ \A u \in Tabs : RequestsFit(u)' /\ ScreenFits(u)'
  BY <1>1 DEF Known, RequestsFit, RowFits, Given, ScreenFits
<1> QED BY <1>2, <1>3, <1>4 DEF TabsInv

\* A page asks for something.
LEMMA StartTabs ==
  ASSUME TabsInv, NEW t \in Tabs, NEW k \in Slots, Start(t, k)
  PROVE  TabsInv'
<1>1. token[t] \in Credential \cup {None}
  BY DEF TabsInv, TabsType
<1>2. PICK r \in CallRow : r = Sending("first", token[t], 0) /\ CallFits(r)
  BY <1>1, SendingTyped
<1>3. call' = [call EXCEPT ![t][k] = r]
  BY <1>2 DEF Start
<1>4. UNCHANGED <<sessions, cookie, ui, identity, token, refresh, signIn, signOut>>
  BY DEF Start
<1>5. losses' \in Nat
  BY DEF Start, TabsInv, SharedType
<1> QED BY <1>2, <1>3, <1>4, <1>5, OnlyCallTabs

\* A call that is not waiting, as it is found.
LEMMA CallFound ==
  ASSUME TabsInv, NEW t \in Tabs, NEW k \in Slots, call[t][k] # None
  PROVE  /\ call[t][k] \in CallRow /\ CallFits(call[t][k])
         /\ call[t][k].token \in Credential \cup {None}
         /\ call[t][k].answer \in Answers \cup {None}
<1>1. CallsFit(t) /\ TabsType
  BY DEF TabsInv
<1>2. CallFits(call[t][k])
  BY <1>1 DEF CallsFit
<1> QED BY <1>1, <1>2, RowsTyped

\* The API answers a call.
LEMMA ServeCallTabs ==
  ASSUME TabsInv, NEW t \in Tabs, NEW k \in Slots, ServeCall(t, k)
  PROVE  TabsInv'
<1>1. PICK r \in CallRow : r = call[t][k] /\ CallFits(r)
  BY CallFound DEF ServeCall, Open
<1>2. r # None /\ r.answer = None /\ r.step # "waiting"
  BY <1>1 DEF ServeCall, Open
<1>3. PICK g \in CallRow : CallFits(g) /\ call' = [call EXCEPT ![t][k] = g]
  <2>1. PICK g \in Handled(r) : call' = [call EXCEPT ![t][k] = g]
    BY <1>1 DEF ServeCall
  <2> QED BY <1>1, <1>2, <2>1, CallHandled
<1>4. UNCHANGED <<sessions, cookie, ui, identity, token, refresh, signIn, signOut>>
  BY DEF ServeCall
<1>5. losses' \in Nat
  BY DEF ServeCall, TabsInv, SharedType
<1> QED BY <1>3, <1>4, <1>5, OnlyCallTabs

\* A call or its answer gets lost.
LEMMA CallLostTabs ==
  ASSUME TabsInv, NEW t \in Tabs, NEW k \in Slots, CallLost(t, k)
  PROVE  TabsInv'
<1>1. PICK r \in CallRow : r = call[t][k] /\ CallFits(r)
  BY CallFound DEF CallLost
<1>2. r.step # "waiting" /\ r.token # None
  BY <1>1 DEF CallLost
<1>3. PICK a \in Answers : a = NetworkError /\ a.is = "lost"
  BY AnswersTyped
<1> DEFINE g == [r EXCEPT !.answer = a]
<1>4. call' = [call EXCEPT ![t][k] = g]
  BY <1>1, <1>3 DEF CallLost
<1>5. g \in CallRow /\ CallFits(g)
  BY <1>1, <1>2, <1>3, CallAnswered
<1> HIDE DEF g
<1>6. UNCHANGED <<sessions, cookie, ui, identity, token, refresh, signIn, signOut>>
  BY DEF CallLost
<1>7. losses' \in Nat
  BY DEF CallLost, Lose, TabsInv, SharedType
<1> QED BY <1>4, <1>5, <1>6, <1>7, OnlyCallTabs

\* What a call's end does to the screen.
LEMMA OutcomeTyped ==
  ASSUME TabsType, \A u \in Tabs : ScreenFits(u), NEW t \in Tabs, NEW k \in Slots,
         NEW a \in Answers, a.is = "ok" => call[t][k].token \in Credential,
         Outcome(t, k, a)
  PROVE  /\ ui' \in [Tabs -> {"restoring", "signedOut", "signingIn", "signedIn"}]
         /\ identity' \in [Tabs -> Sessions \cup {None}]
         /\ token' \in [Tabs -> Credential \cup {None}]
         /\ \A u \in Tabs : ScreenFits(u)'
<1>1. CASE k = Identity /\ a.is = "ok"
  <2>1. call[t][k].token.session \in Sessions /\ call[t][k].token.session # None
    BY <1>1, BrowserAssumption DEF Credential
  <2>2. /\ ui' = [ui EXCEPT ![t] = "signedIn"]
        /\ identity' = [identity EXCEPT ![t] = call[t][k].token.session]
        /\ UNCHANGED token
    BY <1>1 DEF Outcome
  <2> QED BY <2>1, <2>2 DEF TabsType, ScreenFits
<1>2. CASE k = Identity /\ a.is # "ok"
  <2>1. ShowForm(t, "signedOut") /\ token' \in [Tabs -> Credential \cup {None}]
    BY <1>2 DEF Outcome, TabsType
  <2> QED BY <2>1, FormTyped
<1>3. CASE k # Identity /\ a.is = "unauthorized"
  <2>1. /\ ShowForm(t, "signedOut") \/ UNCHANGED screen
        /\ token' \in [Tabs -> Credential \cup {None}]
    BY <1>3 DEF Outcome, TabsType
  <2> QED BY <2>1, FormTyped
<1>4. CASE k # Identity /\ a.is # "unauthorized"
  <2>1. UNCHANGED <<screen, token>>
    BY <1>4 DEF Outcome
  <2> QED BY <2>1 DEF TabsType, ScreenFits
<1> QED BY <1>1, <1>2, <1>3, <1>4

\* A call ends with what it was answered.
LEMMA CallEndsTabs ==
  ASSUME TabsInv, NEW t \in Tabs, NEW k \in Slots, Done(call[t][k]),
         call[t][k].step # "waiting",
         call' = [call EXCEPT ![t][k] = None],
         Outcome(t, k, call[t][k].answer),
         UNCHANGED <<api, cookie, refresh, signIn, signOut, crossed, losses>>
  PROVE  TabsInv'
<1>1. /\ SharedType /\ TabsType /\ Known(cookie)
      /\ \A u \in Tabs : RequestsFit(u) /\ CallsFit(u) /\ ScreenFits(u)
  BY DEF TabsInv
<1>2. PICK r \in CallRow : r = call[t][k] /\ CallFits(r)
  BY CallFound DEF Done
<1>3. PICK a \in Answers : a = r.answer
  BY <1>2 DEF Done, CallRow
<1>4. a.is = "ok" => call[t][k].token \in Credential
  BY <1>2, <1>3, CallFound DEF Done, CallFits
<1>5. /\ ui' \in [Tabs -> {"restoring", "signedOut", "signingIn", "signedIn"}]
      /\ identity' \in [Tabs -> Sessions \cup {None}]
      /\ token' \in [Tabs -> Credential \cup {None}]
      /\ \A u \in Tabs : ScreenFits(u)'
  BY <1>1, <1>2, <1>3, <1>4, OutcomeTyped
<1>6. CallFits(None)
  BY DEF CallFits
<1>7. /\ call' \in [Tabs -> [Slots -> CallRow \cup {None}]]
      /\ \A u \in Tabs : CallsFit(u)'
  BY <1>1, <1>6, CallChanges
<1>8. SharedType' /\ TabsType'
  BY <1>1, <1>5, <1>7 DEF SharedType, TabsType
<1>9. Known(cookie)' /\ \A u \in Tabs : RequestsFit(u)'
  BY <1>1 DEF Known, RequestsFit, RowFits, Given
<1> QED BY <1>5, <1>7, <1>8, <1>9 DEF TabsInv

\* A refused call waits for the refresh, its own or the one in flight.
LEMMA CallWaitsTabs ==
  ASSUME TabsInv, NEW t \in Tabs, NEW k \in Slots, Done(call[t][k]),
         Retries(call[t][k].answer),
         call' = [call EXCEPT ![t][k] = [@ EXCEPT !.step = "waiting", !.answer = None]],
         SharedRefresh(t),
         UNCHANGED <<api, cookie, screen, token, signIn, signOut, crossed, losses>>
  PROVE  TabsInv'
<1>1. /\ SharedType /\ TabsType /\ Known(cookie)
      /\ \A u \in Tabs : RequestsFit(u) /\ CallsFit(u) /\ ScreenFits(u)
  BY DEF TabsInv
<1>2. PICK r \in CallRow : r = call[t][k] /\ CallFits(r)
  BY CallFound DEF Done
<1>3. PICK g \in CallRow : CallFits(g) /\ call' = [call EXCEPT ![t][k] = g]
  <2> DEFINE g == [r EXCEPT !.step = "waiting", !.answer = None]
  <2>1. g \in CallRow /\ CallFits(g)
    BY <1>2, CallWaits DEF Done, Retries
  <2>2. call' = [call EXCEPT ![t][k] = g]
    BY <1>2
  <2> HIDE DEF g
  <2> QED BY <2>1, <2>2
<1>4. /\ call' \in [Tabs -> [Slots -> CallRow \cup {None}]]
      /\ \A u \in Tabs : CallsFit(u)'
  BY <1>1, <1>3, CallChanges
<1>5. PICK q \in RequestRow : q = Request(cookie) /\ q.cookie = cookie /\ q.answer = None
  BY <1>1, RequestTyped DEF SharedType
<1>6. refresh' = refresh \/ refresh' = [refresh EXCEPT ![t] = q]
  BY <1>5 DEF SharedRefresh
<1>7. SharedType' /\ TabsType'
  BY <1>1, <1>4, <1>6 DEF SharedType, TabsType
<1>8. Known(cookie)' /\ \A u \in Tabs : ScreenFits(u)'
  BY <1>1 DEF Known, ScreenFits
<1>9. \A u \in Tabs : RequestsFit(u)'
  BY <1>1, <1>5, <1>6 DEF TabsType, RequestsFit, RowFits, Known, Given
<1> QED BY <1>4, <1>7, <1>8, <1>9 DEF TabsInv

\* The first try is over.
LEMMA FirstAnsweredTabs ==
  ASSUME TabsInv, NEW t \in Tabs, NEW k \in Slots, FirstAnswered(t, k)
  PROVE  TabsInv'
BY CallEndsTabs, CallWaitsTabs DEF FirstAnswered

\* The second try is over.
LEMMA SecondAnsweredTabs ==
  ASSUME TabsInv, NEW t \in Tabs, NEW k \in Slots, SecondAnswered(t, k)
  PROVE  TabsInv'
BY CallEndsTabs DEF SecondAnswered

\* The tabs are opened with nothing or with the cookie of an earlier visit.
LEMMA InitTabs ==
  ASSUME Init
  PROVE  TabsInv
<1>1. cookie \in Credential \cup {None}
  BY BrowserAssumption DEF Init, First, Credential, Generations
<1>2. NewSession \in SessionRow
  BY BrowserAssumption DEF NewSession, SessionRow, Generations
<1>3. NewSession # None
  BY <1>2, BrowserAssumption
<1>4. Known(cookie)
  BY <1>3, BrowserAssumption DEF Init, Known, First
<1>5. PICK q \in RequestRow : q = Request(cookie) /\ q.cookie = cookie /\ q.answer = None
  BY <1>1, RequestTyped
<1>6. SharedType
  BY <1>1, <1>2 DEF Init, SharedType
<1>7. TabsType
  BY <1>5 DEF Init, TabsType
<1>8. \A u \in Tabs : RequestsFit(u)
  BY <1>4, <1>5 DEF Init, RequestsFit, RowFits, Given
<1>9. \A u \in Tabs : CallsFit(u) /\ ScreenFits(u)
  BY DEF Init, CallsFit, CallFits, ScreenFits
<1> QED BY <1>4, <1>6, <1>7, <1>8, <1>9 DEF TabsInv

\* No step harms it.
LEMMA NextTabs ==
  ASSUME TabsInv, [Next]_vars
  PROVE  TabsInv'
<1>1. CASE \E t \in Tabs : ServeRefresh(t) \/ RefreshAnswered(t)
  BY <1>1, ServeRefreshTabs, RefreshAnsweredTabs
<1>2. CASE \E t \in Tabs : SignIn(t) \/ ServeSignIn(t) \/ SignInAnswered(t)
  BY <1>2, SignInTabs, ServeSignInTabs, SignInAnsweredTabs
<1>3. CASE \E t \in Tabs : SignOut(t) \/ ServeSignOut(t) \/ SignOutAnswered(t)
  BY <1>3, SignOutTabs, ServeSignOutTabs, SignOutAnsweredTabs
<1>4. CASE \E t \in Tabs : RequestLost(t)
  BY <1>4, RequestLostTabs
<1>5. CASE \E t \in Tabs : \E k \in Calls : Start(t, k)
  BY <1>5, StartTabs DEF Slots
<1>6. CASE \E t \in Tabs : \E k \in Slots : ServeCall(t, k) \/ CallLost(t, k)
  BY <1>6, ServeCallTabs, CallLostTabs
<1>7. CASE \E t \in Tabs : \E k \in Slots : FirstAnswered(t, k) \/ SecondAnswered(t, k)
  BY <1>7, FirstAnsweredTabs, SecondAnsweredTabs
<1>8. CASE \E x \in Credential : Expire(x)
  <2>1. UNCHANGED <<sessions, cookie, tab, losses>>
    BY <1>8 DEF Expire
  <2> QED BY <2>1 DEF TabsInv, SharedType, TabsType, Known, RequestsFit, RowFits, Given,
                      CallsFit, ScreenFits
<1>9. CASE UNCHANGED vars
  BY <1>9 DEF TabsInv, SharedType, TabsType, Known, RequestsFit, RowFits, Given,
              CallsFit, ScreenFits
<1> QED BY <1>1, <1>2, <1>3, <1>4, <1>5, <1>6, <1>7, <1>8, <1>9 DEF Next

-----------------------------------------------------------------------------
(***************************************************************************)
(* One tab and no loss: nothing is reused.                                 *)
(***************************************************************************)

\* A credential stays fresh until its session is refreshed.
LEMMA FreshStays ==
  ASSUME NEW c \in Credential \cup {None}, Fresh(c),
         c # None => \/ sessions'[c.session].revoked
                     \/ sessions'[c.session] = sessions[c.session]
  PROVE  Fresh(c)'
  BY DEF Fresh, InForce, Latest

\* What a tab holds, in types.
LEMMA HeldTyped ==
  ASSUME TabsInv, NEW t \in Tabs
  PROVE  /\ cookie \in Credential \cup {None} /\ Known(cookie)
         /\ refresh[t] # None =>
              /\ refresh[t].cookie \in Credential \cup {None} /\ Known(refresh[t].cookie)
              /\ refresh[t].answer \in Answers \cup {None}
         /\ Done(refresh[t]) /\ refresh[t].answer.is = "ok" =>
              /\ refresh[t].answer.credential \in Credential
              /\ Known(refresh[t].answer.credential)
         /\ Done(signIn[t]) /\ signIn[t].answer.is = "ok" =>
              /\ signIn[t].answer.credential \in Credential
              /\ Known(signIn[t].answer.credential)
<1>1. /\ SharedType /\ TabsType /\ Known(cookie) /\ RequestsFit(t)
  BY DEF TabsInv
<1>2. /\ refresh[t] # None =>
           /\ refresh[t].cookie \in Credential \cup {None} /\ Known(refresh[t].cookie)
           /\ refresh[t].answer \in Answers \cup {None} /\ Given(refresh[t].answer)
      /\ signIn[t] # None =>
           signIn[t].answer \in Answers \cup {None} /\ Given(signIn[t].answer)
  BY <1>1, RowsTyped DEF RequestsFit, RowFits
<1>3. \A a \in Answers : a.is = "ok" => a.credential \in Credential \cup {None}
  BY AnswerOk
<1>4. Done(refresh[t]) /\ refresh[t].answer.is = "ok" =>
        refresh[t].answer.credential \in Credential /\ Known(refresh[t].answer.credential)
  BY <1>2, <1>3 DEF Done, Given
<1>5. Done(signIn[t]) /\ signIn[t].answer.is = "ok" =>
        signIn[t].answer.credential \in Credential /\ Known(signIn[t].answer.credential)
  BY <1>2, <1>3 DEF Done, Given
<1> QED BY <1>1, <1>2, <1>4, <1>5 DEF SharedType

\* Nothing of what counts is touched.
LEMMA FreshUntouched ==
  ASSUME NEW t \in Tabs, TabIsFresh(t),
         UNCHANGED <<sessions, cookie, refresh, signIn>>
  PROVE  TabIsFresh(t)'
  BY DEF TabIsFresh, CookieIsFresh, RefreshIsFresh, SignInIsFresh, Fresh, InForce,
         Latest, NotOf, Open, Done

\* The API continues the session, and only a credential that is not fresh could
\* be taken for a reuse.
LEMMA ServeRefreshFresh ==
  ASSUME TabsInv, NEW t \in Tabs, reused = {}, TabIsFresh(t), ServeRefresh(t)
  PROVE  reused' = {} /\ TabIsFresh(t)'
<1> DEFINE c == refresh[t].cookie
<1>1. /\ refresh[t] # None /\ Open(refresh[t])
      /\ c \in Credential \cup {None} /\ Known(c) /\ Fresh(c)
      /\ refresh \in [Tabs -> RequestRow \cup {None}]
      /\ SharedType
  BY HeldTyped DEF ServeRefresh, Open, TabIsFresh, CookieIsFresh, TabsInv, TabsType
<1>2. UNCHANGED <<cookie, signIn>>
  BY DEF ServeRefresh
<1>3. PICK a \in Answers :
        /\ refresh' = [refresh EXCEPT ![t].answer = a]
        /\ a.is # "lost"
        /\ a.is = "ok" =>
             /\ c # None /\ a.credential.session = c.session
             /\ a.credential.generation = sessions'[c.session].generation
        /\ \A s \in Sessions : (c # None => s # c.session) => sessions'[s] = sessions[s]
        /\ reused' = {}
  <2> DEFINE Answer(a) == refresh' = [refresh EXCEPT ![t].answer = a]
  <2>1. CASE Answer(ServerError) /\ UNCHANGED <<sessions, reused>>
    BY <2>1, AnswersTyped
  <2>2. CASE Answer(Refusal) /\ UNCHANGED <<sessions, reused>>
    BY <2>2, AnswersTyped
  <2>3. CASE /\ InForce(c) /\ Latest(c) /\ c.generation < MaxGeneration
             /\ Answer(Ok(Successor(c)))
             /\ sessions' = [sessions EXCEPT ![c.session].generation = @ + 1]
             /\ UNCHANGED reused
    <3>1. /\ c \in Credential /\ c.session \in Sessions /\ c.generation \in Generations
          /\ sessions[c.session] \in SessionRow /\ sessions[c.session] # None /\ c # None
      BY <1>1, <2>3, ServedSession DEF InForce
    <3>2. sessions[c.session].generation = c.generation
      BY <2>3, <3>1 DEF Latest
    <3>3. /\ sessions'[c.session] = [sessions[c.session] EXCEPT !.generation = @ + 1]
          /\ \A s \in Sessions : s # c.session => sessions'[s] = sessions[s]
      BY <1>1, <2>3, <3>1 DEF SharedType
    <3>4. sessions'[c.session].generation = c.generation + 1
      BY <3>1, <3>2, <3>3 DEF SessionRow
    <3>5. c.generation + 1 \in Generations
      BY <2>3, <3>1, BrowserAssumption DEF Generations
    <3>6. /\ Successor(c) \in Credential /\ Successor(c).session = c.session
          /\ Successor(c).generation = c.generation + 1
      BY <3>1, <3>5 DEF Successor, Credential
    <3> DEFINE a == Ok(Successor(c))
    <3>7. a \in Answers /\ a.credential = Successor(c) /\ a.is = "ok"
      BY <3>6, AnswersTyped
    <3>8. refresh' = [refresh EXCEPT ![t].answer = a]
      BY <2>3
    <3> HIDE DEF a
    <3>9. reused' = {}
      BY <2>3
    <3> QED BY <3>1, <3>3, <3>4, <3>6, <3>7, <3>8, <3>9
  <2>4. CASE InForce(c) /\ ~Latest(c)
    BY <1>1, <2>4 DEF Fresh
  <2> QED BY <2>1, <2>2, <2>3, <2>4 DEF ServeRefresh
<1>4. /\ refresh'[t] # None /\ refresh'[t].cookie = c /\ refresh'[t].answer = a
  BY <1>1, <1>3, Answering
<1>5. CookieIsFresh(t)'
  BY <1>4, AnswersTyped DEF CookieIsFresh, Open
<1>6. RefreshIsFresh(t)'
  <2>1. a # NetworkError
    BY <1>3, AnswersTyped
  <2>2. a.is = "ok" => Fresh(a.credential)'
    BY <1>3 DEF Fresh, InForce, Latest
  <2> QED BY <1>3, <1>4, <2>1, <2>2 DEF RefreshIsFresh, Fresh, InForce, Latest
<1>7. SignInIsFresh(t)'
  <2> SUFFICES ASSUME Done(signIn[t]), signIn[t].answer.is = "ok"
               PROVE  SignInIsFresh(t)'
    BY <1>2 DEF SignInIsFresh, Done
  <2>1. PICK x \in Credential : x = signIn[t].answer.credential
    BY HeldTyped
  <2>2. Fresh(x) /\ NotOf(cookie, x.session) /\ NotOf(c, x.session)
    BY <1>1, <2>1 DEF TabIsFresh, SignInIsFresh
  <2>3. x.session \in Sessions
    BY DEF Credential
  <2>4. sessions'[x.session] = sessions[x.session]
    BY <1>3, <2>2, <2>3 DEF NotOf
  <2>5. Fresh(x)'
    BY <2>2, <2>4, FreshStays
  <2>6. NotOf(cookie, x.session)' /\ NotOf(refresh[t].cookie, x.session)'
    BY <1>2, <1>4, <2>2 DEF NotOf
  <2> QED BY <1>2, <2>1, <2>5, <2>6 DEF SignInIsFresh, Fresh, InForce, Latest, NotOf
<1> QED BY <1>3, <1>5, <1>6, <1>7 DEF TabIsFresh

\* Sessions that are neither refreshed nor begun keep every credential fresh.
LEMMA FreshKept ==
  ASSUME TabsInv, NEW t \in Tabs, TabIsFresh(t),
         \A s \in Sessions : sessions[s] # None =>
           sessions'[s].revoked \/ sessions'[s] = sessions[s],
         UNCHANGED <<cookie, refresh>>
  PROVE  /\ CookieIsFresh(t)' /\ RefreshIsFresh(t)'
         /\ \A x \in Credential : Known(x) /\ Fresh(x) => Fresh(x)'
<1>1. \A x \in Credential \cup {None} : Known(x) /\ Fresh(x) => Fresh(x)'
  <2> TAKE x \in Credential \cup {None}
  <2>1. Known(x) /\ x # None => \/ sessions'[x.session].revoked
                               \/ sessions'[x.session] = sessions[x.session]
    BY DEF Known, Credential
  <2> QED BY <2>1, FreshStays
<1>2. CookieIsFresh(t)'
  <2>1. refresh[t] = None => Fresh(cookie)'
    <3>1. PICK x \in Credential \cup {None} : x = cookie /\ Known(x)
      BY HeldTyped
    <3>2. refresh[t] = None => Fresh(x)'
      BY <1>1, <3>1 DEF TabIsFresh, CookieIsFresh
    <3> QED BY <3>1, <3>2 DEF Fresh, InForce, Latest
  <2>2. Open(refresh[t]) => Fresh(refresh[t].cookie)'
    <3> SUFFICES ASSUME Open(refresh[t]) PROVE Fresh(refresh[t].cookie)'
      OBVIOUS
    <3>1. PICK x \in Credential \cup {None} : x = refresh[t].cookie /\ Known(x)
      BY HeldTyped DEF Open
    <3>2. Fresh(x)'
      BY <1>1, <3>1 DEF TabIsFresh, CookieIsFresh
    <3> QED BY <3>1, <3>2 DEF Fresh, InForce, Latest
  <2> QED BY <2>1, <2>2 DEF CookieIsFresh, Open
<1>3. RefreshIsFresh(t)'
  <2>1. CASE Done(refresh[t]) /\ refresh[t].answer.is = "ok"
    <3>1. PICK x \in Credential : x = refresh[t].answer.credential /\ Known(x)
      BY <2>1, HeldTyped
    <3>2. Fresh(x)'
      BY <1>1, <2>1, <3>1 DEF TabIsFresh, RefreshIsFresh
    <3>3. Fresh(refresh[t].answer.credential)'
      BY <3>1, <3>2 DEF Fresh, InForce, Latest
    <3> QED BY <3>3 DEF TabIsFresh, RefreshIsFresh, Done
  <2>2. CASE ~(Done(refresh[t]) /\ refresh[t].answer.is = "ok")
    BY <2>2 DEF TabIsFresh, RefreshIsFresh, Done
  <2> QED BY <2>1, <2>2
<1> QED BY <1>1, <1>2, <1>3

\* A sign-in begins a session nobody knows.
LEMMA ServeSignInFresh ==
  ASSUME TabsInv, NEW t \in Tabs, TabIsFresh(t), ServeSignIn(t)
  PROVE  TabIsFresh(t)'
<1>1. UNCHANGED <<cookie, refresh>> /\ signIn[t] # None /\ SharedType
      /\ signIn \in [Tabs -> RequestRow \cup {None}]
  BY DEF ServeSignIn, Open, TabsInv, TabsType
<1>2. \A s \in Sessions : sessions[s] # None => sessions'[s] = sessions[s]
  BY <1>1 DEF ServeSignIn, SharedType
<1>3. CookieIsFresh(t)' /\ RefreshIsFresh(t)'
  BY <1>1, <1>2, FreshKept
<1>4. SignInIsFresh(t)'
  <2>1. ASSUME NEW s \in Sessions, sessions[s] = None,
               sessions' = [sessions EXCEPT ![s] = NewSession],
               signIn' = [signIn EXCEPT ![t].answer = Ok(First(s))]
        PROVE  SignInIsFresh(t)'
    <3>0. /\ First(s) \in Credential
          /\ First(s).session = s
          /\ First(s).generation = 0
      BY BrowserAssumption DEF First, Credential, Generations
    <3>1. PICK x \in Credential : x = First(s) /\ x.session = s /\ x.generation = 0
      BY <3>0
    <3>2. PICK a \in Answers : a = Ok(First(s)) /\ a.credential = x
      BY <3>1, AnswersTyped
    <3>3. signIn'[t].answer = a
      <4>1. signIn' = [signIn EXCEPT ![t].answer = a]
        BY <2>1, <3>2
      <4> QED BY <1>1, <4>1, Answering
    <3>4. sessions'[s].generation = 0
      BY <1>1, <2>1 DEF SharedType, NewSession
    <3>5. Fresh(x)'
      BY <3>1, <3>4 DEF Fresh, InForce, Latest
    <3>6. NotOf(cookie, s)'
      BY <1>1, <2>1, HeldTyped DEF NotOf, Known
    <3>7. refresh[t] # None => NotOf(refresh[t].cookie, s)'
      BY <1>1, <2>1, HeldTyped DEF NotOf, Known
    <3> QED BY <1>1, <3>1, <3>2, <3>3, <3>5, <3>6, <3>7
            DEF SignInIsFresh, Fresh, InForce, Latest, NotOf
  <2>2. CASE signIn' = [signIn EXCEPT ![t].answer = Refusal] /\ UNCHANGED sessions
    <3>1. PICK a \in Answers : a = Refusal /\ a.is # "ok"
      BY AnswersTyped
    <3>2. signIn'[t].answer = a
      <4>1. signIn' = [signIn EXCEPT ![t].answer = a]
        BY <2>2, <3>1
      <4> QED BY <1>1, <4>1, Answering
    <3> QED BY <3>1, <3>2 DEF SignInIsFresh
  <2> QED BY <2>1, <2>2 DEF ServeSignIn
<1> QED BY <1>3, <1>4 DEF TabIsFresh

\* A sign-out ends a session; what is not in force is no reuse.
LEMMA ServeSignOutFresh ==
  ASSUME TabsInv, NEW t \in Tabs, TabIsFresh(t), ServeSignOut(t)
  PROVE  TabIsFresh(t)'
<1> DEFINE c == signOut[t].cookie
<1>1. UNCHANGED <<cookie, refresh, signIn>> /\ SharedType /\ TabsType /\ RequestsFit(t)
  BY DEF ServeSignOut, TabsInv
<1>2. c \in Credential \cup {None} /\ Known(c)
  BY <1>1, RowsTyped DEF RequestsFit, ServeSignOut, Open
<1>3. \A s \in Sessions : sessions[s] # None =>
        sessions'[s].revoked \/ sessions'[s] = sessions[s]
  <2> DEFINE x == [sessions[c.session] EXCEPT !.revoked = TRUE]
  <2>1. CASE InForce(c) /\ sessions' = [sessions EXCEPT ![c.session] = x]
    <3>1. c.session \in Sessions /\ sessions[c.session] \in SessionRow
      BY <1>1, <1>2, <2>1, ServedSession
    <3>2. sessions' = [sessions EXCEPT ![c.session] = x]
      BY <2>1
    <3>3. sessions'[c.session] = x
      BY <1>1, <3>1, <3>2 DEF SharedType
    <3>4. sessions'[c.session].revoked
      BY <3>1, <3>3 DEF SessionRow
    <3> QED BY <1>1, <3>2, <3>4 DEF SharedType
  <2>2. CASE UNCHANGED sessions
    BY <2>2
  <2> QED BY <2>1, <2>2 DEF ServeSignOut
<1>4. /\ CookieIsFresh(t)' /\ RefreshIsFresh(t)'
      /\ \A x \in Credential : Known(x) /\ Fresh(x) => Fresh(x)'
  BY <1>1, <1>3, FreshKept
<1>5. SignInIsFresh(t)'
  <2> SUFFICES ASSUME Done(signIn[t]), signIn[t].answer.is = "ok"
               PROVE  SignInIsFresh(t)'
    BY <1>1 DEF SignInIsFresh, Done
  <2>1. PICK x \in Credential : x = signIn[t].answer.credential /\ Known(x)
    BY HeldTyped
  <2>2. Fresh(x) /\ NotOf(cookie, x.session)
        /\ (refresh[t] # None => NotOf(refresh[t].cookie, x.session))
    BY <2>1 DEF TabIsFresh, SignInIsFresh
  <2>3. Fresh(x)'
    BY <1>4, <2>1, <2>2
  <2> QED BY <1>1, <2>1, <2>2, <2>3 DEF SignInIsFresh, Fresh, InForce, Latest, NotOf
<1> QED BY <1>4, <1>5 DEF TabIsFresh

\* The browser stores the successor, or nothing.
LEMMA RefreshAnsweredFresh ==
  ASSUME TabsInv, NEW t \in Tabs, TabIsFresh(t), RefreshAnswered(t)
  PROVE  TabIsFresh(t)'
<1>1. /\ Done(refresh[t]) /\ refresh[t] # None /\ UNCHANGED <<sessions, signIn>>
      /\ refresh'[t] = None
  BY DEF RefreshAnswered, Settled, Done, TabsInv, TabsType
<1>2. \/ /\ refresh[t].answer.is = "ok"
         /\ cookie' = refresh[t].answer.credential
      \/ cookie' = None
  BY <1>1 DEF RefreshAnswered, TabIsFresh, RefreshIsFresh
<1>3. CookieIsFresh(t)'
  BY <1>1, <1>2 DEF TabIsFresh, RefreshIsFresh, CookieIsFresh, Open, Fresh, InForce, Latest
<1>4. RefreshIsFresh(t)'
  BY <1>1 DEF RefreshIsFresh, Done
<1>5. SignInIsFresh(t)'
  <2>1. CASE cookie' = None
    BY <1>1, <2>1 DEF TabIsFresh, SignInIsFresh, Done, Fresh, InForce, Latest, NotOf
  <2>2. CASE /\ refresh[t].answer.is = "ok"
             /\ cookie' = refresh[t].answer.credential
    <3>1. /\ refresh[t].cookie # None
          /\ cookie'.session = refresh[t].cookie.session
      BY <1>1, <2>2 DEF TabIsFresh, RefreshIsFresh
    <3> QED BY <1>1, <3>1
            DEF TabIsFresh, SignInIsFresh, Done, Fresh, InForce, Latest, NotOf
  <2> QED BY <1>2, <2>1, <2>2
<1> QED BY <1>3, <1>4, <1>5 DEF TabIsFresh

\* The browser stores the credential of a new session.
LEMMA SignInAnsweredFresh ==
  ASSUME TabsInv, NEW t \in Tabs, TabIsFresh(t), SignInAnswered(t)
  PROVE  TabIsFresh(t)'
<1>1. /\ Done(signIn[t]) /\ UNCHANGED <<sessions, refresh>> /\ signIn'[t] = None
  BY DEF SignInAnswered, TabsInv, TabsType
<1>2. \/ signIn[t].answer.is = "ok" /\ cookie' = signIn[t].answer.credential
      \/ cookie' = cookie
  BY DEF SignInAnswered
<1>3. CookieIsFresh(t)'
  BY <1>1, <1>2 DEF TabIsFresh, CookieIsFresh, SignInIsFresh, Open, Fresh, InForce, Latest
<1>4. RefreshIsFresh(t)' /\ SignInIsFresh(t)'
  BY <1>1 DEF TabIsFresh, RefreshIsFresh, SignInIsFresh, Done, Fresh, InForce, Latest
<1> QED BY <1>3, <1>4 DEF TabIsFresh

\* A sign-in that was just sent has no answer.
LEMMA SignInFresh ==
  ASSUME TabsInv, NEW t \in Tabs, TabIsFresh(t), SignIn(t)
  PROVE  TabIsFresh(t)'
<1>1. UNCHANGED <<sessions, cookie, refresh>>
  BY DEF SignIn
<1>2. signIn'[t] = Request(None) /\ Request(None).answer = None
  BY RequestTyped DEF SignIn, TabsInv, TabsType
<1>3. SignInIsFresh(t)'
  BY <1>2 DEF SignInIsFresh, Done
<1> QED BY <1>1, <1>3 DEF TabIsFresh, CookieIsFresh, RefreshIsFresh, Open, Done, Fresh,
                          InForce, Latest

\* A sign-out takes the cookie away.
LEMMA SignOutAnsweredFresh ==
  ASSUME NEW t \in Tabs, TabIsFresh(t), SignOutAnswered(t)
  PROVE  TabIsFresh(t)'
<1>1. UNCHANGED <<sessions, refresh, signIn>> /\ cookie' \in {cookie, None}
  BY DEF SignOutAnswered
<1> QED BY <1>1 DEF TabIsFresh, CookieIsFresh, RefreshIsFresh, SignInIsFresh, Open, Done,
                    Fresh, InForce, Latest, NotOf

\* A refused call uses the refresh under way, or sends the cookie.
LEMMA FirstAnsweredFresh ==
  ASSUME TabsInv, NEW t \in Tabs, NEW k \in Slots, TabIsFresh(t), FirstAnswered(t, k)
  PROVE  TabIsFresh(t)'
<1>1. UNCHANGED <<sessions, cookie, signIn>>
  BY DEF FirstAnswered
<1>2. CASE refresh' = refresh
  BY <1>1, <1>2, FreshUntouched
<1>3. CASE refresh[t] = None /\ refresh'[t] = Request(cookie)
  <2>1. /\ Request(cookie) # None /\ Request(cookie).cookie = cookie
        /\ Request(cookie).answer = None
    BY RequestTyped, HeldTyped
  <2> QED BY <1>1, <1>3, <2>1
          DEF TabIsFresh, CookieIsFresh, RefreshIsFresh, SignInIsFresh, Open, Done,
              Fresh, InForce, Latest, NotOf
<1> QED BY <1>2, <1>3 DEF FirstAnswered, SharedRefresh, TabsInv, TabsType

\* No step of a tab harms it, without a loss.
LEMMA NextFresh ==
  ASSUME TabsInv, NothingReused, [Next]_vars
  PROVE  NothingReused'
<1> SUFFICES ASSUME OneTab, losses' = 0
             PROVE  reused' = {} /\ \A t \in Tabs : TabIsFresh(t)'
  BY DEF NothingReused, OneTab
<1>1. losses \in Nat
  BY DEF TabsInv, SharedType
<1>2. losses = 0
  <2>1. ASSUME NEW t \in Tabs, RequestLost(t) \/ \E k \in Slots : CallLost(t, k)
        PROVE  losses' = losses + 1
    BY <2>1 DEF RequestLost, CallLost, Lose
  <2>2. ASSUME NEW t \in Tabs, ServeRefresh(t) \/ RefreshAnswered(t) \/ SignIn(t)
                               \/ ServeSignIn(t) \/ SignInAnswered(t)
        PROVE  losses' = losses
    BY <2>2 DEF ServeRefresh, RefreshAnswered, SignIn, ServeSignIn, SignInAnswered
  <2>3. ASSUME NEW t \in Tabs, SignOut(t) \/ ServeSignOut(t) \/ SignOutAnswered(t)
        PROVE  losses' = losses
    BY <2>3 DEF SignOut, ServeSignOut, SignOutAnswered
  <2>4. ASSUME NEW t \in Tabs, NEW k \in Slots,
               Start(t, k) \/ ServeCall(t, k) \/ FirstAnswered(t, k) \/ SecondAnswered(t, k)
        PROVE  losses' = losses
    BY <2>4 DEF Start, ServeCall, FirstAnswered, SecondAnswered
  <2>5. ASSUME NEW x \in Credential, Expire(x)
        PROVE  losses' = losses
    BY <2>5 DEF Expire
  <2>6. Calls \subseteq Slots
    BY DEF Slots
  <2>7. losses' = losses \/ losses' = losses + 1
    BY <2>1, <2>2, <2>3, <2>4, <2>5, <2>6 DEF Next
  <2> QED BY <1>1, <2>7
<1>3. reused = {} /\ \A t \in Tabs : TabIsFresh(t)
  BY <1>2 DEF NothingReused
<1>4. ASSUME NEW t \in Tabs, reused' = {} /\ TabIsFresh(t)'
      PROVE  reused' = {} /\ \A u \in Tabs : TabIsFresh(u)'
  <2>1. ASSUME NEW u \in Tabs PROVE TabIsFresh(u)'
    <3>1. u = t
      BY DEF OneTab
    <3> QED BY <1>4, <3>1
  <2> QED BY <1>4, <2>1
<1>5. CASE UNCHANGED <<sessions, cookie, refresh, signIn, reused>>
  BY <1>3, <1>5, FreshUntouched
<1>6. ASSUME NEW t \in Tabs,
             \/ ServeRefresh(t) \/ RefreshAnswered(t) \/ SignIn(t) \/ ServeSignIn(t)
             \/ SignInAnswered(t) \/ ServeSignOut(t) \/ SignOutAnswered(t)
             \/ \E k \in Slots : FirstAnswered(t, k)
      PROVE  reused' = {} /\ TabIsFresh(t)'
  <2>1. CASE ServeRefresh(t)
    BY <1>3, <2>1, ServeRefreshFresh
  <2>2. CASE ~ServeRefresh(t)
    <3>1. reused' = reused
      BY <1>6, <2>2 DEF RefreshAnswered, SignIn, ServeSignIn, SignInAnswered, ServeSignOut,
                        SignOutAnswered, FirstAnswered
    <3> QED BY <1>3, <1>6, <2>2, <3>1, RefreshAnsweredFresh, SignInFresh, ServeSignInFresh,
               SignInAnsweredFresh, ServeSignOutFresh, SignOutAnsweredFresh, FirstAnsweredFresh
  <2> QED BY <2>1, <2>2
<1>7. ASSUME NEW t \in Tabs,
             \/ SignOut(t)
             \/ \E k \in Calls : Start(t, k)
             \/ \E k \in Slots : ServeCall(t, k) \/ SecondAnswered(t, k)
      PROVE  UNCHANGED <<sessions, cookie, refresh, signIn, reused>>
  BY <1>7 DEF SignOut, Start, ServeCall, SecondAnswered
<1>8. ASSUME NEW x \in Credential, Expire(x)
      PROVE  UNCHANGED <<sessions, cookie, refresh, signIn, reused>>
  BY <1>8 DEF Expire
<1>9. ASSUME NEW t \in Tabs, RequestLost(t) \/ \E k \in Slots : CallLost(t, k)
      PROVE  FALSE
  BY <1>1, <1>9 DEF RequestLost, CallLost, Lose
<1> QED BY <1>4, <1>5, <1>6, <1>7, <1>8, <1>9 DEF Next

\* A browser begins with a cookie that was never used.
LEMMA InitFresh ==
  ASSUME Init
  PROVE  NothingReused
<1> SUFFICES reused = {} /\ \A t \in Tabs : TabIsFresh(t)
  BY DEF NothingReused
<1>1. TabsInv
  BY InitTabs
<1>2. Fresh(cookie)
  BY BrowserAssumption DEF Init, Fresh, Latest, InForce, First, NewSession
<1>3. \A t \in Tabs : refresh[t] = Request(cookie) /\ signIn[t] = None
  BY DEF Init
<1>4. /\ Request(cookie) # None /\ Request(cookie).cookie = cookie
      /\ Request(cookie).answer = None
  BY <1>1, RequestTyped DEF TabsInv, SharedType
<1> QED BY <1>2, <1>3, <1>4
        DEF Init, TabIsFresh, CookieIsFresh, RefreshIsFresh, SignInIsFresh, Open, Done

-----------------------------------------------------------------------------
(***************************************************************************)
(* One tab: what it asks for, it asks for as the user it shows.            *)
(***************************************************************************)

\* Nothing of what counts is touched.
LEMMA UserUntouched ==
  ASSUME NEW t \in Tabs, TabIsOneUsers(t),
         UNCHANGED <<cookie, ui, identity, token, refresh, signIn, call>>
  PROVE  TabIsOneUsers(t)'
  BY DEF TabIsOneUsers, SignsInAlone, IdentityFirst, HasOneUser, Showing, OneUser, Belongs

\* A refresh stays with the session it was sent for.
LEMMA RefreshContinues ==
  ASSUME TabsInv, NEW t \in Tabs, ServeRefresh(t)
  PROVE  /\ refresh[t] # None /\ refresh'[t] # None
         /\ refresh'[t].cookie = refresh[t].cookie
         /\ refresh'[t].answer # None /\ refresh'[t].answer.is = "ok" =>
              /\ refresh[t].cookie # None
              /\ refresh'[t].answer.credential.session = refresh[t].cookie.session
<1> DEFINE c == refresh[t].cookie
<1>1. /\ refresh[t] # None /\ c \in Credential \cup {None} /\ Known(c)
      /\ refresh \in [Tabs -> RequestRow \cup {None}] /\ SharedType
  BY HeldTyped DEF ServeRefresh, Open, TabsInv, TabsType
<1>2. PICK a \in Answers :
        /\ refresh' = [refresh EXCEPT ![t].answer = a]
        /\ a.is = "ok" => c # None /\ a.credential.session = c.session
  <2> DEFINE Answer(a) == refresh' = [refresh EXCEPT ![t].answer = a]
  <2>1. CASE Answer(ServerError)
    BY <2>1, AnswersTyped
  <2>2. CASE Answer(Refusal)
    BY <2>2, AnswersTyped
  <2>3. CASE /\ InForce(c) /\ c.generation < MaxGeneration
             /\ Answer(Ok(Successor(c)))
    <3>1. c \in Credential /\ c.generation \in Generations /\ c # None
      BY <1>1, <2>3, ServedSession DEF InForce
    <3>2. c.generation + 1 \in Generations
      BY <2>3, <3>1, BrowserAssumption DEF Generations
    <3>3. Successor(c) \in Credential /\ Successor(c).session = c.session
      BY <3>1, <3>2 DEF Successor, Credential
    <3> DEFINE a == Ok(Successor(c))
    <3>4. a \in Answers /\ a.credential = Successor(c)
      BY <3>3, AnswersTyped
    <3>5. refresh' = [refresh EXCEPT ![t].answer = a]
      BY <2>3
    <3> HIDE DEF a
    <3> QED BY <3>1, <3>3, <3>4, <3>5
  <2> QED BY <2>1, <2>2, <2>3 DEF ServeRefresh
<1>3. /\ refresh'[t] # None /\ refresh'[t].cookie = c /\ refresh'[t].answer = a
  BY <1>1, <1>2, Answering
<1> QED BY <1>1, <1>2, <1>3

\* The API answers a refresh for the same user.
LEMMA ServeRefreshUser ==
  ASSUME TabsInv, NEW t \in Tabs, TabIsOneUsers(t), ServeRefresh(t)
  PROVE  TabIsOneUsers(t)'
<1>1. UNCHANGED <<cookie, ui, identity, token, signIn, call>>
  BY DEF ServeRefresh
<1>2. SignsInAlone(t)' /\ IdentityFirst(t)'
  BY <1>1, RefreshContinues DEF TabIsOneUsers, SignsInAlone, IdentityFirst
<1>3. ASSUME NEW s, OneUser(t, s) PROVE OneUser(t, s)'
  BY <1>1, <1>3, RefreshContinues DEF OneUser, Belongs
<1> QED BY <1>1, <1>2, <1>3 DEF TabIsOneUsers, HasOneUser, Showing

\* Those who waited go on with a token of the same user.
LEMMA ResumeUser ==
  ASSUME TabsInv, NEW t \in Tabs, NEW new \in Credential, Resume(t, new)
  PROVE  /\ \A k \in Slots : call'[t][k] # None =>
              \/ call[t][k] # None
              \/ k = Identity /\ ui[t] = "restoring"
         /\ \A k \in Slots : call'[t][k] # None =>
              \/ call'[t][k].token = new
              \/ call[t][k] # None /\ call'[t][k].token = call[t][k].token
<1> DEFINE F == [k \in Slots |->
                   CASE k \in Waiting(t) -> Sending("second", new, call[t][k].executed)
                     [] k = Identity /\ ui[t] = "restoring" /\ call[t][k] = None ->
                          Sending("first", new, 0)
                     [] OTHER -> call[t][k]]
<1>0. call \in [Tabs -> [Slots -> CallRow \cup {None}]]
  BY DEF TabsInv, TabsType
<1>1. call'[t] = F
  BY <1>0 DEF Resume
<1>2. ASSUME NEW k \in Slots, F[k] # None
      PROVE  /\ call[t][k] # None \/ (k = Identity /\ ui[t] = "restoring")
             /\ F[k].token = new \/ (call[t][k] # None /\ F[k].token = call[t][k].token)
  <2>1. CASE k \in Waiting(t)
    <3>1. F[k] = Sending("second", new, call[t][k].executed)
      BY <2>1 DEF Waiting
    <3>2. F[k].token = new
      BY <3>1 DEF Sending
    <3> QED BY <2>1, <3>2 DEF Waiting
  <2>2. CASE k \notin Waiting(t) /\ k = Identity /\ ui[t] = "restoring" /\ call[t][k] = None
    <3>1. F[k] = Sending("first", new, 0)
      BY <2>2
    <3>2. F[k].token = new
      BY <3>1 DEF Sending
    <3> QED BY <2>2, <3>2
  <2>3. CASE /\ k \notin Waiting(t)
             /\ ~(k = Identity /\ ui[t] = "restoring" /\ call[t][k] = None)
    <3>1. F[k] = call[t][k]
      BY <2>3
    <3> QED BY <1>2, <3>1
  <2> QED BY <2>1, <2>2, <2>3
<1> HIDE DEF F
<1> QED BY <1>1, <1>2

\* The refresh ends with a token and a cookie of the same user, or with neither.
LEMMA RefreshAnsweredUser ==
  ASSUME TabsInv, NEW t \in Tabs, TabIsOneUsers(t), RefreshAnswered(t)
  PROVE  TabIsOneUsers(t)'
<1> DEFINE a == refresh[t].answer
<1>1. /\ Done(refresh[t]) /\ refresh[t] # None /\ signIn[t] = None
      /\ refresh'[t] = None /\ UNCHANGED signIn
      /\ token \in [Tabs -> Credential \cup {None}]
      /\ ui \in [Tabs -> {"restoring", "signedOut", "signingIn", "signedIn"}]
      /\ identity \in [Tabs -> Sessions \cup {None}]
      /\ call \in [Tabs -> [Slots -> CallRow \cup {None}]]
  BY DEF RefreshAnswered, Settled, Done, TabsInv, TabsType, TabIsOneUsers, SignsInAlone
<1>2. SignsInAlone(t)'
  BY <1>1 DEF SignsInAlone
<1>3. Identity \in Slots /\ Calls \subseteq Slots /\ Identity \notin Calls
  BY BrowserAssumption DEF Slots
<1>4. CASE /\ a.is = "ok"
           /\ cookie' = a.credential
           /\ token' = [token EXCEPT ![t] = a.credential]
           /\ Resume(t, a.credential)
           /\ UNCHANGED screen
  <2>1. PICK x \in Credential : x = a.credential
    BY <1>1, <1>4, HeldTyped
  <2>2. /\ \A k \in Slots : call'[t][k] # None =>
             \/ call[t][k] # None
             \/ k = Identity /\ ui[t] = "restoring"
        /\ \A k \in Slots : call'[t][k] # None =>
             \/ call'[t][k].token = x
             \/ call[t][k] # None /\ call'[t][k].token = call[t][k].token
    BY <1>4, <2>1, ResumeUser
  <2>3. IdentityFirst(t)'
    BY <1>1, <1>3, <1>4, <2>2 DEF TabIsOneUsers, IdentityFirst
  <2>4. ASSUME NEW s, OneUser(t, s) PROVE OneUser(t, s)'
    <3>1. Belongs(x, s)
      BY <1>1, <1>4, <2>1, <2>4 DEF OneUser, Done
    <3>2. cookie' = x /\ token'[t] = x
      BY <1>1, <1>4, <2>1
    <3> QED BY <1>1, <1>4, <2>2, <2>4, <3>1, <3>2 DEF OneUser, Belongs
  <2>5. HasOneUser(t)'
    BY <1>1, <1>4, <2>4 DEF TabIsOneUsers, HasOneUser, Showing
  <2> QED BY <1>2, <2>3, <2>5 DEF TabIsOneUsers
<1>5. CASE /\ cookie' = IF a = NetworkError THEN cookie ELSE None
           /\ token' = [token EXCEPT ![t] = None]
           /\ GiveUp(t)
           /\ ShowForm(t, "signedOut") \/ UNCHANGED screen
  <2>1. \A k \in Slots : call'[t][k] = IF k \in Waiting(t) THEN None ELSE call[t][k]
    BY <1>1, <1>5 DEF GiveUp
  <2>2. call'[t][Identity] = None
    BY <1>1, <1>3, <2>1 DEF TabIsOneUsers, IdentityFirst, Waiting
  <2>3. ui'[t] \in {ui[t], "signedOut"}
    BY <1>1, <1>5 DEF ShowForm
  <2>4. IdentityFirst(t)'
    BY <1>1, <1>3, <2>1, <2>2, <2>3 DEF TabIsOneUsers, IdentityFirst
  <2>5. ASSUME NEW s, OneUser(t, s), UNCHANGED screen PROVE OneUser(t, s)'
    <3>1. token'[t] = None /\ cookie' \in {cookie, None}
      BY <1>1, <1>5
    <3> QED BY <1>1, <2>1, <2>5, <3>1 DEF OneUser, Belongs
  <2>6. HasOneUser(t)'
    <3>1. CASE UNCHANGED screen
      BY <1>1, <2>5, <3>1 DEF TabIsOneUsers, HasOneUser, Showing
    <3>2. CASE ShowForm(t, "signedOut")
      BY <1>1, <3>2 DEF ShowForm, HasOneUser, Showing
    <3> QED BY <1>5, <3>1, <3>2
  <2> QED BY <1>2, <2>4, <2>6 DEF TabIsOneUsers
<1> QED BY <1>4, <1>5 DEF RefreshAnswered

\* A sign-in that overtakes nothing is alone.
LEMMA SignInUser ==
  ASSUME TabsInv, NEW t \in Tabs, t \notin crossed', SignIn(t)
  PROVE  TabIsOneUsers(t)'
<1>1. refresh[t] = None /\ \A k \in Slots : call[t][k] = None
  BY DEF SignIn, Busy
<1>2. UNCHANGED <<refresh, call>>
  BY DEF SignIn
<1>3. ui'[t] = "signingIn" /\ signIn'[t] = Request(None) /\ Request(None) # None
  BY RequestTyped DEF SignIn, ShowForm, TabsInv, TabsType
<1> QED BY <1>1, <1>2, <1>3
        DEF TabIsOneUsers, SignsInAlone, IdentityFirst, HasOneUser, Showing, Slots

\* While a sign-in is under way nobody is shown, whatever becomes of it.
LEMMA SigningInUser ==
  ASSUME NEW t \in Tabs, TabIsOneUsers(t), signIn[t] # None, signIn'[t] # None,
         UNCHANGED <<ui, refresh, call>>
  PROVE  TabIsOneUsers(t)'
  BY DEF TabIsOneUsers, SignsInAlone, IdentityFirst, HasOneUser, Showing

\* The API answers a sign-in.
LEMMA ServeSignInUser ==
  ASSUME TabsInv, NEW t \in Tabs, TabIsOneUsers(t), ServeSignIn(t)
  PROVE  TabIsOneUsers(t)'
<1>1. /\ signIn[t] # None /\ signIn \in [Tabs -> RequestRow \cup {None}]
      /\ UNCHANGED <<ui, refresh, call>>
  BY DEF ServeSignIn, Open, TabsInv, TabsType
<1>2. PICK a \in Answers : signIn' = [signIn EXCEPT ![t].answer = a]
  <2>1. \A s \in Sessions : Ok(First(s)) \in Answers
    <3>1. \A s \in Sessions : First(s) \in Credential
      BY BrowserAssumption DEF First, Credential, Generations
    <3> QED BY <3>1, AnswersTyped
  <2> QED BY <2>1, AnswersTyped DEF ServeSignIn
<1>3. signIn'[t] # None
  BY <1>1, <1>2, Answering
<1> QED BY <1>1, <1>3, SigningInUser

\* The token and the cookie of a new session are all that a tab has.
LEMMA SignInAnsweredUser ==
  ASSUME TabsInv, NEW t \in Tabs, TabIsOneUsers(t), SignInAnswered(t)
  PROVE  TabIsOneUsers(t)'
<1> DEFINE a == signIn[t].answer
<1>1. /\ Done(signIn[t]) /\ signIn[t] # None /\ signIn'[t] = None /\ UNCHANGED refresh
      /\ TabsType
  BY DEF SignInAnswered, Done, TabsInv, TabsType
<1>2. ui[t] = "signingIn" /\ refresh[t] = None /\ \A k \in Slots : call[t][k] = None
  BY <1>1 DEF TabIsOneUsers, SignsInAlone
<1>3. identity[t] = None
  BY <1>2 DEF TabsInv, ScreenFits
<1>4. Identity \in Slots /\ Calls \subseteq Slots /\ Identity \notin Calls
  BY BrowserAssumption DEF Slots
<1>5. SignsInAlone(t)'
  BY <1>1 DEF SignsInAlone
<1>6. CASE /\ a.is = "ok"
           /\ cookie' = a.credential
           /\ token' = [token EXCEPT ![t] = a.credential]
           /\ call' = [call EXCEPT ![t][Identity] = Sending("first", a.credential, 0)]
           /\ UNCHANGED screen
  <2>1. PICK x \in Credential : x = a.credential
    BY <1>1, <1>6, HeldTyped
  <2>2. PICK r \in CallRow : r = Sending("first", x, 0) /\ r.token = x
    BY SendingTyped
  <2>3. /\ call'[t][Identity] = r
        /\ \A k \in Slots : k # Identity => call'[t][k] = None
    <3>1. call' = [call EXCEPT ![t][Identity] = r]
      BY <1>6, <2>1, <2>2
    <3> QED BY <1>1, <1>2, <1>4, <3>1 DEF TabsType
  <2>4. IdentityFirst(t)'
    BY <1>1, <1>2, <1>4, <1>6, <2>3 DEF IdentityFirst
  <2>5. cookie' = x /\ token'[t] = x
    BY <1>1, <1>6, <2>1 DEF TabsType
  <2>6. OneUser(t, x.session)'
    BY <1>1, <1>2, <1>3, <1>6, <2>2, <2>3, <2>5 DEF OneUser, Belongs
  <2>7. x.session \in Sessions
    BY DEF Credential
  <2> QED BY <1>5, <2>4, <2>6, <2>7 DEF TabIsOneUsers, HasOneUser
<1>7. CASE ShowForm(t, "signedOut") /\ UNCHANGED <<cookie, call>>
  <2>1. ui'[t] = "signedOut"
    BY <1>1, <1>7 DEF ShowForm, TabsType
  <2> QED BY <1>1, <1>2, <1>4, <1>5, <1>7, <2>1
          DEF TabIsOneUsers, IdentityFirst, HasOneUser, Showing
<1> QED BY <1>6, <1>7 DEF SignInAnswered

\* Nobody is shown after a sign-out.
LEMMA SignOutUser ==
  ASSUME TabsInv, NEW t \in Tabs, TabIsOneUsers(t), SignOut(t)
  PROVE  TabIsOneUsers(t)'
<1>1. /\ ui[t] = "signedIn" /\ ui'[t] = "signedOut"
      /\ UNCHANGED <<refresh, signIn, call>>
  BY DEF SignOut, ShowForm, TabsInv, TabsType
<1> QED BY <1>1 DEF TabIsOneUsers, SignsInAlone, IdentityFirst, HasOneUser, Showing

\* A sign-out takes the cookie away.
LEMMA SignOutAnsweredUser ==
  ASSUME NEW t \in Tabs, TabIsOneUsers(t), SignOutAnswered(t)
  PROVE  TabIsOneUsers(t)'
<1>1. /\ cookie' \in {cookie, None}
      /\ UNCHANGED <<ui, identity, token, refresh, signIn, call>>
  BY DEF SignOutAnswered
<1>2. ASSUME NEW s, OneUser(t, s) PROVE OneUser(t, s)'
  BY <1>1, <1>2 DEF OneUser, Belongs
<1> QED BY <1>1, <1>2 DEF TabIsOneUsers, SignsInAlone, IdentityFirst, HasOneUser, Showing

\* A loss brings nothing.
LEMMA RequestLostUser ==
  ASSUME TabsInv, NEW t \in Tabs, TabIsOneUsers(t), RequestLost(t)
  PROVE  TabIsOneUsers(t)'
<1>1. UNCHANGED <<cookie, ui, identity, token, call>>
  BY DEF RequestLost
<1>2. /\ refresh \in [Tabs -> RequestRow \cup {None}]
      /\ signIn \in [Tabs -> RequestRow \cup {None}]
  BY DEF TabsInv, TabsType
<1>3. PICK e \in Answers : e = NetworkError /\ e.is # "ok"
  BY AnswersTyped
<1>4. CASE /\ refresh[t] # None
           /\ refresh' = [refresh EXCEPT ![t].answer = NetworkError]
           /\ UNCHANGED signIn
  <2>0. refresh[t] # None /\ refresh' = [refresh EXCEPT ![t].answer = e]
    BY <1>3, <1>4
  <2>1. /\ refresh'[t] # None /\ refresh'[t].cookie = refresh[t].cookie
        /\ refresh'[t].answer = e
    BY <1>2, <2>0, Answering
  <2>2. SignsInAlone(t)' /\ IdentityFirst(t)'
    BY <1>1, <1>4, <2>1 DEF TabIsOneUsers, SignsInAlone, IdentityFirst
  <2>3. ASSUME NEW s, OneUser(t, s) PROVE OneUser(t, s)'
    BY <1>1, <1>3, <1>4, <2>1, <2>3 DEF OneUser, Belongs
  <2> QED BY <1>1, <1>4, <2>2, <2>3 DEF TabIsOneUsers, HasOneUser, Showing
<1>5. CASE /\ signIn[t] # None
           /\ signIn' = [signIn EXCEPT ![t].answer = NetworkError]
           /\ UNCHANGED refresh
  <2>0. signIn[t] # None /\ signIn' = [signIn EXCEPT ![t].answer = e]
    BY <1>3, <1>5
  <2>1. signIn'[t] # None
    BY <1>2, <2>0, Answering
  <2> QED BY <1>1, <1>5, <2>1, SigningInUser
<1>6. CASE UNCHANGED <<refresh, signIn>>
  BY <1>1, <1>6, UserUntouched
<1> QED BY <1>4, <1>5, <1>6 DEF RequestLost

\* A call changes its answer only.
LEMMA CallAnswerUser ==
  ASSUME TabsInv, NEW t \in Tabs, NEW k \in Slots, TabIsOneUsers(t),
         call[t][k] # None, NEW g \in CallRow,
         g.step = call[t][k].step, g.token = call[t][k].token,
         call' = [call EXCEPT ![t][k] = g],
         UNCHANGED <<cookie, ui, identity, token, refresh, signIn>>
  PROVE  TabIsOneUsers(t)'
<1>1. call \in [Tabs -> [Slots -> CallRow \cup {None}]] /\ g # None
  BY BrowserAssumption DEF TabsInv, TabsType
<1>2. call'[t][k] = g /\ \A j \in Slots : j # k => call'[t][j] = call[t][j]
  BY <1>1
<1>3. SignsInAlone(t)'
  BY <1>2 DEF TabIsOneUsers, SignsInAlone
<1>4. IdentityFirst(t)'
  BY <1>1, <1>2 DEF TabIsOneUsers, IdentityFirst, Slots
<1>5. ASSUME NEW s, OneUser(t, s) PROVE OneUser(t, s)'
  BY <1>1, <1>2, <1>5 DEF OneUser, Belongs
<1> QED BY <1>3, <1>4, <1>5 DEF TabIsOneUsers, HasOneUser, Showing

\* A page asks with the token of the tab.
LEMMA StartUser ==
  ASSUME TabsInv, NEW t \in Tabs, NEW k \in Calls, TabIsOneUsers(t), Start(t, k)
  PROVE  TabIsOneUsers(t)'
<1>1. /\ ui[t] = "signedIn" /\ call[t][k] = None
      /\ UNCHANGED <<cookie, ui, identity, token, refresh, signIn>>
      /\ k \in Slots /\ k # Identity
      /\ call \in [Tabs -> [Slots -> CallRow \cup {None}]]
      /\ token[t] \in Credential \cup {None}
  BY BrowserAssumption DEF Start, PagesShown, Slots, TabsInv, TabsType
<1>2. PICK r \in CallRow : r = Sending("first", token[t], 0) /\ r.token = token[t]
  BY <1>1, SendingTyped
<1>3. call'[t][k] = r /\ \A j \in Slots : j # k => call'[t][j] = call[t][j]
  <2>1. call' = [call EXCEPT ![t][k] = r]
    BY <1>2 DEF Start
  <2> QED BY <1>1, <2>1
<1>4. SignsInAlone(t)'
  BY <1>1 DEF TabIsOneUsers, SignsInAlone
<1>5. IdentityFirst(t)'
  BY <1>1, <1>3 DEF TabIsOneUsers, IdentityFirst, Slots
<1>6. ASSUME NEW s, OneUser(t, s) PROVE OneUser(t, s)'
  BY <1>1, <1>2, <1>3, <1>6 DEF OneUser, Belongs
<1> QED BY <1>1, <1>4, <1>5, <1>6 DEF TabIsOneUsers, HasOneUser, Showing

\* The API answers a call.
LEMMA ServeCallUser ==
  ASSUME TabsInv, NEW t \in Tabs, NEW k \in Slots, TabIsOneUsers(t), ServeCall(t, k)
  PROVE  TabIsOneUsers(t)'
<1>1. call[t][k] # None /\ call[t][k].answer = None /\ call[t][k].step # "waiting"
  BY DEF ServeCall, Open
<1>2. PICK r \in CallRow : r = call[t][k] /\ CallFits(r)
  BY <1>1, CallFound
<1>3. PICK g \in Handled(r) : call' = [call EXCEPT ![t][k] = g]
  BY <1>2 DEF ServeCall
<1>4. g \in CallRow /\ g.step = r.step /\ g.token = r.token
  BY <1>1, <1>2, <1>3, CallHandled
<1>5. UNCHANGED <<cookie, ui, identity, token, refresh, signIn>>
  BY DEF ServeCall
<1> QED BY <1>1, <1>2, <1>3, <1>4, <1>5, CallAnswerUser

\* A call or its answer gets lost.
LEMMA CallLostUser ==
  ASSUME TabsInv, NEW t \in Tabs, NEW k \in Slots, TabIsOneUsers(t), CallLost(t, k)
  PROVE  TabIsOneUsers(t)'
<1>1. PICK r \in CallRow : r = call[t][k] /\ r # None
  BY CallFound DEF CallLost
<1>2. PICK a \in Answers : a = NetworkError
  BY AnswersTyped
<1> DEFINE g == [r EXCEPT !.answer = a]
<1>3. g \in CallRow /\ g.step = r.step /\ g.token = r.token
  BY DEF CallRow
<1>4. call' = [call EXCEPT ![t][k] = g]
  BY <1>1, <1>2 DEF CallLost
<1>5. UNCHANGED <<cookie, ui, identity, token, refresh, signIn>>
  BY DEF CallLost
<1> HIDE DEF g
<1> QED BY <1>1, <1>3, <1>4, <1>5, CallAnswerUser

\* A call ends: the identity is that of its token, a page may lose the user.
LEMMA CallEndsUser ==
  ASSUME TabsInv, NEW t \in Tabs, NEW k \in Slots, TabIsOneUsers(t),
         Done(call[t][k]), call[t][k].step # "waiting",
         call' = [call EXCEPT ![t][k] = None],
         Outcome(t, k, call[t][k].answer),
         UNCHANGED <<cookie, refresh, signIn>>
  PROVE  TabIsOneUsers(t)'
<1>1. /\ call[t][k] # None /\ TabsType
      /\ Identity \in Slots /\ Calls \subseteq Slots /\ Identity \notin Calls
      /\ k # Identity => k \in Calls
  BY BrowserAssumption DEF Done, Slots, TabsInv
<1>2. call'[t][k] = None /\ \A j \in Slots : j # k => call'[t][j] = call[t][j]
  BY <1>1 DEF TabsType
<1>3. signIn[t] = None
  BY <1>1 DEF TabIsOneUsers, SignsInAlone
<1>4. SignsInAlone(t)'
  BY <1>3 DEF SignsInAlone
<1>5. PICK a \in Answers : a = call[t][k].answer
  BY CallFound DEF Done
<1>6. CASE k = Identity /\ a.is = "ok"
  <2>1. ui'[t] = "signedIn" /\ identity'[t] = call[t][k].token.session /\ UNCHANGED token
    BY <1>1, <1>5, <1>6 DEF Outcome, TabsType
  <2>2. ui[t] \in {"restoring", "signingIn"}
    BY <1>1, <1>6 DEF TabIsOneUsers, IdentityFirst
  <2>3. IdentityFirst(t)'
    BY <1>1, <1>2, <1>6, <2>1 DEF IdentityFirst
  <2>4. PICK s \in Sessions \cup {None} : OneUser(t, s)
    BY <1>3, <2>2 DEF TabIsOneUsers, HasOneUser, Showing
  <2>5. call[t][k].token # None
    <3>1. call[t][k] \in CallRow /\ CallFits(call[t][k])
      BY <1>1, CallFound
    <3> QED BY <1>1, <1>5, <1>6, <3>1 DEF CallFits
  <2>6. identity'[t] = s
    BY <1>1, <2>1, <2>4, <2>5 DEF OneUser, Belongs
  <2>7. OneUser(t, s)'
    BY <1>2, <2>1, <2>4, <2>6 DEF OneUser, Belongs
  <2> QED BY <1>4, <2>3, <2>4, <2>7 DEF TabIsOneUsers, HasOneUser
<1>7. CASE k = Identity /\ a.is # "ok"
  <2>1. ui'[t] = "signedOut"
    BY <1>1, <1>5, <1>7 DEF Outcome, ShowForm, TabsType
  <2>2. IdentityFirst(t)'
    BY <1>1, <1>2, <1>7, <2>1 DEF IdentityFirst
  <2> QED BY <1>4, <2>1, <2>2 DEF TabIsOneUsers, HasOneUser, Showing
<1>8. CASE k # Identity
  <2>1. ui[t] \in {"signedIn", "signedOut"} /\ call[t][Identity] = None
    BY <1>1, <1>8 DEF TabIsOneUsers, IdentityFirst
  <2>2. \/ UNCHANGED screen
        \/ ui'[t] = "signedOut"
    BY <1>1, <1>5, <1>8 DEF Outcome, ShowForm, TabsType
  <2>3. token'[t] \in {token[t], None}
    BY <1>1, <1>5, <1>8 DEF Outcome, TabsType
  <2>4. IdentityFirst(t)'
    BY <1>1, <1>2, <1>8, <2>1, <2>2 DEF IdentityFirst
  <2>5. ASSUME NEW s, OneUser(t, s), UNCHANGED screen PROVE OneUser(t, s)'
    BY <1>2, <2>3, <2>5 DEF OneUser, Belongs
  <2>6. HasOneUser(t)'
    BY <2>2, <2>5 DEF TabIsOneUsers, HasOneUser, Showing
  <2> QED BY <1>4, <2>4, <2>6 DEF TabIsOneUsers
<1> QED BY <1>6, <1>7, <1>8

\* A refused call waits, for a refresh with the cookie of the user shown.
LEMMA CallWaitsUser ==
  ASSUME TabsInv, NEW t \in Tabs, NEW k \in Slots, TabIsOneUsers(t),
         Done(call[t][k]), Retries(call[t][k].answer),
         call' = [call EXCEPT ![t][k] = [@ EXCEPT !.step = "waiting", !.answer = None]],
         SharedRefresh(t),
         UNCHANGED <<cookie, ui, identity, token, signIn>>
  PROVE  TabIsOneUsers(t)'
<1>1. /\ call[t][k] # None /\ TabsType
      /\ Identity \in Slots /\ Calls \subseteq Slots /\ Identity \notin Calls
      /\ k # Identity => k \in Calls
  BY BrowserAssumption DEF Done, Slots, TabsInv
<1>2. PICK r \in CallRow : r = call[t][k] /\ CallFits(r)
  BY <1>1, CallFound
<1>3. PICK g \in CallRow : /\ g # None /\ g.step = "waiting" /\ g.token = r.token
                           /\ call' = [call EXCEPT ![t][k] = g]
  <2> DEFINE g == [r EXCEPT !.step = "waiting", !.answer = None]
  <2>1. g \in CallRow /\ g # None /\ g.step = "waiting" /\ g.token = r.token
    BY <1>2, CallWaits DEF Done, Retries
  <2>2. call' = [call EXCEPT ![t][k] = g]
    BY <1>2
  <2> HIDE DEF g
  <2> QED BY <2>1, <2>2
<1>4. call'[t][k] = g /\ \A j \in Slots : j # k => call'[t][j] = call[t][j]
  <2>1. call \in [Tabs -> [Slots -> CallRow \cup {None}]]
    BY <1>1 DEF TabsType
  <2>2. PICK f : f = [call EXCEPT ![t][k] = g]
    OBVIOUS
  <2>3. f[t][k] = g /\ \A j \in Slots : j # k => f[t][j] = call[t][j]
    BY <2>1, <2>2
  <2> QED BY <1>3, <2>2, <2>3
<1>5. signIn[t] = None
  BY <1>1 DEF TabIsOneUsers, SignsInAlone
<1>6. SignsInAlone(t)'
  BY <1>5 DEF SignsInAlone
<1>7. IdentityFirst(t)'
  <2>1. CASE k = Identity
    BY <1>1, <1>3, <1>4, <2>1 DEF TabIsOneUsers, IdentityFirst
  <2>2. CASE k # Identity
    BY <1>1, <1>3, <1>4, <2>2 DEF TabIsOneUsers, IdentityFirst
  <2> QED BY <2>1, <2>2
<1>8. PICK q \in RequestRow : q = Request(cookie) /\ q.cookie = cookie /\ q.answer = None
  BY HeldTyped, RequestTyped
<1>9. refresh'[t] = refresh[t] \/ refresh'[t] = q
  BY <1>1, <1>8 DEF SharedRefresh, TabsType
<1>10. ASSUME NEW s, OneUser(t, s) PROVE OneUser(t, s)'
  BY <1>1, <1>2, <1>3, <1>4, <1>8, <1>9, <1>10 DEF OneUser, Belongs
<1> QED BY <1>6, <1>7, <1>10 DEF TabIsOneUsers, HasOneUser, Showing

\* The tab is opened with the cookie of one user, or with none.
LEMMA InitUser ==
  ASSUME Init, NEW t \in Tabs
  PROVE  TabIsOneUsers(t)
<1>1. TabsInv
  BY InitTabs
<1>2. /\ refresh[t] = Request(cookie) /\ Request(cookie) # None
      /\ Request(cookie).cookie = cookie /\ Request(cookie).answer = None
  BY <1>1, RequestTyped DEF Init, TabsInv, SharedType
<1>3. /\ ui[t] = "restoring" /\ identity[t] = None /\ token[t] = None /\ signIn[t] = None
      /\ \A k \in Slots : call[t][k] = None
  BY DEF Init
<1>4. PICK s \in Sessions \cup {None} : Belongs(cookie, s)
  BY DEF Init, First, Belongs
<1>5. OneUser(t, s)
  BY <1>2, <1>3, <1>4 DEF OneUser, Belongs
<1>6. SignsInAlone(t) /\ IdentityFirst(t)
  BY <1>3 DEF SignsInAlone, IdentityFirst, Slots
<1> QED BY <1>5, <1>6 DEF TabIsOneUsers, HasOneUser

\* No step of a tab that was not crossed harms it.
LEMMA NextUser ==
  ASSUME TabsInv, UserIsShown, [Next]_vars
  PROVE  UserIsShown'
<1> SUFFICES ASSUME OneTab, NEW t \in Tabs, t \notin crossed'
             PROVE  TabIsOneUsers(t)'
  BY DEF UserIsShown, OneTab
<1>1. \A u \in Tabs : u = t
  BY DEF OneTab
<1>2. crossed \subseteq crossed'
  <2>1. ASSUME NEW u \in Tabs, SignIn(u)
        PROVE  crossed \subseteq crossed'
    BY <2>1 DEF SignIn
  <2>2. ASSUME NEW u \in Tabs, ServeRefresh(u) \/ RefreshAnswered(u)
                               \/ ServeSignIn(u) \/ SignInAnswered(u)
        PROVE  crossed' = crossed
    BY <2>2 DEF ServeRefresh, RefreshAnswered, ServeSignIn, SignInAnswered
  <2>3. ASSUME NEW u \in Tabs, SignOut(u) \/ ServeSignOut(u) \/ SignOutAnswered(u)
                               \/ RequestLost(u)
        PROVE  crossed' = crossed
    BY <2>3 DEF SignOut, ServeSignOut, SignOutAnswered, RequestLost
  <2>4. ASSUME NEW u \in Tabs, NEW k \in Slots,
               Start(u, k) \/ ServeCall(u, k) \/ CallLost(u, k)
               \/ FirstAnswered(u, k) \/ SecondAnswered(u, k)
        PROVE  crossed' = crossed
    BY <2>4 DEF Start, ServeCall, CallLost, FirstAnswered, SecondAnswered
  <2>5. ASSUME NEW x \in Credential, Expire(x)
        PROVE  crossed' = crossed
    BY <2>5 DEF Expire
  <2>6. Calls \subseteq Slots
    BY DEF Slots
  <2> QED BY <2>1, <2>2, <2>3, <2>4, <2>5, <2>6 DEF Next
<1>3. TabIsOneUsers(t)
  BY <1>2 DEF UserIsShown
<1>4. CASE ServeRefresh(t) \/ RefreshAnswered(t)
  BY <1>3, <1>4, ServeRefreshUser, RefreshAnsweredUser
<1>5. CASE SignIn(t) \/ ServeSignIn(t) \/ SignInAnswered(t)
  BY <1>3, <1>5, SignInUser, ServeSignInUser, SignInAnsweredUser
<1>6. CASE SignOut(t) \/ ServeSignOut(t) \/ SignOutAnswered(t)
  <2>1. CASE ServeSignOut(t)
    BY <1>3, <2>1, UserUntouched DEF ServeSignOut
  <2> QED BY <1>3, <1>6, <2>1, SignOutUser, SignOutAnsweredUser
<1>7. CASE RequestLost(t)
  BY <1>3, <1>7, RequestLostUser
<1>8. CASE \E k \in Calls : Start(t, k)
  BY <1>3, <1>8, StartUser
<1>9. CASE \E k \in Slots : ServeCall(t, k) \/ CallLost(t, k)
  BY <1>3, <1>9, ServeCallUser, CallLostUser
<1>10. CASE \E k \in Slots : FirstAnswered(t, k) \/ SecondAnswered(t, k)
  <2>1. ASSUME NEW k \in Slots, FirstAnswered(t, k) PROVE TabIsOneUsers(t)'
    <3>1. CASE ~Retries(call[t][k].answer)
      BY <1>3, <2>1, <3>1, CallEndsUser DEF FirstAnswered
    <3>2. CASE Retries(call[t][k].answer)
      BY <1>3, <2>1, <3>2, CallWaitsUser DEF FirstAnswered
    <3> QED BY <3>1, <3>2
  <2>2. ASSUME NEW k \in Slots, SecondAnswered(t, k) PROVE TabIsOneUsers(t)'
    BY <1>3, <2>2, CallEndsUser DEF SecondAnswered
  <2> QED BY <1>10, <2>1, <2>2
<1>11. CASE \E x \in Credential : Expire(x)
  BY <1>3, <1>11, UserUntouched DEF Expire
<1>12. CASE UNCHANGED vars
  BY <1>3, <1>12, UserUntouched
<1> QED BY <1>1, <1>4, <1>5, <1>6, <1>7, <1>8, <1>9, <1>10, <1>11, <1>12 DEF Next

-----------------------------------------------------------------------------
(***************************************************************************)
(* What the runs check, for every browser.                                 *)
(***************************************************************************)

\* What the tabs hold and have asked for is known to the API and typed, nothing
\* is executed that may still be sent again, the cookie of a single tab is good
\* to be sent, and all that such a tab has belongs to one user.
THEOREM BrowserInvariant == Spec => []IInv
<1>1. Init => IInv
  BY InitTabs, InitFresh, InitUser DEF IInv, UserIsShown
<1>2. IInv /\ [Next]_vars => IInv'
  BY NextTabs, NextFresh, NextUser DEF IInv
<1> QED BY <1>1, <1>2, PTL DEF Spec

\* requestJson never has a request executed twice, whatever is lost and however
\* many pages share a refresh.
THEOREM CallsAreExecutedOnce == Spec => []CallsExecuteOnce
<1>1. IInv => CallsExecuteOnce
  BY DEF IInv, TabsInv, CallsFit, CallFits, CallsExecuteOnce
<1> QED BY <1>1, BrowserInvariant, PTL

\* In a browser with one tab the reuse detection of the API never ends a session
\* unless a request or its answer got lost.
THEOREM ReusesNeedALoss == Spec => []ReuseNeedsALoss
<1>1. IInv => ReuseNeedsALoss
  BY DEF IInv, NothingReused, ReuseNeedsALoss
<1> QED BY <1>1, BrowserInvariant, PTL

\* In a browser with one tab every request is made as the user the tab shows,
\* unless a sign-in has overtaken a call or a refresh of the user before.
THEOREM TabsActAsShown == Spec => []ActsAsShown
<1>1. IInv => ActsAsShown
  <2> SUFFICES ASSUME TabsInv, UserIsShown, OneTab, NEW t \in Tabs,
                      ui[t] = "signedIn", token[t] # None, t \notin crossed
               PROVE  token[t].session = identity[t]
    BY DEF ActsAsShown, IInv
  <2>1. identity[t] # None
    BY DEF TabsInv, ScreenFits
  <2>2. PICK s \in Sessions \cup {None} : OneUser(t, s)
    BY DEF UserIsShown, TabIsOneUsers, HasOneUser, Showing
  <2> QED BY <2>1, <2>2 DEF OneUser, Belongs
<1> QED BY <1>1, BrowserInvariant, PTL

=============================================================================
