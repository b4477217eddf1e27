--------------------------- MODULE BrowserSession ---------------------------
(***************************************************************************)
(* The session of the browser: every tab has an access token and at most   *)
(* one refresh under way, which all its requests share; the tabs share the *)
(* cookie with the refresh credential.  A request takes the cookie along   *)
(* when it is sent and may change it when its answer arrives; in between   *)
(* the user goes on and answers get lost.                                  *)
(*                                                                         *)
(* The API is RefreshSession with every transaction in one step.           *)
(***************************************************************************)
EXTENDS Integers, FiniteSets

CONSTANTS
  Tabs,           \* pages of one browser, each with a BrowserSession
  Calls,          \* slots of a tab for requestJson of its pages
  Identity,       \* the slot for requestIdentity
  Sessions,       \* refresh sessions, one for each sign-in
  MaxGeneration,  \* bound: refreshes of a session
  MaxLosses,      \* bound: requests that get lost, or their answers
  None

Slots == Calls \cup {Identity}
Generations == 0..MaxGeneration

\* A credential, and the access token that is issued with it.
Credential == [session: Sessions, generation: Generations]

\* What comes back: ok, for a refresh or a sign-in with a credential, or a
\* failure.
Answers ==
  [is: {"ok"}, credential: Credential \cup {None}]
    \cup [is: {"unauthorized", "error", "lost"}]

\* A session at the API; requests and calls of a tab in progress.
SessionRow == [generation: Generations, revoked: BOOLEAN]
RequestRow == [cookie: Credential \cup {None}, answer: Answers \cup {None}]
CallRow ==
  [step: {"first", "waiting", "second"}, token: Credential \cup {None},
   executed: Nat, answer: Answers \cup {None}]

\* None is no session, and nothing of what it stands in the place of.
ASSUME BrowserAssumption ==
  /\ MaxGeneration \in Nat
  /\ MaxLosses \in Nat
  /\ Identity \notin Calls
  /\ None \notin Sessions \cup Credential \cup Answers
  /\ None \notin SessionRow \cup RequestRow \cup CallRow

VARIABLES
  sessions,       \* at the API: the generation that is good, and revoked
  expired,        \* access tokens whose time is over
  cookie,         \* the browser's refresh cookie
  ui,             \* "restoring", "signedOut", "signingIn" or "signedIn"
  identity,       \* the session whose user the workspace of a tab shows
  token,          \* accessToken of a tab
  refresh,        \* refreshInFlight of a tab: its request and the answer
  signIn,         \* the sign-in request of a tab
  signOut,        \* the sign-out request of a tab
  call,           \* requestJson in progress
  reused,         \* history: sessions revoked because of a reuse
  crossed,        \* history: tabs that signed in while something was under way
  losses          \* bounded by MaxLosses

api == <<sessions, expired, reused>>
work == <<refresh, signIn, signOut, call>>
screen == <<ui, identity>>
tab == <<screen, token, work>>
vars == <<api, cookie, tab, crossed, losses>>

Lose == losses < MaxLosses /\ losses' = losses + 1

Ok(credential) == [is |-> "ok", credential |-> credential]
Refusal == [is |-> "unauthorized"]
ServerError == [is |-> "error"]
NetworkError == [is |-> "lost"]

\* A request under way, with the cookie it was sent with.
Request(credential) == [cookie |-> credential, answer |-> None]

Open(request) == request # None /\ request.answer = None
Done(request) == request # None /\ request.answer # None

-----------------------------------------------------------------------------
(***************************************************************************)
(* The API.                                                                *)
(***************************************************************************)

NewSession == [generation |-> 0, revoked |-> FALSE]
First(s) == [session |-> s, generation |-> 0]
Successor(c) == [c EXCEPT !.generation = @ + 1]

InForce(c) == IF c = None THEN FALSE ELSE ~sessions[c.session].revoked
Latest(c) == IF c = None THEN FALSE
             ELSE c.generation = sessions[c.session].generation

\* POST refresh: a credential that is not the latest revokes its session.  Its
\* transaction may fail, and has to when the model has no generation left.
ServeRefresh(t) ==
  LET c == refresh[t].cookie
      Answer(a) == refresh' = [refresh EXCEPT ![t].answer = a]
  IN
  /\ Open(refresh[t])
  /\ \/ Answer(ServerError) /\ UNCHANGED <<sessions, reused>>
     \/ /\ ~InForce(c)
        /\ Answer(Refusal)
        /\ UNCHANGED <<sessions, reused>>
     \/ /\ InForce(c) /\ Latest(c) /\ c.generation < MaxGeneration
        /\ Answer(Ok(Successor(c)))
        /\ sessions' = [sessions EXCEPT ![c.session].generation = @ + 1]
        /\ UNCHANGED reused
     \/ /\ InForce(c) /\ ~Latest(c)
        /\ Answer(Refusal)
        /\ sessions' = [sessions EXCEPT ![c.session].revoked = TRUE]
        /\ reused' = reused \cup {c.session}
  /\ UNCHANGED <<expired, cookie, screen, token, signIn, signOut, call, crossed, losses>>

\* POST sign-in, with good credentials; or with wrong ones, which stands for every
\* failure, as the form treats them alike.
ServeSignIn(t) ==
  /\ Open(signIn[t])
  /\ \/ \E s \in Sessions :
          /\ sessions[s] = None
          /\ sessions' = [sessions EXCEPT ![s] = NewSession]
          /\ signIn' = [signIn EXCEPT ![t].answer = Ok(First(s))]
     \/ /\ signIn' = [signIn EXCEPT ![t].answer = Refusal]
        /\ UNCHANGED sessions
  /\ UNCHANGED <<expired, cookie, screen, token, refresh, signOut, call, reused,
                 crossed, losses>>

\* DELETE sign-out: any credential of a session revokes it, unless the
\* transaction fails.
ServeSignOut(t) ==
  LET c == signOut[t].cookie IN
  /\ Open(signOut[t])
  /\ \/ /\ sessions' = IF InForce(c)
                       THEN [sessions EXCEPT ![c.session].revoked = TRUE]
                       ELSE sessions
        /\ signOut' = [signOut EXCEPT ![t].answer = Ok(None)]
     \/ /\ signOut' = [signOut EXCEPT ![t].answer = ServerError]
        /\ UNCHANGED sessions
  /\ UNCHANGED <<expired, cookie, screen, token, refresh, signIn, call, reused,
                 crossed, losses>>

\* A request with an access token: the guard, then the handler, which succeeds or
\* fails, perhaps after its transaction took effect.
Handled(r) ==
  IF r.token \in expired THEN {[r EXCEPT !.answer = Refusal]}
  ELSE {[r EXCEPT !.answer = Ok(None), !.executed = @ + 1],
        [r EXCEPT !.answer = ServerError, !.executed = @ + 1],
        [r EXCEPT !.answer = ServerError]}

ServeCall(t, k) ==
  /\ Open(call[t][k]) /\ call[t][k].step # "waiting"
  /\ \E handled \in Handled(call[t][k]) :
       call' = [call EXCEPT ![t][k] = handled]
  /\ UNCHANGED <<api, cookie, screen, token, refresh, signIn, signOut, crossed, losses>>

\* The fifteen minutes of an access token end.
Expire(x) ==
  /\ \E t \in Tabs : token[t] = x
  /\ x \notin expired
  /\ expired' = expired \cup {x}
  /\ UNCHANGED <<sessions, reused, cookie, tab, crossed, losses>>

-----------------------------------------------------------------------------
(***************************************************************************)
(* A tab.                                                                  *)
(***************************************************************************)

\* Mutant of SharedRefresh: a new request replaces the one in flight, although
\* the API may have served that one.
OwnRefresh(t) == refresh' = [refresh EXCEPT ![t] = Request(cookie)]

\* refreshAccessToken: the refresh in flight, or a new one.
SharedRefresh(t) ==
  refresh' = IF refresh[t] # None THEN refresh
             ELSE [refresh EXCEPT ![t] = Request(cookie)]

\* requestWithAccessToken: without a token the refusal is immediate.
Sending(step, with, executed) ==
  [step |-> step, token |-> with, executed |-> executed,
   answer |-> IF with = None THEN Refusal ELSE None]

\* Mutant of PagesShown: the pages stay while their user is not known.
PagesAlways(t) == ui[t] # "restoring"

\* The workspace renders its pages for somebody who is signed in.
PagesShown(t) == ui[t] = "signedIn"

Start(t, k) ==
  /\ PagesShown(t)
  /\ call[t][k] = None
  /\ call' = [call EXCEPT ![t][k] = Sending("first", token[t], 0)]
  /\ UNCHANGED <<api, cookie, screen, token, refresh, signIn, signOut, crossed, losses>>

\* Mutant of Retries: whatever went wrong is tried again.
RetriesAlways(answer) == answer.is # "ok"

\* Only a refusal is worth a refresh and another try.
Retries(answer) == answer.is = "unauthorized"

\* The workspace without an identity.
ShowForm(t, status) ==
  /\ ui' = [ui EXCEPT ![t] = status]
  /\ identity' = [identity EXCEPT ![t] = None]

\* Who called requestJson goes on.  The identity decides what the workspace
\* shows; a page reports the loss of the authentication unless it is gone, or
\* is the creation form, which does not report it.
Outcome(t, k, answer) ==
  CASE k = Identity /\ answer.is = "ok" ->
         /\ ui' = [ui EXCEPT ![t] = "signedIn"]
         /\ identity' = [identity EXCEPT ![t] = call[t][k].token.session]
         /\ UNCHANGED token
    [] k = Identity /\ answer.is # "ok" ->
         /\ ShowForm(t, "signedOut")
         /\ token' = [token EXCEPT ![t] =
              IF ui[t] = "signingIn" \/ answer.is = "unauthorized"
              THEN None ELSE @]
    [] k # Identity /\ answer.is = "unauthorized" ->
         /\ ShowForm(t, "signedOut") \/ UNCHANGED screen
         /\ token' = [token EXCEPT ![t] = None]
    [] OTHER -> UNCHANGED <<screen, token>>

\* The first try is over.
FirstAnswered(t, k) ==
  LET answer == call[t][k].answer IN
  /\ Done(call[t][k]) /\ call[t][k].step = "first"
  /\ \/ /\ ~Retries(answer)
        /\ call' = [call EXCEPT ![t][k] = None]
        /\ Outcome(t, k, answer)
        /\ UNCHANGED refresh
     \/ /\ Retries(answer)
        /\ call' = [call EXCEPT ![t][k] =
                     [@ EXCEPT !.step = "waiting", !.answer = None]]
        /\ SharedRefresh(t)
        /\ UNCHANGED <<screen, token>>
  /\ UNCHANGED <<api, cookie, signIn, signOut, crossed, losses>>

\* The second try is over.
SecondAnswered(t, k) ==
  /\ Done(call[t][k]) /\ call[t][k].step = "second"
  /\ call' = [call EXCEPT ![t][k] = None]
  /\ Outcome(t, k, call[t][k].answer)
  /\ UNCHANGED <<api, cookie, refresh, signIn, signOut, crossed, losses>>

Waiting(t) == {k \in Slots : call[t][k] # None /\ call[t][k].step = "waiting"}

\* The callers of the refresh go on with the new token, and after the refresh
\* of restore comes the identity.
Resume(t, new) ==
  call' = [call EXCEPT ![t] = [k \in Slots |->
    CASE k \in Waiting(t) -> Sending("second", new, call[t][k].executed)
      [] k = Identity /\ ui[t] = "restoring" /\ call[t][k] = None ->
           Sending("first", new, 0)
      [] OTHER -> call[t][k]]]

\* Mutant of GiveUp: the refresh failed and nobody is told.
GiveUpSilently(t) == UNCHANGED call

GiveUp(t) ==
  call' = [call EXCEPT ![t] =
    [k \in Slots |-> IF k \in Waiting(t) THEN None ELSE call[t][k]]]

\* Where the workspace is after a refresh that failed: restoring and the
\* identity give up, the pages that waited report a refusal.
AfterFailure(t, answer) ==
  IF ui[t] = "restoring" \/ (Identity \in Waiting(t) /\ ui[t] = "signingIn")
  THEN {"signedOut"}
  ELSE {ui[t]} \cup IF answer.is = "unauthorized" /\ Waiting(t) # {}
                    THEN {"signedOut"} ELSE {}

\* The finally of refreshAccessToken.
Settled(t) == refresh' = [refresh EXCEPT ![t] = None]

\* requestNewAccessToken after its await, and everybody who waited for it.  The
\* API sets the cookie or, with any error, clears it.
RefreshAnswered(t) ==
  LET a == refresh[t].answer IN
  /\ Done(refresh[t])
  /\ Settled(t)
  /\ \/ /\ a.is = "ok"
        /\ cookie' = a.credential
        /\ token' = [token EXCEPT ![t] = a.credential]
        /\ Resume(t, a.credential)
        /\ UNCHANGED screen
     \/ /\ a.is # "ok"
        /\ cookie' = IF a = NetworkError THEN cookie ELSE None
        /\ token' = [token EXCEPT ![t] = None]
        /\ GiveUp(t)
        /\ \/ AfterFailure(t, a) # {"signedOut"} /\ UNCHANGED screen
           \/ "signedOut" \in AfterFailure(t, a) /\ ShowForm(t, "signedOut")
  /\ UNCHANGED <<api, signIn, signOut, crossed, losses>>

\* What a tab has under way for the user it showed before.
Busy(t) == refresh[t] # None \/ \E k \in Slots : call[t][k] # None

\* The submit button of the form is enabled when nobody is signing in.  The late
\* refusal of a page can bring that form back while a sign-in of the tab is under
\* way: a second one beside the first is left out (bound).
SignIn(t) ==
  /\ ui[t] = "signedOut"
  /\ signIn[t] = None /\ call[t][Identity] = None
  /\ \E s \in Sessions : sessions[s] = None
  /\ ShowForm(t, "signingIn")
  /\ signIn' = [signIn EXCEPT ![t] = Request(None)]
  /\ crossed' = IF Busy(t) THEN crossed \cup {t} ELSE crossed
  /\ UNCHANGED <<api, cookie, token, refresh, signOut, call, losses>>

\* The token of the new session, then its identity; or the form again.
SignInAnswered(t) ==
  LET a == signIn[t].answer IN
  /\ Done(signIn[t])
  /\ signIn' = [signIn EXCEPT ![t] = None]
  /\ \/ /\ a.is = "ok"
        /\ cookie' = a.credential
        /\ token' = [token EXCEPT ![t] = a.credential]
        /\ call' = [call EXCEPT ![t][Identity] =
                     Sending("first", a.credential, 0)]
        /\ UNCHANGED screen
     \/ /\ a.is # "ok"
        /\ token' = [token EXCEPT ![t] = None]
        /\ ShowForm(t, "signedOut")
        /\ UNCHANGED <<cookie, call>>
  /\ UNCHANGED <<api, refresh, signOut, crossed, losses>>

\* The token goes at once, whatever becomes of the request.  One sign-out of a
\* tab is under way at a time (bound).
SignOut(t) ==
  /\ ui[t] = "signedIn"
  /\ signOut[t] = None
  /\ ShowForm(t, "signedOut")
  /\ token' = [token EXCEPT ![t] = None]
  /\ signOut' = [signOut EXCEPT ![t] = Request(cookie)]
  /\ UNCHANGED <<api, cookie, refresh, signIn, call, crossed, losses>>

SignOutAnswered(t) ==
  /\ Done(signOut[t])
  /\ signOut' = [signOut EXCEPT ![t] = None]
  /\ cookie' = IF signOut[t].answer = NetworkError THEN cookie ELSE None
  /\ UNCHANGED <<api, screen, token, refresh, signIn, call, crossed, losses>>

\* A request does not reach the API, or its answer does not reach the browser.
RequestLost(t) ==
  LET Lost(requests) ==
        /\ requests[t] # None
        /\ requests[t].answer # NetworkError
        /\ requests' = [requests EXCEPT ![t].answer = NetworkError]
  IN
  /\ Lose
  /\ \/ Lost(refresh) /\ UNCHANGED <<signIn, signOut>>
     \/ Lost(signIn) /\ UNCHANGED <<refresh, signOut>>
     \/ Lost(signOut) /\ UNCHANGED <<refresh, signIn>>
  /\ UNCHANGED <<api, cookie, screen, token, call, crossed>>

CallLost(t, k) ==
  /\ call[t][k] # None /\ call[t][k].step # "waiting"
  /\ call[t][k].token # None
  /\ call[t][k].answer # NetworkError
  /\ Lose
  /\ call' = [call EXCEPT ![t][k].answer = NetworkError]
  /\ UNCHANGED <<api, cookie, screen, token, refresh, signIn, signOut, crossed>>

-----------------------------------------------------------------------------
\* The tabs are opened together, perhaps with the cookie of an earlier visit,
\* and each of them restores the session.
Init ==
  /\ cookie \in {None} \cup {First(s) : s \in Sessions}
  /\ sessions = [s \in Sessions |-> IF cookie = First(s) THEN NewSession
                                    ELSE None]
  /\ expired = {}
  /\ ui = [t \in Tabs |-> "restoring"]
  /\ identity = [t \in Tabs |-> None]
  /\ token = [t \in Tabs |-> None]
  /\ refresh = [t \in Tabs |-> Request(cookie)]
  /\ signIn = [t \in Tabs |-> None]
  /\ signOut = [t \in Tabs |-> None]
  /\ call = [t \in Tabs |-> [k \in Slots |-> None]]
  /\ reused = {}
  /\ crossed = {}
  /\ losses = 0

Next ==
  \/ \E t \in Tabs :
       \/ ServeRefresh(t) \/ RefreshAnswered(t)
       \/ SignIn(t) \/ ServeSignIn(t) \/ SignInAnswered(t)
       \/ SignOut(t) \/ ServeSignOut(t) \/ SignOutAnswered(t)
       \/ RequestLost(t)
       \/ \E k \in Calls : Start(t, k)
       \/ \E k \in Slots : \/ ServeCall(t, k) \/ CallLost(t, k)
                           \/ FirstAnswered(t, k) \/ SecondAnswered(t, k)
  \/ \E x \in Credential : Expire(x)

Spec == Init /\ [][Next]_vars

\* The API answers, and the event loop of the browser delivers, in the end.
Fairness ==
  \A t \in Tabs :
    /\ WF_vars(ServeRefresh(t) \/ RefreshAnswered(t))
    /\ WF_vars(ServeSignIn(t) \/ SignInAnswered(t))
    /\ \A k \in Slots :
         WF_vars(ServeCall(t, k) \/ FirstAnswered(t, k) \/ SecondAnswered(t, k))

LiveSpec == Spec /\ Fairness

-----------------------------------------------------------------------------
(***************************************************************************)
(* Properties.                                                             *)
(***************************************************************************)

OneTab == \A t, u \in Tabs : t = u

\* BrowserSession.refreshAccessToken shares one request: a browser with one tab
\* never uses a credential twice, so the reuse detection of the API never ends
\* its session unless a request got lost.
ReuseNeedsALoss ==
  OneTab /\ losses = 0 => reused = {}

\* requestJson sends a request twice only after the guard refused it, so a
\* command is executed once at most, with lost answers too.
CallsExecuteOnce ==
  \A t \in Tabs, k \in Slots : call[t][k] # None => call[t][k].executed <= 1

\* What a tab asks for, it asks for as the user it shows: the access token is of
\* the session whose identity the workspace has, through refreshes, losses and
\* one sign-in after the other.  Only a sign-in that overtakes a call or a
\* refresh of the user before can break this: the late answer of
\* requestNewAccessToken brings a token of the earlier session.  Of several tabs
\* nothing is said: the sign-in of one changes the cookie the others refresh with.
ActsAsShown ==
  OneTab =>
    \A t \in Tabs :
      ui[t] = "signedIn" /\ token[t] # None /\ t \notin crossed
        => token[t].session = identity[t]

\* Every call of requestJson comes to an end, whatever the refresh in between
\* does, and so does a sign-in or a restoration: nobody waits for a shared
\* refresh that is over.
CallsSettle ==
  \A t \in Tabs :
    /\ \A k \in Slots : call[t][k] # None ~> call[t][k] = None
    /\ ui[t] \in {"restoring", "signingIn"}
         ~> ui[t] \in {"signedIn", "signedOut"}

=============================================================================
